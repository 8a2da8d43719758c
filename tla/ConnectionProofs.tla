-------------------------- MODULE ConnectionProofs --------------------------
(***************************************************************************)
(* Proofs about Connection.tla, for any number of calls, any choice of     *)
(* those that are synchronous or refused, any ends that close and pipes of *)
(* any capacity.                                                           *)
(***************************************************************************)
EXTENDS Connection, SequenceTheorems, TLAPS

-----------------------------------------------------------------------------
(* The inductive invariant.                                                *)

\* What an end may write: calls of its own, and answers to those of the
\* other end, as Answer and NotFound make them before or after the end has
\* switched to GVariant.
Sent(e) ==
    {[kind |-> "call", of |-> c, gv |-> gv] :
        c \in {d \in Calls : Owner(d) = e}, gv \in BOOLEAN}
    \cup
    {[kind |-> k, of |-> c, gv |-> gv, code |-> IF gv THEN "i" ELSE "x"] :
        k \in {"result", "error"}, c \in {d \in Calls : Owner(d) # e},
        gv \in BOOLEAN}

Got ==
    [kind : {"result", "error"}, of : Calls, gv : BOOLEAN,
     code : {"sent", "-1"}]

TypeInv ==
    /\ sequence \in [Ends -> Nat]
    /\ \A e \in Ends : sequence[e] <= MaxCalls[e]
    /\ st \in [Calls -> {"unused", "waiting", "answered", "failed"}]
    /\ got \in [Calls -> {NoAnswer} \cup Got]
    /\ serve \in [Calls -> {"none", "handling", "owed", "answered"}]
    /\ state \in [Ends -> {"up", "closed", "failed"}]
    /\ gvariant \in [Ends -> BOOLEAN]
    /\ stack \in [Ends -> Seq(Frames)]
    /\ reads \in [Ends -> {0, 1}]
    /\ shut \subseteq Ends

\* What is queued at an end was sent by it, and what is in a pipe was sent
\* by the end that does not read it.
FlowInv ==
    /\ DOMAIN queue = Ends
    /\ DOMAIN pipe = Ends
    /\ \A e \in Ends :
          /\ queue[e] \in Seq(Sent(e))
          /\ pipe[e] \in Seq(Sent(Other(e)))
          /\ Len(pipe[e]) <= Capacity

\* An answer was given to the call with its own id.
GotInv ==
    \A c \in Calls : st[c] = "answered" =>
        /\ got[c] \in Got
        /\ got[c].of = c
        /\ got[c].kind = "error" => (got[c].code = "-1") = got[c].gv

\* A client reads only while none of its handlers runs.
OneHandler ==
    \A e \in Ends : \A i \in 1..Len(stack[e]) :
        stack[e][i][1] = "handler" =>
            /\ reads[e] = 0
            /\ \A j \in 1..Len(stack[e]) :
                  stack[e][j][1] = "handler" => j = i

Served(c) == serve[c] # "none"

CallAt(q, i, c) == q[i].kind = "call" /\ q[i].of = c

Among(q, c) == \E i \in 1..Len(q) : CallAt(q, i, c)

\* d was made before c, at the same end.
Earlier(d, c) == Owner(d) = Owner(c) /\ d[2] < c[2]

\* The calls of an end, from the first one on: those that were served, those
\* in the pipe, those in the queue.  No call is missing before one that
\* is still there; the last ones are missing only if the end is down.
OrderInv ==
    /\ \A c, d \in Calls : Served(c) /\ Earlier(d, c) => Served(d)
    /\ \A e \in Ends : \A i \in 1..Len(pipe[e]) : \A d \in Calls :
          pipe[e][i].kind = "call" /\ Earlier(d, pipe[e][i].of) =>
              Served(d) \/ \E j \in 1..(i - 1) : CallAt(pipe[e], j, d)
    /\ \A e \in Ends : \A i \in 1..Len(queue[e]) : \A d \in Calls :
          queue[e][i].kind = "call" /\ Earlier(d, queue[e][i].of) =>
              \/ Served(d)
              \/ Among(pipe[Other(e)], d)
              \/ \E j \in 1..(i - 1) : CallAt(queue[e], j, d)
    /\ \A d \in Calls :
          Up(Owner(d)) /\ d[2] <= sequence[Owner(d)] =>
              \/ Served(d)
              \/ Among(pipe[Other(Owner(d))], d)
              \/ Among(queue[Owner(d)], d)

Inv ==
    /\ TypeInv
    /\ FlowInv
    /\ GotInv
    /\ OneHandler
    /\ OrderInv


-----------------------------------------------------------------------------
(* The constants.                                                          *)

LEMMA EndFacts ==
    /\ \A e \in Ends : Other(e) \in Ends /\ Other(e) # e /\ Other(Other(e)) = e
    /\ \A e, f \in Ends : e # f => f = Other(e)
BY DEF Ends, Other

LEMMA CallFacts ==
    ASSUME NEW c \in Calls
    PROVE  /\ Owner(c) \in Ends /\ c[2] \in Nat /\ c = <<Owner(c), c[2]>>
           /\ c[2] \in 1..MaxCalls[Owner(c)]
<1>1. PICK e \in Ends : c \in {e} \X (1..MaxCalls[e])
    BY DEF Calls
<1>2. MaxCalls[e] \in Nat
    BY MaxCallsAssumption
<1>. QED
    BY <1>1, <1>2 DEF Owner

\* A message that was sent by an end.
LEMMA SentFacts ==
    ASSUME NEW e \in Ends, NEW m \in Sent(e)
    PROVE  /\ m.of \in Calls
           /\ m.gv \in BOOLEAN
           /\ m.kind = "call" => Owner(m.of) = e
           /\ m.kind # "call" =>
                 /\ Owner(m.of) = Other(e)
                 /\ m.kind \in {"result", "error"}
                 /\ m.code = IF m.gv THEN "i" ELSE "x"
<1>1. CASE m \in {[kind |-> "call", of |-> c, gv |-> gv] :
                    c \in {d \in Calls : Owner(d) = e}, gv \in BOOLEAN}
    BY <1>1
<1>2. CASE m \in {[kind |-> k, of |-> c, gv |-> gv,
                   code |-> IF gv THEN "i" ELSE "x"] :
                    k \in {"result", "error"},
                    c \in {d \in Calls : Owner(d) # e}, gv \in BOOLEAN}
  <2>1. PICK k \in {"result", "error"}, c \in Calls, gv \in BOOLEAN :
            /\ Owner(c) # e
            /\ m = [kind |-> k, of |-> c, gv |-> gv,
                    code |-> IF gv THEN "i" ELSE "x"]
    BY <1>2
  <2>2. Owner(c) = Other(e)
    BY <2>1, CallFacts, EndFacts
  <2>. QED
    BY <2>1, <2>2
<1>. QED
    BY <1>1, <1>2 DEF Sent


\* What Enqueue gives to the output stream of an end.
LEMMA MessageFacts ==
    ASSUME TypeInv, NEW c \in Calls
    PROVE  /\ CallMessage(c) \in Sent(Owner(c))
           /\ CallMessage(c).kind = "call" /\ CallMessage(c).of = c
           /\ Answer(c) \in Sent(Other(Owner(c)))
           /\ Answer(c).kind # "call" /\ Answer(c).of = c
           /\ Answer(c).kind = IF c \in Errors THEN "error" ELSE "result"
           /\ NotFound(c) \in Sent(Other(Owner(c)))
           /\ NotFound(c).kind # "call" /\ NotFound(c).of = c
<1>1. Owner(c) \in Ends /\ Other(Owner(c)) \in Ends /\ Owner(c) # Other(Owner(c))
    BY CallFacts, EndFacts
<1>2. gvariant[Owner(c)] \in BOOLEAN /\ gvariant[Other(Owner(c))] \in BOOLEAN
    BY <1>1 DEF TypeInv
<1>3. CallMessage(c) \in Sent(Owner(c))
    BY <1>2 DEF CallMessage, Sent
<1>4. Answer(c) \in Sent(Other(Owner(c)))
    BY <1>1, <1>2 DEF Answer, Sent
<1>5. NotFound(c) = [kind |-> "error", of |-> c, gv |-> gvariant[Other(Owner(c))],
                     code |-> IF gvariant[Other(Owner(c))] THEN "i" ELSE "x"]
    BY DEF NotFound, Answer
<1>6. NotFound(c) \in Sent(Other(Owner(c)))
    BY <1>1, <1>2, <1>5 DEF Sent
<1>. QED
    BY <1>3, <1>4, <1>5, <1>6 DEF CallMessage, Answer

-----------------------------------------------------------------------------
(* Queues and stacks.                                                      *)

LEMMA AppendFacts ==
    ASSUME NEW S, NEW q \in Seq(S), NEW m \in S
    PROVE  /\ Append(q, m) \in Seq(S) /\ Len(q) \in Nat
           /\ Len(Append(q, m)) = Len(q) + 1
           /\ Append(q, m)[Len(q) + 1] = m
           /\ \A i \in 1..Len(q) : Append(q, m)[i] = q[i]
OBVIOUS

LEMMA TailFacts ==
    ASSUME NEW S, NEW q \in Seq(S), q # <<>>
    PROVE  /\ Tail(q) \in Seq(S) /\ Head(q) \in S /\ Head(q) = q[1]
           /\ Len(q) \in Nat /\ Len(q) > 0
           /\ Len(Tail(q)) = Len(q) - 1
           /\ \A i \in 1..Len(Tail(q)) : Tail(q)[i] = q[i + 1]
BY ElementOfSeq

LEMMA FrontFacts ==
    ASSUME NEW S, NEW q \in Seq(S), q # <<>>
    PROVE  /\ Front(q) \in Seq(S) /\ Last(q) = q[Len(q)]
           /\ Len(q) \in Nat /\ Len(q) > 0
           /\ Len(Front(q)) = Len(q) - 1
           /\ \A i \in 1..Len(Front(q)) : Front(q)[i] = q[i]
<1>1. Len(q) \in Nat /\ Len(q) > 0
    OBVIOUS
<1>2. \A i \in 1..Len(q) : q[i] \in S
    BY ElementOfSeq
<1>3. /\ SubSeq(q, 1, Len(q) - 1) \in Seq(S)
      /\ Len(SubSeq(q, 1, Len(q) - 1)) = Len(q) - 1
      /\ \A i \in 1..(Len(q) - 1) : SubSeq(q, 1, Len(q) - 1)[i] = q[i]
  <2>. DEFINE n == Len(q) - 1
  <2>1. n \in Nat /\ n \in 0..Len(q) /\ 1 \in 1..(Len(q) + 1)
    BY <1>1
  <2>2. \A i \in 1..n : q[i] \in S
    BY <1>1, <1>2
  <2>. HIDE DEF n
  <2>3. /\ SubSeq(q, 1, n) \in Seq(S)
        /\ Len(SubSeq(q, 1, n)) = IF 1 <= n THEN n - 1 + 1 ELSE 0
        /\ \A i \in 1..(n - 1 + 1) : SubSeq(q, 1, n)[i] = q[1 + i - 1]
    BY <2>1, <2>2, SubSeqProperties
  <2>4. Len(SubSeq(q, 1, n)) = n /\ \A i \in 1..n : SubSeq(q, 1, n)[i] = q[i]
    BY <2>1, <2>3
  <2>. QED
    BY <2>3, <2>4 DEF n
<1>. QED
    BY <1>1, <1>3 DEF Front, Last

\* The message that an end is about to read, and the rest of its pipe.
LEMMA PipeFacts ==
    ASSUME FlowInv, NEW e \in Ends, NEW m, Takes(e, m)
    PROVE  /\ m = pipe[e][1] /\ 1 \in 1..Len(pipe[e])
           /\ m \in Sent(Other(e))
           /\ DOMAIN pipe' = Ends
           /\ \A f \in Ends \ {e} : pipe'[f] = pipe[f]
           /\ pipe'[e] \in Seq(Sent(Other(e)))
           /\ Len(pipe[e]) \in Nat
           /\ Len(pipe'[e]) = Len(pipe[e]) - 1
           /\ \A i \in 1..Len(pipe'[e]) : pipe'[e][i] = pipe[e][i + 1]
<1>1. /\ pipe[e] \in Seq(Sent(Other(e))) /\ pipe[e] # <<>>
      /\ m = Head(pipe[e]) /\ DOMAIN pipe = Ends
      /\ pipe' = [pipe EXCEPT ![e] = Tail(@)]
    BY DEF FlowInv, Takes
<1>2. pipe'[e] = Tail(pipe[e])
    BY <1>1
<1>. QED
    BY <1>1, <1>2, TailFacts

\* An answer, if any, given to the output stream.
LEMMA AnswerQueued ==
    ASSUME FlowInv, NEW e \in Ends, NEW m \in Sent(e), m.kind # "call",
           Enqueue(e, m) \/ UNCHANGED queue
    PROVE  /\ DOMAIN queue' = Ends
           /\ \A f \in Ends : queue'[f] \in Seq(Sent(f))
           /\ \A f \in Ends : \A i \in 1..Len(queue[f]) :
                 i \in 1..Len(queue'[f]) /\ queue'[f][i] = queue[f][i]
           /\ \A f \in Ends : \A i \in 1..Len(queue'[f]) :
                 queue'[f][i].kind = "call" => i \in 1..Len(queue[f])
<1>1. /\ DOMAIN queue = Ends /\ \A f \in Ends : queue[f] \in Seq(Sent(f))
      /\ \A f \in Ends : Len(queue[f]) \in Nat
    BY DEF FlowInv
<1>2. CASE UNCHANGED queue
    BY <1>1, <1>2
<1>3. CASE Enqueue(e, m)
  <2>1. /\ DOMAIN queue' = Ends
        /\ \A f \in Ends \ {e} : queue'[f] = queue[f]
        /\ queue'[e] = Append(queue[e], m)
    BY <1>1, <1>3 DEF Enqueue
  <2>2. /\ Append(queue[e], m) \in Seq(Sent(e)) /\ Len(queue[e]) \in Nat
        /\ Len(Append(queue[e], m)) = Len(queue[e]) + 1
        /\ Append(queue[e], m)[Len(queue[e]) + 1] = m
        /\ \A i \in 1..Len(queue[e]) : Append(queue[e], m)[i] = queue[e][i]
    BY <1>1, AppendFacts
  <2>3. \A i \in 1..Len(queue'[e]) :
            queue'[e][i].kind = "call" => i \in 1..Len(queue[e])
    BY <2>1, <2>2
  <2>. QED
    BY SMTT(30), <1>1, <2>1, <2>2, <2>3
<1>. QED
    BY <1>2, <1>3

-----------------------------------------------------------------------------
(* What keeps the parts of the invariant.                                  *)

\* An end stays down, and the output queues and the pipes keep their calls.
LEMMA OrderKept ==
    ASSUME TypeInv, FlowInv, OrderInv, UNCHANGED <<pipe, sequence>>,
           \A c \in Calls : Served(c)' <=> Served(c),
           \A e \in Ends : Up(e)' => Up(e),
           \A e \in Ends : \A i \in 1..Len(queue[e]) :
               i \in 1..Len(queue'[e]) /\ queue'[e][i] = queue[e][i],
           \A e \in Ends : \A i \in 1..Len(queue'[e]) :
               queue'[e][i].kind = "call" => i \in 1..Len(queue[e])
    PROVE  OrderInv'
<1>1. \A d \in Calls, e \in Ends :
          Among(queue[e], d) => Among(queue'[e], d)
    BY DEF Among, CallAt
<1>2. \A c, d \in Calls : Served(c)' /\ Earlier(d, c) => Served(d)'
    BY DEF OrderInv
<1>3. ASSUME NEW e \in Ends, NEW i \in 1..Len(pipe'[e]), NEW d \in Calls,
             pipe'[e][i].kind = "call", Earlier(d, pipe'[e][i].of)
      PROVE  Served(d)' \/ \E j \in 1..(i - 1) : CallAt(pipe'[e], j, d)
    BY <1>3 DEF OrderInv
<1>4. ASSUME NEW e \in Ends, NEW i \in 1..Len(queue'[e]), NEW d \in Calls,
             queue'[e][i].kind = "call", Earlier(d, queue'[e][i].of)
      PROVE  \/ Served(d)'
             \/ Among(pipe'[Other(e)], d)
             \/ \E j \in 1..(i - 1) : CallAt(queue'[e], j, d)
  <2>1. i \in 1..Len(queue[e]) /\ queue'[e][i] = queue[e][i]
    BY <1>4
  <2>2. \/ Served(d)
        \/ Among(pipe[Other(e)], d)
        \/ \E j \in 1..(i - 1) : CallAt(queue[e], j, d)
    BY <1>4, <2>1 DEF OrderInv
  <2>3. ASSUME NEW j \in 1..(i - 1), CallAt(queue[e], j, d)
        PROVE  CallAt(queue'[e], j, d)
    <3>1. j \in 1..Len(queue[e])
        BY <2>1 DEF FlowInv
    <3>. QED
        BY <2>3, <3>1 DEF CallAt
  <2>. QED
    BY <2>2, <2>3
<1>5. ASSUME NEW d \in Calls, Up(Owner(d))', d[2] <= sequence'[Owner(d)]
      PROVE  \/ Served(d)'
             \/ Among(pipe'[Other(Owner(d))], d)
             \/ Among(queue'[Owner(d)], d)
    BY <1>1, <1>5, CallFacts DEF OrderInv
<1>. QED
    BY <1>2, <1>3, <1>4, <1>5 DEF OrderInv


\* A message is read: if it is a call, all that were made before it have
\* been served.
LEMMA OrderTaken ==
    ASSUME TypeInv, FlowInv, OrderInv, UNCHANGED <<queue, sequence>>,
           NEW e \in Ends, NEW m, Takes(e, m),
           \A c \in Calls : Served(c)' <=>
               Served(c) \/ (m.kind = "call" /\ m.of = c),
           \A f \in Ends : Up(f)' => Up(f)
    PROVE  OrderInv'
<1>1. /\ m = pipe[e][1] /\ 1 \in 1..Len(pipe[e])
      /\ \A f \in Ends \ {e} : pipe'[f] = pipe[f]
      /\ Len(pipe[e]) \in Nat
      /\ Len(pipe'[e]) = Len(pipe[e]) - 1
      /\ \A i \in 1..Len(pipe'[e]) : pipe'[e][i] = pipe[e][i + 1]
    BY PipeFacts
<1>2. \A d \in Calls : m.kind = "call" /\ Earlier(d, m.of) => Served(d)
    BY <1>1 DEF OrderInv
<1>3. \A c, d \in Calls : Served(c)' /\ Earlier(d, c) => Served(d)'
    BY <1>2 DEF OrderInv
<1>4. ASSUME NEW i \in 1..Len(pipe[e]), NEW d \in Calls, CallAt(pipe[e], i, d)
      PROVE  Served(d)' \/ (i - 1 \in 1..Len(pipe'[e]) /\ CallAt(pipe'[e], i - 1, d))
  <2>1. CASE i = 1
    BY <1>1, <1>4, <2>1 DEF CallAt
  <2>2. CASE i # 1
    BY <1>1, <1>4, <2>2 DEF CallAt
  <2>. QED
    BY <2>1, <2>2
<1>5. \A d \in Calls, f \in Ends :
          Among(pipe[f], d) => Served(d)' \/ Among(pipe'[f], d)
  <2>1. ASSUME NEW d \in Calls, NEW f \in Ends, Among(pipe[f], d), f = e
        PROVE  Served(d)' \/ Among(pipe'[f], d)
    BY <1>4, <2>1 DEF Among
  <2>. QED
    BY <1>1, <2>1 DEF Among, CallAt
<1>6. ASSUME NEW f \in Ends, NEW i \in 1..Len(pipe'[f]), NEW d \in Calls,
             pipe'[f][i].kind = "call", Earlier(d, pipe'[f][i].of)
      PROVE  Served(d)' \/ \E j \in 1..(i - 1) : CallAt(pipe'[f], j, d)
  <2>1. CASE f # e
    <3>1. Served(d) \/ \E j \in 1..(i - 1) : CallAt(pipe[f], j, d)
        BY <1>1, <1>6, <2>1 DEF OrderInv
    <3>. QED
        BY <1>1, <2>1, <3>1 DEF CallAt
  <2>2. CASE f = e
    <3>1. i + 1 \in 1..Len(pipe[e]) /\ pipe[e][i + 1] = pipe'[e][i]
        BY <1>1, <1>6, <2>2
    <3>2. Served(d) \/ \E j \in 1..(i + 1 - 1) : CallAt(pipe[e], j, d)
        BY <1>6, <2>2, <3>1 DEF OrderInv
    <3>3. ASSUME NEW j \in 1..(i + 1 - 1), CallAt(pipe[e], j, d)
          PROVE  Served(d)' \/ \E k \in 1..(i - 1) : CallAt(pipe'[e], k, d)
      <4>1. j \in 1..Len(pipe[e]) /\ j - 1 \in 0..(i - 1)
        BY <1>1, <3>1
      <4>2. Served(d)' \/ (j - 1 \in 1..Len(pipe'[e]) /\ CallAt(pipe'[e], j - 1, d))
        BY <1>4, <3>3, <4>1
      <4>. QED
        BY <1>1, <4>1, <4>2
    <3>. QED
        BY <2>2, <3>2, <3>3
  <2>. QED
    BY <2>1, <2>2
<1>7. ASSUME NEW f \in Ends, NEW i \in 1..Len(queue'[f]), NEW d \in Calls,
             queue'[f][i].kind = "call", Earlier(d, queue'[f][i].of)
      PROVE  \/ Served(d)'
             \/ Among(pipe'[Other(f)], d)
             \/ \E j \in 1..(i - 1) : CallAt(queue'[f], j, d)
  <2>1. \/ Served(d)
        \/ Among(pipe[Other(f)], d)
        \/ \E j \in 1..(i - 1) : CallAt(queue[f], j, d)
    BY <1>7 DEF OrderInv
  <2>. QED
    BY <1>5, <2>1, EndFacts
<1>8. ASSUME NEW d \in Calls, Up(Owner(d))', d[2] <= sequence'[Owner(d)]
      PROVE  \/ Served(d)'
             \/ Among(pipe'[Other(Owner(d))], d)
             \/ Among(queue'[Owner(d)], d)
  <2>1. Owner(d) \in Ends /\ Other(Owner(d)) \in Ends
    BY CallFacts, EndFacts
  <2>2. \/ Served(d)
        \/ Among(pipe[Other(Owner(d))], d)
        \/ Among(queue[Owner(d)], d)
    BY <1>8, <2>1 DEF OrderInv
  <2>. QED
    BY <1>5, <2>1, <2>2
<1>. QED
    BY <1>3, <1>6, <1>7, <1>8 DEF OrderInv

\* The answers that were given to calls, if none is added.
LEMMA GotKept ==
    ASSUME GotInv, UNCHANGED got,
           \A c \in Calls : st'[c] = "answered" => st[c] = "answered"
    PROVE  GotInv'
BY DEF GotInv

\* The stacks of handlers and waits, if none is pushed: a wait may be, and
\* a read may end.
LEMMA HandlersKept ==
    ASSUME TypeInv, OneHandler, UNCHANGED stack,
           \A e \in Ends : reads[e] = 0 => reads'[e] = 0
    PROVE  OneHandler'
BY DEF OneHandler

LEMMA WaitPushed ==
    ASSUME TypeInv, OneHandler, NEW e \in Ends, NEW frame \in Frames,
           frame[1] # "handler", Push(e, frame), UNCHANGED reads
    PROVE  OneHandler' /\ stack' \in [Ends -> Seq(Frames)]
<1>1. /\ stack[e] \in Seq(Frames) /\ DOMAIN stack = Ends
      /\ stack' = [stack EXCEPT ![e] = Append(@, frame)]
      /\ \A f \in Ends : stack[f] \in Seq(Frames)
    BY DEF TypeInv, Push
<1>2. /\ stack'[e] = Append(stack[e], frame)
      /\ \A f \in Ends \ {e} : stack'[f] = stack[f]
    BY <1>1
<1>3. /\ stack'[e] \in Seq(Frames) /\ Len(stack[e]) \in Nat
      /\ Len(stack'[e]) = Len(stack[e]) + 1
      /\ stack'[e][Len(stack[e]) + 1] = frame
      /\ \A i \in 1..Len(stack[e]) : stack'[e][i] = stack[e][i]
    BY <1>1, <1>2, AppendFacts
<1>4. ASSUME NEW i \in 1..Len(stack'[e]), stack'[e][i][1] = "handler"
      PROVE  i \in 1..Len(stack[e]) /\ stack[e][i][1] = "handler"
    BY SMTT(30), <1>3, <1>4
<1>5. OneHandler'
  <2>. SUFFICES ASSUME NEW f \in Ends, NEW i \in 1..Len(stack'[f]),
                       stack'[f][i][1] = "handler"
                PROVE  /\ reads'[f] = 0
                       /\ \A j \in 1..Len(stack'[f]) :
                             stack'[f][j][1] = "handler" => j = i
    BY DEF OneHandler
  <2>1. CASE f = e
    BY <1>4, <2>1 DEF OneHandler
  <2>2. CASE f # e
    BY <1>2, <2>2 DEF OneHandler
  <2>. QED
    BY <2>1, <2>2
<1>. QED
    BY <1>1, <1>2, <1>3, <1>5

\* The frame of a wait or of the handler is popped; the client may read
\* again after the latter.
LEMMA FramePopped ==
    ASSUME TypeInv, OneHandler, NEW e \in Ends, stack[e] # <<>>, Pop(e),
           \A f \in Ends \ {e} : reads'[f] = reads[f],
           \/ reads'[e] = reads[e]
           \/ Last(stack[e])[1] = "handler"
    PROVE  OneHandler' /\ stack' \in [Ends -> Seq(Frames)]
<1>1. /\ stack[e] \in Seq(Frames) /\ DOMAIN stack = Ends
      /\ stack' = [stack EXCEPT ![e] = Front(@)]
      /\ \A f \in Ends : stack[f] \in Seq(Frames)
    BY DEF TypeInv, Pop
<1>2. /\ stack'[e] = Front(stack[e])
      /\ \A f \in Ends \ {e} : stack'[f] = stack[f]
    BY <1>1
<1>3. /\ stack'[e] \in Seq(Frames) /\ Last(stack[e]) = stack[e][Len(stack[e])]
      /\ Len(stack[e]) \in Nat /\ Len(stack[e]) > 0
      /\ Len(stack'[e]) = Len(stack[e]) - 1
      /\ \A i \in 1..Len(stack'[e]) : stack'[e][i] = stack[e][i]
    BY <1>1, <1>2, FrontFacts
<1>4. ASSUME NEW i \in 1..Len(stack'[e]), stack'[e][i][1] = "handler"
      PROVE  /\ i \in 1..Len(stack[e]) /\ stack[e][i][1] = "handler"
             /\ Last(stack[e])[1] # "handler"
  <2>1. i \in 1..Len(stack[e]) /\ stack[e][i][1] = "handler"
        /\ Len(stack[e]) \in 1..Len(stack[e]) /\ Len(stack[e]) # i
    BY <1>3, <1>4
  <2>. QED
    BY <1>3, <2>1 DEF OneHandler
<1>5. OneHandler'
  <2>. SUFFICES ASSUME NEW f \in Ends, NEW i \in 1..Len(stack'[f]),
                       stack'[f][i][1] = "handler"
                PROVE  /\ reads'[f] = 0
                       /\ \A j \in 1..Len(stack'[f]) :
                             stack'[f][j][1] = "handler" => j = i
    BY DEF OneHandler
  <2>1. CASE f = e
    BY <1>4, <2>1 DEF OneHandler
  <2>2. CASE f # e
    BY <1>2, <2>2 DEF OneHandler
  <2>. QED
    BY <2>1, <2>2
<1>. QED
    BY <1>1, <1>2, <1>3, <1>5


\* Queues and pipes are left alone.
LEMMA FlowKept ==
    ASSUME FlowInv, UNCHANGED <<queue, pipe>>
    PROVE  FlowInv'
BY DEF FlowInv

\* A message was taken from a pipe.
LEMMA FlowTaken ==
    ASSUME FlowInv, NEW e \in Ends, NEW m, Takes(e, m), UNCHANGED queue
    PROVE  FlowInv'
<1>1. /\ DOMAIN pipe' = Ends
      /\ \A f \in Ends \ {e} : pipe'[f] = pipe[f]
      /\ pipe'[e] \in Seq(Sent(Other(e)))
      /\ Len(pipe[e]) \in Nat
      /\ Len(pipe'[e]) = Len(pipe[e]) - 1
    BY PipeFacts
<1>2. Len(pipe'[e]) <= Capacity
    BY <1>1, CapacityAssumption DEF FlowInv
<1>. QED
    BY <1>1, <1>2 DEF FlowInv

\* An answer, if any, given to the output stream.
LEMMA FlowAnswered ==
    ASSUME FlowInv, NEW e \in Ends, NEW m \in Sent(e), m.kind # "call",
           Enqueue(e, m) \/ UNCHANGED queue, UNCHANGED pipe
    PROVE  FlowInv'
BY AnswerQueued DEF FlowInv

\* An end that goes down or is down stays so.
LEMMA DownFacts ==
    ASSUME TypeInv, NEW e \in Ends, NEW how \in {"closed", "failed"},
           GoDown(e, how)
    PROVE  /\ state' \in [Ends -> {"up", "closed", "failed"}]
           /\ shut' \subseteq Ends
           /\ \A f \in Ends : Up(f)' => Up(f)
BY DEF TypeInv, GoDown, Up

-----------------------------------------------------------------------------
(* One lemma per action: the program.                                      *)

LEMMA CallStep ==
    ASSUME Inv, NEW c \in Calls, Call(c)
    PROVE  Inv'
<1>. DEFINE e == Owner(c)
<1>1. /\ Up(e) /\ c[2] = sequence[e] + 1
      /\ sequence' = [sequence EXCEPT ![e] = @ + 1]
      /\ st' = [st EXCEPT ![c] = "waiting"]
      /\ queue' = [queue EXCEPT ![e] = Append(@, CallMessage(c))]
      /\ Push(e, InCall(c)) \/ UNCHANGED stack
      /\ UNCHANGED <<got, serve, state, gvariant, reads, pipe, shut>>
    BY DEF Call, CallAsync, Enqueue
<1>2. TypeInv /\ FlowInv /\ GotInv /\ OneHandler /\ OrderInv
    BY DEF Inv
<1>3. /\ e \in Ends /\ Other(e) \in Ends /\ c[2] \in Nat
      /\ c[2] <= MaxCalls[e] /\ c = <<e, c[2]>> /\ MaxCalls[e] \in Nat
    BY CallFacts, EndFacts, MaxCallsAssumption
<1>4. InCall(c) \in Frames /\ InCall(c)[1] # "handler"
    BY DEF InCall, Frames
<1>5. OneHandler' /\ stack' \in [Ends -> Seq(Frames)]
  <2>1. CASE Push(e, InCall(c))
    BY <1>1, <1>2, <1>3, <1>4, <2>1, WaitPushed
  <2>2. CASE UNCHANGED stack
    BY <1>1, <1>2, <2>2, HandlersKept DEF TypeInv
  <2>. QED
    BY <1>1, <2>1, <2>2
<1>6. TypeInv'
  <2>1. sequence' \in [Ends -> Nat] /\ \A f \in Ends : sequence'[f] <= MaxCalls[f]
    BY <1>1, <1>2, <1>3 DEF TypeInv
  <2>2. st' \in [Calls -> {"unused", "waiting", "answered", "failed"}]
    BY <1>1, <1>2 DEF TypeInv
  <2>. QED
    BY <1>1, <1>2, <1>5, <2>1, <2>2 DEF TypeInv
<1>7. GotInv'
  <2>1. \A d \in Calls : st'[d] = "answered" => st[d] = "answered"
    BY <1>1, <1>2 DEF TypeInv
  <2>. QED
    BY <1>1, <1>2, <2>1, GotKept
<1>8. /\ CallMessage(c) \in Sent(e)
      /\ CallMessage(c).kind = "call" /\ CallMessage(c).of = c
    BY <1>2, MessageFacts
<1>9. PICK n : n = Len(queue[e])
    OBVIOUS
<1>10. /\ n \in Nat /\ Len(queue'[e]) = n + 1
       /\ queue'[e] \in Seq(Sent(e)) /\ queue'[e][n + 1] = CallMessage(c)
       /\ \A i \in 1..n : queue'[e][i] = queue[e][i]
       /\ \A f \in Ends \ {e} : queue'[f] = queue[f]
       /\ DOMAIN queue' = Ends
  <2>1. queue[e] \in Seq(Sent(e)) /\ DOMAIN queue = Ends
    BY <1>2, <1>3 DEF FlowInv
  <2>2. /\ queue'[e] = Append(queue[e], CallMessage(c))
        /\ \A f \in Ends \ {e} : queue'[f] = queue[f]
        /\ DOMAIN queue' = Ends
    BY <1>1, <1>3, <2>1
  <2>. HIDE DEF e
  <2>. QED
    BY <1>8, <1>9, <2>1, <2>2, AppendFacts
<1>11. FlowInv'
    BY <1>1, <1>2, <1>10 DEF FlowInv
<1>12. OrderInv'
  <2>1. \A d \in Calls, f \in Ends :
            Among(queue[f], d) => Among(queue'[f], d)
    BY <1>9, <1>10 DEF Among, CallAt
  <2>2. Among(queue'[e], c)
    BY <1>8, <1>10 DEF Among, CallAt
  <2>3. ASSUME NEW f \in Ends, NEW i \in 1..Len(queue'[f]), NEW d \in Calls,
               queue'[f][i].kind = "call", Earlier(d, queue'[f][i].of)
        PROVE  \/ Served(d)'
               \/ Among(pipe'[Other(f)], d)
               \/ \E j \in 1..(i - 1) : CallAt(queue'[f], j, d)
    <3>1. CASE f # e
      <4>1. queue'[f] = queue[f]
        BY <1>10, <3>1
      <4>2. \/ Served(d)
            \/ Among(pipe[Other(f)], d)
            \/ \E j \in 1..(i - 1) : CallAt(queue[f], j, d)
        BY <1>2, <2>3, <4>1 DEF OrderInv
      <4>. QED
        BY <1>1, <4>1, <4>2 DEF Served
    <3>2. CASE f = e /\ i \in 1..n
      <4>1. i \in 1..Len(queue[e]) /\ queue'[e][i] = queue[e][i] /\ e \in Ends
        BY <1>3, <1>9, <1>10, <3>2
      <4>2. \/ Served(d)
            \/ Among(pipe[Other(e)], d)
            \/ \E j \in 1..(i - 1) : CallAt(queue[e], j, d)
        BY <1>2, <2>3, <3>2, <4>1 DEF OrderInv
      <4>3. \A j \in 1..(i - 1) : queue'[e][j] = queue[e][j]
        BY <1>10, <3>2
      <4>. QED
        BY <1>1, <3>2, <4>2, <4>3 DEF Served, CallAt
    <3>3. CASE f = e /\ i = n + 1
      <4>1. Owner(d) = e /\ d[2] < c[2] /\ d[2] \in Nat
        BY <1>8, <1>10, <2>3, <3>3, CallFacts DEF Earlier
      <4>2. d[2] <= sequence[e]
        BY <1>1, <1>2, <1>3, <4>1 DEF TypeInv
      <4>3. \/ Served(d)
            \/ Among(pipe[Other(e)], d)
            \/ Among(queue[e], d)
        BY <1>1, <1>2, <4>1, <4>2 DEF OrderInv
      <4>4. Among(queue[e], d) => \E j \in 1..(i - 1) : CallAt(queue'[f], j, d)
        BY <1>9, <1>10, <3>3 DEF Among, CallAt
      <4>. QED
        BY <1>1, <3>3, <4>3, <4>4 DEF Served
    <3>. QED
        BY <1>10, <2>3, <3>1, <3>2, <3>3
  <2>4. ASSUME NEW d \in Calls, Up(Owner(d))', d[2] <= sequence'[Owner(d)]
        PROVE  \/ Served(d)'
               \/ Among(pipe'[Other(Owner(d))], d)
               \/ Among(queue'[Owner(d)], d)
    <3>1. Owner(d) \in Ends /\ d[2] \in Nat /\ d = <<Owner(d), d[2]>>
        BY CallFacts
    <3>2. CASE d[2] <= sequence[Owner(d)]
      <4>1. \/ Served(d)
            \/ Among(pipe[Other(Owner(d))], d)
            \/ Among(queue[Owner(d)], d)
        BY <1>1, <1>2, <2>4, <3>2 DEF OrderInv, Up
      <4>. QED
        BY <1>1, <2>1, <3>1, <4>1 DEF Served
    <3>3. CASE ~(d[2] <= sequence[Owner(d)])
      <4>1. Owner(d) = e /\ d[2] = sequence[e] + 1
        BY <1>1, <1>2, <1>3, <2>4, <3>1, <3>3 DEF TypeInv
      <4>2. d = c
        BY <1>1, <1>3, <3>1, <4>1
      <4>. QED
        BY <2>2, <4>2
    <3>. QED
        BY <3>2, <3>3
  <2>5. \A x, d \in Calls : Served(x)' /\ Earlier(d, x) => Served(d)'
    BY <1>1, <1>2 DEF OrderInv, Served
  <2>6. ASSUME NEW f \in Ends, NEW i \in 1..Len(pipe'[f]), NEW d \in Calls,
               pipe'[f][i].kind = "call", Earlier(d, pipe'[f][i].of)
        PROVE  Served(d)' \/ \E j \in 1..(i - 1) : CallAt(pipe'[f], j, d)
    BY <1>1, <1>2, <2>6 DEF OrderInv, Served
  <2>. QED
    BY <2>3, <2>4, <2>5, <2>6 DEF OrderInv
<1>. QED
    BY <1>5, <1>6, <1>7, <1>11, <1>12 DEF Inv

\* An answer is given to the output stream, if the end is still up.
LEMMA AnswerStep ==
    ASSUME Inv, NEW c \in Calls, serve[c] # "none",
           serve' = [serve EXCEPT ![c] = "answered"] \/ UNCHANGED serve,
           NEW m \in {Answer(c), NotFound(c)},
           Enqueue(Other(Owner(c)), m) \/ UNCHANGED queue,
           UNCHANGED <<callerVars, state, gvariant, pipe, shut>>
    PROVE  FlowInv' /\ GotInv' /\ OrderInv'
<1>1. TypeInv /\ FlowInv /\ GotInv /\ OrderInv
    BY DEF Inv
<1>2. /\ Other(Owner(c)) \in Ends /\ m \in Sent(Other(Owner(c)))
      /\ m.kind # "call"
    BY <1>1, CallFacts, EndFacts, MessageFacts
<1>3. \A d \in Calls : Served(d)' <=> Served(d)
    BY <1>1 DEF Served, TypeInv
<1>4. \A f \in Ends : Up(f)' => Up(f)
    BY DEF Up
<1>5. GotInv'
    BY <1>1, GotKept DEF callerVars
<1>6. FlowInv'
    BY <1>1, <1>2, FlowAnswered
<1>7. /\ \A f \in Ends : \A i \in 1..Len(queue[f]) :
            i \in 1..Len(queue'[f]) /\ queue'[f][i] = queue[f][i]
      /\ \A f \in Ends : \A i \in 1..Len(queue'[f]) :
            queue'[f][i].kind = "call" => i \in 1..Len(queue[f])
    BY <1>1, <1>2, AnswerQueued
<1>8. UNCHANGED <<pipe, sequence>>
    BY DEF callerVars
<1>9. OrderInv'
    BY <1>1, <1>3, <1>4, <1>7, <1>8, OrderKept
<1>. QED
    BY <1>5, <1>6, <1>9

LEMMA ReplyStep ==
    ASSUME Inv, NEW c \in Calls, Reply(c)
    PROVE  Inv'
<1>1. /\ serve[c] # "none"
      /\ serve' = [serve EXCEPT ![c] = "answered"]
      /\ Enqueue(Other(Owner(c)), Answer(c)) \/ UNCHANGED queue
      /\ UNCHANGED <<callerVars, state, gvariant, stack, reads, pipe, shut>>
    BY DEF Reply, SendAnswer, endVars
<1>2. FlowInv' /\ GotInv' /\ OrderInv'
    BY <1>1, AnswerStep
<1>3. TypeInv /\ OneHandler
    BY DEF Inv
<1>4. TypeInv'
    BY <1>1, <1>3 DEF TypeInv, callerVars
<1>5. OneHandler'
    BY <1>1, <1>3, HandlersKept
<1>. QED
    BY <1>2, <1>4, <1>5 DEF Inv

LEMMA ReplySyncStep ==
    ASSUME Inv, NEW c \in Calls, ReplySync(c)
    PROVE  Inv'
<1>. DEFINE e == Other(Owner(c))
<1>1. /\ serve[c] # "none"
      /\ serve' = [serve EXCEPT ![c] = "answered"]
      /\ Enqueue(e, Answer(c)) \/ UNCHANGED queue
      /\ Push(e, InReply(c))
      /\ UNCHANGED <<callerVars, state, gvariant, reads, pipe, shut>>
    BY DEF ReplySync, SendAnswer
<1>2. FlowInv' /\ GotInv' /\ OrderInv'
    BY <1>1, AnswerStep
<1>3. TypeInv /\ OneHandler /\ e \in Ends
    BY CallFacts, EndFacts DEF Inv
<1>4. InReply(c) \in Frames /\ InReply(c)[1] # "handler"
    BY DEF InReply, Frames
<1>5. OneHandler' /\ stack' \in [Ends -> Seq(Frames)]
  <2>. HIDE DEF e
  <2>. QED
    BY <1>1, <1>3, <1>4, WaitPushed
<1>6. TypeInv'
    BY <1>1, <1>3, <1>5 DEF TypeInv, callerVars
<1>. QED
    BY <1>2, <1>5, <1>6 DEF Inv


\* The frame that runs.
LEMMA TopFacts ==
    ASSUME NEW e \in Ends, NEW c,
           NEW kind \in {"handler", "reply", "call"}, Top(e) = <<kind, c>>
    PROVE  stack[e] # <<>> /\ Last(stack[e]) = <<kind, c>> /\ Last(stack[e])[1] = kind
<1>1. stack[e] = <<>> => Top(e)[1] = "none"
    BY DEF Top
<1>2. <<kind, c>>[1] = kind
    OBVIOUS
<1>. QED
    BY <1>1, <1>2 DEF Top

LEMMA HandlerReturnsStep ==
    ASSUME Inv, NEW c \in Calls, HandlerReturns(c)
    PROVE  Inv'
<1>. DEFINE e == Other(Owner(c))
<1>1. /\ Top(e) = <<"handler", c>>
      /\ Pop(e)
      /\ BeginNextRead(e)
      /\ UNCHANGED <<callerVars, state, gvariant, pipe, shut>>
    BY DEF HandlerReturns, Handler
<1>2. TypeInv /\ FlowInv /\ GotInv /\ OneHandler /\ OrderInv /\ e \in Ends
    BY CallFacts, EndFacts DEF Inv
<1>3. /\ reads' \in [Ends -> {0, 1}]
      /\ \A f \in Ends \ {e} : reads'[f] = reads[f]
    BY <1>1, <1>2 DEF BeginNextRead, TypeInv
<1>4. stack[e] # <<>> /\ Last(stack[e])[1] = "handler"
  <2>. HIDE DEF e
  <2>. QED
    BY <1>1, <1>2, TopFacts
<1>5. OneHandler' /\ stack' \in [Ends -> Seq(Frames)]
  <2>. HIDE DEF e
  <2>. QED
    BY <1>1, <1>2, <1>3, <1>4, FramePopped
<1>6. /\ serve' \in [Calls -> {"none", "handling", "owed", "answered"}]
      /\ FlowInv' /\ GotInv' /\ OrderInv'
  <2>1. CASE /\ serve' = [serve EXCEPT ![c] = IF @ = "handling" THEN "owed" ELSE @]
             /\ UNCHANGED queue
    <3>1. serve' \in [Calls -> {"none", "handling", "owed", "answered"}]
        BY <1>2, <2>1 DEF TypeInv
    <3>2. FlowInv' /\ GotInv'
        BY <1>1, <1>2, <2>1, FlowKept, GotKept DEF callerVars
    <3>3. \A d \in Calls : Served(d)' <=> Served(d)
        BY <1>2, <2>1 DEF Served, TypeInv
    <3>4. \A f \in Ends : Up(f)' => Up(f)
        BY <1>1 DEF Up
    <3>5. UNCHANGED <<pipe, sequence, queue>>
        BY <1>1, <2>1 DEF callerVars
    <3>6. OrderInv'
        BY <1>2, <3>3, <3>4, <3>5, OrderKept
    <3>. QED
        BY <3>1, <3>2, <3>6
  <2>2. CASE serve[c] = "handling" /\ SendAnswer(c)
    <3>1. /\ serve[c] # "none"
          /\ serve' = [serve EXCEPT ![c] = "answered"]
          /\ Enqueue(e, Answer(c)) \/ UNCHANGED queue
        BY <2>2 DEF SendAnswer
    <3>2. serve' \in [Calls -> {"none", "handling", "owed", "answered"}]
        BY <1>2, <3>1 DEF TypeInv
    <3>. QED
        BY <1>1, <3>1, <3>2, AnswerStep
  <2>3. CASE /\ serve[c] = "answered"
             /\ Enqueue(e, NotFound(c)) \/ UNCHANGED queue
             /\ UNCHANGED serve
    <3>1. serve' \in [Calls -> {"none", "handling", "owed", "answered"}]
        BY <1>2, <2>3 DEF TypeInv
    <3>. QED
        BY <1>1, <2>3, <3>1, AnswerStep
  <2>. QED
    BY <2>1, <2>2, <2>3 DEF HandlerReturns
<1>7. TypeInv'
    BY <1>1, <1>2, <1>3, <1>5, <1>6 DEF TypeInv, callerVars
<1>. QED
    BY <1>5, <1>6, <1>7 DEF Inv

\* The end goes down at most; a read may end with it.
LEMMA GoDownStep ==
    ASSUME Inv,
           state' \in [Ends -> {"up", "closed", "failed"}], shut' \subseteq Ends,
           reads' \in [Ends -> {0, 1}],
           \A f \in Ends : Up(f)' => Up(f),
           \A f \in Ends : reads[f] = 0 => reads'[f] = 0,
           UNCHANGED <<callerVars, serve, gvariant, stack, queue, pipe>>
    PROVE  Inv'
<1>1. TypeInv /\ FlowInv /\ GotInv /\ OneHandler /\ OrderInv
    BY DEF Inv
<1>2. TypeInv' /\ FlowInv' /\ GotInv'
    BY <1>1, FlowKept, GotKept DEF TypeInv, callerVars
<1>3. OneHandler'
    BY <1>1, HandlersKept
<1>4. \A d \in Calls : Served(d)' <=> Served(d)
    BY DEF Served
<1>5. UNCHANGED <<pipe, sequence, queue>>
    BY DEF callerVars
<1>6. OrderInv'
    BY <1>1, <1>4, <1>5, OrderKept
<1>. QED
    BY <1>2, <1>3, <1>6 DEF Inv

LEMMA CloseStep ==
    ASSUME Inv, NEW e \in Ends, Close(e)
    PROVE  Inv'
<1>1. /\ GoDown(e, "closed")
      /\ UNCHANGED <<callerVars, serve, gvariant, stack, reads, queue, pipe>>
    BY DEF Close
<1>2. /\ state' \in [Ends -> {"up", "closed", "failed"}] /\ shut' \subseteq Ends
      /\ \A f \in Ends : Up(f)' => Up(f)
    BY <1>1, DownFacts DEF Inv
<1>3. reads' \in [Ends -> {0, 1}]
    BY <1>1 DEF Inv, TypeInv
<1>. QED
    BY <1>1, <1>2, <1>3, GoDownStep

-----------------------------------------------------------------------------
(* One lemma per action: the main loop of an end.                          *)

LEMMA HangUpStep ==
    ASSUME Inv, NEW e \in Ends, HangUp(e)
    PROVE  Inv'
<1>1. /\ shut' \subseteq Ends /\ reads' \in [Ends -> {0, 1}]
      /\ state' \in [Ends -> {"up", "closed", "failed"}]
      /\ \A f \in Ends : Up(f)' => Up(f)
      /\ \A f \in Ends : reads[f] = 0 => reads'[f] = 0
      /\ UNCHANGED <<callerVars, serve, gvariant, stack, queue, pipe>>
    BY DEF HangUp, CanHangUp, endVars, Inv, TypeInv, Up
<1>. QED
    BY <1>1, GoDownStep

LEMMA ReadEndsStep ==
    ASSUME Inv, NEW e \in Ends, ReadEnds(e)
    PROVE  Inv'
<1>1. /\ reads' = [reads EXCEPT ![e] = 0]
      /\ GoDown(e, "failed") \/ UNCHANGED <<state, shut>>
      /\ UNCHANGED <<callerVars, serve, gvariant, stack, queue, pipe>>
    BY DEF ReadEnds
<1>2. TypeInv
    BY DEF Inv
<1>3. /\ reads' \in [Ends -> {0, 1}]
      /\ \A f \in Ends : reads[f] = 0 => reads'[f] = 0
    BY <1>1, <1>2 DEF TypeInv
<1>4. /\ state' \in [Ends -> {"up", "closed", "failed"}] /\ shut' \subseteq Ends
      /\ \A f \in Ends : Up(f)' => Up(f)
    BY <1>1, <1>2, DownFacts DEF TypeInv, Up
<1>. QED
    BY <1>1, <1>3, <1>4, GoDownStep

\* A message moves from the head of the queue to the end of the pipe.
LEMMA WriteStep ==
    ASSUME Inv, NEW e \in Ends, Write(e)
    PROVE  Inv'
<1>1. PICK o \in Ends : o = Other(e) /\ o # e
    BY EndFacts
<1>2. TypeInv /\ FlowInv /\ GotInv /\ OneHandler /\ OrderInv
    BY DEF Inv
<1>3. /\ queue[e] # <<>> /\ Len(pipe[o]) < Capacity
      /\ pipe' = [pipe EXCEPT ![o] = Append(@, Head(queue[e]))]
      /\ queue' = [queue EXCEPT ![e] = Tail(@)]
      /\ UNCHANGED <<callerVars, serve, endVars, shut>>
    BY <1>1 DEF Write, CanWrite
<1>4. /\ queue[e] \in Seq(Sent(e)) /\ pipe[o] \in Seq(Sent(e))
      /\ DOMAIN queue = Ends /\ DOMAIN pipe = Ends
    BY <1>1, <1>2, EndFacts DEF FlowInv
<1>5. /\ queue'[e] = Tail(queue[e]) /\ pipe'[o] = Append(pipe[o], Head(queue[e]))
      /\ \A f \in Ends \ {e} : queue'[f] = queue[f]
      /\ \A f \in Ends \ {o} : pipe'[f] = pipe[f]
      /\ DOMAIN queue' = Ends /\ DOMAIN pipe' = Ends
    BY <1>3, <1>4
<1>6. PICK m \in Sent(e) : m = queue[e][1] /\ m = Head(queue[e])
    BY <1>3, <1>4, TailFacts
<1>7. /\ queue'[e] \in Seq(Sent(e)) /\ Len(queue[e]) \in Nat /\ Len(queue[e]) > 0
      /\ Len(queue'[e]) = Len(queue[e]) - 1
      /\ \A i \in 1..Len(queue'[e]) : queue'[e][i] = queue[e][i + 1]
    BY <1>3, <1>4, <1>5, TailFacts
<1>8. PICK n : n = Len(pipe[o])
    OBVIOUS
<1>9. /\ pipe'[o] \in Seq(Sent(e)) /\ n \in Nat
      /\ Len(pipe'[o]) = n + 1 /\ pipe'[o][n + 1] = m
      /\ \A i \in 1..n : pipe'[o][i] = pipe[o][i]
    BY <1>4, <1>5, <1>6, <1>8, AppendFacts
<1>10. FlowInv'
  <2>1. Len(pipe'[o]) <= Capacity
    BY <1>3, <1>8, <1>9, CapacityAssumption
  <2>2. \A f \in Ends : queue'[f] \in Seq(Sent(f))
    BY <1>2, <1>5, <1>7 DEF FlowInv
  <2>3. \A f \in Ends : pipe'[f] \in Seq(Sent(Other(f))) /\ Len(pipe'[f]) <= Capacity
    BY <1>1, <1>2, <1>5, <1>9, <2>1, EndFacts DEF FlowInv
  <2>. QED
    BY <1>5, <2>2, <2>3 DEF FlowInv
<1>11. TypeInv' /\ GotInv' /\ OneHandler'
    BY <1>2, <1>3, GotKept, HandlersKept DEF TypeInv, callerVars, endVars
<1>12. OrderInv'
  <2>1. /\ UNCHANGED sequence
        /\ \A d \in Calls : Served(d)' <=> Served(d)
        /\ \A f \in Ends : Up(f)' <=> Up(f)
    BY <1>3 DEF callerVars, endVars, Served, Up
  <2>2. \A d \in Calls, f \in Ends : Among(pipe[f], d) => Among(pipe'[f], d)
    BY <1>5, <1>8, <1>9 DEF Among, CallAt
  <2>3. \A d \in Calls : CallAt(queue[e], 1, d) => Among(pipe'[o], d)
    BY <1>6, <1>9 DEF Among, CallAt
  <2>4. ASSUME NEW i \in 1..Len(queue[e]), NEW d \in Calls,
               CallAt(queue[e], i, d)
        PROVE  \/ Among(pipe'[o], d)
               \/ i - 1 \in 1..Len(queue'[e]) /\ CallAt(queue'[e], i - 1, d)
    <3>1. CASE i = 1
        BY <2>3, <2>4, <3>1
    <3>2. CASE i # 1
        BY <1>7, <2>4, <3>2 DEF CallAt
    <3>. QED
        BY <3>1, <3>2
  <2>5. \A x, d \in Calls : Served(x)' /\ Earlier(d, x) => Served(d)'
    BY <1>2, <2>1 DEF OrderInv
  <2>6. ASSUME NEW f \in Ends, NEW i \in 1..Len(pipe'[f]), NEW d \in Calls,
               pipe'[f][i].kind = "call", Earlier(d, pipe'[f][i].of)
        PROVE  Served(d)' \/ \E j \in 1..(i - 1) : CallAt(pipe'[f], j, d)
    <3>1. CASE f # o
      <4>1. pipe'[f] = pipe[f]
        BY <1>5, <3>1
      <4>2. Served(d) \/ \E j \in 1..(i - 1) : CallAt(pipe[f], j, d)
        BY <1>2, <2>6, <4>1 DEF OrderInv
      <4>. QED
        BY <2>1, <4>1, <4>2
    <3>2. CASE f = o /\ i \in 1..n
      <4>1. /\ i \in 1..Len(pipe[o]) /\ pipe'[o][i] = pipe[o][i]
            /\ \A j \in 1..(i - 1) : pipe'[o][j] = pipe[o][j]
        BY <1>8, <1>9, <3>2
      <4>2. Served(d) \/ \E j \in 1..(i - 1) : CallAt(pipe[o], j, d)
        BY <1>2, <2>6, <3>2, <4>1 DEF OrderInv
      <4>. QED
        BY <2>1, <3>2, <4>1, <4>2 DEF CallAt
    <3>3. CASE f = o /\ i = n + 1
      <4>1. m.kind = "call" /\ Earlier(d, m.of) /\ 1 \in 1..Len(queue[e])
        BY <1>7, <1>9, <2>6, <3>3
      <4>2. \/ Served(d)
            \/ Among(pipe[o], d)
            \/ \E j \in 1..(1 - 1) : CallAt(queue[e], j, d)
        BY <1>1, <1>2, <1>6, <4>1 DEF OrderInv
      <4>3. Among(pipe[o], d) => \E j \in 1..n : CallAt(pipe'[o], j, d)
        BY <1>8, <1>9 DEF Among, CallAt
      <4>4. n = i - 1
        BY <1>9, <3>3
      <4>. QED
        BY <2>1, <3>3, <4>2, <4>3, <4>4
    <3>. QED
        BY <1>9, <2>6, <3>1, <3>2, <3>3
  <2>7. ASSUME NEW f \in Ends, NEW i \in 1..Len(queue'[f]), NEW d \in Calls,
               queue'[f][i].kind = "call", Earlier(d, queue'[f][i].of)
        PROVE  \/ Served(d)'
               \/ Among(pipe'[Other(f)], d)
               \/ \E j \in 1..(i - 1) : CallAt(queue'[f], j, d)
    <3>1. CASE f # e
      <4>1. queue'[f] = queue[f] /\ Other(f) \in Ends
        BY <1>5, <3>1, EndFacts
      <4>2. \/ Served(d)
            \/ Among(pipe[Other(f)], d)
            \/ \E j \in 1..(i - 1) : CallAt(queue[f], j, d)
        BY <1>2, <2>7, <4>1 DEF OrderInv
      <4>. QED
        BY <2>1, <2>2, <4>1, <4>2
    <3>2. CASE f = e
      <4>1. /\ i + 1 \in 1..Len(queue[e]) /\ queue[e][i + 1] = queue'[e][i]
            /\ i \in Nat
        BY <1>7, <2>7, <3>2
      <4>2. \/ Served(d)
            \/ Among(pipe[o], d)
            \/ \E j \in 1..(i + 1 - 1) : CallAt(queue[e], j, d)
        BY <1>1, <1>2, <2>7, <3>2, <4>1 DEF OrderInv
      <4>3. ASSUME NEW j \in 1..(i + 1 - 1), CallAt(queue[e], j, d)
            PROVE  \/ Among(pipe'[o], d)
                   \/ \E k \in 1..(i - 1) : CallAt(queue'[e], k, d)
        <5>1. j \in 1..Len(queue[e]) /\ j - 1 \in 0..(i - 1)
            BY <1>7, <4>1
        <5>2. \/ Among(pipe'[o], d)
              \/ j - 1 \in 1..Len(queue'[e]) /\ CallAt(queue'[e], j - 1, d)
            BY <2>4, <4>3, <5>1
        <5>. QED
            BY <1>7, <5>1, <5>2
      <4>. QED
        BY <1>1, <2>1, <2>2, <3>2, <4>2, <4>3
    <3>. QED
        BY <3>1, <3>2
  <2>8. ASSUME NEW d \in Calls, Up(Owner(d))', d[2] <= sequence'[Owner(d)]
        PROVE  \/ Served(d)'
               \/ Among(pipe'[Other(Owner(d))], d)
               \/ Among(queue'[Owner(d)], d)
    <3>1. Owner(d) \in Ends /\ Other(Owner(d)) \in Ends
        BY CallFacts, EndFacts
    <3>2. \/ Served(d)
          \/ Among(pipe[Other(Owner(d))], d)
          \/ Among(queue[Owner(d)], d)
        BY <1>2, <2>1, <2>8, <3>1 DEF OrderInv
    <3>3. Among(queue[e], d) => Among(pipe'[o], d) \/ Among(queue'[e], d)
        BY <2>4 DEF Among
    <3>4. Owner(d) # e => queue'[Owner(d)] = queue[Owner(d)]
        BY <1>5, <3>1
    <3>. QED
        BY <1>1, <2>1, <2>2, <3>1, <3>2, <3>3, <3>4
  <2>. QED
    BY <2>5, <2>6, <2>7, <2>8 DEF OrderInv
<1>. QED
    BY <1>10, <1>11, <1>12 DEF Inv


\* All that is queued fails; a call among it takes the end down, so that no
\* call can follow the ones that are lost.
LEMMA WriteFailsStep ==
    ASSUME Inv, NEW e \in Ends, WriteFails(e)
    PROVE  Inv'
<1>1. TypeInv /\ FlowInv /\ GotInv /\ OneHandler /\ OrderInv
    BY DEF Inv
<1>2. /\ queue' = [queue EXCEPT ![e] = <<>>]
      /\ IF \E i \in 1..Len(queue[e]) : queue[e][i].kind = "call"
         THEN state' = [state EXCEPT ![e] = IF Up(e) THEN "failed" ELSE @]
         ELSE UNCHANGED state
      /\ UNCHANGED <<callerVars, serve, gvariant, stack, reads, pipe, shut>>
    BY DEF WriteFails, CanFailWrite
<1>3. /\ queue'[e] = <<>> /\ DOMAIN queue' = Ends
      /\ \A f \in Ends \ {e} : queue'[f] = queue[f]
    BY <1>1, <1>2 DEF FlowInv
<1>4. /\ state' \in [Ends -> {"up", "closed", "failed"}]
      /\ \A f \in Ends : Up(f)' => Up(f)
      /\ Up(e)' => \A i \in 1..Len(queue[e]) : queue[e][i].kind # "call"
    BY <1>1, <1>2 DEF TypeInv, Up
<1>5. FlowInv'
  <2>1. <<>> \in Seq(Sent(e))
    OBVIOUS
  <2>. QED
    BY <1>1, <1>2, <1>3, <2>1 DEF FlowInv
<1>6. TypeInv' /\ GotInv' /\ OneHandler'
    BY <1>1, <1>2, <1>4, GotKept, HandlersKept DEF TypeInv, callerVars
<1>7. OrderInv'
  <2>1. /\ UNCHANGED <<sequence, pipe>>
        /\ \A d \in Calls : Served(d)' <=> Served(d)
    BY <1>2 DEF callerVars, Served
  <2>2. \A x, d \in Calls : Served(x)' /\ Earlier(d, x) => Served(d)'
    BY <1>1, <2>1 DEF OrderInv
  <2>3. ASSUME NEW f \in Ends, NEW i \in 1..Len(pipe'[f]), NEW d \in Calls,
               pipe'[f][i].kind = "call", Earlier(d, pipe'[f][i].of)
        PROVE  Served(d)' \/ \E j \in 1..(i - 1) : CallAt(pipe'[f], j, d)
    BY <1>1, <2>1, <2>3 DEF OrderInv
  <2>4. ASSUME NEW f \in Ends, NEW i \in 1..Len(queue'[f]), NEW d \in Calls,
               queue'[f][i].kind = "call", Earlier(d, queue'[f][i].of)
        PROVE  \/ Served(d)'
               \/ Among(pipe'[Other(f)], d)
               \/ \E j \in 1..(i - 1) : CallAt(queue'[f], j, d)
    <3>1. f # e /\ queue'[f] = queue[f]
        BY <1>3, <2>4
    <3>2. \/ Served(d)
          \/ Among(pipe[Other(f)], d)
          \/ \E j \in 1..(i - 1) : CallAt(queue[f], j, d)
        BY <1>1, <2>4, <3>1 DEF OrderInv
    <3>. QED
        BY <2>1, <3>1, <3>2
  <2>5. ASSUME NEW d \in Calls, Up(Owner(d))', d[2] <= sequence'[Owner(d)]
        PROVE  \/ Served(d)'
               \/ Among(pipe'[Other(Owner(d))], d)
               \/ Among(queue'[Owner(d)], d)
    <3>1. Owner(d) \in Ends
        BY CallFacts
    <3>2. \/ Served(d)
          \/ Among(pipe[Other(Owner(d))], d)
          \/ Among(queue[Owner(d)], d)
        BY <1>1, <1>4, <2>1, <2>5, <3>1 DEF OrderInv
    <3>3. Owner(d) = e => ~Among(queue[e], d)
        BY <1>4, <2>5 DEF Among, CallAt
    <3>4. Owner(d) # e => queue'[Owner(d)] = queue[Owner(d)]
        BY <1>3, <3>1
    <3>. QED
        BY <2>1, <3>2, <3>3, <3>4
  <2>. QED
    BY <2>2, <2>3, <2>4, <2>5 DEF OrderInv
<1>. QED
    BY <1>5, <1>6, <1>7 DEF Inv

LEMMA ReadCallStep ==
    ASSUME Inv, NEW e \in Ends, ReadCall(e)
    PROVE  Inv'
<1>1. PICK m : /\ Takes(e, m)
               /\ m.kind = "call"
               /\ reads' = [reads EXCEPT ![e] = 0]
               /\ Push(e, Handler(m.of))
               /\ serve' = [serve EXCEPT ![m.of] = "handling"]
               /\ UNCHANGED <<callerVars, state, queue, shut>>
    BY DEF ReadCall
<1>2. TypeInv /\ FlowInv /\ GotInv /\ OneHandler /\ OrderInv
    BY DEF Inv
<1>3. m.of \in Calls /\ m.gv \in BOOLEAN
    BY <1>1, <1>2, PipeFacts, SentFacts, EndFacts
<1>4. reads[e] = 1 /\ gvariant' = [gvariant EXCEPT ![e] = @ \/ m.gv]
    BY <1>1 DEF Takes, CanRead
<1>5. \A i \in 1..Len(stack[e]) : stack[e][i][1] # "handler"
    BY <1>2, <1>4 DEF OneHandler
<1>6. Handler(m.of) \in Frames
    BY <1>3 DEF Handler, Frames
<1>7. /\ stack'[e] \in Seq(Frames) /\ Len(stack[e]) \in Nat
      /\ Len(stack'[e]) = Len(stack[e]) + 1
      /\ \A i \in 1..Len(stack[e]) : stack'[e][i] = stack[e][i]
      /\ \A f \in Ends \ {e} : stack'[f] = stack[f]
      /\ DOMAIN stack' = Ends
      /\ stack' \in [Ends -> Seq(Frames)]
  <2>1. stack[e] \in Seq(Frames) /\ stack \in [Ends -> Seq(Frames)]
    BY <1>2 DEF TypeInv
  <2>2. /\ stack'[e] = Append(stack[e], Handler(m.of))
        /\ \A f \in Ends \ {e} : stack'[f] = stack[f]
        /\ stack' = [stack EXCEPT ![e] = Append(@, Handler(m.of))]
    BY <1>1, <2>1 DEF Push
  <2>3. /\ stack'[e] \in Seq(Frames) /\ Len(stack[e]) \in Nat
        /\ Len(stack'[e]) = Len(stack[e]) + 1
        /\ \A i \in 1..Len(stack[e]) : stack'[e][i] = stack[e][i]
    BY <1>6, <2>1, <2>2, AppendFacts
  <2>. QED
    BY <2>1, <2>2, <2>3
<1>8. OneHandler'
  <2>. SUFFICES ASSUME NEW f \in Ends, NEW i \in 1..Len(stack'[f]),
                       stack'[f][i][1] = "handler"
                PROVE  /\ reads'[f] = 0
                       /\ \A j \in 1..Len(stack'[f]) :
                             stack'[f][j][1] = "handler" => j = i
    BY DEF OneHandler
  <2>1. reads'[e] = 0 /\ \A g \in Ends \ {e} : reads'[g] = reads[g]
    BY <1>1, <1>2 DEF TypeInv
  <2>2. CASE f = e
    <3>1. ASSUME NEW j \in 1..Len(stack'[e]), stack'[e][j][1] = "handler"
          PROVE  j = Len(stack[e]) + 1
      <4>1. j \in 1..Len(stack[e]) => stack'[e][j] = stack[e][j]
        BY <1>7
      <4>2. ~(j \in 1..Len(stack[e]))
        BY <1>5, <3>1, <4>1
      <4>. QED
        BY <1>7, <4>2
    <3>. QED
        BY <2>1, <2>2, <3>1
  <2>3. CASE f # e
    BY <1>2, <1>7, <2>1, <2>3 DEF OneHandler
  <2>. QED
    BY <2>2, <2>3
<1>9. TypeInv'
  <2>1. /\ serve' \in [Calls -> {"none", "handling", "owed", "answered"}]
        /\ gvariant' \in [Ends -> BOOLEAN] /\ reads' \in [Ends -> {0, 1}]
    BY <1>1, <1>2, <1>3, <1>4 DEF TypeInv
  <2>. QED
    BY <1>1, <1>2, <1>7, <2>1 DEF TypeInv, callerVars
<1>10. FlowInv' /\ GotInv'
    BY <1>1, <1>2, FlowTaken, GotKept DEF callerVars
<1>11. OrderInv'
  <2>1. \A d \in Calls : Served(d)' <=>
            Served(d) \/ (m.kind = "call" /\ m.of = d)
    BY <1>1, <1>2, <1>3 DEF Served, TypeInv
  <2>2. UNCHANGED <<queue, sequence>> /\ \A f \in Ends : Up(f)' => Up(f)
    BY <1>1 DEF callerVars, Up
  <2>. QED
    BY <1>1, <1>2, <2>1, <2>2, OrderTaken
<1>. QED
    BY <1>8, <1>9, <1>10, <1>11 DEF Inv

\* An answer is read, whether it is known or not: what the order of the
\* calls and of the messages needs.
LEMMA AnswerTaken ==
    ASSUME Inv, NEW e \in Ends, NEW m, Takes(e, m), m.kind # "call",
           UNCHANGED <<sequence, serve, stack, queue>>,
           \A f \in Ends : Up(f)' => Up(f),
           \A f \in Ends \ {e} : reads'[f] = reads[f]
    PROVE  /\ FlowInv' /\ OrderInv' /\ OneHandler'
           /\ gvariant' \in [Ends -> BOOLEAN]
<1>1. TypeInv /\ FlowInv /\ OneHandler /\ OrderInv
    BY DEF Inv
<1>2. m.gv \in BOOLEAN
    BY <1>1, PipeFacts, SentFacts, EndFacts
<1>3. reads[e] = 1 /\ gvariant' = [gvariant EXCEPT ![e] = @ \/ m.gv]
    BY DEF Takes, CanRead
<1>4. gvariant' \in [Ends -> BOOLEAN]
    BY <1>1, <1>2, <1>3 DEF TypeInv
<1>5. OneHandler'
    BY <1>1, <1>3 DEF OneHandler
<1>6. FlowInv'
    BY <1>1, FlowTaken
<1>7. \A d \in Calls : Served(d)' <=> Served(d) \/ (m.kind = "call" /\ m.of = d)
    BY DEF Served
<1>8. OrderInv'
    BY <1>1, <1>7, OrderTaken
<1>. QED
    BY <1>4, <1>5, <1>6, <1>8

LEMMA ReadAnswerStep ==
    ASSUME Inv, NEW e \in Ends, ReadAnswer(e)
    PROVE  Inv'
<1>a. PICK m : \E c \in Known(e, m.of) :
          /\ Takes(e, m)
          /\ m.kind # "call"
          /\ st' = [st EXCEPT ![c] = "answered"]
          /\ got' = [got EXCEPT ![c] =
                        [kind |-> m.kind, of |-> m.of, gv |-> m.gv,
                         code |-> IF m.code = "x" THEN "sent" ELSE "-1"]]
          /\ BeginNextRead(e)
          /\ UNCHANGED <<sequence, serve, state, stack, queue, shut>>
    BY DEF ReadAnswer
<1>1. PICK c \in Known(e, m.of) :
          /\ Takes(e, m)
          /\ m.kind # "call"
          /\ st' = [st EXCEPT ![c] = "answered"]
          /\ got' = [got EXCEPT ![c] =
                        [kind |-> m.kind, of |-> m.of, gv |-> m.gv,
                         code |-> IF m.code = "x" THEN "sent" ELSE "-1"]]
          /\ BeginNextRead(e)
          /\ UNCHANGED <<sequence, serve, state, stack, queue, shut>>
    BY <1>a
<1>2. TypeInv /\ FlowInv /\ GotInv
    BY DEF Inv
<1>3. m \in Sent(Other(e)) /\ Other(e) \in Ends /\ Other(Other(e)) = e
    BY <1>1, <1>2, PipeFacts, EndFacts
<1>4. /\ m.of \in Calls /\ m.gv \in BOOLEAN /\ Owner(m.of) = e
      /\ m.kind \in {"result", "error"}
      /\ m.code = IF m.gv THEN "i" ELSE "x"
    BY <1>1, <1>3, SentFacts
<1>5. c = m.of /\ c \in Calls
  <2>1. c = <<e, m.of[2]>>
    BY <1>1 DEF Known
  <2>. QED
    BY <1>4, <2>1, CallFacts
<1>6. GotInv'
  <2>. SUFFICES ASSUME NEW d \in Calls, st'[d] = "answered"
                PROVE  /\ got'[d] \in Got
                       /\ got'[d].of = d
                       /\ got'[d].kind = "error" =>
                             (got'[d].code = "-1") = got'[d].gv
    BY DEF GotInv
  <2>1. CASE d = c
    <3>1. got'[c] = [kind |-> m.kind, of |-> m.of, gv |-> m.gv,
                     code |-> IF m.code = "x" THEN "sent" ELSE "-1"]
        BY <1>1, <1>2, <1>5 DEF TypeInv
    <3>. QED
        BY <1>4, <1>5, <2>1, <3>1 DEF Got
  <2>2. CASE d # c
    <3>1. st[d] = "answered" /\ got'[d] = got[d]
        BY <1>1, <1>2, <2>2 DEF TypeInv
    <3>. QED
        BY <1>2, <3>1 DEF GotInv
  <2>. QED
    BY <2>1, <2>2
<1>7. /\ reads' \in [Ends -> {0, 1}]
      /\ \A f \in Ends \ {e} : reads'[f] = reads[f]
    BY <1>1, <1>2 DEF BeginNextRead, TypeInv
<1>8. FlowInv' /\ OrderInv' /\ OneHandler' /\ gvariant' \in [Ends -> BOOLEAN]
  <2>1. \A f \in Ends : Up(f)' => Up(f)
    BY <1>1 DEF Up
  <2>. QED
    BY <1>1, <1>7, <2>1, AnswerTaken
<1>9. TypeInv'
  <2>1. [kind |-> m.kind, of |-> m.of, gv |-> m.gv,
         code |-> IF m.code = "x" THEN "sent" ELSE "-1"] \in Got
    BY <1>4 DEF Got
  <2>2. got' \in [Calls -> {NoAnswer} \cup Got]
    BY <1>1, <1>2, <2>1 DEF TypeInv
  <2>3. st' \in [Calls -> {"unused", "waiting", "answered", "failed"}]
    BY <1>1, <1>2 DEF TypeInv
  <2>. QED
    BY <1>1, <1>2, <1>7, <1>8, <2>2, <2>3 DEF TypeInv
<1>. QED
    BY <1>6, <1>8, <1>9 DEF Inv

LEMMA ReadUnknownStep ==
    ASSUME Inv, NEW e \in Ends, ReadUnknown(e)
    PROVE  Inv'
<1>1. PICK m : /\ Takes(e, m)
               /\ m.kind # "call"
               /\ \/ GoDown(e, "failed") /\ reads' = [reads EXCEPT ![e] = 0]
                  \/ BeginNextRead(e) /\ UNCHANGED <<state, shut>>
               /\ UNCHANGED <<callerVars, serve, stack, queue>>
    BY DEF ReadUnknown
<1>2. TypeInv /\ GotInv
    BY DEF Inv
<1>3. /\ reads' \in [Ends -> {0, 1}]
      /\ \A f \in Ends \ {e} : reads'[f] = reads[f]
    BY <1>1, <1>2 DEF BeginNextRead, TypeInv
<1>4. /\ state' \in [Ends -> {"up", "closed", "failed"}] /\ shut' \subseteq Ends
      /\ \A f \in Ends : Up(f)' => Up(f)
    BY <1>1, <1>2, DownFacts DEF TypeInv, Up
<1>5. FlowInv' /\ OrderInv' /\ OneHandler' /\ gvariant' \in [Ends -> BOOLEAN]
  <2>1. UNCHANGED <<sequence, serve, stack, queue>>
    BY <1>1 DEF callerVars
  <2>. QED
    BY <1>1, <1>3, <1>4, <2>1, AnswerTaken
<1>6. TypeInv' /\ GotInv'
    BY <1>1, <1>2, <1>3, <1>4, <1>5, GotKept DEF TypeInv, callerVars
<1>. QED
    BY <1>5, <1>6 DEF Inv

\* Steps of the calls and the waits of an end.
LEMMA FailCallStep ==
    ASSUME Inv, NEW c \in Calls, FailCall(c)
    PROVE  Inv'
<1>1. /\ st' = [st EXCEPT ![c] = "failed"]
      /\ UNCHANGED <<sequence, got, serve, endVars, queue, pipe, shut>>
    BY DEF FailCall, CanFail
<1>2. TypeInv /\ FlowInv /\ GotInv /\ OneHandler /\ OrderInv
    BY DEF Inv
<1>3. TypeInv' /\ FlowInv' /\ OneHandler'
    BY <1>1, <1>2, FlowKept, HandlersKept DEF TypeInv, endVars
<1>4. GotInv'
  <2>1. \A d \in Calls : st'[d] = "answered" => st[d] = "answered"
    BY <1>1, <1>2 DEF TypeInv
  <2>. QED
    BY <1>1, <1>2, <2>1, GotKept
<1>5. OrderInv'
  <2>1. /\ \A d \in Calls : Served(d)' <=> Served(d)
        /\ \A f \in Ends : Up(f)' => Up(f)
    BY <1>1 DEF Served, Up, endVars
  <2>. QED
    BY <1>1, <1>2, <2>1, OrderKept
<1>. QED
    BY <1>3, <1>4, <1>5 DEF Inv

LEMMA WaitReturnsStep ==
    ASSUME Inv, NEW c \in Calls, ReplyReturns(c) \/ CallReturns(c)
    PROVE  Inv'
<1>1. PICK e \in Ends, kind \in {"handler", "reply", "call"} :
          /\ Top(e) = <<kind, c>>
          /\ Pop(e)
          /\ UNCHANGED <<callerVars, serve, state, gvariant, reads, queue, pipe,
                         shut>>
    BY CallFacts, EndFacts DEF ReplyReturns, CallReturns, CanLeaveReply,
           CanLeaveCall, InReply, InCall
<1>2. TypeInv /\ FlowInv /\ GotInv /\ OneHandler /\ OrderInv
    BY DEF Inv
<1>3. stack[e] # <<>>
    BY <1>1, TopFacts
<1>4. OneHandler' /\ stack' \in [Ends -> Seq(Frames)]
    BY <1>1, <1>2, <1>3, FramePopped
<1>5. TypeInv' /\ FlowInv' /\ GotInv'
    BY <1>1, <1>2, <1>4, FlowKept, GotKept DEF TypeInv, callerVars
<1>6. OrderInv'
  <2>1. /\ \A d \in Calls : Served(d)' <=> Served(d)
        /\ \A f \in Ends : Up(f)' => Up(f)
        /\ UNCHANGED <<pipe, sequence, queue>>
    BY <1>1 DEF Served, Up, callerVars
  <2>. QED
    BY <1>2, <2>1, OrderKept
<1>. QED
    BY <1>4, <1>5, <1>6 DEF Inv

-----------------------------------------------------------------------------
(* Safety.                                                                 *)

LEMMA InvInit == Init => Inv
<1>. SUFFICES ASSUME Init PROVE Inv
    OBVIOUS
<1>1. gvariant \in [Ends -> BOOLEAN]
    BY StartsAssumption DEF Init
<1>2. <<>> \in Seq(Frames) /\ \A e \in Ends : <<>> \in Seq(Sent(e))
    OBVIOUS
<1>3. TypeInv
  <2>1. /\ sequence \in [Ends -> Nat]
        /\ \A e \in Ends : sequence[e] <= MaxCalls[e]
    BY MaxCallsAssumption DEF Init
  <2>2. /\ st \in [Calls -> {"unused", "waiting", "answered", "failed"}]
        /\ got \in [Calls -> {NoAnswer} \cup Got]
        /\ serve \in [Calls -> {"none", "handling", "owed", "answered"}]
    BY DEF Init
  <2>3. /\ state \in [Ends -> {"up", "closed", "failed"}]
        /\ stack \in [Ends -> Seq(Frames)]
        /\ reads \in [Ends -> {0, 1}]
        /\ shut \subseteq Ends
    BY <1>2 DEF Init
  <2>. QED
    BY <1>1, <2>1, <2>2, <2>3 DEF TypeInv
<1>4. FlowInv
  <2>1. /\ DOMAIN queue = Ends /\ DOMAIN pipe = Ends
        /\ \A e \in Ends : queue[e] = <<>> /\ pipe[e] = <<>>
    BY DEF Init
  <2>2. Len(<<>>) = 0 /\ 0 <= Capacity
    BY CapacityAssumption
  <2>. QED
    BY <1>2, <2>1, <2>2, EndFacts DEF FlowInv
<1>5. GotInv
    BY DEF Init, GotInv
<1>6. OneHandler
    BY DEF Init, OneHandler
<1>7. OrderInv
  <2>1. \A d \in Calls : ~Served(d) /\ ~(d[2] <= sequence[Owner(d)])
    BY CallFacts DEF Init, Served
  <2>2. \A e \in Ends : Len(queue[e]) = 0 /\ Len(pipe[e]) = 0
    BY DEF Init
  <2>. QED
    BY <2>1, <2>2 DEF OrderInv
<1>. QED
    BY <1>3, <1>4, <1>5, <1>6, <1>7 DEF Inv

LEMMA InvStep == Inv /\ [Next]_vars => Inv'
<1>. SUFFICES ASSUME Inv, [Next]_vars PROVE Inv'
    OBVIOUS
<1>1. CASE Program
    BY <1>1, CallStep, ReplyStep, ReplySyncStep, CloseStep DEF Program
<1>2. ASSUME NEW e \in Ends, Thread(e) PROVE Inv'
  <2>1. CASE \/ Write(e) \/ WriteFails(e) \/ HangUp(e) \/ ReadCall(e)
             \/ ReadAnswer(e) \/ ReadUnknown(e) \/ ReadEnds(e)
    BY <2>1, WriteStep, WriteFailsStep, HangUpStep, ReadCallStep,
       ReadAnswerStep, ReadUnknownStep, ReadEndsStep
  <2>2. ASSUME NEW c \in Calls, FailCall(c) \/ CallReturns(c) PROVE Inv'
    BY <2>2, FailCallStep, WaitReturnsStep
  <2>3. ASSUME NEW c \in Calls, ReplyReturns(c) \/ HandlerReturns(c) PROVE Inv'
    BY <2>3, WaitReturnsStep, HandlerReturnsStep
  <2>. QED
    BY <1>2, <2>1, <2>2, <2>3 DEF Thread
<1>3. CASE UNCHANGED vars
  <2>1. /\ state' \in [Ends -> {"up", "closed", "failed"}] /\ shut' \subseteq Ends
        /\ reads' \in [Ends -> {0, 1}]
        /\ UNCHANGED <<callerVars, serve, gvariant, stack, queue, pipe>>
        /\ UNCHANGED <<state, reads>>
    BY <1>3 DEF vars, endVars, Inv, TypeInv
  <2>. QED
    BY <2>1, GoDownStep DEF Up
<1>. QED
    BY <1>1, <1>2, <1>3 DEF Next

\* Inv is an inductive invariant.
THEOREM Invariance == Spec => []Inv
BY InvInit, InvStep, PTL DEF Spec

\* Every variable keeps its type; in particular no end ever has two reads
\* outstanding and no pipe takes more than it can hold.
THEOREM TypeCorrect == Spec => []TypeOK
<1>1. Inv => TypeOK
  <2>. SUFFICES ASSUME Inv PROVE TypeOK
    OBVIOUS
  <2>1. TypeInv /\ FlowInv
    BY DEF Inv
  <2>2. \A e \in Ends : sequence[e] \in 0..MaxCalls[e]
    BY <2>1, MaxCallsAssumption DEF TypeInv
  <2>3. \A c \in Calls : got[c].kind \in {"none", "result", "error"}
    BY <2>1 DEF TypeInv, Got, NoAnswer
  <2>. QED
    BY <2>1, <2>2, <2>3 DEF TypeOK, TypeInv, FlowInv
<1>. QED
    BY <1>1, Invariance, PTL

\* The calls of an end are handled by the other one in the order in which
\* they were made, and one at a time.
THEOREM HandledInOrderHolds == Spec => []HandledInOrder
<1>1. Inv => HandledInOrder
  <2>. SUFFICES ASSUME Inv, NEW c \in Calls
                PROVE  /\ serve[c] # "none" /\ c[2] > 1 =>
                              serve[<<c[1], c[2] - 1>>] # "none"
                       /\ Handler(c) \in ToSet(stack[Other(c[1])]) =>
                              \A d \in Calls \ {c} :
                                  Handler(d) \notin ToSet(stack[Other(c[1])])
    BY DEF HandledInOrder
  <2>1. TypeInv /\ OneHandler /\ OrderInv
    BY DEF Inv
  <2>2. /\ c[1] \in Ends /\ Other(c[1]) \in Ends
        /\ c[2] \in 1..MaxCalls[c[1]] /\ MaxCalls[c[1]] \in Nat
    BY CallFacts, EndFacts, MaxCallsAssumption DEF Owner
  <2>3. ASSUME serve[c] # "none", c[2] > 1
        PROVE  serve[<<c[1], c[2] - 1>>] # "none"
    <3>1. PICK d : d = <<c[1], c[2] - 1>>
        OBVIOUS
    <3>2. c[2] - 1 \in 1..MaxCalls[c[1]]
        BY <2>2, <2>3
    <3>3. d \in Calls
        BY <2>2, <3>1, <3>2 DEF Calls
    <3>4. Earlier(d, c)
        BY <2>2, <3>1 DEF Earlier, Owner
    <3>. QED
        BY <2>1, <2>3, <3>1, <3>3, <3>4 DEF OrderInv, Served
  <2>4. ASSUME NEW d \in Calls \ {c},
               Handler(c) \in ToSet(stack[Other(c[1])]),
               Handler(d) \in ToSet(stack[Other(c[1])])
        PROVE  FALSE
    <3>1. PICK f \in Ends : f = Other(c[1])
        BY <2>2
    <3>2. DOMAIN stack[f] = 1..Len(stack[f])
        BY <2>1 DEF TypeInv
    <3>3. PICK i \in 1..Len(stack[f]) : stack[f][i] = Handler(c)
        BY <2>4, <3>1, <3>2 DEF ToSet
    <3>4. PICK j \in 1..Len(stack[f]) : stack[f][j] = Handler(d)
        BY <2>4, <3>1, <3>2 DEF ToSet
    <3>5. stack[f][i][1] = "handler" /\ stack[f][j][1] = "handler"
        BY <3>3, <3>4 DEF Handler
    <3>6. i = j
        BY <2>1, <3>5 DEF OneHandler
    <3>. QED
        BY <3>3, <3>4, <3>6 DEF Handler
  <2>. QED
    BY <2>3, <2>4
<1>. QED
    BY <1>1, Invariance, PTL
=============================================================================
