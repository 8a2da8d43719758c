------------------------- MODULE OutputStreamProofs -------------------------
(***************************************************************************)
(* Proofs about OutputStream.tla, for any number of messages.              *)
(***************************************************************************)
EXTENDS OutputStream, SequenceTheorems, TLAPS

-----------------------------------------------------------------------------
(* The inductive invariant.  Its parts have the queue, the stack and the   *)
(* number of submitted messages as parameters, because pump is called with *)
(* a queue and over a stack that are not yet those of a state.             *)

Has(q, m) == \E i \in 1..Len(q) : q[i] = m

Listed(s, m) ==
    \E i \in 1..Len(s) : s[i].kind = "list" /\ Has(s[i].list, m)

Increasing(q) == \A i, j \in 1..Len(q) : i < j => q[i] < q[j]

\* Only the frame that the main loop dispatched may be more than a
\* callback: a callback that writes can only push callbacks.
StackInv(s) ==
    /\ \A i \in 1..(Len(s) - 1) : s[i] = Callback
    /\ \A i \in 1..Len(s) : s[i].kind = "list" => Increasing(s[i].list)

\* What waits is in order, and behind all that was given to the stream.
QueueInv(q, n) ==
    /\ Increasing(q)
    /\ \A m \in Messages : Has(q, m) =>
          /\ m <= n
          /\ \A k \in writes : k < m
          /\ \A i \in 1..Len(wire) : wire[i].msg < m

\* InOnePlace, of the queue q and the stack s.
PlacesInv(q, s, n) ==
    \A m \in Messages :
        /\ m > n => result[m] = "none"
        /\ IF m \in 1..n /\ result[m] = "none"
           THEN /\ Has(q, m) \/ m \in writes \/ Listed(s, m)
                /\ ~(Has(q, m) /\ m \in writes)
                /\ ~(Has(q, m) /\ Listed(s, m))
                /\ ~(Listed(s, m) /\ m \in writes)
           ELSE ~Has(q, m) /\ m \notin writes /\ ~Listed(s, m)

\* What is on the wire comes before what is being written.
WireInv ==
    /\ \A i \in 1..Len(wire) :
          /\ i <= wire[i].msg
          /\ wire[i].msg <= submitted
          /\ \A k \in writes : wire[i].msg < k
    /\ WireInOrder

\* What waits was submitted after the last failure, unless the dispatch of
\* that failure has still to fail it.
BarrierInv(q, s) ==
    \/ \A m \in Messages : Has(q, m) => m > barrier
    \/ Has(s, ThenFailPending)

Inv ==
    /\ TypeOK
    /\ SingleWriter
    /\ NeverForgotten
    /\ StackInv(stack)
    /\ QueueInv(queue, submitted)
    /\ PlacesInv(queue, stack, submitted)
    /\ WireInv
    /\ BarrierInv(queue, stack)
    /\ barrier <= submitted

-----------------------------------------------------------------------------
(* Sequences: queues, lists and stacks.                                    *)

Frames ==
    {Callback, ThenPump, ThenFailPending}
    \cup [kind : {"list"}, list : Seq(Messages)]

\* g_queue_pop_head takes the oldest message and nothing else.
LEMMA TailFacts ==
    ASSUME NEW q \in Seq(Messages), q # <<>>, Increasing(q)
    PROVE  /\ Head(q) \in Messages /\ Tail(q) \in Seq(Messages)
           /\ Has(q, Head(q))
           /\ Increasing(Tail(q))
           /\ \A m \in Messages :
                 /\ Has(Tail(q), m) <=> Has(q, m) /\ m # Head(q)
                 /\ Has(q, m) => Head(q) <= m
<1>1. /\ Head(q) = q[1] /\ Len(q) \in Nat /\ 1 \in 1..Len(q)
      /\ Tail(q) \in Seq(Messages) /\ Len(Tail(q)) = Len(q) - 1
      /\ \A i \in 1..Len(Tail(q)) : Tail(q)[i] = q[i + 1]
    OBVIOUS
<1>2. Increasing(Tail(q))
    BY <1>1 DEF Increasing
<1>3. \A i \in 1..Len(q) : q[i] \in Messages /\ (i > 1 => q[1] < q[i])
  <2>1. \A i \in 1..Len(q) : q[i] \in Messages
    BY ElementOfSeq
  <2>2. \A i \in 1..Len(q) : i > 1 => q[1] < q[i]
    BY <1>1 DEF Increasing
  <2>. QED
    BY <2>1, <2>2
<1>4. ASSUME NEW m \in Messages
      PROVE  /\ Has(Tail(q), m) <=> Has(q, m) /\ m # Head(q)
             /\ Has(q, m) => Head(q) <= m
  <2>1. ASSUME Has(Tail(q), m) PROVE Has(q, m) /\ m # Head(q)
    <3>1. PICK i \in 1..Len(Tail(q)) : Tail(q)[i] = m
        BY <2>1 DEF Has
    <3>2. i + 1 \in 1..Len(q) /\ q[i + 1] = m /\ i + 1 > 1
        BY <1>1, <3>1
    <3>3. m # Head(q)
        BY <1>1, <1>3, <3>2 DEF Messages
    <3>. QED
        BY <3>2, <3>3 DEF Has
  <2>2. ASSUME Has(q, m), m # Head(q) PROVE Has(Tail(q), m)
    <3>1. PICK i \in 1..Len(q) : q[i] = m
        BY <2>2 DEF Has
    <3>2. i - 1 \in 1..Len(Tail(q)) /\ Tail(q)[i - 1] = m
        BY <1>1, <2>2, <3>1
    <3>. QED
        BY <3>2 DEF Has
  <2>3. Has(q, m) => Head(q) <= m
    BY <1>1, <1>3 DEF Has, Messages
  <2>. QED
    BY <2>1, <2>2, <2>3
<1>. QED
    BY <1>1, <1>2, <1>3, <1>4 DEF Has

\* g_queue_push_tail adds one message, behind the others.
LEMMA AppendFacts ==
    ASSUME NEW q \in Seq(Messages), Increasing(q), NEW n \in Messages,
           \A m \in Messages : Has(q, m) => m < n
    PROVE  /\ Append(q, n) \in Seq(Messages)
           /\ Append(q, n) # <<>>
           /\ Increasing(Append(q, n))
           /\ \A m \in Messages : Has(Append(q, n), m) <=> Has(q, m) \/ m = n
<1>1. /\ Append(q, n) \in Seq(Messages) /\ Len(Append(q, n)) = Len(q) + 1
      /\ \A i \in 1..Len(q) : Append(q, n)[i] = q[i]
      /\ Append(q, n)[Len(q) + 1] = n
      /\ Len(q) \in Nat
    OBVIOUS
<1>2. \A i \in 1..Len(q) : q[i] < n
    BY <1>1, ElementOfSeq DEF Has
<1>3. Increasing(Append(q, n))
    BY <1>1, <1>2 DEF Increasing
<1>4. \A m \in Messages : Has(Append(q, n), m) <=> Has(q, m) \/ m = n
    BY <1>1 DEF Has
<1>. QED
    BY <1>1, <1>3, <1>4

\* A frame pushed on the stack.
LEMMA PushFacts ==
    ASSUME NEW s \in Seq(Frames), NEW f \in Frames
    PROVE  /\ Push(f, s) \in Seq(Frames)
           /\ Len(Push(f, s)) = Len(s) + 1
           /\ Push(f, s)[1] = f
           /\ \A i \in 1..Len(s) : Push(f, s)[i + 1] = s[i]
           /\ Head(Push(f, s)) = f /\ Tail(Push(f, s)) = s
           /\ Push(f, s) # <<>>
           /\ \A g \in Frames : Has(Push(f, s), g) <=> f = g \/ Has(s, g)
           /\ \A m \in Messages :
                 Listed(Push(f, s), m)
                    <=> Listed(s, m) \/ (f.kind = "list" /\ Has(f.list, m))
<1>1. /\ Push(f, s) \in Seq(Frames) /\ Len(Push(f, s)) = Len(s) + 1
      /\ Push(f, s)[1] = f /\ Len(s) \in Nat
      /\ \A i \in 1..Len(s) : Push(f, s)[i + 1] = s[i]
    BY DEF Push
<1>2. \A i \in 2..Len(Push(f, s)) :
         i - 1 \in 1..Len(s) /\ Push(f, s)[i] = s[i - 1]
    BY <1>1
<1>3. Head(Push(f, s)) = f /\ Push(f, s) # <<>>
    BY <1>1
<1>4. Tail(Push(f, s)) = s
    BY <1>1, <1>3, HeadTailProperties, SeqEqual
<1>5. ASSUME NEW g \in Frames
      PROVE  Has(Push(f, s), g) <=> f = g \/ Has(s, g)
  <2>1. ASSUME Has(Push(f, s), g), f # g PROVE Has(s, g)
    <3>1. PICK i \in 1..Len(Push(f, s)) : Push(f, s)[i] = g
        BY <2>1 DEF Has
    <3>2. i \in 2..Len(Push(f, s))
        BY <1>1, <2>1, <3>1
    <3>. QED
        BY <1>2, <3>1, <3>2 DEF Has
  <2>2. ASSUME Has(s, g) PROVE Has(Push(f, s), g)
    <3>1. PICK i \in 1..Len(s) : s[i] = g
        BY <2>2 DEF Has
    <3>2. i + 1 \in 1..Len(Push(f, s)) /\ Push(f, s)[i + 1] = g
        BY <1>1, <3>1
    <3>. QED
        BY <3>2 DEF Has
  <2>3. Has(Push(f, s), f)
    BY <1>1 DEF Has
  <2>. QED
    BY <2>1, <2>2, <2>3
<1>6. \A m \in Messages :
          Listed(Push(f, s), m)
              <=> Listed(s, m) \/ (f.kind = "list" /\ Has(f.list, m))
  <2>. SUFFICES ASSUME NEW m \in Messages
                PROVE  Listed(Push(f, s), m)
                    <=> Listed(s, m) \/ (f.kind = "list" /\ Has(f.list, m))
    OBVIOUS
  <2>1. ASSUME Listed(Push(f, s), m), ~(f.kind = "list" /\ Has(f.list, m))
        PROVE  Listed(s, m)
    <3>1. PICK i \in 1..Len(Push(f, s)) :
              Push(f, s)[i].kind = "list" /\ Has(Push(f, s)[i].list, m)
        BY <2>1 DEF Listed
    <3>2. i \in 2..Len(Push(f, s))
        BY <1>1, <2>1, <3>1
    <3>. QED
        BY <1>2, <3>1, <3>2 DEF Listed
  <2>2. ASSUME Listed(s, m) PROVE Listed(Push(f, s), m)
    <3>1. PICK i \in 1..Len(s) : s[i].kind = "list" /\ Has(s[i].list, m)
        BY <2>2 DEF Listed
    <3>2. i + 1 \in 1..Len(Push(f, s)) /\ Push(f, s)[i + 1] = s[i]
        BY <1>1, <3>1
    <3>. QED
        BY <3>1, <3>2 DEF Listed
  <2>3. ASSUME f.kind = "list", Has(f.list, m) PROVE Listed(Push(f, s), m)
    BY <1>1, <2>3 DEF Listed
  <2>. QED
    BY <2>1, <2>2, <2>3
<1>. QED
    BY <1>1, <1>3, <1>4, <1>5, <1>6

\* The frame that runs, popped from the stack.
LEMMA PopFacts ==
    ASSUME NEW s \in Seq(Frames), s # <<>>, StackInv(s)
    PROVE  /\ s = Push(Head(s), Tail(s))
           /\ Head(s) = s[1]
           /\ Head(s) \in Frames
           /\ Tail(s) \in Seq(Frames)
           /\ StackInv(Tail(s))
           /\ Head(s) # Callback => Tail(s) = <<>>
           /\ Head(s).kind = "list" =>
                 Head(s).list \in Seq(Messages) /\ Increasing(Head(s).list)
<1>1. /\ Head(s) = s[1] /\ Len(s) \in Nat /\ 1 \in 1..Len(s)
      /\ Tail(s) \in Seq(Frames) /\ Len(Tail(s)) = Len(s) - 1
      /\ \A i \in 1..Len(Tail(s)) : i + 1 \in 1..Len(s) /\ Tail(s)[i] = s[i + 1]
      /\ Head(s) \in Frames
    BY ElementOfSeq
<1>2. s = Push(Head(s), Tail(s))
  <2>1. Push(Head(s), Tail(s)) \in Seq(Frames) /\ s \in Seq(Frames)
    BY <1>1, PushFacts, Zenon
  <2>2. Len(Push(Head(s), Tail(s))) = Len(s)
    BY <1>1 DEF Push
  <2>3. \A i \in 1..Len(s) : Push(Head(s), Tail(s))[i] = s[i]
    BY <1>1 DEF Push
  <2>. QED
    BY <2>1, <2>2, <2>3, SeqEqual
<1>3. StackInv(Tail(s))
    BY <1>1 DEF StackInv
<1>4. Head(s) # Callback => Tail(s) = <<>>
    BY <1>1 DEF StackInv
<1>5. Head(s).kind = "list" =>
          Head(s).list \in Seq(Messages) /\ Increasing(Head(s).list)
    BY <1>1 DEF StackInv, Frames, Callback, ThenPump, ThenFailPending
<1>. QED
    BY <1>1, <1>2, <1>3, <1>4, <1>5

\* A callback may be pushed on any stack, the rest of a dispatch only on
\* an empty one.
LEMMA PushStack ==
    ASSUME NEW s \in Seq(Frames), NEW f \in Frames, StackInv(s),
           f = Callback \/ s = <<>>,
           f.kind = "list" => Increasing(f.list)
    PROVE  StackInv(Push(f, s))
<1>1. /\ Len(Push(f, s)) = Len(s) + 1 /\ Len(s) \in Nat
      /\ Push(f, s)[1] = f
      /\ \A i \in 1..Len(s) : Push(f, s)[i + 1] = s[i]
    BY DEF Push
<1>2. \A i \in 2..Len(Push(f, s)) :
         i - 1 \in 1..Len(s) /\ Push(f, s)[i] = s[i - 1]
    BY <1>1
<1>3. ASSUME NEW i \in 1..(Len(Push(f, s)) - 1) PROVE Push(f, s)[i] = Callback
  <2>1. CASE i = 1
    BY <1>1, <2>1
  <2>2. CASE i # 1
    <3>1. i \in 2..Len(Push(f, s)) /\ i - 1 \in 1..(Len(s) - 1)
        BY <1>1, <2>2
    <3>. QED
        BY <1>2, <3>1 DEF StackInv
  <2>. QED
    BY <2>1, <2>2
<1>4. ASSUME NEW i \in 1..Len(Push(f, s)), Push(f, s)[i].kind = "list"
      PROVE  Increasing(Push(f, s)[i].list)
  <2>1. CASE i = 1
    BY <1>1, <1>4, <2>1
  <2>2. CASE i # 1
    <3>1. i \in 2..Len(Push(f, s))
        BY <1>1, <2>2
    <3>. QED
        BY <1>2, <1>4, <3>1 DEF StackInv
  <2>. QED
    BY <2>1, <2>2
<1>. QED
    BY <1>3, <1>4 DEF StackInv

\* A frame that is no callback is alone on the stack.
LEMMA PopLast ==
    ASSUME NEW s \in Seq(Frames), s # <<>>, StackInv(s),
           s[1].kind # "callback"
    PROVE  /\ Tail(s) = <<>> /\ Tail(s) \in Seq(Frames) /\ StackInv(Tail(s))
           /\ Head(s) = s[1] /\ s[1] \in Frames
           /\ \A m \in Messages : ~Listed(Tail(s), m)
           /\ \A m \in Messages :
                 Listed(s, m) <=> s[1].kind = "list" /\ Has(s[1].list, m)
           /\ \A g \in Frames : Has(s, g) <=> g = s[1]
<1>1. /\ Head(s) = s[1] /\ Tail(s) \in Seq(Frames) /\ StackInv(Tail(s))
      /\ Head(s) \in Frames
    BY PopFacts
<1>2. s[1] # Callback
    BY DEF Callback
<1>3. Len(s) = 1
  <2>1. Len(s) \in Nat /\ Len(s) >= 1
    BY EmptySeq
  <2>2. ~(2 <= Len(s))
    BY <1>2, <2>1 DEF StackInv
  <2>3. \A n \in Nat : n >= 1 /\ ~(2 <= n) => n = 1
    OBVIOUS
  <2>. QED
    BY <2>1, <2>2, <2>3, Zenon
<1>4. Tail(s) = <<>>
    BY <1>1, <1>2, PopFacts
<1>5. \A m \in Messages : ~Listed(Tail(s), m)
  <2>1. Len(Tail(s)) = 0
    BY <1>3
  <2>2. 1..Len(Tail(s)) = {}
    BY <2>1
  <2>. QED
    BY <2>2, Zenon DEF Listed
<1>6. \A m \in Messages :
         Listed(s, m) <=> s[1].kind = "list" /\ Has(s[1].list, m)
    BY <1>3 DEF Listed
<1>7. \A g \in Frames : Has(s, g) <=> g = s[1]
    BY <1>3 DEF Has
<1>. QED
    BY <1>1, <1>4, <1>5, <1>6, <1>7

\* A callback of the program holds no message, and hides no frame.
LEMMA CallbackFacts ==
    ASSUME NEW s \in Seq(Frames), StackInv(s)
    PROVE  /\ Push(Callback, s) \in Seq(Frames)
           /\ StackInv(Push(Callback, s))
           /\ \A m \in Messages : Listed(Push(Callback, s), m) <=> Listed(s, m)
           /\ \A g \in {ThenPump, ThenFailPending} :
                 Has(Push(Callback, s), g) <=> Has(s, g)
<1>1. /\ Callback \in Frames /\ Callback.kind # "list"
      /\ ThenPump \in Frames /\ ThenFailPending \in Frames
      /\ Callback # ThenPump /\ Callback # ThenFailPending
    BY DEF Frames, Callback, ThenPump, ThenFailPending
<1>2. StackInv(Push(Callback, s))
    BY <1>1, PushStack
<1>3. Push(Callback, s) \in Seq(Frames)
    BY <1>1, PushFacts, Zenon
<1>4. \A m \in Messages : Listed(Push(Callback, s), m) <=> Listed(s, m)
    BY <1>1, PushFacts, Zenon
<1>5. ASSUME NEW g \in {ThenPump, ThenFailPending}
      PROVE  Has(Push(Callback, s), g) <=> Has(s, g)
  <2>1. g \in Frames /\ Callback # g
    BY <1>1
  <2>. QED
    BY <1>1, <2>1, PushFacts, Zenon
<1>. QED
    BY <1>2, <1>3, <1>4, <1>5

-----------------------------------------------------------------------------
(* pump.                                                                   *)

\* pump keeps the invariant of the queue and the stack that it is given,
\* and after it nothing waits unless a write is under way.
LEMMA PumpStep ==
    ASSUME TypeOK, SingleWriter, WireInv,
           NEW q \in Seq(Messages), NEW s \in Seq(Frames),
           NEW n \in submitted..MaxMessages, NEW f,
           StackInv(s), QueueInv(q, n), PlacesInv(q, s, n), BarrierInv(q, s),
           Pump(q, s, f), submitted' = n, UNCHANGED <<closed, wire, barrier>>
    PROVE  /\ queue' \in Seq(Messages) /\ stack' \in Seq(Frames)
           /\ processing' \in BOOLEAN /\ writes' \subseteq Messages
           /\ result' \in [Messages -> {"none", "ok", "failed"}]
           /\ deferred' \subseteq Messages
           /\ SingleWriter'
           /\ NeverForgotten'
           /\ StackInv(stack)'
           /\ QueueInv(queue, submitted)'
           /\ PlacesInv(queue, stack, submitted)'
           /\ WireInv'
           /\ BarrierInv(queue, stack)'
<1>a. /\ submitted \in Nat /\ n \in Nat /\ submitted <= n
      /\ \A m \in Messages : m \in Nat
    BY DEF TypeOK, Messages
<1>b. \A i \in 1..Len(wire) : wire[i].msg \in Messages
  <2>1. wire \in Seq([msg : Messages, whole : BOOLEAN])
    BY DEF TypeOK
  <2>2. \A i \in 1..Len(wire) : wire[i] \in [msg : Messages, whole : BOOLEAN]
    BY <2>1, ElementOfSeq
  <2>. QED
    BY <2>2
<1>1. CASE /\ q = <<>> \/ processing
           /\ queue' = q /\ stack' = s
           /\ UNCHANGED <<processing, writes, result, deferred>>
  <2>1. SingleWriter' /\ NeverForgotten'
    BY <1>1 DEF SingleWriter, NeverForgotten
  <2>2. QueueInv(queue, submitted)' /\ PlacesInv(queue, stack, submitted)'
    BY <1>1 DEF QueueInv, PlacesInv
  <2>3. WireInv'
    BY <1>a, <1>b, <1>1 DEF WireInv, WireInOrder
  <2>4. BarrierInv(queue, stack)' /\ StackInv(stack)'
    BY <1>a, <1>1 DEF BarrierInv, StackInv
  <2>. QED
    BY <1>1, <2>1, <2>2, <2>3, <2>4 DEF TypeOK
<1>2. ASSUME q # <<>>, ~processing
      PROVE  /\ Head(q) \in Messages /\ Tail(q) \in Seq(Messages)
             /\ Head(q) \in 1..n /\ result[Head(q)] = "none"
             /\ Has(q, Head(q)) /\ Head(q) \notin writes
             /\ ~Listed(s, Head(q)) /\ writes = {}
             /\ QueueInv(Tail(q), n) /\ BarrierInv(Tail(q), s)
             /\ \A m \in Messages : Has(Tail(q), m) <=> Has(q, m) /\ m # Head(q)
  <2>1. /\ Head(q) \in Messages /\ Tail(q) \in Seq(Messages)
        /\ Has(q, Head(q)) /\ Increasing(Tail(q))
        /\ \A m \in Messages : Has(Tail(q), m) <=> Has(q, m) /\ m # Head(q)
    BY <1>2, TailFacts DEF QueueInv
  <2>2. /\ Head(q) \in 1..n /\ result[Head(q)] = "none"
        /\ Head(q) \notin writes /\ ~Listed(s, Head(q))
    BY <2>1 DEF PlacesInv
  <2>3. writes = {}
    BY <1>2 DEF SingleWriter
  <2>4. QueueInv(Tail(q), n)
    BY <2>1 DEF QueueInv
  <2>5. BarrierInv(Tail(q), s)
    BY <1>a, <2>1 DEF BarrierInv
  <2>. QED
    BY <2>1, <2>2, <2>3, <2>4, <2>5
<1>3. CASE /\ q # <<>> /\ ~processing /\ ~closed
           /\ queue' = Tail(q) /\ stack' = s
           /\ StartWrite(Head(q))
           /\ UNCHANGED <<result, deferred>>
  <2>1. writes' = {Head(q)} /\ processing'
    BY <1>2, <1>3 DEF StartWrite
  <2>2. SingleWriter' /\ NeverForgotten'
    BY <2>1 DEF SingleWriter, NeverForgotten
  <2>3. QueueInv(queue, submitted)'
    BY <1>2, <1>3, <2>1, TailFacts DEF QueueInv, Messages
  <2>4. PlacesInv(queue, stack, submitted)'
    BY <1>2, <1>3, <2>1 DEF PlacesInv
  <2>5. WireInv'
    BY <1>a, <1>b, <1>2, <1>3, <2>1 DEF WireInv, WireInOrder, QueueInv
  <2>6. BarrierInv(queue, stack)' /\ StackInv(stack)'
    BY <1>2, <1>3 DEF BarrierInv, StackInv
  <2>. QED
    BY <1>2, <1>3, <2>1, <2>2, <2>3, <2>4, <2>5, <2>6 DEF TypeOK
<1>4. CASE /\ q # <<>> /\ ~processing /\ closed
           /\ queue' = Tail(q)
           /\ ReturnTask(Head(q), "failed", s, f)
           /\ UNCHANGED <<processing, writes>>
  <2>1. result' = [result EXCEPT ![Head(q)] = "failed"]
    BY <1>4 DEF ReturnTask
  <2>2. /\ deferred' \subseteq Messages
        /\ stack' = s \/ stack' = Push(Callback, s)
    BY <1>2, <1>4 DEF ReturnTask, TypeOK
  <2>3. /\ stack' \in Seq(Frames) /\ StackInv(stack')
        /\ \A m \in Messages : Listed(stack', m) <=> Listed(s, m)
        /\ BarrierInv(Tail(q), stack')
    <3>1. CASE stack' = s
        BY <1>2, <1>4, <3>1
    <3>2. CASE stack' = Push(Callback, s)
        BY <1>2, <1>4, <3>2, CallbackFacts DEF BarrierInv
    <3>. QED
        BY <2>2, <3>1, <3>2
  <2>4. SingleWriter' /\ NeverForgotten'
    BY <1>4 DEF SingleWriter, NeverForgotten
  <2>5. QueueInv(queue, submitted)'
    BY <1>2, <1>4 DEF QueueInv
  <2>6. PlacesInv(queue, stack, submitted)'
    BY <1>2, <1>4, <2>1, <2>3 DEF PlacesInv, TypeOK
  <2>7. WireInv'
    <3>1. \A m \in Messages : result'[m] = "ok" => result[m] = "ok"
        BY <1>2, <2>1 DEF TypeOK
    <3>. QED
        BY <1>a, <1>b, <1>4, <3>1 DEF WireInv, WireInOrder
  <2>8. BarrierInv(queue, stack)' /\ StackInv(stack)'
    BY <1>4, <2>3 DEF BarrierInv, StackInv
  <2>. QED
    BY <1>2, <1>4, <2>1, <2>2, <2>3, <2>4, <2>5, <2>6, <2>7, <2>8 DEF TypeOK
<1>. QED
    BY <1>1, <1>3, <1>4 DEF Pump

-----------------------------------------------------------------------------
(* One lemma per action that does more than to go on with the stack.       *)

\* The types, with the frames of the stack by name.
LEMMA TypeFacts ==
    ASSUME TypeOK
    PROVE  /\ stack \in Seq(Frames) /\ queue \in Seq(Messages)
           /\ submitted \in Nat /\ submitted <= MaxMessages
           /\ \A m \in Messages : m \in Nat /\ m \in 1..MaxMessages
           /\ \A i \in 1..Len(wire) : wire[i].msg \in Messages
<1>1. \A i \in 1..Len(wire) : wire[i].msg \in Messages
  <2>1. wire \in Seq([msg : Messages, whole : BOOLEAN])
    BY DEF TypeOK
  <2>2. \A i \in 1..Len(wire) : wire[i] \in [msg : Messages, whole : BOOLEAN]
    BY <2>1, ElementOfSeq
  <2>. QED
    BY <2>2
<1>. QED
    BY <1>1, MaxMessagesAssumption DEF TypeOK, Frames, Messages

\* A message is queued behind all others, and pumped.
LEMMA WriteMessageStep == Inv /\ WriteMessage => Inv'
<1>. SUFFICES ASSUME Inv, WriteMessage PROVE Inv'
    OBVIOUS
<1>. TypeOK /\ SingleWriter /\ WireInv /\ StackInv(stack)
    BY DEF Inv
<1>. DEFINE n == submitted + 1
            q == Append(queue, n)
<1>1. /\ n \in submitted..MaxMessages /\ n \in Messages
      /\ submitted' = n /\ UNCHANGED <<closed, wire, barrier>>
      /\ stack \in Seq(Frames) /\ queue \in Seq(Messages)
      /\ submitted \in Nat
  <2>1. submitted < MaxMessages /\ submitted' = n
    BY DEF WriteMessage
  <2>. QED
    BY <2>1, TypeFacts, MaxMessagesAssumption DEF WriteMessage, Messages
<1>2. PICK f \in Turn : fresh' = f \cup {n} /\ Pump(q, stack, fresh')
    BY DEF WriteMessage
<1>3. \A m \in Messages : Has(queue, m) => m < n
    BY <1>1 DEF Inv, QueueInv, Messages
<1>4. /\ q \in Seq(Messages) /\ Increasing(q)
      /\ \A m \in Messages : Has(q, m) <=> Has(queue, m) \/ m = n
    BY <1>1, <1>3, AppendFacts DEF Inv, QueueInv
<1>5. \A m \in writes : m \in 1..submitted /\ m < n
    BY <1>1 DEF Inv, PlacesInv, TypeOK
<1>6. \A i \in 1..Len(wire) : wire[i].msg < n
    BY <1>1, TypeFacts DEF Inv, WireInv, Messages
<1>7. QueueInv(q, n)
    BY <1>1, <1>3, <1>4, <1>5, <1>6 DEF Inv, QueueInv, Messages
<1>8. PlacesInv(q, stack, n)
    BY <1>1, <1>3, <1>4, <1>5 DEF Inv, PlacesInv, Messages
<1>9. BarrierInv(q, stack)
    BY <1>1, <1>4 DEF Inv, BarrierInv, TypeOK
<1>10. /\ queue' \in Seq(Messages) /\ stack' \in Seq(Frames)
       /\ processing' \in BOOLEAN /\ writes' \subseteq Messages
       /\ result' \in [Messages -> {"none", "ok", "failed"}]
       /\ deferred' \subseteq Messages
       /\ SingleWriter' /\ NeverForgotten' /\ StackInv(stack)'
       /\ QueueInv(queue, submitted)' /\ PlacesInv(queue, stack, submitted)'
       /\ WireInv' /\ BarrierInv(queue, stack)'
    BY <1>1, <1>2, <1>4, <1>7, <1>8, <1>9, PumpStep
<1>11. /\ submitted' \in 0..MaxMessages /\ barrier' \in 0..MaxMessages
       /\ barrier' <= submitted' /\ Len(wire') <= submitted'
       /\ fresh' \subseteq Messages
  <2>1. Len(wire) \in Nat
    BY DEF TypeOK
  <2>. QED
    BY <1>1, <1>2, <2>1, MaxMessagesAssumption DEF Inv, TypeOK, Turn
<1>12. TypeOK'
    BY <1>1, <1>10, <1>11 DEF TypeOK, Frames
<1>. QED
    BY <1>10, <1>11, <1>12 DEF Inv

\* The message that was being written goes behind all that is on the wire,
\* and before all that waits.
LEMMA WireGrows ==
    ASSUME Inv, NEW m \in writes, NEW whole \in BOOLEAN,
           wire' = Append(wire, [msg |-> m, whole |-> whole])
    PROVE  /\ wire' \in Seq([msg : Messages, whole : BOOLEAN])
           /\ Len(wire') <= submitted
           /\ Len(wire) \in Nat /\ Len(wire') = Len(wire) + 1
           /\ \A i \in 1..Len(wire) : wire'[i] = wire[i]
           /\ wire'[Len(wire')] = [msg |-> m, whole |-> whole]
           /\ \A i \in 1..Len(wire') :
                 /\ i <= wire'[i].msg
                 /\ wire'[i].msg <= submitted
                 /\ \A k \in Messages : Has(queue, k) => wire'[i].msg < k
           /\ \A i, j \in 1..Len(wire') : i < j => wire'[i].msg < wire'[j].msg
<1>. DEFINE e == [msg |-> m, whole |-> whole]
<1>1. /\ m \in Messages /\ m \in Nat /\ m \in 1..submitted /\ submitted \in Nat
      /\ \A k \in Messages : k \in Nat
      /\ \A i \in 1..Len(wire) : wire[i].msg \in Messages
    BY TypeFacts DEF Inv, PlacesInv, TypeOK
<1>2. wire \in Seq([msg : Messages, whole : BOOLEAN]) /\ e.msg = m
      /\ e \in [msg : Messages, whole : BOOLEAN]
    BY <1>1 DEF Inv, TypeOK
<1>3. /\ wire' \in Seq([msg : Messages, whole : BOOLEAN])
      /\ Len(wire) \in Nat /\ Len(wire') = Len(wire) + 1
      /\ \A i \in 1..Len(wire) : wire'[i] = wire[i]
      /\ wire'[Len(wire')] = e
  <2>. HIDE DEF e
  <2>. QED
    BY <1>2 DEF e
<1>4. /\ \A i \in 1..Len(wire) : /\ i <= wire[i].msg
                                 /\ wire[i].msg <= submitted
                                 /\ wire[i].msg < m
      /\ \A i, j \in 1..Len(wire) : i < j => wire[i].msg < wire[j].msg
    BY DEF Inv, WireInv, WireInOrder
<1>5. Len(wire) < m
  <2>1. CASE Len(wire) = 0
    BY <1>1, <2>1
  <2>2. CASE Len(wire) # 0
    <3>1. Len(wire) \in 1..Len(wire)
        BY <1>3, <2>2
    <3>2. /\ Len(wire) <= wire[Len(wire)].msg /\ wire[Len(wire)].msg < m
          /\ wire[Len(wire)].msg \in Nat
        BY <1>1, <1>4, <3>1
    <3>. QED
        BY <1>1, <1>3, <3>2
  <2>. QED
    BY <1>3, <2>1, <2>2
<1>6. \A k \in Messages : Has(queue, k) =>
          m < k /\ \A i \in 1..Len(wire) : wire[i].msg < k
    BY DEF Inv, QueueInv
<1>7. ASSUME NEW i \in 1..Len(wire')
      PROVE  /\ i <= wire'[i].msg /\ wire'[i].msg <= submitted
             /\ \A k \in Messages : Has(queue, k) => wire'[i].msg < k
             /\ i < Len(wire') => i \in 1..Len(wire)
             /\ i = Len(wire') => wire'[i].msg = m
  <2>1. i \in 1..Len(wire) \/ i = Len(wire')
    BY <1>3
  <2>2. i = Len(wire') => wire'[i].msg = m
    BY <1>2, <1>3
  <2>3. CASE i \in 1..Len(wire)
    BY <1>1, <1>3, <1>4, <1>6, <2>2, <2>3
  <2>4. CASE i = Len(wire')
    BY <1>1, <1>3, <1>5, <1>6, <2>2, <2>4
  <2>. QED
    BY <2>1, <2>3, <2>4
<1>8. ASSUME NEW i \in 1..Len(wire'), NEW j \in 1..Len(wire'), i < j
      PROVE  wire'[i].msg < wire'[j].msg
  <2>1. i \in 1..Len(wire) /\ (j \in 1..Len(wire) \/ j = Len(wire'))
    BY SMTT(30), <1>3, <1>8
  <2>. QED
    BY <1>3, <1>4, <1>7, <1>8, <2>1
<1>9. Len(wire') <= submitted
    BY <1>1, <1>3, <1>5
<1>. QED
    BY <1>3, <1>7, <1>8, <1>9

\* The stack of a write that ended: the callback of its task, and under it
\* what write_message_async_cb still has to do.
LEMMA WriteEnds ==
    ASSUME Inv, Looping, NEW m \in writes,
           NEW frame \in {ThenPump, ThenFailPending},
           NEW t, t = Push(Callback, Push(frame, stack))
    PROVE  /\ t \in Seq(Frames) /\ StackInv(t) /\ Has(t, frame)
           /\ \A k \in Messages : ~Listed(t, k) /\ ~Listed(stack, k)
           /\ ~Has(stack, ThenFailPending)
           /\ writes = {m} /\ m \in Messages /\ m \in 1..submitted
           /\ result[m] = "none" /\ ~Has(queue, m)
<1>. DEFINE base == Push(frame, stack)
<1>1. stack = <<>> /\ stack \in Seq(Frames) /\ writes = {m} /\ m \in Messages
    BY TypeFacts DEF Inv, SingleWriter, Looping, TypeOK
<1>2. base \in Seq(Frames) /\ StackInv(base)
  <2>1. frame \in Frames /\ frame.kind # "list"
    BY DEF Frames, ThenPump, ThenFailPending
  <2>2. base \in Seq(Frames)
    BY <1>1, <2>1, PushFacts, Zenon
  <2>. QED
    BY <1>1, <2>1, <2>2, PushStack DEF Inv
<1>3. \A k \in Messages : ~Listed(base, k)
    BY <1>1 DEF Listed, ThenPump, ThenFailPending, Push
<1>4. Has(base, frame)
    BY <1>1 DEF Has, Push
<1>5. /\ t \in Seq(Frames) /\ StackInv(t) /\ Has(t, frame)
      /\ \A k \in Messages : ~Listed(t, k)
    BY <1>2, <1>3, <1>4, CallbackFacts
<1>6. /\ ~Has(stack, ThenFailPending)
      /\ \A k \in Messages : ~Listed(stack, k)
    BY <1>1 DEF Has, Listed
<1>7. m \in 1..submitted /\ result[m] = "none" /\ ~Has(queue, m)
    BY <1>1 DEF Inv, PlacesInv
<1>. QED
    BY <1>1, <1>5, <1>6, <1>7

\* A successful write is the next thing on the wire, and pump follows.
LEMMA WriteSucceedsStep ==
    ASSUME Inv, NEW m \in Messages, WriteSucceeds(m)
    PROVE  Inv'
<1>1. /\ Looping /\ m \in writes /\ writes' = writes \ {m}
      /\ processing' = FALSE /\ fresh' = {}
      /\ UNCHANGED <<queue, closed, submitted, barrier, deferred>>
      /\ wire' = Append(wire, [msg |-> m, whole |-> TRUE])
      /\ result' = [result EXCEPT ![m] = "ok"]
      /\ stack' = Push(Callback, Push(ThenPump, stack))
    BY DEF WriteSucceeds, ReturnTask, AfterSuccess
<1>2. TypeOK /\ submitted \in Nat
    BY TypeFacts DEF Inv
<1>3. /\ stack' \in Seq(Frames) /\ StackInv(stack') /\ Has(stack', ThenPump)
      /\ \A k \in Messages : ~Listed(stack', k) /\ ~Listed(stack, k)
      /\ ~Has(stack, ThenFailPending)
      /\ m \in 1..submitted /\ result[m] = "none" /\ ~Has(queue, m)
      /\ writes' = {}
    BY <1>1, WriteEnds
<1>7. /\ wire' \in Seq([msg : Messages, whole : BOOLEAN])
      /\ Len(wire') <= submitted /\ Len(wire) \in Nat
      /\ Len(wire') = Len(wire) + 1
      /\ \A i \in 1..Len(wire) : wire'[i] = wire[i]
      /\ wire'[Len(wire')] = [msg |-> m, whole |-> TRUE]
      /\ \A i \in 1..Len(wire') :
            /\ i <= wire'[i].msg
            /\ wire'[i].msg <= submitted
            /\ \A k \in Messages : Has(queue, k) => wire'[i].msg < k
      /\ \A i, j \in 1..Len(wire') : i < j => wire'[i].msg < wire'[j].msg
    BY <1>1, WireGrows
<1>8. TypeOK'
    BY <1>1, <1>2, <1>3, <1>7 DEF TypeOK, Frames
<1>9. SingleWriter' /\ NeverForgotten'
    BY <1>1, <1>3 DEF SingleWriter, NeverForgotten, Has
<1>10. QueueInv(queue, submitted)'
    BY <1>1, <1>3, <1>7 DEF Inv, QueueInv
<1>11. PlacesInv(queue, stack, submitted)'
    BY <1>1, <1>2, <1>3 DEF Inv, PlacesInv, TypeOK
<1>12. WireInv'
  <2>1. \A k \in Messages : result'[k] = "ok" => result[k] = "ok" \/ k = m
    BY <1>1, <1>2 DEF TypeOK
  <2>2. Len(wire') \in 1..Len(wire')
    BY <1>7
  <2>3. \A k \in Messages : result'[k] = "ok" =>
            \E i \in 1..Len(wire') : wire'[i] = [msg |-> k, whole |-> TRUE]
    <3>. SUFFICES ASSUME NEW k \in Messages, result'[k] = "ok"
                  PROVE  \E i \in 1..Len(wire') :
                            wire'[i] = [msg |-> k, whole |-> TRUE]
        OBVIOUS
    <3>1. CASE k = m
        BY <1>7, <2>2, <3>1
    <3>2. CASE result[k] = "ok"
      <4>1. PICK i \in 1..Len(wire) : wire[i] = [msg |-> k, whole |-> TRUE]
        BY <3>2 DEF Inv, WireInv, WireInOrder
      <4>2. i \in 1..Len(wire') /\ wire'[i] = wire[i]
        BY <1>7
      <4>. QED
        BY <4>1, <4>2
    <3>. QED
        BY <2>1, <3>1, <3>2
  <2>. QED
    BY <1>1, <1>3, <1>7, <2>3 DEF WireInv, WireInOrder
<1>13. BarrierInv(queue, stack)' /\ StackInv(stack)' /\ barrier' <= submitted'
    BY <1>1, <1>3 DEF Inv, BarrierInv, StackInv
<1>. QED
    BY <1>8, <1>9, <1>10, <1>11, <1>12, <1>13 DEF Inv

\* A failed write leaves the wire as it is or cuts a message short; what
\* waits is left to fail_pending.
LEMMA WriteFailsStep ==
    ASSUME Inv, NEW m \in Messages, WriteFails(m)
    PROVE  Inv'
<1>1. /\ Looping /\ m \in writes /\ writes' = writes \ {m}
      /\ processing' = FALSE /\ fresh' = {} /\ barrier' = submitted
      /\ UNCHANGED <<queue, closed, submitted, deferred>>
      /\ result' = [result EXCEPT ![m] = "failed"]
      /\ stack' = Push(Callback, Push(ThenFailPending, stack))
    BY DEF WriteFails, ReturnTask, AfterFailure, FailureResult
<1>2. TypeOK /\ submitted \in Nat
    BY TypeFacts DEF Inv
<1>3. /\ stack' \in Seq(Frames) /\ StackInv(stack')
      /\ Has(stack', ThenFailPending)
      /\ \A k \in Messages : ~Listed(stack', k) /\ ~Listed(stack, k)
      /\ m \in 1..submitted /\ result[m] = "none" /\ ~Has(queue, m)
      /\ writes' = {}
    BY <1>1, WriteEnds
<1>4. \A k \in Messages : result'[k] = "ok" => result[k] = "ok"
    BY <1>1, <1>2 DEF TypeOK
<1>5. /\ wire' \in Seq([msg : Messages, whole : BOOLEAN])
      /\ Len(wire') <= submitted
      /\ \A i \in 1..Len(wire') :
            /\ i <= wire'[i].msg
            /\ wire'[i].msg <= submitted
            /\ \A k \in Messages : Has(queue, k) => wire'[i].msg < k
      /\ WireInOrder'
  <2>1. CASE wire' = wire
    BY <1>2, <1>4, <2>1 DEF Inv, TypeOK, WireInv, WireInOrder, QueueInv
  <2>2. CASE \E whole \in BOOLEAN :
                wire' = Append(wire, [msg |-> m, whole |-> whole])
    <3>. PICK whole \in BOOLEAN :
             wire' = Append(wire, [msg |-> m, whole |-> whole])
        BY <2>2
    <3>1. /\ wire' \in Seq([msg : Messages, whole : BOOLEAN])
          /\ Len(wire') <= submitted /\ Len(wire) \in Nat
          /\ Len(wire') = Len(wire) + 1
          /\ \A i \in 1..Len(wire) : wire'[i] = wire[i]
          /\ \A i \in 1..Len(wire') :
                /\ i <= wire'[i].msg
                /\ wire'[i].msg <= submitted
                /\ \A k \in Messages : Has(queue, k) => wire'[i].msg < k
          /\ \A i, j \in 1..Len(wire') : i < j => wire'[i].msg < wire'[j].msg
        BY <1>1, WireGrows
    <3>2. \A k \in Messages : result'[k] = "ok" =>
            \E i \in 1..Len(wire') : wire'[i] = [msg |-> k, whole |-> TRUE]
      <4>. SUFFICES ASSUME NEW k \in Messages, result'[k] = "ok"
                    PROVE  \E i \in 1..Len(wire') :
                              wire'[i] = [msg |-> k, whole |-> TRUE]
        OBVIOUS
      <4>1. PICK i \in 1..Len(wire) : wire[i] = [msg |-> k, whole |-> TRUE]
        BY <1>4 DEF Inv, WireInv, WireInOrder
      <4>2. i \in 1..Len(wire') /\ wire'[i] = wire[i]
        BY <3>1
      <4>. QED
        BY <4>1, <4>2
    <3>. QED
        BY <3>1, <3>2 DEF WireInOrder
  <2>. QED
    BY <2>1, <2>2 DEF WriteFails
<1>6. TypeOK'
    BY <1>1, <1>2, <1>3, <1>5 DEF TypeOK, Frames
<1>7. SingleWriter' /\ NeverForgotten'
    BY <1>1, <1>3 DEF SingleWriter, NeverForgotten, Has
<1>8. QueueInv(queue, submitted)'
    BY <1>1, <1>3, <1>5 DEF Inv, QueueInv
<1>9. PlacesInv(queue, stack, submitted)'
    BY <1>1, <1>2, <1>3 DEF Inv, PlacesInv, TypeOK
<1>10. WireInv'
    BY <1>1, <1>3, <1>5 DEF WireInv
<1>11. BarrierInv(queue, stack)' /\ StackInv(stack)' /\ barrier' <= submitted'
    BY <1>1, <1>2, <1>3 DEF BarrierInv, StackInv
<1>. QED
    BY <1>6, <1>7, <1>8, <1>9, <1>10, <1>11 DEF Inv

\* A callback returns to what is under it.
LEMMA CallbackReturnsStep == Inv /\ CallbackReturns => Inv'
<1>. SUFFICES ASSUME Inv, CallbackReturns PROVE Inv'
    OBVIOUS
<1>. DEFINE s == Tail(stack)
<1>1. /\ stack # <<>> /\ stack[1].kind = "callback" /\ stack' = s
      /\ UNCHANGED <<streamVars, submitted, result, deferred, fresh, lowerVars>>
    BY DEF CallbackReturns, Running, Looping
<1>2. stack \in Seq(Frames) /\ StackInv(stack)
    BY TypeFacts DEF Inv
<1>3. /\ s \in Seq(Frames) /\ StackInv(s) /\ Head(stack) = Callback
      /\ stack = Push(Head(stack), s)
  <2>1. /\ s \in Seq(Frames) /\ StackInv(s) /\ stack = Push(Head(stack), s)
        /\ Head(stack) = stack[1] /\ Head(stack) \in Frames
    BY <1>1, <1>2, PopFacts
  <2>. QED
    BY <1>1, <2>1 DEF Frames, Callback, ThenPump, ThenFailPending
<1>4. /\ \A m \in Messages : Listed(stack, m) <=> Listed(s, m)
      /\ \A g \in {ThenPump, ThenFailPending} : Has(stack, g) <=> Has(s, g)
    BY <1>3, CallbackFacts
<1>. USE <1>1 DEF streamVars, lowerVars
<1>5. TypeOK'
    BY <1>3 DEF Inv, TypeOK, Frames
<1>6. SingleWriter' /\ NeverForgotten'
    BY <1>4 DEF Inv, SingleWriter, NeverForgotten, Has
<1>7. QueueInv(queue, submitted)' /\ WireInv' /\ barrier' <= submitted'
    BY DEF Inv, QueueInv, WireInv, WireInOrder
<1>8. PlacesInv(queue, stack, submitted)' /\ BarrierInv(queue, stack)'
    BY <1>4 DEF Inv, PlacesInv, BarrierInv
<1>9. StackInv(stack)'
    BY <1>3 DEF StackInv
<1>. QED
    BY <1>5, <1>6, <1>7, <1>8, <1>9 DEF Inv

\* The frame "pump" is the last one: pump runs over an empty stack.
LEMMA PumpAfterWriteStep == Inv /\ PumpAfterWrite => Inv'
<1>. SUFFICES ASSUME Inv, PumpAfterWrite PROVE Inv'
    OBVIOUS
<1>1. /\ stack # <<>> /\ stack[1].kind = "pump"
      /\ Pump(queue, Tail(stack), fresh)
      /\ UNCHANGED <<closed, submitted, fresh, wire, barrier>>
    BY DEF PumpAfterWrite, Running, Looping
<1>2. /\ stack \in Seq(Frames) /\ StackInv(stack) /\ TypeOK /\ SingleWriter
      /\ WireInv /\ queue \in Seq(Messages)
      /\ submitted \in submitted..MaxMessages
    BY TypeFacts, MaxMessagesAssumption DEF Inv, TypeOK
<1>3. /\ Tail(stack) \in Seq(Frames) /\ StackInv(Tail(stack))
      /\ \A m \in Messages : ~Listed(Tail(stack), m) /\ ~Listed(stack, m)
    BY <1>1, <1>2, PopLast
<1>4. ~Has(stack, ThenFailPending)
  <2>1. ThenFailPending \in Frames /\ ThenFailPending # stack[1]
    BY <1>1 DEF Frames, ThenFailPending
  <2>. QED
    BY <1>1, <1>2, <2>1, PopLast
<1>5. QueueInv(queue, submitted) /\ BarrierInv(queue, Tail(stack))
    BY <1>4 DEF Inv, BarrierInv
<1>6. PlacesInv(queue, Tail(stack), submitted)
    BY <1>3 DEF Inv, PlacesInv
<1>7. /\ queue' \in Seq(Messages) /\ stack' \in Seq(Frames)
      /\ processing' \in BOOLEAN /\ writes' \subseteq Messages
      /\ result' \in [Messages -> {"none", "ok", "failed"}]
      /\ deferred' \subseteq Messages
      /\ SingleWriter' /\ NeverForgotten' /\ StackInv(stack)'
      /\ QueueInv(queue, submitted)' /\ PlacesInv(queue, stack, submitted)'
      /\ WireInv' /\ BarrierInv(queue, stack)'
    BY <1>1, <1>2, <1>3, <1>5, <1>6, PumpStep
<1>8. TypeOK' /\ barrier' <= submitted'
    BY <1>1, <1>2, <1>7 DEF Inv, TypeOK, Frames
<1>. QED
    BY <1>7, <1>8 DEF Inv

\* fail_pending takes all that waits into its list.
LEMMA FailPendingStep == Inv /\ FailPending => Inv'
<1>. SUFFICES ASSUME Inv, FailPending PROVE Inv'
    OBVIOUS
<1>. DEFINE frame == FailList(queue)
<1>1. /\ stack # <<>> /\ stack[1].kind = "fail" /\ queue' = <<>>
      /\ stack' = Push(frame, Tail(stack))
      /\ UNCHANGED <<processing, closed, submitted, result, deferred, fresh,
                     lowerVars>>
    BY DEF FailPending, Running, Looping, Stolen
<1>2. stack \in Seq(Frames) /\ StackInv(stack) /\ queue \in Seq(Messages)
    BY TypeFacts DEF Inv
<1>3. /\ Tail(stack) = <<>> /\ Tail(stack) \in Seq(Frames)
      /\ StackInv(Tail(stack))
      /\ \A m \in Messages : ~Listed(Tail(stack), m) /\ ~Listed(stack, m)
    BY <1>1, <1>2, PopLast
<1>5. /\ frame \in Frames /\ frame.kind = "list" /\ frame.list = queue
      /\ Increasing(queue)
    BY <1>2 DEF Frames, FailList, Inv, QueueInv
<1>6. stack' \in Seq(Frames)
    BY <1>1, <1>3, <1>5, PushFacts
<1>7. StackInv(stack')
    BY <1>1, <1>3, <1>5, PushStack
<1>8. /\ \A m \in Messages : Listed(stack', m) <=> Has(queue, m)
      /\ \A m \in Messages : ~Has(queue', m) /\ ~Listed(stack, m)
  <2>2. \A m \in Messages : Listed(stack', m) <=>
            Listed(Tail(stack), m) \/ (frame.kind = "list" /\ Has(frame.list, m))
    <3>. HIDE DEF frame
    <3>. QED
        BY <1>1, <1>3, <1>5, PushFacts, Zenon
  <2>3. \A m \in Messages : Listed(stack', m) <=> Has(queue, m)
    BY <1>3, <1>5, <2>2
  <2>4. \A m \in Messages : ~Has(queue', m)
    BY <1>1 DEF Has
  <2>. QED
    BY <1>3, <2>3, <2>4
<1>. USE DEF lowerVars
<1>9. TypeOK'
  <2>1. queue' \in Seq(Messages)
    BY <1>1
  <2>. QED
    BY <1>1, <1>6, <2>1 DEF Inv, TypeOK, Frames
<1>10. SingleWriter' /\ NeverForgotten'
    BY <1>1 DEF Inv, SingleWriter, NeverForgotten
<1>11. QueueInv(queue, submitted)'
    BY <1>1 DEF QueueInv, Increasing, Has
<1>12. PlacesInv(queue, stack, submitted)'
    BY <1>1, <1>8 DEF Inv, PlacesInv
<1>13. WireInv' /\ barrier' <= submitted'
    BY <1>1 DEF Inv, WireInv, WireInOrder
<1>14. BarrierInv(queue, stack)' /\ StackInv(stack)'
    BY <1>7, <1>8 DEF BarrierInv, StackInv
<1>. QED
    BY <1>9, <1>10, <1>11, <1>12, <1>13, <1>14 DEF Inv

\* fail_pending fails the oldest message of its list and keeps the rest
\* under the callback of its task.
LEMMA FailNextStep == Inv /\ FailNext => Inv'
<1>. SUFFICES ASSUME Inv, FailNext PROVE Inv'
    OBVIOUS
<1>. DEFINE list == Head(stack).list
            s == Tail(stack)
<1>1. /\ stack # <<>> /\ stack[1].kind = "list"
      /\ UNCHANGED <<streamVars, submitted, fresh, lowerVars>>
    BY DEF FailNext, Running, Looping
<1>2. /\ stack \in Seq(Frames) /\ StackInv(stack) /\ queue \in Seq(Messages)
      /\ TypeOK
    BY TypeFacts DEF Inv
<1>3. /\ s = <<>> /\ s \in Seq(Frames) /\ StackInv(s)
      /\ list \in Seq(Messages) /\ Increasing(list)
      /\ \A m \in Messages : Listed(stack, m) <=> Has(list, m)
      /\ \A m \in Messages : ~Listed(s, m)
  <2>1. Head(stack) = stack[1] /\ s = <<>> /\ s \in Seq(Frames) /\ StackInv(s)
    BY <1>1, <1>2, PopLast
  <2>2. list \in Seq(Messages) /\ Increasing(list)
    BY <1>1, <1>2, <2>1, PopFacts
  <2>. QED
    BY <1>1, <1>2, <2>1, <2>2, PopLast
<1>4. \A g \in {ThenPump, ThenFailPending} : ~Has(stack, g)
  <2>1. ASSUME NEW g \in {ThenPump, ThenFailPending}
        PROVE  g \in Frames /\ g # stack[1]
    BY <1>1 DEF Frames, ThenPump, ThenFailPending
  <2>. QED
    BY <1>1, <1>2, <2>1, PopLast
<1>. USE <1>1 DEF streamVars, lowerVars
<1>5. /\ SingleWriter' /\ NeverForgotten' /\ QueueInv(queue, submitted)'
      /\ barrier' <= submitted'
    BY <1>4 DEF Inv, SingleWriter, NeverForgotten, QueueInv, Has
<1>6. \A m \in Messages : Has(queue', m) => m > barrier'
    BY <1>4 DEF Inv, BarrierInv
<1>7. CASE list = <<>> /\ stack' = s /\ UNCHANGED <<result, deferred>>
  <2>1. TypeOK' /\ WireInv' /\ StackInv(stack)'
    BY <1>2, <1>3, <1>7
    DEF Inv, TypeOK, WireInv, WireInOrder, StackInv, Frames
  <2>2. \A m \in Messages : ~Listed(stack, m) /\ ~Listed(stack', m)
    BY <1>3, <1>7 DEF Has
  <2>3. PlacesInv(queue, stack, submitted)'
    BY <1>7, <2>2 DEF Inv, PlacesInv
  <2>4. BarrierInv(queue, stack)'
    BY <1>6 DEF BarrierInv
  <2>. QED
    BY <1>5, <2>1, <2>3, <2>4 DEF Inv
<1>8. CASE /\ list # <<>>
           /\ ReturnTask(Head(list), "failed", Push(FailList(Tail(list)), s),
                         fresh)
  <2>. DEFINE m == Head(list)
              frame == FailList(Tail(list))
              t == Push(frame, s)
  <2>1. /\ m \in Messages /\ Tail(list) \in Seq(Messages)
        /\ Increasing(Tail(list)) /\ Has(list, m)
        /\ \A k \in Messages : Has(Tail(list), k) <=> Has(list, k) /\ k # m
    BY <1>3, <1>8, TailFacts
  <2>2. frame \in Frames /\ frame.kind = "list" /\ frame.list = Tail(list)
    BY <2>1 DEF Frames, FailList
  <2>3. t \in Seq(Frames) /\ StackInv(t)
    <3>1. t \in Seq(Frames)
        BY <1>3, <2>2, PushFacts, Zenon
    <3>2. StackInv(t)
        BY <1>3, <2>1, <2>2, PushStack
    <3>. QED
        BY <3>1, <3>2
  <2>4. \A k \in Messages : Listed(t, k) <=> Has(list, k) /\ k # m
    <3>1. \A k \in Messages :
             Listed(t, k) <=> Listed(s, k) \/ (frame.kind = "list"
                                               /\ Has(frame.list, k))
      <4>. HIDE DEF frame
      <4>. QED
        BY <1>3, <2>2, PushFacts, Zenon
    <3>. QED
        BY <1>3, <2>1, <2>2, <3>1
  <2>5. /\ result' = [result EXCEPT ![m] = "failed"]
        /\ deferred' \subseteq Messages
        /\ stack' = t \/ stack' = Push(Callback, t)
    BY <1>2, <1>8, <2>1 DEF ReturnTask, TypeOK
  <2>6. /\ stack' \in Seq(Frames) /\ StackInv(stack')
        /\ \A k \in Messages : Listed(stack', k) <=> Has(list, k) /\ k # m
    <3>. HIDE DEF t
    <3>. QED
        BY <2>3, <2>4, <2>5, CallbackFacts
  <2>7. m \in 1..submitted /\ result[m] = "none"
    BY <1>3, <2>1 DEF Inv, PlacesInv
  <2>8. TypeOK'
    BY <1>2, <2>1, <2>5, <2>6 DEF TypeOK, Frames
  <2>9. PlacesInv(queue, stack, submitted)'
    BY <1>2, <1>3, <2>1, <2>5, <2>6, <2>7 DEF Inv, PlacesInv, TypeOK
  <2>10. WireInv'
    <3>1. \A k \in Messages : result'[k] = "ok" => result[k] = "ok"
        BY <1>2, <2>1, <2>5 DEF TypeOK
    <3>. QED
        BY <3>1 DEF Inv, WireInv, WireInOrder
  <2>11. BarrierInv(queue, stack)' /\ StackInv(stack)'
    BY <1>6, <2>6 DEF BarrierInv, StackInv
  <2>. QED
    BY <1>5, <2>8, <2>9, <2>10, <2>11 DEF Inv
<1>. QED
    BY <1>7, <1>8 DEF FailNext

\* The idle source of a task runs its callback from the main loop.
LEMMA IdleCallbackStep ==
    ASSUME Inv, NEW m \in Messages, IdleCallback(m)
    PROVE  Inv'
<1>1. /\ stack = <<>> /\ stack' = <<Callback>>
      /\ deferred' = deferred \ {m} /\ fresh' \in {fresh, {}}
      /\ UNCHANGED <<streamVars, submitted, result, lowerVars>>
    BY DEF IdleCallback, Looping
<1>2. stack' = Push(Callback, stack)
    BY <1>1 DEF Push
<1>3. /\ stack' \in Seq(Frames) /\ StackInv(stack')
      /\ \A k \in Messages : Listed(stack', k) <=> Listed(stack, k)
      /\ \A g \in {ThenPump, ThenFailPending} : Has(stack', g) <=> Has(stack, g)
    BY <1>2, TypeFacts, CallbackFacts DEF Inv
<1>. USE <1>1 DEF streamVars, lowerVars
<1>4. TypeOK' /\ StackInv(stack)'
    BY <1>3 DEF Inv, TypeOK, StackInv, Frames
<1>5. SingleWriter' /\ NeverForgotten'
    BY <1>3 DEF Inv, SingleWriter, NeverForgotten, Has
<1>6. QueueInv(queue, submitted)' /\ WireInv' /\ barrier' <= submitted'
    BY DEF Inv, QueueInv, WireInv, WireInOrder
<1>7. PlacesInv(queue, stack, submitted)' /\ BarrierInv(queue, stack)'
    BY <1>3 DEF Inv, PlacesInv, BarrierInv
<1>. QED
    BY <1>4, <1>5, <1>6, <1>7 DEF Inv

-----------------------------------------------------------------------------
(* Safety.                                                                 *)

LEMMA InvInit == Init => Inv
<1>. SUFFICES ASSUME Init PROVE Inv
    OBVIOUS
<1>. USE DEF Init
<1>1. TypeOK
  <2>1. queue \in Seq(Messages) /\ wire \in Seq([msg : Messages, whole : BOOLEAN])
    OBVIOUS
  <2>2. stack \in Seq(Frames) /\ Len(wire) = 0
    OBVIOUS
  <2>3. /\ submitted \in 0..MaxMessages /\ barrier \in 0..MaxMessages
    BY MaxMessagesAssumption
  <2>4. /\ result \in [Messages -> {"none", "ok", "failed"}]
        /\ deferred \subseteq Messages /\ fresh \subseteq Messages
        /\ writes \subseteq Messages
        /\ processing \in BOOLEAN /\ closed \in BOOLEAN
    OBVIOUS
  <2>5. Len(wire) <= submitted
    BY <2>2
  <2>. HIDE DEF Init
  <2>. QED
    BY <2>1, <2>2, <2>3, <2>4, <2>5 DEF TypeOK, Frames
<1>2. SingleWriter /\ NeverForgotten /\ WireInv /\ barrier <= submitted
    BY DEF SingleWriter, NeverForgotten, WireInv, WireInOrder
<1>3. \A m \in Messages : ~Has(queue, m) /\ ~Listed(stack, m)
    BY DEF Has, Listed
<1>4. StackInv(stack)
    BY DEF StackInv
<1>5. QueueInv(queue, submitted)
    BY <1>3 DEF QueueInv, Increasing
<1>6. PlacesInv(queue, stack, submitted) /\ BarrierInv(queue, stack)
    BY <1>3 DEF PlacesInv, BarrierInv, Messages
<1>. QED
    BY <1>1, <1>2, <1>4, <1>5, <1>6 DEF Inv

LEMMA InvStep == Inv /\ [Next]_vars => Inv'
<1>. SUFFICES ASSUME Inv, [Next]_vars PROVE Inv'
    OBVIOUS
<1>1. CASE CloseStream
    BY <1>1
    DEF CloseStream, taskVars, lowerVars, Inv, TypeOK, SingleWriter,
        NeverForgotten, StackInv, QueueInv, PlacesInv, WireInv, WireInOrder,
        BarrierInv
<1>2. CASE UNCHANGED vars
    BY <1>2
    DEF vars, streamVars, taskVars, lowerVars, Inv, TypeOK, SingleWriter,
        NeverForgotten, StackInv, QueueInv, PlacesInv, WireInv, WireInOrder,
        BarrierInv
<1>. QED
    BY <1>1, <1>2, WriteMessageStep, WriteSucceedsStep, WriteFailsStep,
       IdleCallbackStep, CallbackReturnsStep, PumpAfterWriteStep,
       FailPendingStep, FailNextStep
    DEF Next

\* Inv is an inductive invariant.
THEOREM Invariance == Spec => []Inv
BY InvInit, InvStep, PTL DEF Spec

\* Every state of the stream is well-typed.
THEOREM TypeCorrect == Spec => []TypeOK
<1>1. Inv => TypeOK
    BY DEF Inv
<1>. QED
    BY <1>1, Invariance, PTL

\* Never two writes under way, and processing tells whether there is one.
THEOREM SingleWriterHolds == Spec => []SingleWriter
<1>1. Inv => SingleWriter
    BY DEF Inv
<1>. QED
    BY <1>1, Invariance, PTL

\* What waits is being worked on.
THEOREM NeverForgottenHolds == Spec => []NeverForgotten
<1>1. Inv => NeverForgotten
    BY DEF Inv
<1>. QED
    BY <1>1, Invariance, PTL

\* A message without result is in one place, one with a result in none.
THEOREM InOnePlaceHolds == Spec => []InOnePlace
<1>1. Inv => InOnePlace
  <2>. SUFFICES ASSUME Inv, NEW m \in Messages
                PROVE  LET Here == {InQueue(m), m \in writes, InList(m)} IN
                       IF m \in Submitted /\ result[m] = "none"
                       THEN /\ TRUE \in Here
                            /\ ~(InQueue(m) /\ m \in writes)
                            /\ ~(InQueue(m) /\ InList(m))
                            /\ ~(InList(m) /\ m \in writes)
                       ELSE Here = {FALSE}
    BY DEF InOnePlace
  <2>1. (InQueue(m) <=> Has(queue, m)) /\ (InList(m) <=> Listed(stack, m))
    BY DEF InQueue, InList, Has, Listed
  <2>2. /\ InQueue(m) \in BOOLEAN /\ InList(m) \in BOOLEAN
        /\ (m \in writes) \in BOOLEAN
    BY DEF InQueue, InList
  <2>3. IF m \in Submitted /\ result[m] = "none"
        THEN /\ InQueue(m) \/ m \in writes \/ InList(m)
             /\ ~(InQueue(m) /\ m \in writes)
             /\ ~(InQueue(m) /\ InList(m))
             /\ ~(InList(m) /\ m \in writes)
        ELSE ~InQueue(m) /\ m \notin writes /\ ~InList(m)
    BY <2>1 DEF Inv, PlacesInv, Submitted
  <2>. QED
    BY <2>2, <2>3
<1>. QED
    BY <1>1, Invariance, PTL

\* The wire is in order and has all of what succeeded.
THEOREM WireInOrderHolds == Spec => []WireInOrder
<1>1. Inv => WireInOrder
    BY DEF Inv, WireInv
<1>. QED
    BY <1>1, Invariance, PTL

\* pump starts only a write of the queue that it is given.
LEMMA PumpWrites ==
    ASSUME NEW q \in Seq(Messages), NEW s, NEW f, Pump(q, s, f)
    PROVE  \A m \in writes' \ writes : Has(q, m)
<1>1. q # <<>> => Has(q, Head(q))
    BY EmptySeq DEF Has
<1>. QED
    BY <1>1 DEF Pump, StartWrite

\* Nothing that was submitted before a failure is written after it, except
\* by a callback that runs before fail_pending.
THEOREM FailureIsBarrierHolds == Spec => FailureIsBarrier
<1>. DEFINE Behind == \A m \in writes' \ writes :
                         \/ m > barrier
                         \/ \E i \in 1..Len(stack) : stack[i] = ThenFailPending
<1>1. Inv /\ [Next]_vars => Behind
  <2>. SUFFICES ASSUME Inv, [Next]_vars PROVE Behind
    OBVIOUS
  <2>1. queue \in Seq(Messages) /\ submitted \in Nat
    BY TypeFacts DEF Inv
  <2>2. (\A m \in Messages : Has(queue, m) => m > barrier)
            \/ \E i \in 1..Len(stack) : stack[i] = ThenFailPending
    BY DEF Inv, BarrierInv, Has
  <2>3. ASSUME WriteMessage PROVE Behind
    <3>. DEFINE n == submitted + 1
                q == Append(queue, n)
    <3>1. n \in Messages /\ n > barrier
        BY <2>1, <2>3, MaxMessagesAssumption
        DEF WriteMessage, Messages, Inv, TypeOK
    <3>2. PICK f : Pump(q, stack, f)
        BY <2>3 DEF WriteMessage
    <3>3. \A m \in Messages : Has(queue, m) => m < n
        BY <2>1 DEF Inv, QueueInv, Messages
    <3>4. q \in Seq(Messages) /\ \A m \in Messages : Has(q, m) => Has(queue, m) \/ m = n
        BY <2>1, <3>1, <3>3, AppendFacts DEF Inv, QueueInv
    <3>5. \A m \in writes' \ writes : Has(q, m)
        BY <3>2, <3>4, PumpWrites
    <3>6. writes' \subseteq Messages
        BY <2>3, WriteMessageStep DEF Inv, TypeOK
    <3>. QED
        BY <2>2, <3>1, <3>4, <3>5, <3>6
  <2>4. ASSUME PumpAfterWrite PROVE Behind
    <3>1. \A m \in writes' \ writes : Has(queue, m)
        BY <2>1, <2>4, PumpWrites DEF PumpAfterWrite
    <3>2. writes' \subseteq Messages
        BY <2>4, PumpAfterWriteStep DEF Inv, TypeOK
    <3>. QED
        BY <2>2, <3>1, <3>2
  <2>5. ASSUME ~WriteMessage, ~PumpAfterWrite PROVE writes' \subseteq writes
    BY <2>5
    DEF Next, CloseStream, WriteSucceeds, WriteFails, IdleCallback,
        CallbackReturns, FailPending, FailNext, vars, lowerVars
  <2>. QED
    BY <2>3, <2>4, <2>5
<1>. QED
    BY <1>1, Invariance, PTL DEF Spec, FailureIsBarrier

-----------------------------------------------------------------------------
(* The stream implements WriteQueue.tla.                                   *)

\* A step that returns the task of one message that had not ended.
LEMMA StageEnds ==
    ASSUME Inv, NEW m \in Messages, m \in Submitted, result[m] = "none",
           NEW r \in {"ok", "failed"}, result' = [result EXCEPT ![m] = r],
           submitted' = submitted
    PROVE  /\ Stage(m) = "pending"
           /\ [k \in Messages |-> Stage(k)]' =
                  [[k \in Messages |-> Stage(k)]
                      EXCEPT ![m] = IF r = "ok" THEN "sent" ELSE "failed"]
<1>1. result \in [Messages -> {"none", "ok", "failed"}]
    BY DEF Inv, TypeOK
<1>2. Stage(m) = "pending"
    BY DEF Stage
<1>3. Stage(m)' = IF r = "ok" THEN "sent" ELSE "failed"
  <2>1. result'[m] = r
    BY <1>1
  <2>. QED
    BY <2>1 DEF Stage
<1>4. \A k \in Messages \ {m} : Stage(k)' = Stage(k)
    BY <1>1 DEF Stage, Submitted
<1>. QED
    BY <1>2, <1>3, <1>4

LEMMA RefinementInit == Init => Promise!Init
BY DEF Init, Promise!Init, Promise!Messages, Messages, Stage, Submitted

\* pump over a queue of messages without result fails at most one.
LEMMA PumpFails ==
    ASSUME NEW q, NEW s, NEW f, Pump(q, s, f)
    PROVE  \/ UNCHANGED result
           \/ q # <<>> /\ result' = [result EXCEPT ![Head(q)] = "failed"]
BY DEF Pump, ReturnTask

\* write_message_async submits the next message; a closed stream may fail
\* one that waits.
LEMMA SubmitStep == Inv /\ WriteMessage => Promise!Next
<1>. SUFFICES ASSUME Inv, WriteMessage PROVE Promise!Next
    OBVIOUS
<1>0. PICK n : n = submitted + 1
    OBVIOUS
<1>. DEFINE q == Append(queue, n)
            st == [k \in Messages |-> Stage(k)]
<1>1. /\ n \in Messages /\ submitted' = n /\ queue \in Seq(Messages)
      /\ submitted \in Nat /\ result \in [Messages -> {"none", "ok", "failed"}]
    BY <1>0, TypeFacts, MaxMessagesAssumption
    DEF WriteMessage, Messages, Inv, TypeOK
<1>2. PICK f : Pump(q, stack, f)
    BY <1>0 DEF WriteMessage
<1>3. \A m \in Messages : Has(queue, m) =>
          m < n /\ m \in Submitted /\ result[m] = "none"
    BY <1>0, <1>1 DEF Inv, QueueInv, PlacesInv, Messages, Submitted
<1>4. /\ q \in Seq(Messages) /\ q # <<>> /\ Increasing(q)
      /\ \A m \in Messages : Has(q, m) <=> Has(queue, m) \/ m = n
    BY <1>1, <1>3, AppendFacts DEF Inv, QueueInv
<1>5. Head(q) \in Messages /\ (Has(queue, Head(q)) \/ Head(q) = n)
    BY <1>4, TailFacts
<1>6. result[n] = "none" /\ n \notin Submitted
    BY <1>0, <1>1 DEF Inv, PlacesInv, Submitted
<1>7. Stage(n) = "none"
    BY <1>6 DEF Stage
<1>8. \A k \in 1..(n - 1) : k \in Messages /\ k \in Submitted
    BY <1>0, <1>1, MaxMessagesAssumption DEF Submitted, Messages
<1>9. \A k \in 1..(n - 1) : Stage(k) # "none"
    BY <1>0, <1>1, <1>8 DEF Stage
<1>10. /\ n \in Submitted'
       /\ \A k \in Messages \ {n} : k \in Submitted' <=> k \in Submitted
    BY <1>0, <1>1 DEF Submitted, Messages
<1>. HIDE DEF q
<1>11. CASE UNCHANGED result
  <2>1. Stage(n)' = "pending"
    BY <1>6, <1>10, <1>11 DEF Stage
  <2>2. \A k \in Messages \ {n} : Stage(k)' = Stage(k)
    BY <1>10, <1>11 DEF Stage
  <2>3. st' = [st EXCEPT ![n] = "pending"]
    BY <1>1, <2>1, <2>2
  <2>. HIDE DEF st
  <2>4. Promise!Submit(n)
    <3>1. st[n] = "none" /\ \A k \in 1..(n - 1) : st[k] # "none"
        BY <1>1, <1>7, <1>8, <1>9 DEF st
    <3>. QED
        BY <2>3, <3>1 DEF Promise!Submit, st
  <2>. QED
    BY <1>1, <2>4 DEF Promise!Next, Promise!Messages, Messages
<1>12. CASE result' = [result EXCEPT ![Head(q)] = "failed"]
  <2>. PICK h : h = Head(q)
    OBVIOUS
  <2>0. h \in Messages /\ (Has(queue, h) \/ h = n)
        /\ result' = [result EXCEPT ![h] = "failed"]
    BY <1>5, <1>12
  <2>1. h \in 1..n /\ (Stage(h) = "pending" \/ h = n)
    <3>1. h \in 1..n
        BY <1>1, <1>3, <2>0 DEF Messages
    <3>2. Has(queue, h) => Stage(h) = "pending"
        BY <1>3, <2>0 DEF Stage
    <3>. QED
        BY <2>0, <3>1, <3>2
  <2>2. Stage(h)' = "failed"
    <3>1. result'[h] = "failed"
        BY <1>1, <2>0
    <3>. QED
        BY <3>1 DEF Stage
  <2>3. \A k \in Messages \ {h} : result'[k] = result[k]
    BY <1>1, <2>0
  <2>4. n # h => Stage(n)' = "pending"
    <3>1. n # h => result'[n] = "none"
        BY <1>1, <1>6, <2>3
    <3>. QED
        BY <1>10, <3>1 DEF Stage
  <2>5. \A k \in Messages \ {n, h} : Stage(k)' = Stage(k)
    BY <1>10, <2>3 DEF Stage
  <2>6. st' = [st EXCEPT ![n] = "pending", ![h] = "failed"]
    BY <1>1, <2>0, <2>2, <2>4, <2>5
  <2>7. Promise!Submit(n)
    <3>. HIDE DEF st
    <3>1. st[n] = "none" /\ \A k \in 1..(n - 1) : st[k] # "none"
        BY <1>1, <1>7, <1>8, <1>9 DEF st
    <3>2. st[h] = "pending" \/ h = n
        BY <2>0, <2>1 DEF st
    <3>. QED
        BY <2>1, <2>6, <3>1, <3>2 DEF Promise!Submit, st
  <2>. QED
    BY <1>1, <2>7 DEF Promise!Next, Promise!Messages, Messages
<1>. QED
    BY <1>2, <1>4, <1>11, <1>12, PumpFails

\* A message that is sent was the oldest one without result.
LEMMA SendStep ==
    ASSUME Inv, NEW m \in Messages, WriteSucceeds(m)
    PROVE  Promise!Next
<1>1. /\ Looping /\ m \in writes /\ submitted' = submitted
      /\ result' = [result EXCEPT ![m] = "ok"]
    BY DEF WriteSucceeds, ReturnTask
<1>2. m \in Submitted /\ result[m] = "none"
    BY <1>1 DEF Inv, PlacesInv, Submitted
<1>3. ASSUME NEW k \in 1..(m - 1) PROVE Stage(k) # "pending"
  <2>1. k \in Messages /\ k < m
    BY MaxMessagesAssumption DEF Messages
  <2>2. ~Has(queue, k)
    BY <1>1, <2>1 DEF Inv, QueueInv, Messages
  <2>3. k \notin writes
    BY <1>1, <2>1 DEF Inv, SingleWriter, Messages
  <2>4. ~Listed(stack, k)
    BY <1>1 DEF Looping, Listed
  <2>5. ~(k \in 1..submitted /\ result[k] = "none")
    BY <2>1, <2>2, <2>3, <2>4 DEF Inv, PlacesInv
  <2>. QED
    BY <2>5 DEF Stage, Submitted
<1>4. \A k \in 1..(m - 1) : k \in Messages
    BY MaxMessagesAssumption DEF Messages
<1>5. Promise!Send(m)
    BY <1>1, <1>2, <1>3, <1>4, StageEnds DEF Promise!Send
<1>. QED
    BY <1>5 DEF Promise!Next, Promise!Messages, Messages

\* A message without result may fail at any time.
LEMMA FailStep ==
    ASSUME Inv, NEW m \in Messages, m \in Submitted, result[m] = "none",
           result' = [result EXCEPT ![m] = "failed"], submitted' = submitted
    PROVE  Promise!Next
BY StageEnds DEF Promise!Next, Promise!Fail, Promise!Messages, Messages

LEMMA RefinementStep ==
    Inv /\ [Next]_vars => [Promise!Next]_[m \in Messages |-> Stage(m)]
<1>. SUFFICES ASSUME Inv, [Next]_vars
              PROVE  [Promise!Next]_[m \in Messages |-> Stage(m)]
    OBVIOUS
<1>1. ASSUME UNCHANGED <<submitted, result>>
      PROVE  UNCHANGED [m \in Messages |-> Stage(m)]
    BY <1>1 DEF Stage, Submitted
<1>2. CASE PumpAfterWrite
  <2>1. submitted' = submitted /\ queue \in Seq(Messages)
    BY <1>2, TypeFacts DEF PumpAfterWrite, Inv
  <2>2. CASE UNCHANGED result
    BY <1>1, <2>1, <2>2
  <2>3. CASE queue # <<>> /\ result' = [result EXCEPT ![Head(queue)] = "failed"]
    <3>1. Head(queue) \in Messages /\ Has(queue, Head(queue))
        BY <2>1, <2>3, TailFacts DEF Inv, QueueInv
    <3>2. Head(queue) \in Submitted /\ result[Head(queue)] = "none"
        BY <3>1 DEF Inv, PlacesInv, Submitted
    <3>. QED
        BY <2>1, <2>3, <3>1, <3>2, FailStep
  <2>. QED
    BY <1>2, <2>2, <2>3, PumpFails DEF PumpAfterWrite
<1>3. CASE FailNext
  <2>. DEFINE list == Head(stack).list
  <2>1. submitted' = submitted /\ stack # <<>> /\ stack[1].kind = "list"
    BY <1>3 DEF FailNext, Running, Looping
  <2>2. CASE UNCHANGED result
    BY <1>1, <2>1, <2>2
  <2>3. CASE list # <<>> /\ result' = [result EXCEPT ![Head(list)] = "failed"]
    <3>1. stack \in Seq(Frames) /\ StackInv(stack)
        BY TypeFacts DEF Inv
    <3>2. Head(stack) = stack[1]
        BY <2>1, <3>1, PopFacts
    <3>3. list \in Seq(Messages) /\ Increasing(list)
        BY <2>1, <3>1, <3>2, PopFacts
    <3>4. Head(list) \in Messages /\ Has(list, Head(list))
        BY <2>3, <3>3, TailFacts
    <3>5. Listed(stack, Head(list))
        BY <2>1, <3>1, <3>2, <3>4, PopLast
    <3>6. Head(list) \in Submitted /\ result[Head(list)] = "none"
        BY <3>4, <3>5 DEF Inv, PlacesInv, Submitted
    <3>. QED
        BY <2>1, <2>3, <3>4, <3>6, FailStep
  <2>. QED
    BY <1>3, <2>2, <2>3 DEF FailNext, ReturnTask
<1>4. ASSUME NEW m \in Messages, WriteFails(m) PROVE Promise!Next
  <2>1. m \in writes /\ submitted' = submitted
        /\ result' = [result EXCEPT ![m] = "failed"]
    BY <1>4 DEF WriteFails, ReturnTask, FailureResult
  <2>2. m \in Submitted /\ result[m] = "none"
    BY <2>1 DEF Inv, PlacesInv, Submitted
  <2>. QED
    BY <2>1, <2>2, FailStep
<1>5. ASSUME \/ CloseStream \/ CallbackReturns \/ FailPending \/ UNCHANGED vars
             \/ \E m \in Messages : IdleCallback(m)
      PROVE  UNCHANGED <<submitted, result>>
    BY <1>5
    DEF CloseStream, CallbackReturns, FailPending, IdleCallback, vars, taskVars
<1>. QED
    BY <1>1, <1>2, <1>3, <1>4, <1>5, SubmitStep, SendStep DEF Next

\* The stream implements the promise of WriteQueue.tla: every step of the
\* stream submits, sends or fails a message there, or is no step.
THEOREM Implementation == Spec => KeepsPromise
BY RefinementInit, RefinementStep, Invariance, PTL
DEF Spec, KeepsPromise, Promise!Spec
=============================================================================
