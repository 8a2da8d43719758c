------------------------- MODULE RemoteCallsProofs -------------------------
(***************************************************************************)
(* The proofs that Connection.tla implements RemoteCalls.tla, that answers *)
(* belong to the calls that get them, and that there are no deadlocks but  *)
(* the two that Connection.tla names, for any number of calls, handlers    *)
(* that reply and return FALSE, and pipes of any capacity.                 *)
(***************************************************************************)
EXTENDS ConnectionProofs

-----------------------------------------------------------------------------
(* The invariant, which comes on top of Inv of ConnectionProofs.           *)

\* All that is on its way from an end, the first of it in front.
Line(e) == pipe[Other(e)] \o queue[e]

\* A call on its way was made and has yet to be handled; an answer on its
\* way is that of a handler.
Fits(m) ==
    IF m.kind = "call"
    THEN st[m.of] # "unused" /\ serve[m.of] = "none"
    ELSE serve[m.of] = "answered"

\* No call is twice on its way.
Once(l) ==
    \A i, j \in 1..Len(l) :
        l[i].kind = "call" /\ l[j].kind = "call" /\ l[i].of = l[j].of => i = j

Sound(e) ==
    /\ \A i \in 1..Len(Line(e)) : Fits(Line(e)[i])
    /\ Once(Line(e))

LineInv == \A e \in Ends : Sound(e)

\* The calls that were made are those up to sequence; no other is handled.
MadeInv ==
    \A c \in Calls :
        /\ st[c] = "unused" <=> c[2] > sequence[Owner(c)]
        /\ st[c] = "unused" => serve[c] = "none"

PInv == MadeInv /\ LineInv

\* What the handler of a call decides on.
KindOf(c) == IF c \in Errors THEN "error" ELSE "result"

Answers(m, c) == m.kind # "call" /\ m.of = c

\* METHOD_NOT_FOUND may come behind the answer of a handler, not before it.
FirstRight(l, c) ==
    \A i \in 1..Len(l) : Answers(l[i], c) =>
        \E j \in 1..i : Answers(l[j], c) /\ l[j].kind = KindOf(c)

FirstInv ==
    \A c \in Calls :
        st[c] = "waiting" /\ Up(Owner(c)) => FirstRight(Line(Other(Owner(c))), c)

GivenInv == \A c \in Calls : st[c] = "answered" => got[c].kind = KindOf(c)

KindInv == FirstInv /\ GivenInv

-----------------------------------------------------------------------------
(* What is on its way.                                                     *)

LEMMA ConcatenationFacts ==
    ASSUME NEW S, NEW p \in Seq(S), NEW q \in Seq(S)
    PROVE  /\ p \o q \in Seq(S) /\ Len(p) \in Nat /\ Len(q) \in Nat
           /\ Len(p \o q) = Len(p) + Len(q)
           /\ \A i \in 1..Len(p) : (p \o q)[i] = p[i]
           /\ \A i \in 1..Len(q) : (p \o q)[Len(p) + i] = q[i]
           /\ \A i \in 1..Len(p \o q) :
                 i \in 1..Len(p) \/ (i > Len(p) /\ i - Len(p) \in 1..Len(q))
OBVIOUS

LEMMA LineFacts ==
    ASSUME FlowInv, NEW e \in Ends
    PROVE  /\ Line(e) \in Seq(Sent(e))
           /\ Len(pipe[Other(e)]) \in Nat /\ Len(queue[e]) \in Nat
           /\ Len(Line(e)) = Len(pipe[Other(e)]) + Len(queue[e])
           /\ \A i \in 1..Len(pipe[Other(e)]) : Line(e)[i] = pipe[Other(e)][i]
           /\ \A i \in 1..Len(queue[e]) :
                 Line(e)[Len(pipe[Other(e)]) + i] = queue[e][i]
           /\ \A i \in 1..Len(Line(e)) :
                 \/ i \in 1..Len(pipe[Other(e)])
                 \/ /\ i > Len(pipe[Other(e)])
                    /\ i - Len(pipe[Other(e)]) \in 1..Len(queue[e])
<1>1. pipe[Other(e)] \in Seq(Sent(e)) /\ queue[e] \in Seq(Sent(e))
    BY EndFacts DEF FlowInv
<1>2. PICK p \in Seq(Sent(e)), q \in Seq(Sent(e)) :
          p = pipe[Other(e)] /\ q = queue[e]
    BY <1>1
<1>3. PICK l : l = p \o q
    OBVIOUS
<1>4. Line(e) = l
    BY <1>2, <1>3 DEF Line
<1>5. /\ l \in Seq(Sent(e)) /\ Len(p) \in Nat /\ Len(q) \in Nat
      /\ Len(l) = Len(p) + Len(q)
      /\ \A i \in 1..Len(p) : l[i] = p[i]
      /\ \A i \in 1..Len(q) : l[Len(p) + i] = q[i]
      /\ \A i \in 1..Len(l) :
            i \in 1..Len(p) \/ (i > Len(p) /\ i - Len(p) \in 1..Len(q))
    BY <1>3, ConcatenationFacts
<1>. QED
    BY <1>2, <1>4, <1>5

\* What is left of a line of which no call is there twice.
LEMMA OnceKept ==
    ASSUME NEW S, NEW l \in Seq(S), NEW r \in Seq(S), NEW k \in Nat, Once(l),
           \A i \in 1..Len(r) : i + k \in 1..Len(l) /\ r[i] = l[i + k]
    PROVE  Once(r)
<1>. SUFFICES ASSUME NEW i \in 1..Len(r), NEW j \in 1..Len(r),
                     r[i].kind = "call", r[j].kind = "call", r[i].of = r[j].of
              PROVE  i = j
    BY DEF Once
<1>1. i + k \in 1..Len(l) /\ j + k \in 1..Len(l)
    OBVIOUS
<1>2. r[i] = l[i + k] /\ r[j] = l[j + k]
    OBVIOUS
<1>3. i + k = j + k
    BY <1>1, <1>2 DEF Once
<1>. QED
    BY <1>3

LEMMA OnceAppended ==
    ASSUME NEW S, NEW l \in Seq(S), NEW r \in Seq(S), Once(l),
           Len(r) = Len(l) + 1,
           \A i \in 1..Len(l) : r[i] = l[i],
           r[Len(r)].kind = "call" =>
               \A i \in 1..Len(l) :
                   l[i].kind = "call" => l[i].of # r[Len(r)].of
    PROVE  Once(r)
<1>1. Len(l) \in Nat /\ \A i \in 1..Len(r) : i \in 1..Len(l) \/ i = Len(r)
    OBVIOUS
<1>. SUFFICES ASSUME NEW i \in 1..Len(r), NEW j \in 1..Len(r),
                     r[i].kind = "call", r[j].kind = "call", r[i].of = r[j].of
              PROVE  i = j
    BY DEF Once
<1>2. CASE i \in 1..Len(l) /\ j \in 1..Len(l)
    BY <1>2 DEF Once
<1>3. CASE i = Len(r) /\ j \in 1..Len(l)
    BY <1>3
<1>4. CASE i \in 1..Len(l) /\ j = Len(r)
    BY <1>4
<1>. QED
    BY <1>1, <1>2, <1>3, <1>4

\* The line of the next state.
LEMMA NextLine ==
    ASSUME FlowInv', NEW e \in Ends
    PROVE  Line(e)' \in Seq(Sent(e)) /\ Line(e)' = pipe'[Other(e)] \o queue'[e]
<1>1. Other(e) \in Ends /\ Other(Other(e)) = e
    BY EndFacts
<1>2. pipe'[Other(e)] \in Seq(Sent(e)) /\ queue'[e] \in Seq(Sent(e))
    BY <1>1 DEF FlowInv
<1>3. PICK p \in Seq(Sent(e)), q \in Seq(Sent(e)) :
          p = pipe'[Other(e)] /\ q = queue'[e]
    BY <1>2
<1>4. Line(e)' = p \o q
    BY <1>3 DEF Line
<1>. QED
    BY <1>3, <1>4, ConcatenationFacts

\* How the stages of calls may move without a message on its way being
\* out of place.
Advance ==
    \A c \in Calls :
        /\ st[c] # "unused" => st'[c] # "unused"
        /\ serve[c] = "none" => serve'[c] = "none"
        /\ serve[c] = "answered" => serve'[c] = "answered"

LEMMA FitsKept ==
    ASSUME Advance, NEW e \in Ends, NEW m \in Sent(e), Fits(m)
    PROVE  Fits(m)'
BY SentFacts DEF Fits, Advance

\* The head of a line may leave it, or an end.
LEMMA SoundKept ==
    ASSUME FlowInv, FlowInv', NEW e \in Ends, Sound(e), Advance, NEW k \in Nat,
           NEW r, r = Line(e)',
           \A i \in 1..Len(r) : i + k \in 1..Len(Line(e)) /\ r[i] = Line(e)[i + k]
    PROVE  Sound(e)'
<1>1. PICK l : l = Line(e)
    OBVIOUS
<1>2. l \in Seq(Sent(e)) /\ r \in Seq(Sent(e))
    BY <1>1, LineFacts, NextLine
<1>3. Once(r)
    BY <1>1, <1>2, OnceKept DEF Sound
<1>4. ASSUME NEW i \in 1..Len(r) PROVE Fits(r[i])'
  <2>1. PICK m : m = r[i]
    OBVIOUS
  <2>2. m = l[i + k] /\ i + k \in 1..Len(l)
    BY <1>1, <2>1
  <2>3. m \in Sent(e) /\ Fits(m)
    BY <1>1, <1>2, <2>2, ElementOfSeq DEF Sound
  <2>4. Fits(m)'
    BY <2>3, FitsKept
  <2>. QED
    BY <2>1, <2>4
<1>. QED
    BY <1>3, <1>4 DEF Sound

\* What was on its way stays, and m comes behind it.
LEMMA LineAppended ==
    ASSUME FlowInv, FlowInv', NEW e \in Ends, NEW m \in Sent(e),
           Enqueue(e, m), UNCHANGED pipe, NEW l, l = Line(e), NEW r, r = Line(e)'
    PROVE  /\ l \in Seq(Sent(e)) /\ r \in Seq(Sent(e))
           /\ Len(l) \in Nat /\ Len(r) = Len(l) + 1
           /\ \A i \in 1..Len(l) : r[i] = l[i]
           /\ r[Len(r)] = m
           /\ \A i \in 1..Len(r) : i \in 1..Len(l) \/ i = Len(r)
<1>1. PICK p \in Seq(Sent(e)), q \in Seq(Sent(e)) :
          p = pipe[Other(e)] /\ q = queue[e]
    BY EndFacts DEF FlowInv
<1>2. pipe'[Other(e)] = p /\ queue'[e] = Append(q, m)
    BY <1>1 DEF Enqueue, FlowInv
<1>3. l = p \o q /\ r = p \o Append(q, m)
    BY <1>1, <1>2, NextLine DEF Line
<1>4. r = Append(l, m)
    BY <1>3
<1>5. l \in Seq(Sent(e))
    BY <1>3, ConcatenationFacts
<1>. HIDE <1>3
<1>6. /\ r \in Seq(Sent(e)) /\ Len(l) \in Nat /\ Len(r) = Len(l) + 1
      /\ \A i \in 1..Len(l) : r[i] = l[i]
      /\ r[Len(r)] = m
    BY <1>4, <1>5, AppendFacts
<1>. QED
    BY <1>5, <1>6

LEMMA SoundAppended ==
    ASSUME FlowInv, FlowInv', NEW e \in Ends, Sound(e), Advance,
           NEW m \in Sent(e), Enqueue(e, m), UNCHANGED pipe, Fits(m)',
           m.kind = "call" =>
               \A i \in 1..Len(Line(e)) :
                   Line(e)[i].kind = "call" => Line(e)[i].of # m.of
    PROVE  Sound(e)'
<1>1. PICK l : l = Line(e)
    OBVIOUS
<1>2. PICK r : r = Line(e)'
    OBVIOUS
<1>3. /\ l \in Seq(Sent(e)) /\ r \in Seq(Sent(e))
      /\ Len(l) \in Nat /\ Len(r) = Len(l) + 1
      /\ \A i \in 1..Len(l) : r[i] = l[i]
      /\ r[Len(r)] = m
      /\ \A i \in 1..Len(r) : i \in 1..Len(l) \/ i = Len(r)
    BY <1>1, <1>2, LineAppended
<1>4. Once(r)
  <2>1. Once(l) /\ (m.kind = "call" =>
                      \A i \in 1..Len(l) : l[i].kind = "call" => l[i].of # m.of)
    BY <1>1 DEF Sound
  <2>. QED
    BY <1>3, <2>1, OnceAppended
<1>5. ASSUME NEW i \in 1..Len(r) PROVE Fits(r[i])'
  <2>1. PICK x : x = r[i]
    OBVIOUS
  <2>2. x = m \/ (i \in 1..Len(l) /\ x = l[i])
    BY <1>3, <2>1
  <2>3. x = m \/ (x \in Sent(e) /\ Fits(x))
    BY <1>1, <1>3, <2>2, ElementOfSeq DEF Sound
  <2>4. Fits(x)'
    BY <2>3, FitsKept
  <2>. QED
    BY <2>1, <2>4
<1>. QED
    BY <1>2, <1>4, <1>5 DEF Sound

LEMMA SoundElsewhere ==
    ASSUME FlowInv, FlowInv', NEW e \in Ends, Sound(e), Advance,
           pipe'[Other(e)] = pipe[Other(e)], queue'[e] = queue[e]
    PROVE  Sound(e)'
<1>1. PICK r : r = Line(e)'
    OBVIOUS
<1>2. r = Line(e)
    BY <1>1, NextLine DEF Line
<1>3. \A i \in 1..Len(r) : i + 0 \in 1..Len(Line(e)) /\ r[i] = Line(e)[i + 0]
    BY <1>2
<1>. QED
    BY <1>1, <1>3, SoundKept

\* Steps that move no message and make no call.
LEMMA PKept ==
    ASSUME Inv, Inv', PInv, Advance, UNCHANGED <<sequence, queue, pipe>>,
           \A c \in Calls : st'[c] = "unused" <=> st[c] = "unused"
    PROVE  PInv'
<1>1. FlowInv /\ FlowInv' /\ \A e \in Ends : Sound(e)
    BY DEF Inv, PInv, LineInv
<1>2. \A e \in Ends : Sound(e)'
    BY <1>1, SoundElsewhere
<1>3. MadeInv'
    BY DEF PInv, MadeInv, Advance
<1>. QED
    BY <1>2, <1>3 DEF PInv, LineInv

LEMMA AdvanceOf ==
    ASSUME UNCHANGED <<st, serve>>
    PROVE  Advance /\ \A c \in Calls : st'[c] = "unused" <=> st[c] = "unused"
BY DEF Advance

-----------------------------------------------------------------------------
(* The abstract steps.                                                     *)

\* The ends are as open as before.
LEMMA OpenFrame ==
    ASSUME \A e \in Ends : Up(e)' <=> Up(e)
    PROVE  {e \in Ends : Up(e)}' = {e \in Ends : Up(e)}
OBVIOUS

\* No call moves; an end may go down.
LEMMA StageFrame ==
    ASSUME UNCHANGED <<st, got, serve>>, NEW e \in Ends, Up(e)' => Up(e),
           \A f \in Ends \ {e} : Up(f)' <=> Up(f)
    PROVE  [Promise!Next]_(Promise!vars)
<1>1. [c \in Calls |-> Stage(c)]' = [c \in Calls |-> Stage(c)]
    BY DEF Stage
<1>2. CASE Up(e) /\ ~Up(e)'
  <2>1. {f \in Ends : Up(f)}' = {f \in Ends : Up(f)} \ {e}
    BY <1>2
  <2>. QED
    BY <1>1, <1>2, <2>1 DEF Promise!Next, Promise!GoDown
<1>3. CASE Up(e) <=> Up(e)'
  <2>1. {f \in Ends : Up(f)}' = {f \in Ends : Up(f)}
    BY <1>3, OpenFrame
  <2>. QED
    BY <1>1, <2>1 DEF Promise!vars
<1>. QED
    BY <1>2, <1>3

\* The caller of one call gets on with it.
LEMMA StageOf ==
    ASSUME NEW c \in Calls, NEW s, Stage(c)' = s,
           \A d \in Calls \ {c} : Stage(d)' = Stage(d)
    PROVE  [d \in Calls |-> Stage(d)]' =
               [[d \in Calls |-> Stage(d)] EXCEPT ![c] = s]
OBVIOUS

-----------------------------------------------------------------------------
(* One lemma per action: the program.                                      *)

\* The call gets the next number, and its message is behind all others.
LEMMA CallPromise ==
    ASSUME Inv, Inv', PInv, NEW c \in Calls, Call(c)
    PROVE  PInv' /\ Promise!Next
<1>1. PICK e \in Ends : e = Owner(c) /\ e = c[1]
    BY CallFacts DEF Owner
<1>2. /\ Up(e) /\ c[2] = sequence[e] + 1
      /\ sequence' = [sequence EXCEPT ![e] = @ + 1]
      /\ st' = [st EXCEPT ![c] = "waiting"]
      /\ Enqueue(e, CallMessage(c))
      /\ UNCHANGED <<got, serve, state, gvariant, reads, pipe, shut>>
    BY <1>1 DEF Call, CallAsync
<1>3. /\ TypeInv /\ FlowInv /\ FlowInv' /\ MadeInv
      /\ \A f \in Ends : Sound(f)
    BY DEF Inv, PInv, LineInv
<1>4. sequence[e] \in Nat /\ c[2] \in Nat
    BY <1>3, CallFacts DEF TypeInv
<1>5. /\ st[c] = "unused" /\ st'[c] = "waiting"
      /\ \A d \in Calls \ {c} : st'[d] = st[d]
  <2>1. c[2] > sequence[e]
    BY <1>2, <1>4
  <2>2. st[c] = "unused"
    BY <1>1, <1>3, <2>1 DEF MadeInv
  <2>3. DOMAIN st = Calls
    BY <1>3 DEF TypeInv
  <2>. QED
    BY <1>2, <2>2, <2>3
<1>6. Advance
    BY <1>2, <1>5 DEF Advance
<1>7. PICK m \in Sent(e) : m = CallMessage(c) /\ m.kind = "call" /\ m.of = c
    BY <1>1, <1>3, MessageFacts
<1>8. serve[c] = "none"
    BY <1>3, <1>5 DEF MadeInv
<1>9. Fits(m)'
    BY <1>2, <1>5, <1>7, <1>8 DEF Fits
<1>10. \A i \in 1..Len(Line(e)) :
           Line(e)[i].kind = "call" => Line(e)[i].of # m.of
    BY <1>3, <1>5, <1>7 DEF Sound, Fits
<1>11. ASSUME NEW f \in Ends PROVE Sound(f)'
  <2>1. CASE f = e
    BY <1>2, <1>3, <1>6, <1>7, <1>9, <1>10, <2>1, SoundAppended
  <2>2. CASE f # e
    <3>1. pipe'[Other(f)] = pipe[Other(f)] /\ queue'[f] = queue[f]
        BY <1>2, <1>3, <2>2 DEF Enqueue, FlowInv
    <3>. QED
        BY <1>3, <1>6, <3>1, SoundElsewhere
  <2>. QED
    BY <2>1, <2>2
<1>12. MadeInv'
  <2>. SUFFICES ASSUME NEW d \in Calls
                PROVE  /\ st'[d] = "unused" <=> d[2] > sequence'[Owner(d)]
                       /\ st'[d] = "unused" => serve'[d] = "none"
    BY DEF MadeInv
  <2>1. /\ Owner(d) \in Ends /\ d[2] \in Nat
        /\ d = <<Owner(d), d[2]>> /\ c = <<Owner(c), c[2]>>
    BY CallFacts
  <2>2. /\ sequence[Owner(d)] \in Nat
        /\ sequence'[e] = sequence[e] + 1
        /\ Owner(d) # e => sequence'[Owner(d)] = sequence[Owner(d)]
    BY <1>2, <1>3, <2>1 DEF TypeInv
  <2>3. /\ st[d] = "unused" <=> d[2] > sequence[Owner(d)]
        /\ st[d] = "unused" => serve[d] = "none"
    BY <1>3 DEF MadeInv
  <2>4. CASE d = c
    <3>1. sequence'[Owner(d)] = d[2]
        BY <1>1, <1>2, <2>2, <2>4
    <3>2. ~(d[2] > sequence'[Owner(d)])
        BY <2>1, <3>1
    <3>. QED
        BY <1>5, <2>4, <3>2
  <2>5. CASE d # c /\ Owner(d) = e
    <3>1. d[2] # c[2]
        BY <1>1, <2>1, <2>5
    <3>2. st'[d] = st[d]
        BY <1>5, <2>5
    <3>. QED
        BY <1>2, <1>4, <2>1, <2>2, <2>3, <2>5, <3>1, <3>2
  <2>6. CASE Owner(d) # e
    BY <1>1, <1>2, <1>5, <2>2, <2>3, <2>6
  <2>. QED
    BY <2>4, <2>5, <2>6
<1>13. Promise!Make(c)
  <2>1. \A f \in Ends : Up(f)' <=> Up(f)
    BY <1>2 DEF Up
  <2>2. Stage(c) = "unused" /\ Stage(c)' = "waiting"
    BY <1>5 DEF Stage
  <2>3. \A d \in Calls \ {c} : Stage(d)' = Stage(d)
    BY <1>2, <1>5 DEF Stage
  <2>4. ASSUME NEW d \in Calls, d[1] = c[1], d[2] < c[2]
        PROVE  Stage(d) # "unused"
    <3>1. Owner(d) = e /\ d[2] \in Nat
        BY <1>1, <2>4, CallFacts DEF Owner
    <3>2. ~(d[2] > sequence[e])
        BY <1>2, <1>4, <2>4, <3>1
    <3>3. st[d] # "unused"
        BY <1>3, <3>1, <3>2 DEF MadeInv
    <3>4. st[d] = "answered" => got[d].kind \in {"error", "result"}
        BY DEF Inv, GotInv, Got
    <3>. QED
        BY <3>3, <3>4 DEF Stage
  <2>5. {f \in Ends : Up(f)}' = {f \in Ends : Up(f)}
    BY <2>1, OpenFrame
  <2>6. [d \in Calls |-> Stage(d)]' =
            [[d \in Calls |-> Stage(d)] EXCEPT ![c] = "waiting"]
    BY <2>2, <2>3, StageOf
  <2>. QED
    BY <1>1, <1>2, <2>2, <2>4, <2>5, <2>6 DEF Promise!Make, Promise!Before
<1>. QED
    BY <1>11, <1>12, <1>13 DEF PInv, LineInv, Promise!Next

\* A handler moves one call on.
LEMMA ServeOf ==
    ASSUME TypeInv, NEW c \in Calls, UNCHANGED <<st, got, state>>,
           NEW s, serve' = [serve EXCEPT ![c] = s]
    PROVE  /\ serve'[c] = s /\ \A d \in Calls \ {c} : serve'[d] = serve[d]
           /\ {e \in Ends : Up(e)}' = {e \in Ends : Up(e)}
           /\ [d \in Calls |-> Stage(d)]' = [d \in Calls |-> Stage(d)]
<1>1. DOMAIN serve = Calls
    BY DEF TypeInv
<1>2. \A e \in Ends : Up(e)' <=> Up(e)
    BY DEF Up
<1>. QED
    BY <1>1, <1>2, OpenFrame DEF Stage

\* An answer is behind all that was sent before.
LEMMA AnswerLines ==
    ASSUME Inv, Inv', PInv, NEW c \in Calls, Advance, serve'[c] = "answered",
           NEW m \in {Answer(c), NotFound(c)},
           Enqueue(Other(Owner(c)), m) \/ UNCHANGED queue,
           UNCHANGED <<sequence, st, pipe>>
    PROVE  PInv'
<1>1. PICK e \in Ends : e = Other(Owner(c))
    BY CallFacts, EndFacts
<1>2. /\ TypeInv /\ FlowInv /\ FlowInv' /\ MadeInv
      /\ \A f \in Ends : Sound(f)
    BY DEF Inv, PInv, LineInv
<1>3. m \in Sent(e) /\ m.kind # "call" /\ m.of = c
    BY <1>1, <1>2, MessageFacts
<1>4. Fits(m)'
    BY <1>3 DEF Fits
<1>5. ASSUME NEW f \in Ends PROVE Sound(f)'
  <2>1. CASE f = e /\ Enqueue(e, m)
    BY <1>2, <1>3, <1>4, <2>1, SoundAppended
  <2>2. CASE f # e \/ UNCHANGED queue
    <3>1. pipe'[Other(f)] = pipe[Other(f)] /\ queue'[f] = queue[f]
        BY <1>1, <1>2, <2>2 DEF Enqueue, FlowInv
    <3>. QED
        BY <1>2, <3>1, SoundElsewhere
  <2>. QED
    BY <1>1, <2>1, <2>2
<1>6. MadeInv'
    BY <1>2 DEF MadeInv, Advance
<1>. QED
    BY <1>5, <1>6 DEF PInv, LineInv

\* The handler gave it.
LEMMA AnswerPromise ==
    ASSUME Inv, Inv', PInv, NEW c \in Calls, serve[c] \in {"handling", "owed"},
           SendAnswer(c), UNCHANGED <<callerVars, state, pipe>>
    PROVE  PInv' /\ Promise!Next
<1>1. /\ serve' = [serve EXCEPT ![c] = "answered"]
      /\ Enqueue(Other(Owner(c)), Answer(c)) \/ UNCHANGED queue
      /\ UNCHANGED <<sequence, st, got, state, pipe>>
    BY DEF SendAnswer, callerVars
<1>2. /\ serve'[c] = "answered"
      /\ \A d \in Calls \ {c} : serve'[d] = serve[d]
      /\ {f \in Ends : Up(f)}' = {f \in Ends : Up(f)}
      /\ [d \in Calls |-> Stage(d)]' = [d \in Calls |-> Stage(d)]
    BY <1>1, ServeOf DEF Inv
<1>3. Advance
    BY <1>1, <1>2 DEF Advance
<1>4. PInv'
    BY <1>1, <1>2, <1>3, AnswerLines
<1>5. Promise!Reply(c)
    BY <1>1, <1>2 DEF Promise!Reply
<1>. QED
    BY <1>4, <1>5 DEF Promise!Next

LEMMA ReplyPromise ==
    ASSUME Inv, Inv', PInv, NEW c \in Calls, Reply(c) \/ ReplySync(c)
    PROVE  PInv' /\ Promise!Next
BY AnswerPromise DEF Reply, ReplySync, endVars

LEMMA HandlerReturnsPromise ==
    ASSUME Inv, Inv', PInv, NEW c \in Calls, HandlerReturns(c)
    PROVE  PInv' /\ [Promise!Next]_(Promise!vars)
<1>1. UNCHANGED <<callerVars, state, pipe>>
    BY DEF HandlerReturns
<1>2. CASE serve[c] = "handling" /\ SendAnswer(c)
    BY <1>1, <1>2, AnswerPromise
<1>3. CASE /\ serve' = [serve EXCEPT ![c] = IF @ = "handling" THEN "owed" ELSE @]
           /\ UNCHANGED queue
  <2>1. PICK s : s = IF serve[c] = "handling" THEN "owed" ELSE serve[c]
    OBVIOUS
  <2>2. TypeInv /\ UNCHANGED <<sequence, st, got, state, queue, pipe>>
    BY <1>1, <1>3 DEF Inv, callerVars
  <2>3. /\ serve' = [serve EXCEPT ![c] = s]
        /\ serve'[c] = s /\ \A d \in Calls \ {c} : serve'[d] = serve[d]
        /\ {f \in Ends : Up(f)}' = {f \in Ends : Up(f)}
        /\ [d \in Calls |-> Stage(d)]' = [d \in Calls |-> Stage(d)]
    BY <1>3, <2>1, <2>2, ServeOf
  <2>4. Advance
    BY <2>1, <2>2, <2>3 DEF Advance
  <2>5. PInv'
    BY <2>2, <2>4, PKept
  <2>6. CASE serve[c] = "handling"
    <3>1. Promise!Owe(c)
        BY <2>1, <2>3, <2>6 DEF Promise!Owe
    <3>. QED
        BY <2>5, <3>1 DEF Promise!Next
  <2>7. CASE serve[c] # "handling"
    <3>1. serve' = serve
        BY <2>1, <2>2, <2>3, <2>7 DEF TypeInv
    <3>. QED
        BY <2>3, <2>5, <3>1 DEF Promise!vars
  <2>. QED
    BY <2>6, <2>7
<1>4. CASE /\ serve[c] = "answered"
           /\ Enqueue(Other(Owner(c)), NotFound(c)) \/ UNCHANGED queue
           /\ UNCHANGED serve
  <2>1. UNCHANGED <<sequence, st, got, state, pipe>>
    BY <1>1 DEF callerVars
  <2>2. Advance
    BY <1>4, <2>1, AdvanceOf
  <2>3. PInv'
    BY <1>4, <2>1, <2>2, AnswerLines
  <2>4. "a" \in Ends /\ \A e \in Ends : Up(e)' <=> Up(e)
    BY <2>1 DEF Ends, Up
  <2>. QED
    BY <1>4, <2>1, <2>3, <2>4, StageFrame
<1>. QED
    BY <1>2, <1>3, <1>4 DEF HandlerReturns

\* One end may go down, or the library does what a caller does not see.
LEMMA QuietPromise ==
    ASSUME Inv, Inv', PInv, NEW e \in Ends,
           UNCHANGED <<callerVars, serve, queue, pipe>>, Up(e)' => Up(e),
           \A f \in Ends \ {e} : Up(f)' <=> Up(f)
    PROVE  PInv' /\ [Promise!Next]_(Promise!vars)
<1>1. UNCHANGED <<sequence, st, got>>
    BY DEF callerVars
<1>2. PInv'
    BY <1>1, AdvanceOf, PKept
<1>. QED
    BY <1>1, <1>2, StageFrame

LEMMA GoDownFacts ==
    ASSUME TypeInv, NEW e \in Ends, NEW how \in {"closed", "failed"},
           GoDown(e, how)
    PROVE  /\ Up(e)' => Up(e)
           /\ \A f \in Ends \ {e} : Up(f)' <=> Up(f)
BY DEF TypeInv, GoDown, Up

LEMMA ClosePromise ==
    ASSUME Inv, Inv', PInv, NEW e \in Ends, Close(e)
    PROVE  PInv' /\ [Promise!Next]_(Promise!vars)
BY QuietPromise, GoDownFacts DEF Close, Inv

-----------------------------------------------------------------------------
(* One lemma per action: the main loop of an end.                          *)

\* A write takes the head of the queue to the end of the pipe, which is the
\* next place in the line.
LEMMA WriteLine ==
    ASSUME NEW S, NEW p \in Seq(S), NEW q \in Seq(S), q # <<>>
    PROVE  Append(p, Head(q)) \o Tail(q) = p \o q
<1>1. PICK m \in S : m = Head(q)
    BY TailFacts
<1>2. PICK t \in Seq(S) : t = Tail(q)
    BY TailFacts
<1>3. /\ Len(p) \in Nat /\ Len(q) \in Nat /\ Len(t) = Len(q) - 1
      /\ q[1] = m /\ \A i \in 1..Len(t) : t[i] = q[i + 1]
    BY <1>1, <1>2, TailFacts
<1>4. PICK a \in Seq(S) : a = Append(p, m)
    BY AppendFacts
<1>5. /\ Len(a) = Len(p) + 1 /\ a[Len(p) + 1] = m
      /\ \A i \in 1..Len(p) : a[i] = p[i]
    BY <1>4, AppendFacts
<1>6. PICK l \in Seq(S) : l = a \o t
    BY ConcatenationFacts
<1>7. /\ Len(l) = Len(a) + Len(t)
      /\ \A i \in 1..Len(a) : l[i] = a[i]
      /\ \A i \in 1..Len(t) : l[Len(a) + i] = t[i]
    BY <1>6, ConcatenationFacts
<1>8. PICK r \in Seq(S) : r = p \o q
    BY ConcatenationFacts
<1>9. /\ Len(r) = Len(p) + Len(q)
      /\ \A i \in 1..Len(p) : r[i] = p[i]
      /\ \A i \in 1..Len(q) : r[Len(p) + i] = q[i]
    BY <1>8, ConcatenationFacts
<1>10. Len(l) = Len(r) /\ Len(q) > 0
    BY <1>3, <1>5, <1>7, <1>9
<1>11. ASSUME NEW i \in 1..Len(r) PROVE l[i] = r[i]
  <2>1. CASE i \in 1..Len(p)
    <3>1. i \in 1..Len(a)
        BY <1>3, <1>5, <2>1
    <3>. QED
        BY <1>5, <1>7, <1>9, <2>1, <3>1
  <2>2. CASE i = Len(p) + 1
    <3>1. i \in 1..Len(a) /\ 1 \in 1..Len(q)
        BY <1>3, <1>5, <1>10, <2>2
    <3>2. l[i] = m
        BY <1>5, <1>7, <2>2, <3>1
    <3>3. r[i] = q[1]
        BY <1>9, <2>2, <3>1
    <3>. QED
        BY <1>3, <3>2, <3>3
  <2>3. CASE i > Len(p) + 1
    <3>1. PICK k \in Nat : i = Len(p) + 1 + k
      <4>1. i - (Len(p) + 1) \in Nat
        BY <1>3, <1>9, <2>3
      <4>2. i = Len(p) + 1 + (i - (Len(p) + 1))
        BY <1>3, <1>9
      <4>. QED
        BY <4>1, <4>2
    <3>2. k \in 1..Len(t) /\ k + 1 \in 1..Len(q)
        BY <1>3, <1>9, <2>3, <3>1
    <3>3. i = Len(a) + k /\ i = Len(p) + (k + 1)
        BY <1>3, <1>5, <3>1
    <3>4. l[i] = t[k] /\ r[i] = q[k + 1]
        BY <1>7, <1>9, <3>2, <3>3
    <3>. QED
        BY <1>3, <3>2, <3>4
  <2>. QED
    BY <1>3, <1>9, <2>1, <2>2, <2>3
<1>12. l = r
    BY <1>10, <1>11, SeqEqual
<1>. QED
    BY <1>1, <1>2, <1>4, <1>6, <1>8, <1>12

LEMMA WriteLines ==
    ASSUME Inv, Inv', NEW e \in Ends, Write(e), NEW f \in Ends
    PROVE  Line(f)' = Line(f)
<1>1. PICK o \in Ends : o = Other(e) /\ o # e /\ Other(o) = e
    BY EndFacts
<1>2. /\ queue[e] # <<>>
      /\ pipe' = [pipe EXCEPT ![o] = Append(@, Head(queue[e]))]
      /\ queue' = [queue EXCEPT ![e] = Tail(@)]
    BY <1>1 DEF Write, CanWrite
<1>3. FlowInv /\ FlowInv'
    BY DEF Inv
<1>4. CASE f = e
  <2>1. PICK p \in Seq(Sent(e)), q \in Seq(Sent(e)) : p = pipe[o] /\ q = queue[e]
    BY <1>1, <1>3 DEF FlowInv
  <2>2. pipe'[o] = Append(p, Head(q)) /\ queue'[e] = Tail(q) /\ q # <<>>
    BY <1>2, <1>3, <2>1 DEF FlowInv
  <2>3. PICK l \in Seq(Sent(e)) : l = p \o q
    BY ConcatenationFacts
  <2>4. l = Line(e) /\ l = Line(e)'
    BY <1>1, <1>3, <2>1, <2>2, <2>3, NextLine, WriteLine DEF Line
  <2>. QED
    BY <1>4, <2>4
<1>5. CASE f # e
  <2>1. pipe'[Other(f)] = pipe[Other(f)] /\ queue'[f] = queue[f]
    BY <1>1, <1>2, <1>3, <1>5, EndFacts DEF FlowInv
  <2>. QED
    BY <2>1 DEF Line
<1>. QED
    BY <1>4, <1>5

LEMMA WritePromise ==
    ASSUME Inv, Inv', PInv, NEW e \in Ends, Write(e)
    PROVE  PInv' /\ [Promise!Next]_(Promise!vars)
<1>1. UNCHANGED <<sequence, st, got, serve, state>>
    BY DEF Write, callerVars, endVars
<1>2. /\ FlowInv /\ FlowInv' /\ MadeInv /\ \A f \in Ends : Sound(f)
    BY DEF Inv, PInv, LineInv
<1>3. Advance
    BY <1>1, AdvanceOf
<1>4. ASSUME NEW f \in Ends PROVE Sound(f)'
  <2>1. PICK r : r = Line(f)'
    OBVIOUS
  <2>2. r = Line(f)
    BY <2>1, WriteLines
  <2>3. \A i \in 1..Len(r) : i + 0 \in 1..Len(Line(f)) /\ r[i] = Line(f)[i + 0]
    BY <2>2
  <2>. QED
    BY <1>2, <1>3, <2>1, <2>3, SoundKept
<1>5. MadeInv'
    BY <1>1, <1>2 DEF MadeInv
<1>6. [Promise!Next]_(Promise!vars)
    BY <1>1, StageFrame DEF Up
<1>. QED
    BY <1>4, <1>5, <1>6 DEF PInv, LineInv

LEMMA WriteFailsPromise ==
    ASSUME Inv, Inv', PInv, NEW e \in Ends, WriteFails(e)
    PROVE  PInv' /\ [Promise!Next]_(Promise!vars)
<1>1. PICK o \in Ends : o = Other(e) /\ o # e /\ Other(o) = e
    BY EndFacts
<1>2. /\ queue' = [queue EXCEPT ![e] = <<>>]
      /\ \/ state' = [state EXCEPT ![e] = IF Up(e) THEN "failed" ELSE @]
         \/ UNCHANGED state
      /\ UNCHANGED <<sequence, st, got, serve, pipe>>
    BY DEF WriteFails, CanFailWrite, callerVars
<1>3. /\ FlowInv /\ FlowInv' /\ MadeInv /\ TypeInv /\ \A f \in Ends : Sound(f)
    BY DEF Inv, PInv, LineInv
<1>4. Advance
    BY <1>2, AdvanceOf
<1>5. ASSUME NEW f \in Ends PROVE Sound(f)'
  <2>1. CASE f = e
    <3>1. PICK p \in Seq(Sent(e)) : p = pipe[o]
        BY <1>1, <1>3 DEF FlowInv
    <3>2. Line(e)' = p \o <<>>
        BY <1>1, <1>2, <1>3, <3>1, NextLine DEF FlowInv
    <3>3. p = Line(e)'
        BY <3>2
    <3>4. \A i \in 1..Len(p) : i + 0 \in 1..Len(Line(e)) /\ p[i] = Line(e)[i + 0]
      <4>1. /\ Len(p) \in Nat /\ Len(queue[e]) \in Nat
            /\ Len(Line(e)) = Len(p) + Len(queue[e])
            /\ \A i \in 1..Len(p) : Line(e)[i] = p[i]
        BY <1>1, <1>3, <3>1, LineFacts
      <4>2. \A i \in 1..Len(p) : i + 0 = i /\ i \in 1..Len(Line(e))
        BY <4>1
      <4>. QED
        BY <4>1, <4>2
    <3>. QED
        BY <1>3, <1>4, <2>1, <3>3, <3>4, SoundKept
  <2>2. CASE f # e
    <3>1. pipe'[Other(f)] = pipe[Other(f)] /\ queue'[f] = queue[f]
        BY <1>2, <1>3, <2>2 DEF FlowInv
    <3>. QED
        BY <1>3, <1>4, <3>1, SoundElsewhere
  <2>. QED
    BY <2>1, <2>2
<1>6. MadeInv'
    BY <1>2, <1>3 DEF MadeInv
<1>7. (Up(e)' => Up(e)) /\ \A f \in Ends \ {e} : Up(f)' <=> Up(f)
    BY <1>2, <1>3 DEF TypeInv, Up
<1>8. [Promise!Next]_(Promise!vars)
    BY <1>2, <1>7, StageFrame
<1>. QED
    BY <1>5, <1>6, <1>8 DEF PInv, LineInv

\* A message that is read was the first of a line, and the rest moves up.
LEMMA LineTaken ==
    ASSUME FlowInv, FlowInv', NEW e \in Ends, NEW m, Takes(e, m),
           UNCHANGED queue, NEW o, o = Other(e), NEW r, r = Line(o)'
    PROVE  /\ 1 \in 1..Len(Line(o)) /\ Line(o)[1] = m
           /\ \A i \in 1..Len(r) :
                 i + 1 \in 1..Len(Line(o)) /\ r[i] = Line(o)[i + 1]
           /\ \A f \in Ends \ {o} : pipe'[Other(f)] = pipe[Other(f)]
<1>1. o \in Ends /\ Other(o) = e
    BY EndFacts
<1>2. PICK p \in Seq(Sent(o)), q \in Seq(Sent(o)), t \in Seq(Sent(o)) :
          p = pipe[e] /\ q = queue[o] /\ t = pipe'[e]
    BY <1>1, EndFacts DEF FlowInv
<1>3. /\ m = p[1] /\ 1 \in 1..Len(p)
      /\ Len(p) \in Nat /\ Len(t) = Len(p) - 1
      /\ \A i \in 1..Len(t) : t[i] = p[i + 1]
      /\ \A f \in Ends \ {e} : pipe'[f] = pipe[f]
    BY <1>2, PipeFacts
<1>4. /\ Len(Line(o)) = Len(p) + Len(q) /\ Len(q) \in Nat
      /\ \A i \in 1..Len(p) : Line(o)[i] = p[i]
      /\ \A i \in 1..Len(q) : Line(o)[Len(p) + i] = q[i]
  <2>1. Line(o) = p \o q
    BY <1>1, <1>2 DEF Line
  <2>. QED
    BY <2>1, ConcatenationFacts
<1>5. r = t \o q
    BY <1>1, <1>2, NextLine
<1>6. /\ Len(r) = Len(t) + Len(q) /\ Len(t) \in Nat
      /\ \A i \in 1..Len(t) : r[i] = t[i]
      /\ \A i \in 1..Len(q) : r[Len(t) + i] = q[i]
    BY <1>5, ConcatenationFacts
<1>7. ASSUME NEW i \in 1..Len(r)
      PROVE  i + 1 \in 1..Len(Line(o)) /\ r[i] = Line(o)[i + 1]
  <2>1. i + 1 \in 1..Len(Line(o))
    BY <1>3, <1>4, <1>6
  <2>2. CASE i \in 1..Len(t)
    <3>1. i + 1 \in 1..Len(p)
        BY <1>3, <2>2
    <3>. QED
        BY <1>3, <1>4, <1>6, <2>1, <2>2, <3>1
  <2>3. CASE i \notin 1..Len(t)
    <3>1. PICK k \in Int : k = i - Len(t)
      <4>1. i - Len(t) \in Int
        BY <1>3, <1>6
      <4>. QED
        BY <4>1
    <3>2. k \in 1..Len(q) /\ i = Len(t) + k /\ i + 1 = Len(p) + k
        BY <1>3, <1>4, <1>6, <2>3, <3>1
    <3>3. r[i] = q[k] /\ Line(o)[i + 1] = q[k]
        BY <1>4, <1>6, <3>2
    <3>. QED
        BY <2>1, <3>3
  <2>. QED
    BY <2>2, <2>3
<1>8. 1 \in 1..Len(Line(o)) /\ Line(o)[1] = m
    BY <1>3, <1>4
<1>9. ASSUME NEW f \in Ends \ {o} PROVE pipe'[Other(f)] = pipe[Other(f)]
    BY <1>1, <1>3, EndFacts
<1>. QED
    BY <1>7, <1>8, <1>9

\* An answer is taken off its line.
LEMMA AnswerLine ==
    ASSUME Inv, Inv', PInv, NEW e \in Ends, NEW m, Takes(e, m),
           m.kind # "call", UNCHANGED queue, Advance
    PROVE  LineInv' /\ m \in Sent(Other(e)) /\ serve[m.of] = "answered"
<1>1. PICK o \in Ends : o = Other(e)
    BY EndFacts
<1>2. FlowInv /\ FlowInv' /\ \A f \in Ends : Sound(f)
    BY DEF Inv, PInv, LineInv
<1>3. PICK r : r = Line(o)'
    OBVIOUS
<1>4. /\ 1 \in 1..Len(Line(o)) /\ Line(o)[1] = m
      /\ \A i \in 1..Len(r) :
            i + 1 \in 1..Len(Line(o)) /\ r[i] = Line(o)[i + 1]
      /\ \A f \in Ends \ {o} : pipe'[Other(f)] = pipe[Other(f)]
    BY <1>1, <1>2, <1>3, LineTaken
<1>5. Fits(m) /\ m \in Sent(o)
    BY <1>1, <1>2, <1>4, PipeFacts DEF Sound
<1>6. Sound(o)'
    BY <1>2, <1>3, <1>4, SoundKept
<1>7. ASSUME NEW f \in Ends \ {o} PROVE Sound(f)'
    BY <1>2, <1>4, <1>7, SoundElsewhere
<1>. QED
    BY <1>1, <1>5, <1>6, <1>7 DEF LineInv, Fits

\* A message stays in place when another call than its own is handled.
LEMMA FitsHandled ==
    ASSUME TypeInv, NEW c \in Calls, serve[c] = "none", UNCHANGED st,
           serve' = [serve EXCEPT ![c] = "handling"],
           NEW e \in Ends, NEW x \in Sent(e), Fits(x),
           x.kind = "call" => x.of # c
    PROVE  Fits(x)'
<1>1. x.of \in Calls
    BY SentFacts
<1>2. x.of # c
    BY DEF Fits
<1>3. serve'[x.of] = serve[x.of]
    BY <1>1, <1>2 DEF TypeInv
<1>. QED
    BY <1>3 DEF Fits

\* The call that is read was made and not handled before, and is not again
\* on its way; those made before it were handled.
LEMMA ReadCallPromise ==
    ASSUME Inv, Inv', PInv, NEW e \in Ends, ReadCall(e)
    PROVE  PInv' /\ Promise!Next
<1>1. PICK m : /\ Takes(e, m)
               /\ m.kind = "call"
               /\ serve' = [serve EXCEPT ![m.of] = "handling"]
               /\ UNCHANGED <<sequence, st, got, state, queue>>
    BY DEF ReadCall, callerVars
<1>2. /\ TypeInv /\ FlowInv /\ FlowInv' /\ MadeInv /\ OrderInv'
      /\ \A f \in Ends : Sound(f)
    BY DEF Inv, PInv, LineInv
<1>3. PICK o \in Ends : o = Other(e) /\ o # e /\ Other(o) = e
    BY EndFacts
<1>4. PICK r : r = Line(o)'
    OBVIOUS
<1>5. /\ 1 \in 1..Len(Line(o)) /\ Line(o)[1] = m
      /\ \A i \in 1..Len(r) :
            i + 1 \in 1..Len(Line(o)) /\ r[i] = Line(o)[i + 1]
      /\ \A f \in Ends \ {o} : pipe'[Other(f)] = pipe[Other(f)]
    BY <1>1, <1>2, <1>3, <1>4, LineTaken
<1>6. PICK c \in Calls : c = m.of /\ Owner(c) = o
    BY <1>1, <1>2, <1>3, PipeFacts, SentFacts
<1>7. st[c] # "unused" /\ serve[c] = "none"
    BY <1>1, <1>2, <1>5, <1>6 DEF Sound, Fits
<1>8. serve' = [serve EXCEPT ![c] = "handling"]
    BY <1>1, <1>6
<1>9. Sound(o)'
  <2>1. PICK l \in Seq(Sent(o)) : l = Line(o)
    BY <1>2, LineFacts
  <2>2. r \in Seq(Sent(o)) /\ Once(l)
    BY <1>2, <1>4, <2>1, NextLine DEF Sound
  <2>3. Once(r)
    BY <1>5, <2>1, <2>2, OnceKept
  <2>4. ASSUME NEW i \in 1..Len(r) PROVE Fits(r[i])'
    <3>1. PICK x : x = r[i]
        OBVIOUS
    <3>2. x = l[i + 1] /\ i + 1 \in 1..Len(l) /\ i + 1 # 1
        BY <1>5, <2>1, <3>1
    <3>3. x \in Sent(o) /\ Fits(x)
        BY <1>2, <2>1, <3>2, ElementOfSeq DEF Sound
    <3>4. x.kind = "call" => x.of # c
        BY <1>1, <1>5, <1>6, <2>1, <2>2, <3>2 DEF Once
    <3>5. Fits(x)'
        BY <1>1, <1>2, <1>7, <1>8, <3>3, <3>4, FitsHandled
    <3>. QED
        BY <3>1, <3>5
  <2>. QED
    BY <1>4, <2>3, <2>4 DEF Sound
<1>10. Sound(e)'
  <2>1. PICK l \in Seq(Sent(e)) : l = Line(e)
    BY <1>2, LineFacts
  <2>2. l = Line(e)'
    BY <1>1, <1>2, <1>3, <1>5, <2>1, NextLine DEF Line
  <2>3. ASSUME NEW i \in 1..Len(l) PROVE Fits(l[i])'
    <3>1. PICK x : x = l[i]
        OBVIOUS
    <3>2. x \in Sent(e) /\ Fits(x)
        BY <1>2, <2>1, <3>1, ElementOfSeq DEF Sound
    <3>3. x.kind = "call" => x.of # c
        BY <1>3, <1>6, <3>2, SentFacts
    <3>4. Fits(x)'
        BY <1>1, <1>2, <1>7, <1>8, <3>2, <3>3, FitsHandled
    <3>. QED
        BY <3>1, <3>4
  <2>4. Once(l)
    BY <1>2, <2>1 DEF Sound
  <2>. QED
    BY <2>2, <2>3, <2>4 DEF Sound
<1>11. LineInv'
    BY <1>3, <1>9, <1>10, EndFacts DEF LineInv
<1>12. /\ serve'[c] = "handling"
       /\ \A d \in Calls \ {c} : serve'[d] = serve[d]
       /\ {f \in Ends : Up(f)}' = {f \in Ends : Up(f)}
       /\ [d \in Calls |-> Stage(d)]' = [d \in Calls |-> Stage(d)]
    BY <1>1, <1>2, <1>8, ServeOf
<1>13. MadeInv'
    BY <1>1, <1>2, <1>7, <1>12 DEF MadeInv
<1>14. Promise!Handle(c)
  <2>1. Stage(c) # "unused"
    BY <1>7 DEF Stage, Inv, GotInv, Got
  <2>2. ASSUME NEW d \in Calls, d[1] = c[1], d[2] < c[2]
        PROVE  serve[d] # "none"
    <3>1. Earlier(d, c)
        BY <2>2 DEF Earlier, Owner
    <3>2. Served(c)' /\ (Served(c)' /\ Earlier(d, c) => Served(d)')
        BY <1>2, <1>12 DEF Served, OrderInv, Earlier
    <3>3. d # c
        BY <2>2, CallFacts
    <3>. QED
        BY <1>12, <3>1, <3>2, <3>3 DEF Served
  <2>. QED
    BY <1>7, <1>8, <1>12, <2>1, <2>2 DEF Promise!Handle, Promise!Before
<1>. QED
    BY <1>11, <1>13, <1>14 DEF PInv, Promise!Next

\* An answer that is waited for is what the handler decided on.
LEMMA HeadRight ==
    ASSUME Inv, KindInv, NEW e \in Ends, NEW m, Takes(e, m), m.kind # "call",
           Up(e), st[m.of] = "waiting"
    PROVE  m.kind = KindOf(m.of)
<1>1. PICK o \in Ends : o = Other(e) /\ Other(o) = e
    BY EndFacts
<1>2. FlowInv
    BY DEF Inv
<1>3. m = pipe[e][1] /\ 1 \in 1..Len(pipe[e]) /\ m \in Sent(o)
    BY <1>1, <1>2, PipeFacts
<1>4. PICK c \in Calls : c = m.of /\ Owner(c) = e
    BY <1>1, <1>3, SentFacts
<1>5. 1 \in 1..Len(Line(o)) /\ Line(o)[1] = m
  <2>1. PICK p \in Seq(Sent(o)), q \in Seq(Sent(o)) : p = pipe[e] /\ q = queue[o]
    BY <1>1, <1>2, EndFacts DEF FlowInv
  <2>2. PICK l \in Seq(Sent(o)) : l = p \o q
    BY ConcatenationFacts
  <2>3. /\ Len(p) \in Nat /\ Len(q) \in Nat /\ Len(l) = Len(p) + Len(q)
        /\ \A i \in 1..Len(p) : l[i] = p[i]
    BY <2>2, ConcatenationFacts
  <2>4. 1 \in 1..Len(l) /\ l[1] = m
    <3>1. 1 \in 1..Len(p) /\ m = p[1]
        BY <1>3, <2>1
    <3>2. 1 \in 1..Len(l)
        BY <2>3, <3>1
    <3>. QED
        BY <2>3, <3>1, <3>2
  <2>. QED
    BY <1>1, <2>1, <2>2, <2>4 DEF Line
<1>6. FirstRight(Line(o), c)
    BY <1>1, <1>4 DEF KindInv, FirstInv
<1>7. PICK j \in 1..1 : Line(o)[j].kind = KindOf(c)
    BY <1>4, <1>5, <1>6 DEF FirstRight, Answers
<1>. QED
    BY <1>4, <1>5, <1>7

\* The answer is that of a handler, and belongs to the call that gets it.
LEMMA ReadAnswerPromise ==
    ASSUME Inv, Inv', PInv, KindInv, NEW e \in Ends, ReadAnswer(e)
    PROVE  PInv' /\ Promise!Next
<1>a. PICK m : \E c \in Known(e, m.of) :
          /\ Takes(e, m)
          /\ m.kind # "call"
          /\ st' = [st EXCEPT ![c] = "answered"]
          /\ got' = [got EXCEPT ![c] =
                        [kind |-> m.kind, of |-> m.of, gv |-> m.gv,
                         code |-> IF m.code = "x" THEN "sent" ELSE "-1"]]
          /\ UNCHANGED <<sequence, serve, state, queue>>
    BY DEF ReadAnswer
<1>1. PICK c \in Known(e, m.of) :
          /\ Takes(e, m)
          /\ m.kind # "call"
          /\ st' = [st EXCEPT ![c] = "answered"]
          /\ got' = [got EXCEPT ![c] =
                        [kind |-> m.kind, of |-> m.of, gv |-> m.gv,
                         code |-> IF m.code = "x" THEN "sent" ELSE "-1"]]
          /\ UNCHANGED <<sequence, serve, state, queue>>
    BY <1>a
<1>2. TypeInv /\ FlowInv /\ MadeInv
    BY DEF Inv, PInv
<1>3. /\ Up(e) /\ c = <<e, m.of[2]>> /\ c \in Calls /\ st[c] = "waiting"
    BY <1>1 DEF Known
<1>4. /\ m \in Sent(Other(e)) /\ m.of \in Calls /\ Owner(m.of) = e
    BY <1>1, <1>2, PipeFacts, EndFacts, SentFacts
<1>5. c = m.of /\ m.kind = KindOf(c)
    BY <1>1, <1>3, <1>4, CallFacts, HeadRight
<1>6. /\ st'[c] = "answered" /\ got'[c].kind = m.kind
      /\ \A d \in Calls \ {c} : st'[d] = st[d] /\ got'[d] = got[d]
  <2>1. DOMAIN st = Calls /\ DOMAIN got = Calls
    BY <1>2 DEF TypeInv
  <2>. QED
    BY <1>1, <1>3, <2>1
<1>7. Advance
    BY <1>1, <1>6 DEF Advance
<1>8. LineInv' /\ serve[c] = "answered"
    BY <1>1, <1>5, <1>7, AnswerLine
<1>9. MadeInv'
    BY <1>1, <1>2, <1>3, <1>6 DEF MadeInv
<1>10. Promise!Answer(c)
  <2>1. Stage(c) = "waiting"
    BY <1>3 DEF Stage
  <2>2. Stage(c)' = IF c \in Errors THEN "error" ELSE "result"
    BY <1>4, <1>5, <1>6 DEF Stage, KindOf
  <2>3. \A d \in Calls \ {c} : Stage(d)' = Stage(d)
    BY <1>6 DEF Stage
  <2>4. {f \in Ends : Up(f)}' = {f \in Ends : Up(f)}
    BY <1>1, OpenFrame DEF Up
  <2>5. c[1] = e
    BY <1>3
  <2>6. [d \in Calls |-> Stage(d)]' =
            [[d \in Calls |-> Stage(d)] EXCEPT
                ![c] = IF c \in Errors THEN "error" ELSE "result"]
    BY <1>3, <2>2, <2>3, StageOf
  <2>. QED
    BY <1>1, <1>3, <1>8, <2>1, <2>4, <2>5, <2>6 DEF Promise!Answer
<1>. QED
    BY <1>3, <1>8, <1>9, <1>10 DEF PInv, Promise!Next

LEMMA ReadUnknownPromise ==
    ASSUME Inv, Inv', PInv, NEW e \in Ends, ReadUnknown(e)
    PROVE  PInv' /\ [Promise!Next]_(Promise!vars)
<1>1. PICK m : /\ Takes(e, m)
               /\ m.kind # "call"
               /\ GoDown(e, "failed") \/ UNCHANGED state
               /\ UNCHANGED <<sequence, st, got, serve, queue>>
    BY DEF ReadUnknown, callerVars
<1>2. TypeInv /\ MadeInv
    BY DEF Inv, PInv
<1>3. Advance
    BY <1>1, AdvanceOf
<1>4. LineInv'
    BY <1>1, <1>3, AnswerLine
<1>5. MadeInv'
    BY <1>1, <1>2 DEF MadeInv
<1>6. (Up(e)' => Up(e)) /\ \A f \in Ends \ {e} : Up(f)' <=> Up(f)
  <2>1. CASE GoDown(e, "failed")
    BY <1>2, <2>1, GoDownFacts
  <2>2. CASE UNCHANGED state
    BY <2>2 DEF Up
  <2>. QED
    BY <1>1, <2>1, <2>2
<1>7. [Promise!Next]_(Promise!vars)
    BY <1>1, <1>6, StageFrame
<1>. QED
    BY <1>4, <1>5, <1>7 DEF PInv

LEMMA ReadEndsPromise ==
    ASSUME Inv, Inv', PInv, NEW e \in Ends, ReadEnds(e)
    PROVE  PInv' /\ [Promise!Next]_(Promise!vars)
<1>1. /\ GoDown(e, "failed") \/ UNCHANGED state
      /\ UNCHANGED <<callerVars, serve, queue, pipe>>
    BY DEF ReadEnds
<1>2. (Up(e)' => Up(e)) /\ \A f \in Ends \ {e} : Up(f)' <=> Up(f)
  <2>1. CASE GoDown(e, "failed")
    BY <2>1, GoDownFacts DEF Inv
  <2>2. CASE UNCHANGED state
    BY <2>2 DEF Up
  <2>. QED
    BY <1>1, <2>1, <2>2
<1>. QED
    BY <1>1, <1>2, QuietPromise

\* What changes only who waits, reads or has closed.
LEMMA WaitPromise ==
    ASSUME Inv, Inv', PInv,
           \/ \E e \in Ends : HangUp(e)
           \/ \E c \in Calls : ReplyReturns(c) \/ CallReturns(c)
           \/ UNCHANGED vars
    PROVE  PInv' /\ [Promise!Next]_(Promise!vars)
<1>1. UNCHANGED <<callerVars, serve, state, queue, pipe>>
    BY DEF HangUp, ReplyReturns, CallReturns, vars, endVars
<1>2. "a" \in Ends /\ \A e \in Ends : Up(e)' <=> Up(e)
    BY <1>1 DEF Ends, Up
<1>. QED
    BY <1>1, <1>2, QuietPromise

LEMMA FailCallPromise ==
    ASSUME Inv, Inv', PInv, NEW c \in Calls, FailCall(c)
    PROVE  PInv' /\ Promise!Next
<1>1. /\ st[c] = "waiting" /\ ~Up(Owner(c))
      /\ st' = [st EXCEPT ![c] = "failed"]
      /\ UNCHANGED <<sequence, got, serve, state, queue, pipe>>
    BY DEF FailCall, CanFail, endVars
<1>2. /\ st'[c] = "failed" /\ \A d \in Calls \ {c} : st'[d] = st[d]
    BY <1>1 DEF Inv, TypeInv
<1>3. Advance /\ \A d \in Calls : st'[d] = "unused" <=> st[d] = "unused"
    BY <1>1, <1>2 DEF Advance
<1>4. PInv'
    BY <1>1, <1>3, PKept
<1>5. Promise!Fail(c)
  <2>1. Stage(c) = "waiting" /\ Stage(c)' = "failed"
    BY <1>1, <1>2 DEF Stage
  <2>2. \A d \in Calls \ {c} : Stage(d)' = Stage(d)
    BY <1>1, <1>2 DEF Stage
  <2>3. {f \in Ends : Up(f)}' = {f \in Ends : Up(f)}
    BY <1>1, OpenFrame DEF Up
  <2>4. [d \in Calls |-> Stage(d)]' =
            [[d \in Calls |-> Stage(d)] EXCEPT ![c] = "failed"]
    BY <2>1, <2>2, StageOf
  <2>. QED
    BY <1>1, <2>1, <2>3, <2>4 DEF Promise!Fail, Owner
<1>. QED
    BY <1>4, <1>5 DEF Promise!Next

-----------------------------------------------------------------------------
(* The steps map to steps, as long as the answers are right.               *)

LEMMA PromiseInit == Init => PInv /\ Promise!Init
<1>. SUFFICES ASSUME Init PROVE PInv /\ Promise!Init
    OBVIOUS
<1>1. MadeInv
  <2>. SUFFICES ASSUME NEW c \in Calls
                PROVE  c[2] > sequence[Owner(c)] /\ serve[c] = "none"
    BY DEF Init, MadeInv
  <2>1. sequence[Owner(c)] = 0
    BY CallFacts DEF Init
  <2>. QED
    BY <2>1, CallFacts DEF Init
<1>2. ASSUME NEW e \in Ends PROVE Sound(e)
  <2>1. pipe[Other(e)] = <<>> /\ queue[e] = <<>>
    BY EndFacts DEF Init
  <2>2. Line(e) = <<>>
    BY <2>1 DEF Line
  <2>3. Len(Line(e)) = 0
    BY <2>2
  <2>. QED
    BY <2>3 DEF Sound, Once
<1>3. Promise!Init
  <2>1. \A e \in Ends : Up(e)
    BY DEF Init, Up
  <2>2. \A c \in Calls : Stage(c) = "unused"
    BY DEF Init, Stage
  <2>. QED
    BY <2>1, <2>2 DEF Promise!Init, Init
<1>. QED
    BY <1>1, <1>2, <1>3 DEF PInv, LineInv

LEMMA PromiseStep ==
    Inv /\ Inv' /\ PInv /\ KindInv /\ [Next]_vars
        => PInv' /\ [Promise!Next]_(Promise!vars)
<1>. SUFFICES ASSUME Inv, Inv', PInv, KindInv, [Next]_vars
              PROVE  PInv' /\ [Promise!Next]_(Promise!vars)
    OBVIOUS
<1>1. CASE Program
    BY <1>1, CallPromise, ReplyPromise, ClosePromise DEF Program
<1>2. ASSUME NEW e \in Ends, Thread(e)
      PROVE  PInv' /\ [Promise!Next]_(Promise!vars)
  <2>1. CASE Write(e) \/ WriteFails(e) \/ HangUp(e)
    BY <2>1, WritePromise, WriteFailsPromise, WaitPromise
  <2>2. CASE ReadCall(e) \/ ReadAnswer(e) \/ ReadUnknown(e) \/ ReadEnds(e)
    BY <2>2, ReadCallPromise, ReadAnswerPromise, ReadUnknownPromise,
       ReadEndsPromise
  <2>3. ASSUME NEW c \in Calls, FailCall(c) \/ CallReturns(c)
        PROVE  PInv' /\ [Promise!Next]_(Promise!vars)
    BY <2>3, FailCallPromise, WaitPromise
  <2>4. ASSUME NEW c \in Calls, ReplyReturns(c) \/ HandlerReturns(c)
        PROVE  PInv' /\ [Promise!Next]_(Promise!vars)
    BY <2>4, WaitPromise, HandlerReturnsPromise
  <2>. QED
    BY <1>2, <2>1, <2>2, <2>3, <2>4 DEF Thread
<1>3. CASE UNCHANGED vars
    BY <1>3, WaitPromise
<1>. QED
    BY <1>1, <1>2, <1>3 DEF Next

-----------------------------------------------------------------------------
(* Deadlock: what is on the stacks and on its way while calls wait.        *)

Handles(e) == \E i \in 1..Len(stack[e]) : stack[e][i][1] = "handler"

AnswerAmong(q, c) == \E i \in 1..Len(q) : q[i].kind # "call" /\ q[i].of = c

OnItsWay(c) ==
    AnswerAmong(pipe[Owner(c)], c) \/ AnswerAmong(queue[Other(Owner(c))], c)

\* A client that is up and does not read has a handler on its stack.
LoopInv == \A e \in Ends : Up(e) /\ reads[e] = 0 => Handles(e)

\* The waits in jsonrpc_client_reply are for answers to the other end.
RepliesInv ==
    \A e \in Ends : \A i \in 1..Len(stack[e]) :
        stack[e][i][1] = "reply" => Owner(stack[e][i][2]) = Other(e)

\* A call that is being handled has its handler on the stack.
HandlingInv ==
    \A c \in Calls : serve[c] = "handling" =>
        \E i \in 1..Len(stack[Other(Owner(c))]) :
            stack[Other(Owner(c))][i] = Handler(c)

\* While both ends are up an answer is not lost.
AnswerInv ==
    \A c \in Calls :
        /\ st[c] = "waiting" /\ serve[c] = "answered"
        /\ Up(Owner(c)) /\ Up(Other(Owner(c)))
        => OnItsWay(c)

WaitInv == LoopInv /\ RepliesInv /\ HandlingInv /\ AnswerInv

\* The handlers stay where they are on the stacks, and so do the waits
\* below the top one.
FramesStay ==
    /\ \A e \in Ends : \A i \in 1..Len(stack[e]) :
          stack[e][i][1] = "handler" =>
              i \in 1..Len(stack'[e]) /\ stack'[e][i] = stack[e][i]
    /\ \A e \in Ends : \A i \in 1..Len(stack'[e]) :
          stack'[e][i][1] = "reply" =>
              \/ i \in 1..Len(stack[e]) /\ stack'[e][i] = stack[e][i]
              \/ Owner(stack'[e][i][2]) = Other(e)

LEMMA FramesKept ==
    ASSUME UNCHANGED stack
    PROVE  FramesStay
BY DEF FramesStay

LEMMA FramePushed ==
    ASSUME TypeInv, NEW e \in Ends, NEW frame \in Frames, Push(e, frame),
           frame[1] = "reply" => Owner(frame[2]) = Other(e)
    PROVE  /\ FramesStay
           /\ \E i \in 1..Len(stack'[e]) : stack'[e][i] = frame
<1>1. /\ stack[e] \in Seq(Frames) /\ DOMAIN stack = Ends
      /\ stack' = [stack EXCEPT ![e] = Append(@, frame)]
    BY DEF TypeInv, Push
<1>2. /\ stack'[e] = Append(stack[e], frame)
      /\ \A f \in Ends \ {e} : stack'[f] = stack[f]
    BY <1>1
<1>3. /\ Len(stack[e]) \in Nat /\ Len(stack'[e]) = Len(stack[e]) + 1
      /\ stack'[e][Len(stack[e]) + 1] = frame
      /\ \A i \in 1..Len(stack[e]) : stack'[e][i] = stack[e][i]
    BY <1>1, <1>2, AppendFacts
<1>4. /\ Len(stack[e]) + 1 \in 1..Len(stack'[e])
      /\ \A i \in 1..Len(stack[e]) : i \in 1..Len(stack'[e])
      /\ \A i \in 1..Len(stack'[e]) : i \in 1..Len(stack[e]) \/ i = Len(stack[e]) + 1
    BY <1>3
<1>5. FramesStay
  <2>1. ASSUME NEW f \in Ends, NEW i \in 1..Len(stack[f])
        PROVE  i \in 1..Len(stack'[f]) /\ stack'[f][i] = stack[f][i]
    BY <1>2, <1>3, <1>4, <2>1
  <2>2. ASSUME NEW f \in Ends, NEW i \in 1..Len(stack'[f]), stack'[f][i][1] = "reply"
        PROVE  \/ i \in 1..Len(stack[f]) /\ stack'[f][i] = stack[f][i]
               \/ Owner(stack'[f][i][2]) = Other(f)
    BY <1>2, <1>3, <1>4, <2>2
  <2>. QED
    BY <2>1, <2>2 DEF FramesStay
<1>. QED
    BY <1>3, <1>4, <1>5

LEMMA PopFacts ==
    ASSUME TypeInv, NEW e \in Ends, stack[e] # <<>>, Pop(e)
    PROVE  /\ \A f \in Ends \ {e} : stack'[f] = stack[f]
           /\ \A i \in 1..Len(stack'[e]) :
                 i \in 1..Len(stack[e]) /\ stack'[e][i] = stack[e][i]
           /\ \A i \in 1..Len(stack[e]) :
                 \/ i \in 1..Len(stack'[e]) /\ stack'[e][i] = stack[e][i]
                 \/ stack[e][i] = Last(stack[e])
<1>1. /\ stack[e] \in Seq(Frames) /\ DOMAIN stack = Ends
      /\ stack' = [stack EXCEPT ![e] = Front(@)]
    BY DEF TypeInv, Pop
<1>2. /\ stack'[e] = Front(stack[e])
      /\ \A f \in Ends \ {e} : stack'[f] = stack[f]
    BY <1>1
<1>3. /\ Last(stack[e]) = stack[e][Len(stack[e])]
      /\ Len(stack[e]) \in Nat /\ Len(stack[e]) > 0
      /\ Len(stack'[e]) = Len(stack[e]) - 1
      /\ \A i \in 1..Len(stack'[e]) : stack'[e][i] = stack[e][i]
    BY <1>1, <1>2, FrontFacts
<1>4. /\ \A i \in 1..Len(stack'[e]) : i \in 1..Len(stack[e])
      /\ \A i \in 1..Len(stack[e]) : i \in 1..Len(stack'[e]) \/ i = Len(stack[e])
    BY <1>3
<1>. QED
    BY <1>2, <1>3, <1>4

LEMMA WaitPopped ==
    ASSUME TypeInv, NEW e \in Ends, stack[e] # <<>>, Pop(e),
           Last(stack[e])[1] # "handler"
    PROVE  FramesStay
<1>1. /\ \A f \in Ends \ {e} : stack'[f] = stack[f]
      /\ \A i \in 1..Len(stack'[e]) :
            i \in 1..Len(stack[e]) /\ stack'[e][i] = stack[e][i]
      /\ \A i \in 1..Len(stack[e]) :
            \/ i \in 1..Len(stack'[e]) /\ stack'[e][i] = stack[e][i]
            \/ stack[e][i] = Last(stack[e])
    BY PopFacts
<1>. QED
    BY <1>1 DEF FramesStay

\* What keeps the parts of WaitInv.
LEMMA LoopKept ==
    ASSUME LoopInv, FramesStay, \A e \in Ends : Up(e)' => Up(e),
           \A e \in Ends : Up(e)' /\ reads'[e] = 0 => reads[e] = 0 \/ Handles(e)'
    PROVE  LoopInv'
<1>. SUFFICES ASSUME NEW e \in Ends, Up(e)', reads'[e] = 0
              PROVE  Handles(e)'
    BY DEF LoopInv
<1>1. CASE reads[e] = 0
  <2>1. PICK i \in 1..Len(stack[e]) : stack[e][i][1] = "handler"
    BY <1>1 DEF LoopInv, Handles
  <2>. QED
    BY <2>1 DEF FramesStay, Handles
<1>. QED
    BY <1>1

LEMMA RepliesKept ==
    ASSUME RepliesInv, FramesStay
    PROVE  RepliesInv'
BY DEF RepliesInv, FramesStay

LEMMA HandlingKept ==
    ASSUME HandlingInv, FramesStay,
           \A c \in Calls : serve'[c] = "handling" =>
               \/ serve[c] = "handling"
               \/ \E i \in 1..Len(stack'[Other(Owner(c))]) :
                      stack'[Other(Owner(c))][i] = Handler(c)
    PROVE  HandlingInv'
<1>. SUFFICES ASSUME NEW c \in Calls, serve[c] = "handling"
              PROVE  \E i \in 1..Len(stack'[Other(Owner(c))]) :
                         stack'[Other(Owner(c))][i] = Handler(c)
    BY DEF HandlingInv
<1>1. PICK e \in Ends : e = Other(Owner(c))
    BY CallFacts, EndFacts
<1>2. PICK i \in 1..Len(stack[e]) : stack[e][i] = Handler(c)
    BY <1>1 DEF HandlingInv
<1>3. stack[e][i][1] = "handler"
    BY <1>2 DEF Handler
<1>. QED
    BY <1>1, <1>2, <1>3 DEF FramesStay

LEMMA AnswerKept ==
    ASSUME AnswerInv, \A e \in Ends : Up(e)' => Up(e),
           \A c \in Calls :
               /\ st'[c] = "waiting" /\ serve'[c] = "answered"
               /\ Up(Owner(c))' /\ Up(Other(Owner(c)))'
               => \/ OnItsWay(c)'
                  \/ /\ st[c] = "waiting" /\ serve[c] = "answered"
                     /\ OnItsWay(c) => OnItsWay(c)'
    PROVE  AnswerInv'
<1>. SUFFICES ASSUME NEW c \in Calls,
                     st'[c] = "waiting", serve'[c] = "answered",
                     Up(Owner(c))', Up(Other(Owner(c)))'
              PROVE  OnItsWay(c)'
    BY DEF AnswerInv
<1>1. Up(Owner(c)) /\ Up(Other(Owner(c)))
    BY CallFacts, EndFacts
<1>. QED
    BY <1>1 DEF AnswerInv

\* Nobody's answer moves.
LEMMA WaitKept ==
    ASSUME WaitInv, FramesStay, \A e \in Ends : Up(e)' => Up(e),
           \A e \in Ends : Up(e)' /\ reads'[e] = 0 => reads[e] = 0,
           \A c \in Calls : st'[c] = "waiting" => st[c] = "waiting",
           UNCHANGED <<serve, queue, pipe>>
    PROVE  WaitInv'
<1>1. LoopInv' /\ RepliesInv' /\ HandlingInv'
    BY LoopKept, RepliesKept, HandlingKept DEF WaitInv
<1>2. \A c \in Calls : OnItsWay(c)' <=> OnItsWay(c)
    BY DEF OnItsWay, AnswerAmong
<1>3. AnswerInv'
    BY <1>2, AnswerKept DEF WaitInv
<1>. QED
    BY <1>1, <1>3 DEF WaitInv

\* The queues may grow.
LEMMA QueuesGrow ==
    ASSUME NEW d \in Calls, OnItsWay(d), UNCHANGED pipe,
           \A f \in Ends : \A i \in 1..Len(queue[f]) :
               i \in 1..Len(queue'[f]) /\ queue'[f][i] = queue[f][i]
    PROVE  OnItsWay(d)'
<1>1. Other(Owner(d)) \in Ends
    BY CallFacts, EndFacts
<1>. QED
    BY <1>1 DEF OnItsWay, AnswerAmong

-----------------------------------------------------------------------------
(* Deadlock: one lemma per action.                                         *)

LEMMA CallWaits ==
    ASSUME Inv, MadeInv, WaitInv, NEW c \in Calls, Call(c)
    PROVE  WaitInv'
<1>1. PICK e \in Ends : e = Owner(c)
    BY CallFacts
<1>2. /\ c[2] = sequence[e] + 1
      /\ st' = [st EXCEPT ![c] = "waiting"]
      /\ queue' = [queue EXCEPT ![e] = Append(@, CallMessage(c))]
      /\ Push(e, InCall(c)) \/ UNCHANGED stack
      /\ UNCHANGED <<serve, state, reads, pipe>>
    BY <1>1 DEF Call, CallAsync, Enqueue
<1>3. TypeInv /\ FlowInv
    BY DEF Inv
<1>4. FramesStay
  <2>1. InCall(c) \in Frames /\ InCall(c)[1] # "reply"
    BY DEF InCall, Frames
  <2>. QED
    BY <1>2, <1>3, <2>1, FramePushed, FramesKept
<1>5. LoopInv' /\ RepliesInv' /\ HandlingInv'
    BY <1>2, <1>4, LoopKept, RepliesKept, HandlingKept DEF WaitInv, Up
<1>6. serve[c] = "none"
  <2>1. sequence[e] \in Nat /\ c[2] > sequence[Owner(c)]
    BY <1>1, <1>2, <1>3 DEF TypeInv
  <2>. QED
    BY <2>1 DEF MadeInv
<1>7. \A f \in Ends : \A i \in 1..Len(queue[f]) :
          i \in 1..Len(queue'[f]) /\ queue'[f][i] = queue[f][i]
  <2>1. /\ queue[e] \in Seq(Sent(e)) /\ DOMAIN queue = Ends
        /\ CallMessage(c) \in Sent(e)
    BY <1>1, <1>3, MessageFacts DEF FlowInv
  <2>2. /\ queue'[e] = Append(queue[e], CallMessage(c))
        /\ \A f \in Ends \ {e} : queue'[f] = queue[f]
    BY <1>2, <2>1
  <2>3. \A i \in 1..Len(queue[e]) :
            i \in 1..Len(queue'[e]) /\ queue'[e][i] = queue[e][i]
    BY <2>1, <2>2, AppendFacts
  <2>. QED
    BY <2>2, <2>3
<1>8. ASSUME NEW d \in Calls, st'[d] = "waiting", serve'[d] = "answered"
      PROVE  /\ st[d] = "waiting" /\ serve[d] = "answered"
             /\ OnItsWay(d) => OnItsWay(d)'
  <2>1. d # c
    BY <1>2, <1>6, <1>8
  <2>2. st[d] = "waiting" /\ serve[d] = "answered"
    BY <1>2, <1>3, <1>8, <2>1 DEF TypeInv
  <2>. QED
    BY <1>2, <1>7, <2>2, QueuesGrow
<1>9. AnswerInv'
    BY <1>2, <1>8, AnswerKept DEF WaitInv, Up
<1>. QED
    BY <1>5, <1>9 DEF WaitInv

\* The answer is queued, unless the end is down.
LEMMA AnswerSent ==
    ASSUME Inv, WaitInv, NEW c \in Calls, SendAnswer(c),
           UNCHANGED <<st, state, pipe>>
    PROVE  /\ AnswerInv'
           /\ \A d \in Calls : serve'[d] = "handling" =>
                  d # c /\ serve[d] = "handling"
<1>1. PICK e \in Ends : e = Other(Owner(c))
    BY CallFacts, EndFacts
<1>2. /\ serve' = [serve EXCEPT ![c] = "answered"]
      /\ IF Up(e) THEN Enqueue(e, Answer(c)) ELSE UNCHANGED queue
    BY <1>1 DEF SendAnswer
<1>3. TypeInv /\ FlowInv
    BY DEF Inv
<1>4. serve'[c] = "answered" /\ \A d \in Calls \ {c} : serve'[d] = serve[d]
    BY <1>2, <1>3 DEF TypeInv
<1>5. Answer(c) \in Sent(e) /\ Answer(c).kind # "call" /\ Answer(c).of = c
    BY <1>1, <1>3, MessageFacts DEF Answer
<1>6. \A f \in Ends : \A i \in 1..Len(queue[f]) :
          i \in 1..Len(queue'[f]) /\ queue'[f][i] = queue[f][i]
    BY <1>2, <1>3, <1>5, AnswerQueued
<1>7. ASSUME Up(e) PROVE OnItsWay(c)'
  <2>1. queue[e] \in Seq(Sent(e)) /\ DOMAIN queue = Ends
    BY <1>3 DEF FlowInv
  <2>2. queue'[e] = Append(queue[e], Answer(c))
    BY <1>2, <1>7, <2>1 DEF Enqueue
  <2>3. PICK k : k = Len(queue[e]) + 1
    OBVIOUS
  <2>4. k \in 1..Len(queue'[e]) /\ queue'[e][k] = Answer(c)
    BY <1>5, <2>1, <2>2, <2>3, AppendFacts
  <2>. QED
    BY <1>1, <1>5, <2>4 DEF OnItsWay, AnswerAmong
<1>8. ASSUME NEW d \in Calls, st'[d] = "waiting", serve'[d] = "answered",
             Up(Other(Owner(d)))'
      PROVE  \/ OnItsWay(d)'
             \/ /\ st[d] = "waiting" /\ serve[d] = "answered"
                /\ OnItsWay(d) => OnItsWay(d)'
  <2>1. CASE d = c
    BY <1>1, <1>7, <1>8, <2>1 DEF Up
  <2>2. CASE d # c
    BY <1>4, <1>6, <1>8, <2>2, QueuesGrow
  <2>. QED
    BY <2>1, <2>2
<1>9. AnswerInv'
    BY <1>8, AnswerKept DEF WaitInv, Up
<1>. QED
    BY <1>4, <1>9

LEMMA ReplyWaits ==
    ASSUME Inv, WaitInv, NEW c \in Calls, Reply(c) \/ ReplySync(c)
    PROVE  WaitInv'
<1>1. PICK e \in Ends : e = Other(Owner(c)) /\ Owner(c) = Other(e)
    BY CallFacts, EndFacts
<1>2. /\ SendAnswer(c)
      /\ Push(e, InReply(c)) \/ UNCHANGED stack
      /\ UNCHANGED <<st, state, reads, pipe>>
    BY <1>1 DEF Reply, ReplySync, callerVars, endVars
<1>3. AnswerInv' /\ \A d \in Calls : serve'[d] = "handling" => serve[d] = "handling"
    BY <1>2, AnswerSent
<1>4. FramesStay
  <2>1. InReply(c) \in Frames /\ InReply(c)[2] = c
    BY DEF InReply, Frames
  <2>. QED
    BY <1>1, <1>2, <2>1, FramePushed, FramesKept DEF Inv
<1>5. LoopInv' /\ RepliesInv' /\ HandlingInv'
    BY <1>2, <1>3, <1>4, LoopKept, RepliesKept, HandlingKept DEF WaitInv, Up
<1>. QED
    BY <1>3, <1>5 DEF WaitInv

\* The handler is popped, and the client reads again.
LEMMA HandlerReturnsWaits ==
    ASSUME Inv, WaitInv, NEW c \in Calls, HandlerReturns(c)
    PROVE  WaitInv'
<1>1. PICK e \in Ends : e = Other(Owner(c))
    BY CallFacts, EndFacts
<1>2. /\ Top(e) = <<"handler", c>> /\ Pop(e)
      /\ reads' = [reads EXCEPT ![e] = IF Up(e) THEN 1 ELSE 0]
      /\ UNCHANGED <<st, state, pipe>>
    BY <1>1 DEF HandlerReturns, Handler, BeginNextRead, callerVars
<1>3. TypeInv /\ FlowInv
    BY DEF Inv
<1>4. stack[e] # <<>> /\ Last(stack[e]) = Handler(c)
    BY <1>2, TopFacts DEF Handler
<1>5. /\ \A f \in Ends \ {e} : stack'[f] = stack[f]
      /\ \A i \in 1..Len(stack'[e]) :
            i \in 1..Len(stack[e]) /\ stack'[e][i] = stack[e][i]
      /\ \A i \in 1..Len(stack[e]) :
            \/ i \in 1..Len(stack'[e]) /\ stack'[e][i] = stack[e][i]
            \/ stack[e][i] = Handler(c)
    BY <1>2, <1>3, <1>4, PopFacts
<1>6. LoopInv'
  <2>. SUFFICES ASSUME NEW f \in Ends, Up(f)', reads'[f] = 0
                PROVE  Handles(f)'
    BY DEF LoopInv
  <2>1. f # e /\ reads[f] = 0 /\ Up(f)
    BY <1>2, <1>3 DEF TypeInv, Up
  <2>2. Handles(f)
    BY <2>1 DEF WaitInv, LoopInv
  <2>. QED
    BY <1>5, <2>1, <2>2 DEF Handles
<1>7. RepliesInv'
  <2>. SUFFICES ASSUME NEW f \in Ends, NEW i \in 1..Len(stack'[f]),
                       stack'[f][i][1] = "reply"
                PROVE  Owner(stack'[f][i][2]) = Other(f)
    BY DEF RepliesInv
  <2>. QED
    BY <1>5 DEF WaitInv, RepliesInv
<1>8. /\ AnswerInv'
      /\ \A d \in Calls : serve'[d] = "handling" => d # c /\ serve[d] = "handling"
  <2>1. CASE SendAnswer(c)
    BY <1>2, <2>1, AnswerSent
  <2>2. CASE /\ serve' = [serve EXCEPT ![c] = IF @ = "handling" THEN "owed" ELSE @]
             /\ UNCHANGED queue
    <3>1. /\ serve'[c] # "handling"
          /\ serve'[c] = "answered" => serve[c] = "answered"
          /\ \A d \in Calls \ {c} : serve'[d] = serve[d]
        BY <1>3, <2>2 DEF TypeInv
    <3>2. \A d \in Calls : OnItsWay(d)' <=> OnItsWay(d)
        BY <1>2, <2>2 DEF OnItsWay, AnswerAmong
    <3>3. AnswerInv'
        BY <1>2, <3>1, <3>2, AnswerKept DEF WaitInv, Up
    <3>. QED
        BY <3>1, <3>3
  <2>3. CASE /\ serve[c] = "answered"
             /\ Enqueue(e, NotFound(c)) \/ UNCHANGED queue
             /\ UNCHANGED serve
    <3>1. NotFound(c) \in Sent(e) /\ NotFound(c).kind # "call"
        BY <1>1, <1>3, MessageFacts
    <3>2. \A f \in Ends : \A i \in 1..Len(queue[f]) :
              i \in 1..Len(queue'[f]) /\ queue'[f][i] = queue[f][i]
        BY <1>3, <2>3, <3>1, AnswerQueued
    <3>3. \A d \in Calls : OnItsWay(d) => OnItsWay(d)'
        BY <1>2, <3>2, QueuesGrow
    <3>4. AnswerInv'
        BY <1>2, <2>3, <3>3, AnswerKept DEF WaitInv, Up
    <3>. QED
        BY <2>3, <3>4
  <2>. QED
    BY <1>1, <2>1, <2>2, <2>3 DEF HandlerReturns
<1>9. HandlingInv'
  <2>. SUFFICES ASSUME NEW d \in Calls, serve'[d] = "handling"
                PROVE  \E i \in 1..Len(stack'[Other(Owner(d))]) :
                           stack'[Other(Owner(d))][i] = Handler(d)
    BY DEF HandlingInv
  <2>1. PICK f \in Ends : f = Other(Owner(d))
    BY CallFacts, EndFacts
  <2>2. PICK i \in 1..Len(stack[f]) : stack[f][i] = Handler(d)
    BY <1>8, <2>1 DEF WaitInv, HandlingInv
  <2>3. Handler(d) # Handler(c)
    BY <1>8 DEF Handler
  <2>. QED
    BY <1>5, <2>1, <2>2, <2>3
<1>. QED
    BY <1>6, <1>7, <1>8, <1>9 DEF WaitInv

\* What changes only who waits, reads or is up: an end that stops reading
\* is down.
LEMMA QuietWaits ==
    ASSUME Inv, WaitInv,
           \/ \E e \in Ends : Close(e) \/ HangUp(e) \/ ReadEnds(e)
           \/ \E c \in Calls : FailCall(c) \/ ReplyReturns(c) \/ CallReturns(c)
           \/ UNCHANGED vars
    PROVE  WaitInv'
<1>1. TypeInv
    BY DEF Inv
<1>2. ASSUME NEW e \in Ends, Close(e) \/ HangUp(e)
      PROVE  WaitInv'
  <2>1. /\ GoDown(e, "closed") \/ UNCHANGED state
        /\ UNCHANGED <<st, serve, reads, queue, pipe, stack>>
    BY <1>2 DEF Close, HangUp, callerVars, endVars
  <2>2. \A f \in Ends : Up(f)' => Up(f)
    BY <1>1, <2>1, DownFacts DEF Up
  <2>. QED
    BY <2>1, <2>2, FramesKept, WaitKept
<1>3. ASSUME NEW e \in Ends, ReadEnds(e)
      PROVE  WaitInv'
  <2>1. /\ reads' = [reads EXCEPT ![e] = 0]
        /\ GoDown(e, "failed") \/ (state[e] = "closed" /\ UNCHANGED state)
        /\ UNCHANGED <<st, serve, queue, pipe, stack>>
    BY <1>3 DEF ReadEnds, callerVars
  <2>2. ~Up(e)' /\ \A f \in Ends : Up(f)' => Up(f)
    BY <1>1, <2>1 DEF TypeInv, GoDown, Up
  <2>3. \A f \in Ends : Up(f)' /\ reads'[f] = 0 => reads[f] = 0
    BY <1>1, <2>1, <2>2 DEF TypeInv
  <2>. QED
    BY <2>1, <2>2, <2>3, FramesKept, WaitKept
<1>4. ASSUME NEW c \in Calls, FailCall(c)
      PROVE  WaitInv'
  <2>1. /\ st' = [st EXCEPT ![c] = "failed"]
        /\ UNCHANGED <<state, reads, serve, queue, pipe, stack>>
    BY <1>4 DEF FailCall, endVars
  <2>2. \A d \in Calls : st'[d] = "waiting" => st[d] = "waiting"
    BY <1>1, <2>1 DEF TypeInv
  <2>. QED
    BY <2>1, <2>2, FramesKept, WaitKept DEF Up
<1>5. ASSUME NEW c \in Calls, ReplyReturns(c) \/ CallReturns(c)
      PROVE  WaitInv'
  <2>1. PICK e \in Ends, kind \in {"reply", "call"} :
            /\ Top(e) = <<kind, c>>
            /\ Pop(e)
            /\ UNCHANGED <<st, state, serve, reads, queue, pipe>>
    BY <1>5, CallFacts, EndFacts
    DEF ReplyReturns, CallReturns, CanLeaveReply, CanLeaveCall, InReply, InCall,
        callerVars
  <2>2. stack[e] # <<>> /\ Last(stack[e])[1] # "handler"
    BY <2>1, TopFacts
  <2>3. FramesStay
    BY <1>1, <2>1, <2>2, WaitPopped
  <2>. QED
    BY <2>1, <2>3, WaitKept DEF Up
<1>6. CASE UNCHANGED vars
    BY <1>6, FramesKept, WaitKept DEF vars, callerVars, endVars, Up
<1>. QED
    BY <1>2, <1>3, <1>4, <1>5, <1>6

\* A write takes an answer from the queue to the pipe.
LEMMA WriteWaits ==
    ASSUME Inv, WaitInv, NEW e \in Ends, Write(e)
    PROVE  WaitInv'
<1>1. PICK o \in Ends : o = Other(e) /\ o # e /\ Other(o) = e
    BY EndFacts
<1>2. /\ queue[e] # <<>>
      /\ pipe' = [pipe EXCEPT ![o] = Append(@, Head(queue[e]))]
      /\ queue' = [queue EXCEPT ![e] = Tail(@)]
      /\ UNCHANGED <<st, serve, state, reads, stack>>
    BY <1>1 DEF Write, CanWrite, callerVars, endVars
<1>3. /\ DOMAIN queue = Ends /\ DOMAIN pipe = Ends
      /\ queue[e] \in Seq(Sent(e)) /\ pipe[o] \in Seq(Sent(e))
    BY <1>1 DEF Inv, FlowInv
<1>4. /\ queue'[e] = Tail(queue[e])
      /\ pipe'[o] = Append(pipe[o], Head(queue[e]))
      /\ \A f \in Ends \ {e} : queue'[f] = queue[f]
      /\ \A f \in Ends \ {o} : pipe'[f] = pipe[f]
    BY <1>2, <1>3
<1>5. /\ Len(queue[e]) \in Nat /\ Len(queue'[e]) = Len(queue[e]) - 1
      /\ \A i \in 1..Len(queue'[e]) : queue'[e][i] = queue[e][i + 1]
      /\ Head(queue[e]) \in Sent(e) /\ Head(queue[e]) = queue[e][1]
    BY <1>2, <1>3, <1>4, TailFacts
<1>6. /\ Len(pipe[o]) \in Nat /\ Len(pipe'[o]) = Len(pipe[o]) + 1
      /\ pipe'[o][Len(pipe[o]) + 1] = queue[e][1]
      /\ \A i \in 1..Len(pipe[o]) : pipe'[o][i] = pipe[o][i]
    BY <1>3, <1>4, <1>5, AppendFacts
<1>7. ASSUME NEW d \in Calls, OnItsWay(d)
      PROVE  OnItsWay(d)'
  <2>1. PICK f \in Ends : f = Owner(d)
    BY CallFacts
  <2>2. CASE f # o
    <3>1. Other(f) # e
        BY <1>1, <2>2, EndFacts
    <3>2. pipe'[f] = pipe[f] /\ queue'[Other(f)] = queue[Other(f)]
        BY <1>4, <2>1, <2>2, <3>1, EndFacts
    <3>. QED
        BY <1>7, <2>1, <3>2 DEF OnItsWay, AnswerAmong
  <2>3. CASE f = o /\ AnswerAmong(pipe[o], d)
    <3>1. PICK i \in 1..Len(pipe[o]) : pipe[o][i].kind # "call" /\ pipe[o][i].of = d
        BY <2>3 DEF AnswerAmong
    <3>2. i \in 1..Len(pipe'[o]) /\ pipe'[o][i] = pipe[o][i]
        BY <1>6
    <3>. QED
        BY <2>1, <2>3, <3>1, <3>2 DEF OnItsWay, AnswerAmong
  <2>4. CASE f = o /\ AnswerAmong(queue[e], d)
    <3>1. PICK i \in 1..Len(queue[e]) : queue[e][i].kind # "call" /\ queue[e][i].of = d
        BY <2>4 DEF AnswerAmong
    <3>2. CASE i = 1
      <4>1. PICK k : k = Len(pipe[o]) + 1
        OBVIOUS
      <4>2. k \in 1..Len(pipe'[o]) /\ pipe'[o][k] = queue[e][i]
        BY <1>6, <3>2, <4>1
      <4>. QED
        BY <2>1, <2>4, <3>1, <4>2 DEF OnItsWay, AnswerAmong
    <3>3. CASE i # 1
      <4>1. PICK k \in Nat : k = i - 1
        BY <1>5
      <4>2. k \in 1..Len(queue'[e]) /\ i = k + 1
        BY <1>5, <3>3, <4>1
      <4>3. queue'[e][k] = queue[e][i]
        BY <1>5, <4>2
      <4>. QED
        BY <1>1, <2>1, <2>4, <3>1, <4>2, <4>3 DEF OnItsWay, AnswerAmong
    <3>. QED
        BY <3>2, <3>3
  <2>. QED
    BY <1>1, <1>7, <2>1, <2>2, <2>3, <2>4 DEF OnItsWay
<1>8. AnswerInv'
    BY <1>2, <1>7, AnswerKept DEF WaitInv, Up
<1>9. LoopInv' /\ RepliesInv' /\ HandlingInv'
    BY <1>2, FramesKept, LoopKept, RepliesKept, HandlingKept DEF WaitInv, Up
<1>. QED
    BY <1>8, <1>9 DEF WaitInv

\* Answers are lost with the end that would get them.
LEMMA WriteFailsWaits ==
    ASSUME Inv, WaitInv, NEW e \in Ends, WriteFails(e)
    PROVE  WaitInv'
<1>1. /\ ~Up(Other(e))
      /\ queue' = [queue EXCEPT ![e] = <<>>]
      /\ \/ state' = [state EXCEPT ![e] = IF Up(e) THEN "failed" ELSE @]
         \/ UNCHANGED state
      /\ UNCHANGED <<st, serve, reads, stack, pipe>>
    BY DEF WriteFails, CanFailWrite, callerVars
<1>2. TypeInv /\ DOMAIN queue = Ends
    BY DEF Inv, FlowInv
<1>3. \A f \in Ends : Up(f)' => Up(f)
    BY <1>1, <1>2 DEF TypeInv, Up
<1>4. LoopInv' /\ RepliesInv' /\ HandlingInv'
    BY <1>1, <1>3, FramesKept, LoopKept, RepliesKept, HandlingKept DEF WaitInv
<1>5. ASSUME NEW d \in Calls, Up(Owner(d))', OnItsWay(d)
      PROVE  OnItsWay(d)'
  <2>1. PICK f \in Ends : f = Owner(d) /\ Up(f)
    BY <1>3, <1>5, CallFacts
  <2>2. Other(f) # e
    BY <1>1, <2>1, EndFacts
  <2>3. queue'[Other(f)] = queue[Other(f)]
    BY <1>1, <1>2, <2>2, EndFacts
  <2>. QED
    BY <1>1, <1>5, <2>1, <2>3 DEF OnItsWay, AnswerAmong
<1>6. AnswerInv'
    BY <1>1, <1>3, <1>5, AnswerKept DEF WaitInv
<1>. QED
    BY <1>4, <1>6 DEF WaitInv

\* The message that is read is all that is missing then.
LEMMA HeadTaken ==
    ASSUME FlowInv, NEW e \in Ends, NEW m, Takes(e, m), UNCHANGED queue,
           NEW d \in Calls, OnItsWay(d), ~(m.kind # "call" /\ m.of = d)
    PROVE  OnItsWay(d)'
<1>1. /\ m = pipe[e][1] /\ Len(pipe[e]) \in Nat
      /\ \A f \in Ends \ {e} : pipe'[f] = pipe[f]
      /\ Len(pipe'[e]) = Len(pipe[e]) - 1
      /\ \A i \in 1..Len(pipe'[e]) : pipe'[e][i] = pipe[e][i + 1]
    BY PipeFacts
<1>2. PICK f \in Ends : f = Owner(d)
    BY CallFacts
<1>3. CASE f # e \/ AnswerAmong(queue[Other(f)], d)
    BY <1>1, <1>2, <1>3 DEF OnItsWay, AnswerAmong
<1>4. CASE f = e /\ AnswerAmong(pipe[e], d)
  <2>1. PICK i \in 1..Len(pipe[e]) : pipe[e][i].kind # "call" /\ pipe[e][i].of = d
    BY <1>4 DEF AnswerAmong
  <2>2. i # 1
    BY <1>1, <2>1
  <2>3. PICK k \in Nat : k = i - 1
    BY <1>1
  <2>4. k \in 1..Len(pipe'[e]) /\ i = k + 1
    BY <1>1, <2>2, <2>3
  <2>5. pipe'[e][k] = pipe[e][i]
    BY <1>1, <2>4
  <2>. QED
    BY <1>2, <1>4, <2>1, <2>4, <2>5 DEF OnItsWay, AnswerAmong
<1>. QED
    BY <1>2, <1>3, <1>4 DEF OnItsWay

LEMMA ReadCallWaits ==
    ASSUME Inv, WaitInv, NEW e \in Ends, ReadCall(e)
    PROVE  WaitInv'
<1>1. PICK m : /\ Takes(e, m)
               /\ m.kind = "call"
               /\ reads' = [reads EXCEPT ![e] = 0]
               /\ Push(e, Handler(m.of))
               /\ serve' = [serve EXCEPT ![m.of] = "handling"]
               /\ UNCHANGED <<st, state, queue>>
    BY DEF ReadCall, callerVars
<1>2. TypeInv /\ FlowInv
    BY DEF Inv
<1>3. PICK c \in Calls : c = m.of /\ Other(Owner(c)) = e
    BY <1>1, <1>2, PipeFacts, SentFacts, EndFacts
<1>4. /\ FramesStay
      /\ \E i \in 1..Len(stack'[e]) : stack'[e][i] = Handler(c)
  <2>1. Handler(c) \in Frames /\ Handler(c)[1] = "handler"
    BY DEF Handler, Frames
  <2>. QED
    BY <1>1, <1>2, <1>3, <2>1, FramePushed
<1>5. Handles(e)'
    BY <1>4 DEF Handles, Handler
<1>6. LoopInv' /\ RepliesInv'
  <2>1. \A f \in Ends : Up(f)' /\ reads'[f] = 0 => reads[f] = 0 \/ Handles(f)'
    BY <1>1, <1>2, <1>5 DEF TypeInv
  <2>. QED
    BY <1>1, <1>4, <2>1, LoopKept, RepliesKept DEF WaitInv, Up
<1>7. serve'[c] = "handling" /\ \A d \in Calls \ {c} : serve'[d] = serve[d]
    BY <1>1, <1>2, <1>3 DEF TypeInv
<1>8. HandlingInv'
    BY <1>3, <1>4, <1>7, HandlingKept DEF WaitInv
<1>9. ASSUME NEW d \in Calls, serve'[d] = "answered"
      PROVE  serve[d] = "answered" /\ (OnItsWay(d) => OnItsWay(d)')
    BY <1>1, <1>2, <1>7, <1>9, HeadTaken
<1>10. AnswerInv'
    BY <1>1, <1>9, AnswerKept DEF WaitInv, Up
<1>. QED
    BY <1>6, <1>8, <1>10 DEF WaitInv

\* The call that waits for the answer that is read gets it, if its client
\* is up.
LEMMA AnswerEnds ==
    ASSUME Inv, NEW e \in Ends, NEW m, Takes(e, m), m.kind # "call",
           \/ \E c \in Known(e, m.of) : st' = [st EXCEPT ![c] = "answered"]
           \/ Known(e, m.of) = {} /\ UNCHANGED st,
           \A f \in Ends : Up(f)' => Up(f),
           NEW d \in Calls, st'[d] = "waiting", Up(Owner(d))'
    PROVE  st[d] = "waiting" /\ d # m.of
<1>1. TypeInv /\ FlowInv
    BY DEF Inv
<1>2. m.of \in Calls /\ Owner(m.of) = e
    BY <1>1, PipeFacts, SentFacts, EndFacts
<1>3. CASE Known(e, m.of) = {} /\ UNCHANGED st
  <2>1. st[d] = "waiting"
    BY <1>3
  <2>2. ASSUME d = m.of PROVE FALSE
    <3>1. Up(e) /\ d = <<e, m.of[2]>>
        BY <1>2, <2>2, CallFacts
    <3>2. d \in Known(e, m.of)
        BY <2>1, <3>1 DEF Known
    <3>. QED
        BY <1>3, <3>2
  <2>. QED
    BY <2>1, <2>2
<1>4. CASE \E c \in Known(e, m.of) : st' = [st EXCEPT ![c] = "answered"]
  <2>1. PICK c \in Known(e, m.of) : st' = [st EXCEPT ![c] = "answered"]
    BY <1>4
  <2>2. c \in Calls /\ c = <<e, m.of[2]>>
    BY <2>1 DEF Known
  <2>3. c = m.of
    BY <1>2, <2>2, CallFacts
  <2>. QED
    BY <1>1, <2>1, <2>2, <2>3 DEF TypeInv
<1>. QED
    BY <1>3, <1>4

LEMMA ReadAnswerWaits ==
    ASSUME Inv, WaitInv, NEW e \in Ends, ReadAnswer(e) \/ ReadUnknown(e)
    PROVE  WaitInv'
<1>1. PICK m :
          /\ Takes(e, m)
          /\ m.kind # "call"
          /\ \/ \E c \in Known(e, m.of) : st' = [st EXCEPT ![c] = "answered"]
             \/ Known(e, m.of) = {} /\ UNCHANGED st
          /\ \/ BeginNextRead(e) /\ UNCHANGED state
             \/ GoDown(e, "failed") /\ reads' = [reads EXCEPT ![e] = 0]
          /\ UNCHANGED <<serve, queue, stack>>
    BY DEF ReadAnswer, ReadUnknown, callerVars
<1>2. TypeInv /\ FlowInv
    BY DEF Inv
<1>3. m.of \in Calls /\ Owner(m.of) = e
    BY <1>1, <1>2, PipeFacts, SentFacts, EndFacts
<1>4. \A f \in Ends : Up(f)' => Up(f)
    BY <1>1, <1>2 DEF TypeInv, GoDown, Up
<1>5. \A f \in Ends : Up(f)' /\ reads'[f] = 0 => reads[f] = 0
  <2>1. CASE BeginNextRead(e)
    BY <1>2, <1>4, <2>1 DEF TypeInv, BeginNextRead
  <2>2. CASE GoDown(e, "failed") /\ reads' = [reads EXCEPT ![e] = 0]
    <3>1. ~Up(e)'
        BY <1>2, <2>2 DEF TypeInv, GoDown, Up
    <3>. QED
        BY <1>2, <2>2, <3>1 DEF TypeInv
  <2>. QED
    BY <1>1, <2>1, <2>2
<1>6. LoopInv' /\ RepliesInv' /\ HandlingInv'
    BY <1>1, <1>4, <1>5, FramesKept, LoopKept, RepliesKept, HandlingKept DEF WaitInv
<1>7. ASSUME NEW d \in Calls, st'[d] = "waiting", Up(Owner(d))'
      PROVE  st[d] = "waiting" /\ d # m.of
    BY <1>1, <1>4, <1>7, AnswerEnds
<1>8. AnswerInv'
  <2>1. ASSUME NEW d \in Calls, st'[d] = "waiting", Up(Owner(d))', OnItsWay(d)
        PROVE  OnItsWay(d)'
    BY <1>1, <1>2, <1>7, <2>1, HeadTaken
  <2>. QED
    BY <1>1, <1>4, <1>7, <2>1, AnswerKept DEF WaitInv
<1>. QED
    BY <1>6, <1>8 DEF WaitInv

-----------------------------------------------------------------------------
(* The waits, from step to step.                                           *)

LEMMA WaitInit == Init => WaitInv
<1>. SUFFICES ASSUME Init PROVE WaitInv
    OBVIOUS
<1>1. /\ \A e \in Ends : reads[e] = 1 /\ Len(stack[e]) = 0
      /\ \A c \in Calls : serve[c] = "none"
    BY DEF Init
<1>. QED
    BY <1>1 DEF WaitInv, LoopInv, RepliesInv, HandlingInv, AnswerInv

LEMMA WaitStep ==
    Inv /\ MadeInv /\ WaitInv /\ [Next]_vars => WaitInv'
<1>. SUFFICES ASSUME Inv, MadeInv, WaitInv, [Next]_vars
              PROVE  WaitInv'
    OBVIOUS
<1>1. CASE Program
    BY <1>1, CallWaits, ReplyWaits, QuietWaits DEF Program
<1>2. ASSUME NEW e \in Ends, Thread(e)
      PROVE  WaitInv'
  <2>1. CASE Write(e) \/ WriteFails(e) \/ HangUp(e)
    BY <2>1, WriteWaits, WriteFailsWaits, QuietWaits
  <2>2. CASE ReadCall(e) \/ ReadAnswer(e) \/ ReadUnknown(e) \/ ReadEnds(e)
    BY <2>2, ReadCallWaits, ReadAnswerWaits, QuietWaits
  <2>3. ASSUME NEW c \in Calls, FailCall(c) \/ CallReturns(c)
        PROVE  WaitInv'
    BY <2>3, QuietWaits
  <2>4. ASSUME NEW c \in Calls, ReplyReturns(c) \/ HandlerReturns(c)
        PROVE  WaitInv'
    BY <2>4, QuietWaits, HandlerReturnsWaits
  <2>. QED
    BY <1>2, <2>1, <2>2, <2>3, <2>4 DEF Thread
<1>3. CASE UNCHANGED vars
    BY <1>3, QuietWaits
<1>. QED
    BY <1>1, <1>2, <1>3 DEF Next

-----------------------------------------------------------------------------
(* Answers: the first one to a call is right.                              *)

LEMMA OnItsWayInLine ==
    ASSUME FlowInv, NEW e \in Ends, NEW c \in Calls, Other(Owner(c)) = e,
           OnItsWay(c)
    PROVE  \E i \in 1..Len(Line(e)) : Answers(Line(e)[i], c)
<1>1. Owner(c) = Other(e)
    BY CallFacts, EndFacts
<1>2. PICK p \in Seq(Sent(e)), q \in Seq(Sent(e)) : p = pipe[Other(e)] /\ q = queue[e]
    BY EndFacts DEF FlowInv
<1>3. PICK l \in Seq(Sent(e)) : l = p \o q
    BY ConcatenationFacts
<1>4. /\ Len(p) \in Nat /\ Len(q) \in Nat /\ Len(l) = Len(p) + Len(q)
      /\ \A i \in 1..Len(p) : l[i] = p[i]
      /\ \A i \in 1..Len(q) : l[Len(p) + i] = q[i]
    BY <1>3, ConcatenationFacts
<1>5. CASE AnswerAmong(p, c)
  <2>1. PICK i \in 1..Len(p) : Answers(p[i], c)
    BY <1>5 DEF AnswerAmong, Answers
  <2>2. i \in 1..Len(l) /\ l[i] = p[i]
    BY <1>4
  <2>. QED
    BY <1>2, <1>3, <2>1, <2>2 DEF Line
<1>6. CASE AnswerAmong(q, c)
  <2>1. PICK i \in 1..Len(q) : Answers(q[i], c)
    BY <1>6 DEF AnswerAmong, Answers
  <2>2. PICK k \in Nat : k = Len(p) + i
    BY <1>4
  <2>3. k \in 1..Len(l) /\ l[k] = q[i]
    BY <1>4, <2>2
  <2>. QED
    BY <1>2, <1>3, <2>1, <2>3 DEF Line
<1>. QED
    BY <1>1, <1>2, <1>5, <1>6 DEF OnItsWay

\* The head of a line leaves it, and is not an answer to c.
LEMMA FirstTaken ==
    ASSUME NEW S, NEW l \in Seq(S), NEW r \in Seq(S), NEW c, FirstRight(l, c),
           1 \in 1..Len(l), ~Answers(l[1], c),
           \A i \in 1..Len(r) : i + 1 \in 1..Len(l) /\ r[i] = l[i + 1]
    PROVE  FirstRight(r, c)
<1>. SUFFICES ASSUME NEW i \in 1..Len(r), Answers(r[i], c)
              PROVE  \E j \in 1..i : Answers(r[j], c) /\ r[j].kind = KindOf(c)
    BY DEF FirstRight
<1>1. i + 1 \in 1..Len(l) /\ r[i] = l[i + 1]
    OBVIOUS
<1>2. PICK j \in 1..(i + 1) : Answers(l[j], c) /\ l[j].kind = KindOf(c)
    BY <1>1 DEF FirstRight
<1>3. j # 1
    BY <1>2
<1>4. PICK k \in Nat : k = j - 1
    OBVIOUS
<1>5. k \in 1..i /\ k \in 1..Len(r) /\ k + 1 = j
    BY <1>3, <1>4
<1>6. r[k] = l[j]
    BY <1>5
<1>. QED
    BY <1>2, <1>5, <1>6

\* A message comes behind the others, and is no answer to c, or a right
\* one, or not the first.
LEMMA FirstAppended ==
    ASSUME NEW S, NEW l \in Seq(S), NEW r \in Seq(S), NEW c, FirstRight(l, c),
           Len(r) = Len(l) + 1,
           \A i \in 1..Len(l) : r[i] = l[i],
           \/ ~Answers(r[Len(r)], c)
           \/ r[Len(r)].kind = KindOf(c)
           \/ \E i \in 1..Len(l) : Answers(l[i], c)
    PROVE  FirstRight(r, c)
<1>1. Len(l) \in Nat /\ \A i \in 1..Len(r) : i \in 1..Len(l) \/ i = Len(r)
    OBVIOUS
<1>2. ASSUME NEW i \in 1..Len(l), Answers(l[i], c), NEW k \in 1..Len(r), i <= k
      PROVE  \E j \in 1..k : Answers(r[j], c) /\ r[j].kind = KindOf(c)
  <2>1. PICK j \in 1..i : Answers(l[j], c) /\ l[j].kind = KindOf(c)
    BY <1>2 DEF FirstRight
  <2>2. j \in 1..Len(l) /\ j \in 1..k
    BY <1>1, <1>2
  <2>. QED
    BY <2>1, <2>2
<1>. SUFFICES ASSUME NEW k \in 1..Len(r), Answers(r[k], c)
              PROVE  \E j \in 1..k : Answers(r[j], c) /\ r[j].kind = KindOf(c)
    BY DEF FirstRight
<1>3. CASE k \in 1..Len(l)
    BY <1>2, <1>3
<1>4. CASE k = Len(r) /\ r[k].kind = KindOf(c)
    BY <1>4
<1>5. CASE k = Len(r) /\ \E i \in 1..Len(l) : Answers(l[i], c)
    BY <1>1, <1>2, <1>5
<1>. QED
    BY <1>1, <1>3, <1>4, <1>5

\* No call gets an answer, and what is on its way stays right.
LEMMA KindKept ==
    ASSUME KindInv, \A e \in Ends : Up(e)' => Up(e),
           \A c \in Calls : st'[c] = "answered" =>
               st[c] = "answered" /\ got'[c] = got[c],
           \A c \in Calls :
               st'[c] = "waiting" /\ Up(Owner(c)) =>
                   \/ FirstRight(Line(Other(Owner(c)))', c)
                   \/ /\ st[c] = "waiting"
                      /\ Line(Other(Owner(c)))' = Line(Other(Owner(c)))
    PROVE  KindInv'
<1>1. GivenInv'
    BY DEF KindInv, GivenInv
<1>2. ASSUME NEW c \in Calls, st'[c] = "waiting", Up(Owner(c))'
      PROVE  FirstRight(Line(Other(Owner(c))), c)'
  <2>1. Up(Owner(c))
    BY <1>2, CallFacts
  <2>2. CASE FirstRight(Line(Other(Owner(c)))', c)
    BY <2>2 DEF FirstRight, Answers, KindOf
  <2>3. CASE /\ st[c] = "waiting"
             /\ Line(Other(Owner(c)))' = Line(Other(Owner(c)))
    <3>1. FirstRight(Line(Other(Owner(c))), c)
        BY <2>1, <2>3 DEF KindInv, FirstInv
    <3>. QED
        BY <2>3, <3>1 DEF FirstRight, Answers, KindOf
  <2>. QED
    BY <1>2, <2>1, <2>2, <2>3
<1>. QED
    BY <1>1, <1>2 DEF KindInv, FirstInv

\* Nothing is sent, and nothing leaves.
LEMMA QuietKinds ==
    ASSUME Inv, KindInv,
           \/ \E e \in Ends : Close(e) \/ HangUp(e) \/ ReadEnds(e)
           \/ \E c \in Calls : FailCall(c) \/ ReplyReturns(c) \/ CallReturns(c)
           \/ UNCHANGED vars
    PROVE  KindInv'
<1>1. /\ UNCHANGED <<got, queue, pipe>>
      /\ \A e \in Ends : Up(e)' => Up(e)
      /\ st' = st \/ \E c \in Calls : st' = [st EXCEPT ![c] = "failed"]
  <2>1. CASE \E e \in Ends : Close(e) \/ HangUp(e) \/ ReadEnds(e)
    BY <2>1 DEF Close, HangUp, ReadEnds, callerVars, endVars, GoDown, Up,
                Inv, TypeInv
  <2>2. CASE \E c \in Calls : FailCall(c) \/ ReplyReturns(c) \/ CallReturns(c)
    BY <2>2 DEF FailCall, ReplyReturns, CallReturns, callerVars, endVars, Up
  <2>3. CASE UNCHANGED vars
    BY <2>3 DEF vars, callerVars, endVars, Up
  <2>. QED
    BY <2>1, <2>2, <2>3
<1>2. \A c \in Calls : st'[c] = st[c] \/ st'[c] = "failed"
    BY <1>1 DEF Inv, TypeInv
<1>3. \A e \in Ends : Line(e)' = Line(e)
    BY <1>1 DEF Line
<1>4. \A c \in Calls : Line(Other(Owner(c)))' = Line(Other(Owner(c)))
    BY <1>1 DEF Line
<1>. QED
    BY <1>1, <1>2, <1>4, KindKept

\* The request is no answer, and none to the new call is on its way.
LEMMA CallKinds ==
    ASSUME Inv, Inv', PInv, KindInv, NEW c \in Calls, Call(c)
    PROVE  KindInv'
<1>1. PICK e \in Ends : e = Owner(c) /\ Other(Other(e)) = e /\ Other(e) \in Ends
    BY CallFacts, EndFacts
<1>2. /\ c[2] = sequence[e] + 1
      /\ st' = [st EXCEPT ![c] = "waiting"]
      /\ Enqueue(e, CallMessage(c))
      /\ UNCHANGED <<got, serve, state, pipe>>
    BY <1>1 DEF Call, CallAsync
<1>3. TypeInv /\ FlowInv /\ FlowInv' /\ MadeInv /\ Sound(Other(e))
    BY <1>1 DEF Inv, PInv, LineInv
<1>4. PICK m \in Sent(e) : m = CallMessage(c) /\ m.kind = "call"
    BY <1>1, <1>3, MessageFacts
<1>5. \A f \in Ends \ {e} : Line(f)' = Line(f)
    BY <1>2, <1>3 DEF Line, Enqueue, FlowInv
<1>6. st'[c] = "waiting" /\ \A d \in Calls \ {c} : st'[d] = st[d]
    BY <1>2, <1>3 DEF TypeInv
<1>7. serve[c] = "none"
  <2>1. sequence[e] \in Nat /\ c[2] > sequence[Owner(c)]
    BY <1>1, <1>2, <1>3 DEF TypeInv
  <2>. QED
    BY <1>3, <2>1 DEF MadeInv
<1>8. FirstRight(Line(Other(e))', c)
  <2>1. ~ \E i \in 1..Len(Line(Other(e))) : Answers(Line(Other(e))[i], c)
    BY <1>3, <1>7 DEF Sound, Fits, Answers
  <2>2. Line(Other(e))' = Line(Other(e))
    BY <1>1, <1>5, EndFacts
  <2>. QED
    BY <2>1, <2>2 DEF FirstRight
<1>9. ASSUME NEW d \in Calls \ {c}, st[d] = "waiting", Up(Owner(d)),
             Other(Owner(d)) = e
      PROVE  FirstRight(Line(e)', d)
  <2>1. PICK l : l = Line(e)
    OBVIOUS
  <2>2. PICK r : r = Line(e)'
    OBVIOUS
  <2>3. /\ l \in Seq(Sent(e)) /\ r \in Seq(Sent(e))
        /\ Len(r) = Len(l) + 1
        /\ \A i \in 1..Len(l) : r[i] = l[i]
        /\ r[Len(r)] = m
    BY <1>2, <1>3, <1>4, <2>1, <2>2, LineAppended
  <2>4. FirstRight(l, d)
    BY <1>9, <2>1 DEF KindInv, FirstInv
  <2>5. ~Answers(m, d)
    BY <1>4 DEF Answers
  <2>6. FirstRight(r, d)
    BY <2>3, <2>4, <2>5, FirstAppended
  <2>. QED
    BY <2>2, <2>6
<1>10. ASSUME NEW d \in Calls, st'[d] = "waiting", Up(Owner(d))
       PROVE  \/ FirstRight(Line(Other(Owner(d)))', d)
              \/ /\ st[d] = "waiting"
                 /\ Line(Other(Owner(d)))' = Line(Other(Owner(d)))
  <2>1. CASE d = c
    BY <1>1, <1>8, <2>1
  <2>2. CASE d # c /\ Other(Owner(d)) = e
    BY <1>6, <1>9, <1>10, <2>2
  <2>3. CASE d # c /\ Other(Owner(d)) # e
    <3>1. Other(Owner(d)) \in Ends
        BY CallFacts, EndFacts
    <3>. QED
        BY <1>5, <1>6, <1>10, <2>3, <3>1
  <2>. QED
    BY <2>1, <2>2, <2>3
<1>11. /\ \A f \in Ends : Up(f)' => Up(f)
       /\ \A d \in Calls : st'[d] = "answered" =>
              st[d] = "answered" /\ got'[d] = got[d]
    BY <1>2, <1>6 DEF Up
<1>. QED
    BY <1>10, <1>11, KindKept

\* An answer is right, or another one was sent before.
LEMMA AnswerKinds ==
    ASSUME Inv, Inv', WaitInv, KindInv, NEW c \in Calls,
           NEW m \in {Answer(c), NotFound(c)}, m = Answer(c) \/ serve[c] = "answered",
           IF Up(Other(Owner(c))) THEN Enqueue(Other(Owner(c)), m) ELSE UNCHANGED queue,
           UNCHANGED <<st, got, state, pipe>>
    PROVE  KindInv'
<1>1. PICK e \in Ends : e = Other(Owner(c))
    BY CallFacts, EndFacts
<1>2. TypeInv /\ FlowInv /\ FlowInv'
    BY DEF Inv
<1>3. m \in Sent(e) /\ m.kind # "call" /\ m.of = c
    BY <1>1, <1>2, MessageFacts
<1>4. m.kind = KindOf(c) \/ serve[c] = "answered"
    BY <1>2, MessageFacts DEF KindOf
<1>5. ASSUME NEW d \in Calls, st[d] = "waiting", Up(Owner(d)),
             Other(Owner(d)) = e, Up(e), Enqueue(e, m)
      PROVE  FirstRight(Line(e)', d)
  <2>1. PICK l : l = Line(e)
    OBVIOUS
  <2>2. PICK r : r = Line(e)'
    OBVIOUS
  <2>3. /\ l \in Seq(Sent(e)) /\ r \in Seq(Sent(e))
        /\ Len(r) = Len(l) + 1
        /\ \A i \in 1..Len(l) : r[i] = l[i]
        /\ r[Len(r)] = m
    BY <1>2, <1>3, <1>5, <2>1, <2>2, LineAppended
  <2>4. FirstRight(l, d)
    BY <1>5, <2>1 DEF KindInv, FirstInv
  <2>5. CASE d # c
    BY <1>3, <2>2, <2>3, <2>4, <2>5, FirstAppended DEF Answers
  <2>6. CASE d = c /\ m.kind = KindOf(c)
    BY <2>2, <2>3, <2>4, <2>6, FirstAppended
  <2>7. CASE d = c /\ serve[c] = "answered"
    <3>1. OnItsWay(c)
        BY <1>5, <2>7 DEF WaitInv, AnswerInv
    <3>2. \E i \in 1..Len(l) : Answers(l[i], c)
        BY <1>1, <1>2, <1>5, <2>1, <2>7, <3>1, OnItsWayInLine
    <3>. QED
        BY <2>2, <2>3, <2>4, <2>7, <3>2, FirstAppended
  <2>. QED
    BY <1>4, <2>2, <2>5, <2>6, <2>7
<1>6. ASSUME NEW d \in Calls, st'[d] = "waiting", Up(Owner(d))
      PROVE  \/ FirstRight(Line(Other(Owner(d)))', d)
             \/ /\ st[d] = "waiting"
                /\ Line(Other(Owner(d)))' = Line(Other(Owner(d)))
  <2>1. CASE Other(Owner(d)) = e /\ Up(e) /\ Enqueue(e, m)
    BY <1>5, <1>6, <2>1
  <2>2. CASE Other(Owner(d)) # e \/ UNCHANGED queue
    <3>1. Other(Owner(d)) \in Ends
        BY CallFacts, EndFacts
    <3>2. queue'[Other(Owner(d))] = queue[Other(Owner(d))]
        BY <1>1, <1>2, <2>2, <3>1 DEF Enqueue, FlowInv
    <3>. QED
        BY <1>6, <3>2 DEF Line
  <2>. QED
    BY <1>1, <2>1, <2>2
<1>. QED
    BY <1>6, KindKept DEF Up

LEMMA HandlerKinds ==
    ASSUME Inv, Inv', WaitInv, KindInv, NEW c \in Calls,
           Reply(c) \/ ReplySync(c) \/ HandlerReturns(c)
    PROVE  KindInv'
<1>1. UNCHANGED <<st, got, state, pipe>>
    BY DEF Reply, ReplySync, HandlerReturns, callerVars, endVars
<1>2. CASE SendAnswer(c)
    BY <1>1, <1>2, AnswerKinds DEF SendAnswer
<1>3. CASE UNCHANGED queue
  <2>1. \A d \in Calls : Line(Other(Owner(d)))' = Line(Other(Owner(d)))
    BY <1>1, <1>3 DEF Line
  <2>. QED
    BY <1>1, <2>1, KindKept DEF Up
<1>4. CASE /\ serve[c] = "answered"
           /\ IF Up(Other(Owner(c))) THEN Enqueue(Other(Owner(c)), NotFound(c))
              ELSE UNCHANGED queue
    BY <1>1, <1>4, AnswerKinds
<1>. QED
    BY <1>2, <1>3, <1>4 DEF Reply, ReplySync, HandlerReturns

LEMMA WriteKinds ==
    ASSUME Inv, Inv', KindInv, NEW e \in Ends, Write(e)
    PROVE  KindInv'
<1>1. \A d \in Calls : Line(Other(Owner(d)))' = Line(Other(Owner(d)))
    BY WriteLines, CallFacts, EndFacts
<1>2. UNCHANGED <<st, got, state>>
    BY DEF Write, callerVars, endVars
<1>. QED
    BY <1>1, <1>2, KindKept DEF Up

\* What is lost are answers to an end that is down.
LEMMA WriteFailsKinds ==
    ASSUME Inv, KindInv, NEW e \in Ends, WriteFails(e)
    PROVE  KindInv'
<1>1. /\ queue' = [queue EXCEPT ![e] = <<>>]
      /\ \/ state' = [state EXCEPT ![e] = IF Up(e) THEN "failed" ELSE @]
         \/ UNCHANGED state
      /\ UNCHANGED <<st, got, pipe>>
      /\ ~Up(Other(e))
    BY DEF WriteFails, CanFailWrite, callerVars
<1>2. \A f \in Ends : Up(f)' => Up(f)
    BY <1>1 DEF Inv, TypeInv, Up
<1>3. ASSUME NEW d \in Calls, Up(Owner(d))
      PROVE  Line(Other(Owner(d)))' = Line(Other(Owner(d)))
  <2>1. Other(Owner(d)) \in Ends /\ Other(Owner(d)) # e
    BY <1>1, <1>3, CallFacts, EndFacts
  <2>2. queue'[Other(Owner(d))] = queue[Other(Owner(d))]
    BY <1>1, <2>1 DEF Inv, FlowInv
  <2>. QED
    BY <1>1, <2>2 DEF Line
<1>. QED
    BY <1>1, <1>2, <1>3, KindKept

\* The message that is read is no answer to a call that goes on waiting.
LEMMA TakenKinds ==
    ASSUME Inv, Inv', KindInv, NEW e \in Ends, NEW m, Takes(e, m), UNCHANGED queue,
           NEW d \in Calls, st[d] = "waiting", Up(Owner(d)), ~Answers(m, d)
    PROVE  FirstRight(Line(Other(Owner(d)))', d)
<1>1. PICK o \in Ends : o = Other(e) /\ Other(o) = e
    BY EndFacts
<1>2. FlowInv /\ FlowInv'
    BY DEF Inv
<1>3. PICK r : r = Line(o)'
    OBVIOUS
<1>4. PICK l : l = Line(o)
    OBVIOUS
<1>5. /\ 1 \in 1..Len(l) /\ l[1] = m
      /\ \A i \in 1..Len(r) : i + 1 \in 1..Len(l) /\ r[i] = l[i + 1]
      /\ \A f \in Ends \ {o} : pipe'[Other(f)] = pipe[Other(f)]
    BY <1>1, <1>2, <1>3, <1>4, LineTaken
<1>6. FirstRight(Line(Other(Owner(d))), d)
    BY DEF KindInv, FirstInv
<1>7. CASE Other(Owner(d)) = o
  <2>1. l \in Seq(Sent(o)) /\ r \in Seq(Sent(o))
    BY <1>2, <1>3, <1>4, LineFacts, NextLine
  <2>2. FirstRight(l, d)
    BY <1>4, <1>6, <1>7
  <2>3. FirstRight(r, d)
    BY <1>5, <2>1, <2>2, FirstTaken
  <2>. QED
    BY <1>3, <1>7, <2>3
<1>8. CASE Other(Owner(d)) # o
  <2>1. PICK f \in Ends \ {o} : f = Other(Owner(d))
    BY <1>8, CallFacts, EndFacts
  <2>2. Line(f)' = Line(f)
    BY <1>5, <2>1 DEF Line
  <2>. QED
    BY <1>6, <2>1, <2>2
<1>. QED
    BY <1>7, <1>8

LEMMA ReadCallKinds ==
    ASSUME Inv, Inv', KindInv, NEW e \in Ends, ReadCall(e)
    PROVE  KindInv'
<1>1. PICK m : /\ Takes(e, m)
               /\ m.kind = "call"
               /\ UNCHANGED <<st, got, state, queue>>
    BY DEF ReadCall, callerVars
<1>2. \A d \in Calls : ~Answers(m, d)
    BY <1>1 DEF Answers
<1>3. \A d \in Calls : st'[d] = "waiting" /\ Up(Owner(d)) =>
          FirstRight(Line(Other(Owner(d)))', d)
    BY <1>1, <1>2, TakenKinds
<1>. QED
    BY <1>1, <1>3, KindKept DEF Up

LEMMA ReadUnknownKinds ==
    ASSUME Inv, Inv', KindInv, NEW e \in Ends, ReadUnknown(e)
    PROVE  KindInv'
<1>1. PICK m :
          /\ Takes(e, m)
          /\ m.kind # "call"
          /\ Known(e, m.of) = {}
          /\ GoDown(e, "failed") \/ UNCHANGED state
          /\ UNCHANGED <<st, got, queue>>
    BY DEF ReadUnknown, callerVars
<1>2. \A f \in Ends : Up(f)' => Up(f)
    BY <1>1 DEF Inv, TypeInv, GoDown, Up
<1>3. m.of \in Calls /\ Owner(m.of) = e
    BY <1>1, PipeFacts, SentFacts, EndFacts DEF Inv
<1>4. ASSUME NEW d \in Calls, st[d] = "waiting", Up(Owner(d))
      PROVE  ~Answers(m, d)
  <2>. SUFFICES ASSUME d = m.of PROVE FALSE
    BY DEF Answers
  <2>1. Up(e) /\ d = <<e, m.of[2]>>
    BY <1>3, <1>4, CallFacts
  <2>2. d \in Known(e, m.of)
    BY <1>4, <2>1 DEF Known
  <2>. QED
    BY <1>1, <2>2
<1>5. \A d \in Calls : st'[d] = "waiting" /\ Up(Owner(d)) =>
          FirstRight(Line(Other(Owner(d)))', d)
    BY <1>1, <1>4, TakenKinds
<1>. QED
    BY <1>1, <1>2, <1>5, KindKept

LEMMA ReadAnswerKinds ==
    ASSUME Inv, Inv', KindInv, NEW e \in Ends, ReadAnswer(e)
    PROVE  KindInv'
<1>a. PICK m : \E c \in Known(e, m.of) :
          /\ Takes(e, m)
          /\ m.kind # "call"
          /\ st' = [st EXCEPT ![c] = "answered"]
          /\ got' = [got EXCEPT ![c] =
                        [kind |-> m.kind, of |-> m.of, gv |-> m.gv,
                         code |-> IF m.code = "x" THEN "sent" ELSE "-1"]]
          /\ UNCHANGED <<state, queue>>
    BY DEF ReadAnswer
<1>1. PICK c \in Known(e, m.of) :
          /\ Takes(e, m)
          /\ m.kind # "call"
          /\ st' = [st EXCEPT ![c] = "answered"]
          /\ got' = [got EXCEPT ![c] =
                        [kind |-> m.kind, of |-> m.of, gv |-> m.gv,
                         code |-> IF m.code = "x" THEN "sent" ELSE "-1"]]
          /\ UNCHANGED <<state, queue>>
    BY <1>a
<1>2. TypeInv /\ FlowInv
    BY DEF Inv
<1>3. Up(e) /\ c = <<e, m.of[2]>> /\ c \in Calls /\ st[c] = "waiting"
    BY <1>1 DEF Known
<1>4. m.of \in Calls /\ Owner(m.of) = e
    BY <1>1, <1>2, PipeFacts, EndFacts, SentFacts
<1>5. c = m.of
    BY <1>3, <1>4, CallFacts
<1>6. m.kind = KindOf(c)
    BY <1>1, <1>3, <1>5, HeadRight
<1>7. /\ st'[c] = "answered" /\ got'[c].kind = m.kind
      /\ \A d \in Calls \ {c} : st'[d] = st[d] /\ got'[d] = got[d]
  <2>1. DOMAIN st = Calls /\ DOMAIN got = Calls
    BY <1>2 DEF TypeInv
  <2>. QED
    BY <1>1, <1>3, <2>1
<1>8. GivenInv'
  <2>. SUFFICES ASSUME NEW d \in Calls, st'[d] = "answered"
                PROVE  got'[d].kind = KindOf(d)
    BY DEF GivenInv, KindOf
  <2>. QED
    BY <1>6, <1>7 DEF KindInv, GivenInv
<1>9. FirstInv'
  <2>. SUFFICES ASSUME NEW d \in Calls, st'[d] = "waiting", Up(Owner(d))'
                PROVE  FirstRight(Line(Other(Owner(d))), d)'
    BY DEF FirstInv
  <2>1. d # c /\ st[d] = "waiting" /\ Up(Owner(d))
    BY <1>1, <1>7 DEF Up
  <2>2. ~Answers(m, d)
    BY <1>5, <2>1 DEF Answers
  <2>3. FirstRight(Line(Other(Owner(d)))', d)
    BY <1>1, <2>1, <2>2, TakenKinds
  <2>. QED
    BY <2>3 DEF FirstRight, Answers, KindOf
<1>. QED
    BY <1>8, <1>9 DEF KindInv

LEMMA KindInit == Init => KindInv
BY DEF Init, KindInv, FirstInv, GivenInv

LEMMA KindStep ==
    Inv /\ Inv' /\ PInv /\ WaitInv /\ KindInv /\ [Next]_vars => KindInv'
<1>. SUFFICES ASSUME Inv, Inv', PInv, WaitInv, KindInv, [Next]_vars
              PROVE  KindInv'
    OBVIOUS
<1>1. CASE Program
    BY <1>1, CallKinds, HandlerKinds, QuietKinds DEF Program
<1>2. ASSUME NEW e \in Ends, Thread(e)
      PROVE  KindInv'
  <2>1. CASE Write(e) \/ WriteFails(e) \/ HangUp(e)
    BY <2>1, WriteKinds, WriteFailsKinds, QuietKinds
  <2>2. CASE ReadCall(e) \/ ReadAnswer(e) \/ ReadUnknown(e) \/ ReadEnds(e)
    BY <2>2, ReadCallKinds, ReadAnswerKinds, ReadUnknownKinds, QuietKinds
  <2>3. ASSUME NEW c \in Calls, FailCall(c) \/ CallReturns(c)
        PROVE  KindInv'
    BY <2>3, QuietKinds
  <2>4. ASSUME NEW c \in Calls, ReplyReturns(c) \/ HandlerReturns(c)
        PROVE  KindInv'
    BY <2>4, QuietKinds, HandlerKinds
  <2>. QED
    BY <1>2, <2>1, <2>2, <2>3, <2>4 DEF Thread
<1>3. CASE UNCHANGED vars
    BY <1>3, QuietKinds
<1>. QED
    BY <1>1, <1>2, <1>3 DEF Next

-----------------------------------------------------------------------------
(* The theorems about answers.                                             *)

LEMMA FullInvariance == Spec => [](Inv /\ PInv /\ WaitInv /\ KindInv)
<1>1. PInv => MadeInv
    BY DEF PInv
<1>. QED
    BY <1>1, Invariance, PromiseInit, PromiseStep, WaitInit, WaitStep,
       KindInit, KindStep, PTL DEF Spec

\* Each call that is answered got the answer of its own handler, although
\* both ends number their calls from 1, answer in any order, and may send a
\* METHOD_NOT_FOUND behind an answer.
THEOREM AnswersBelongHolds == Spec => []AnswersBelong
<1>1. Inv /\ KindInv => AnswersBelong
    BY DEF Inv, GotInv, KindInv, GivenInv, KindOf, AnswersBelong
<1>. QED
    BY <1>1, FullInvariance, PTL

\* Between the callers and the handlers a connection is what RemoteCalls.tla
\* says: every call is handled at most once and in order, is answered once
\* by its handler and with this answer, or fails after its end went down.
THEOREM Implementation == Spec => KeepsPromise
BY FullInvariance, PromiseInit, PromiseStep, PTL
DEF Spec, KeepsPromise, Promise!Spec

-----------------------------------------------------------------------------
(* The theorem about deadlock.                                             *)

\* Of an end that has no step to take: if a handler of it is not done, it
\* waits in jsonrpc_client_reply for its output stream.
LEMMA StuckHandler ==
    ASSUME Inv, WaitInv, ~CallInHandler, NEW e \in Ends, ~CanStep(e), Handles(e)
    PROVE  Top(e)[1] = "reply" /\ queue[e] # <<>>
<1>1. PICK i \in 1..Len(stack[e]) : stack[e][i][1] = "handler"
    BY DEF Handles
<1>2. PICK n \in Nat : n = Len(stack[e])
    BY DEF Inv, TypeInv
<1>3. n \in 1..Len(stack[e]) /\ stack[e] # <<>>
    BY <1>1, <1>2
<1>4. Top(e) = stack[e][n] /\ stack[e][n] \in Frames
  <2>1. stack[e] \in Seq(Frames)
    BY DEF Inv, TypeInv
  <2>2. Last(stack[e]) = stack[e][n]
    BY <1>2, <1>3, <2>1, FrontFacts
  <2>. QED
    BY <1>2, <1>3, <2>1, <2>2, ElementOfSeq DEF Top
<1>5. Top(e)[1] # "handler"
    BY DEF CanStep
<1>6. i < n
    BY <1>1, <1>2, <1>4, <1>5
<1>7. Top(e)[1] # "call"
    BY <1>1, <1>3, <1>4, <1>6 DEF CallInHandler
<1>8. PICK c \in Calls : Top(e) = <<"reply", c>>
    BY <1>4, <1>5, <1>7 DEF Frames
<1>9. Owner(c) # e /\ Other(Owner(c)) = e
  <2>1. stack[e][n][1] = "reply" /\ stack[e][n][2] = c
    BY <1>4, <1>8
  <2>2. Owner(c) = Other(e)
    BY <1>3, <2>1 DEF WaitInv, RepliesInv
  <2>. QED
    BY <2>2, EndFacts
<1>10. ~CanLeaveReply(c)
    BY <1>9 DEF CanStep
<1>11. \E k \in 1..Len(queue[e]) : queue[e][k].of = c
    BY <1>8, <1>9, <1>10 DEF CanLeaveReply, InReply
<1>. QED
    BY <1>8, <1>11

\* And a pipe into which an end has something to write is full.
LEMMA StuckWriter ==
    ASSUME Inv, NEW e \in Ends, ~CanStep(e), queue[e] # <<>>
    PROVE  Len(pipe[Other(e)]) = Capacity /\ pipe[Other(e)] # <<>>
<1>1. PICK n \in Nat : n = Len(pipe[Other(e)]) /\ n <= Capacity
    BY EndFacts DEF Inv, FlowInv
<1>2. ~(n < Capacity)
    BY <1>1 DEF CanStep, CanWrite, Looping
<1>3. n = Capacity /\ n # 0
    BY <1>1, <1>2, CapacityAssumption
<1>. QED
    BY <1>1, <1>3

LEMMA StuckReader ==
    ASSUME Inv, WaitInv, ~CallInHandler, NEW e \in Ends, ~CanStep(e), Up(e),
           \/ pipe[e] # <<>>
           \/ Other(e) \in shut
           \/ reads[e] = 0
    PROVE  Top(e)[1] = "reply" /\ queue[e] # <<>>
<1>1. reads[e] = 0
    BY DEF CanStep, CanRead, Looping, Inv, TypeInv
<1>. QED
    BY <1>1, StuckHandler DEF WaitInv, LoopInv

LEMMA Unstuck ==
    ASSUME Inv, MadeInv, WaitInv
    PROVE  NoOtherDeadlock
<1>. SUFFICES ASSUME NEW c \in Calls, st[c] = "waiting",
                     ~CallInHandler, ~RepliesDeadlock,
                     \A e \in Ends : ~CanStep(e)
              PROVE  FALSE
    BY DEF NoOtherDeadlock
<1>1. PICK a \in Ends, b \in Ends :
          a = Owner(c) /\ b = Other(a) /\ a = Other(b) /\ a # b
    BY CallFacts, EndFacts
<1>2. \A e \in Ends : Looping(e)
    BY DEF CanStep, Looping
<1>3. Up(a)
    BY <1>1, <1>2 DEF CanStep, CanFail
<1>4. Up(b)
  <2>. SUFFICES ASSUME ~Up(b) PROVE FALSE
    OBVIOUS
  <2>1. pipe[a] # <<>> \/ b \in shut
    BY <1>1, StuckWriter DEF CanStep, CanHangUp
  <2>2. queue[a] # <<>>
    BY <1>1, <1>3, <2>1, StuckReader
  <2>. QED
    BY <1>1, <1>2, <2>2 DEF CanStep, CanFailWrite
<1>5. \A e \in Ends : Up(e) /\ (e = a \/ e = b)
    BY <1>1, <1>3, <1>4, EndFacts
<1>6. \A e \in Ends : reads[e] = 1 /\ pipe[e] = <<>>
  <2>. SUFFICES ASSUME NEW e \in Ends, reads[e] # 1 \/ pipe[e] # <<>>
                PROVE  FALSE
    OBVIOUS
  <2>1. PICK f \in Ends : f = Other(e) /\ e = Other(f) /\ \A g \in Ends : g = e \/ g = f
    BY EndFacts
  <2>2. reads[e] = 0 \/ pipe[e] # <<>>
    BY DEF Inv, TypeInv
  <2>3. Top(e)[1] = "reply" /\ queue[e] # <<>>
    BY <1>5, <2>2, StuckReader
  <2>4. Len(pipe[f]) = Capacity /\ pipe[f] # <<>>
    BY <2>1, <2>3, StuckWriter
  <2>5. Top(f)[1] = "reply" /\ queue[f] # <<>>
    BY <1>5, <2>4, StuckReader
  <2>6. Len(pipe[e]) = Capacity
    BY <2>1, <2>5, StuckWriter
  <2>. QED
    BY <1>5, <2>1, <2>3, <2>4, <2>5, <2>6 DEF RepliesDeadlock
<1>7. \A e \in Ends : queue[e] = <<>>
    BY <1>6, StuckWriter, EndFacts
<1>8. \A e \in Ends : \A q \in {queue[e], pipe[e]} :
          ~Among(q, c) /\ ~AnswerAmong(q, c)
  <2>1. 1..Len(<<>>) = {}
    OBVIOUS
  <2>. QED
    BY <1>6, <1>7, <2>1 DEF Among, AnswerAmong
<1>9. serve[c] \in {"handling", "owed", "answered"}
  <2>1. c[2] <= sequence[a]
    <3>1. ~(c[2] > sequence[a])
        BY <1>1 DEF MadeInv
    <3>2. c[2] \in Nat /\ sequence[a] \in Nat
        BY CallFacts DEF Inv, TypeInv
    <3>. QED
        BY <3>1, <3>2
  <2>2. Served(c)
    <3>1. \/ Served(c)
          \/ Among(pipe[Other(Owner(c))], c)
          \/ Among(queue[Owner(c)], c)
        BY <1>1, <1>3, <2>1 DEF Inv, OrderInv
    <3>. QED
        BY <1>1, <1>8, <3>1
  <2>. QED
    BY <2>2 DEF Served, Inv, TypeInv
<1>10. serve[c] # "handling"
  <2>. SUFFICES ASSUME serve[c] = "handling" PROVE FALSE
    OBVIOUS
  <2>1. PICK i \in 1..Len(stack[b]) : stack[b][i] = Handler(c)
    BY <1>1 DEF WaitInv, HandlingInv
  <2>2. stack[b][i][1] = "handler"
    BY <2>1 DEF Handler
  <2>. QED
    BY <1>6, <2>2 DEF Inv, OneHandler
<1>11. serve[c] # "owed"
    BY <1>1 DEF CanStep
<1>12. serve[c] # "answered"
    BY <1>1, <1>3, <1>4, <1>8 DEF WaitInv, AnswerInv, OnItsWay
<1>. QED
    BY <1>9, <1>10, <1>11, <1>12

\* While a call waits, an end has a step to take, but for the two deadlocks
\* that synchronous calls and replies of the program make: for any number
\* of calls and any capacity.
THEOREM NoOtherDeadlockHolds == Spec => []NoOtherDeadlock
<1>1. Inv /\ PInv /\ WaitInv => NoOtherDeadlock
    BY Unstuck DEF PInv
<1>. QED
    BY <1>1, FullInvariance, PTL
=============================================================================
