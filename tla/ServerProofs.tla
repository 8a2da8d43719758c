---------------------------- MODULE ServerProofs ----------------------------
(***************************************************************************)
(* Proofs about Server.tla, for every set of clients and every bound.      *)
(***************************************************************************)
EXTENDS Server, SequenceTheorems, TLAPS

-----------------------------------------------------------------------------
(* The inductive invariant.                                                *)

OnStack(s) == {s[i] : i \in 1..Len(s)}

Closing(s, c) == \E f \in OnStack(s) : f.kind = "closed" /\ f.client = c

IdleRuns(s, c) ==
    \E f \in OnStack(s) : f.kind = "closed" /\ f.client = c /\ f.idle

\* No two handlers of ::client-closed are about the same client.
ClosedOnce(s) ==
    \A i, j \in 1..Len(s) :
        /\ s[i].kind = "closed" /\ s[j].kind = "closed"
        /\ s[i].client = s[j].client
        => i = j

\* What keeps a client until it emitted ::failed, and as long as the main
\* loop does not get its turn.
Rooted(c) == c \in reading \/ failedIdles[c] > 0

\* The handlers of ::client-closed are about clients that are lost and not
\* yet left to dummy_func; those that jsonrpc_server_foreach goes through
\* are rooted, which no callback can change.
StackInv ==
    /\ ClosedOnce(stack)
    /\ \A f \in OnStack(stack) :
          /\ f.kind = "closed" => f.client \in emittedFailed \ releases
          /\ f.kind = "foreach" => \A c \in {f.client} \cup f.keys : Rooted(c)

\* The stages of a client: not there, open and read, panicked and yet to
\* tell it, lost.
ClientInv ==
    \A c \in Clients :
        /\ link[c] = "none" => c \notin reading
        /\ link[c] = "open" => c \in reading
        /\ link[c] = "shut" => c \in emittedFailed
        /\ link[c] = "failed" => c \in emittedFailed \/ failedIdles[c] > 0
        /\ failedIdles[c] > 0 => link[c] = "failed"
        /\ c \in emittedFailed => link[c] \in {"shut", "failed"}
        /\ c \in clients => link[c] # "none" /\ c \notin emittedFailed
        /\ c \in releases => c \in emittedFailed

Inv ==
    /\ TypeOK
    /\ StackInv
    /\ ClientInv
    /\ disposed => clients = {}
    /\ TableIsCurrent
    /\ ReferencesAreOwned

-----------------------------------------------------------------------------
(* The stack of callbacks.                                                 *)

\* A frame pushed on the stack.
LEMMA PushFacts ==
    ASSUME NEW s \in Seq(Frame), NEW f \in Frame
    PROVE  /\ <<f>> \o s \in Seq(Frame)
           /\ OnStack(<<f>> \o s) = {f} \cup OnStack(s)
           /\ ClosedOnce(s) /\ (f.kind = "closed" => ~Closing(s, f.client))
                 => ClosedOnce(<<f>> \o s)
<1>. DEFINE t == <<f>> \o s
<1>1. /\ t \in Seq(Frame) /\ Len(t) = Len(s) + 1 /\ Len(s) \in Nat
      /\ t[1] = f /\ \A i \in 1..Len(s) : t[i + 1] = s[i]
    OBVIOUS
<1>. HIDE DEF t
<1>2. \A i \in 2..Len(t) : i - 1 \in 1..Len(s) /\ t[i] = s[i - 1]
    BY <1>1
<1>3. OnStack(t) = {f} \cup OnStack(s)
  <2>1. ASSUME NEW i \in 1..Len(t) PROVE t[i] \in {f} \cup OnStack(s)
    <3>1. CASE i = 1
        BY <1>1, <3>1
    <3>2. CASE i # 1
      <4>1. i \in 2..Len(t)
        BY <1>1, <3>2
      <4>. QED
        BY <1>2, <4>1 DEF OnStack
    <3>. QED
        BY <3>1, <3>2
  <2>2. f \in OnStack(t)
    BY <1>1 DEF OnStack
  <2>3. ASSUME NEW i \in 1..Len(s) PROVE s[i] \in OnStack(t)
    <3>1. i + 1 \in 1..Len(t) /\ t[i + 1] = s[i]
        BY <1>1
    <3>. QED
        BY <3>1 DEF OnStack
  <2>. QED
    BY <2>1, <2>2, <2>3 DEF OnStack
<1>4. ASSUME ClosedOnce(s), f.kind = "closed" => ~Closing(s, f.client)
      PROVE  ClosedOnce(t)
  <2>. SUFFICES ASSUME NEW i \in 1..Len(t), NEW j \in 1..Len(t),
                       t[i].kind = "closed", t[j].kind = "closed",
                       t[i].client = t[j].client
                PROVE  i = j
    BY DEF ClosedOnce
  <2>1. \A k \in 1..Len(s) :
            ~(f.kind = "closed" /\ s[k].kind = "closed" /\ s[k].client = f.client)
    BY <1>4 DEF Closing, OnStack
  <2>2. CASE i \in 2..Len(t) /\ j \in 2..Len(t)
    <3>1. i - 1 = j - 1
        BY <1>2, <1>4, <2>2 DEF ClosedOnce
    <3>. QED
        BY <3>1
  <2>3. CASE i = 1 /\ j \in 2..Len(t)
    BY <1>1, <1>2, <2>1, <2>3
  <2>4. CASE i \in 2..Len(t) /\ j = 1
    BY <1>1, <1>2, <2>1, <2>4
  <2>5. i \in 2..Len(t) \/ i = 1
    BY <1>1
  <2>6. j \in 2..Len(t) \/ j = 1
    BY <1>1
  <2>. QED
    BY <2>2, <2>3, <2>4, <2>5, <2>6
<1>. QED
    BY <1>1, <1>3, <1>4 DEF t

\* The frame that runs, popped from the stack.
LEMMA PopFacts ==
    ASSUME NEW s \in Seq(Frame), s # <<>>, ClosedOnce(s)
    PROVE  /\ Tail(s) \in Seq(Frame) /\ Head(s) \in Frame
           /\ OnStack(s) = {Head(s)} \cup OnStack(Tail(s))
           /\ ClosedOnce(Tail(s))
           /\ Head(s).kind = "closed" => ~Closing(Tail(s), Head(s).client)
<1>. DEFINE t == Tail(s)
<1>1. /\ t \in Seq(Frame) /\ Head(s) \in Frame /\ Head(s) = s[1]
      /\ Len(s) \in Nat /\ 1 \in 1..Len(s) /\ Len(t) = Len(s) - 1
      /\ \A i \in 1..Len(t) : t[i] = s[i + 1] /\ i + 1 \in 1..Len(s)
    BY ElementOfSeq
<1>. HIDE DEF t
<1>2. \A i \in 2..Len(s) : i - 1 \in 1..Len(t) /\ t[i - 1] = s[i]
    BY <1>1
<1>3. OnStack(s) = {Head(s)} \cup OnStack(t)
  <2>1. ASSUME NEW i \in 1..Len(s) PROVE s[i] \in {Head(s)} \cup OnStack(t)
    <3>1. CASE i = 1
        BY <1>1, <3>1
    <3>2. CASE i # 1
      <4>1. i \in 2..Len(s)
        BY <1>1, <3>2
      <4>. QED
        BY <1>2, <4>1 DEF OnStack
    <3>. QED
        BY <3>1, <3>2
  <2>2. Head(s) \in OnStack(s)
    BY <1>1 DEF OnStack
  <2>3. ASSUME NEW i \in 1..Len(t) PROVE t[i] \in OnStack(s)
    BY <1>1 DEF OnStack
  <2>. QED
    BY <2>1, <2>2, <2>3 DEF OnStack
<1>4. ClosedOnce(t)
  <2>. SUFFICES ASSUME NEW i \in 1..Len(t), NEW j \in 1..Len(t),
                       t[i].kind = "closed", t[j].kind = "closed",
                       t[i].client = t[j].client
                PROVE  i = j
    BY DEF ClosedOnce
  <2>1. i + 1 = j + 1
    BY SMTT(30), <1>1 DEF ClosedOnce
  <2>. QED
    BY <1>1, <2>1
<1>5. ASSUME Head(s).kind = "closed", Closing(t, Head(s).client) PROVE FALSE
  <2>1. PICK i \in 1..Len(t) :
            t[i].kind = "closed" /\ t[i].client = Head(s).client
    BY <1>5 DEF Closing, OnStack
  <2>2. i + 1 = 1
    BY <1>1, <1>5, <2>1 DEF ClosedOnce
  <2>. QED
    BY <1>1, <2>2
<1>. QED
    BY <1>1, <1>3, <1>4, <1>5 DEF t

-----------------------------------------------------------------------------
(* The references of a client, counted.                                    *)

One(b) == IF b THEN 1 ELSE 0

Owners(c, inTable, s, left, reads, idles) ==
    One(c \in inTable) + One(Closing(s, c)) + One(c \in left)
    + One(c \in reads) + idles[c] + One(IdleRuns(s, c))

LEMMA HoldersAre ==
    ASSUME NEW c \in Clients
    PROVE  /\ Holders(c) =
                 Owners(c, clients, stack, releases, reading, failedIdles)
           /\ Holders(c)' =
                 Owners(c, clients', stack', releases', reading', failedIdles')
<1>1. \A s : (\E f \in OnStack(s) : f.kind = "closed" /\ f.client = c)
                <=> \E i \in 1..Len(s) : s[i].kind = "closed" /\ s[i].client = c
    BY DEF OnStack
<1>2. \A s : (\E f \in OnStack(s) : f.kind = "closed" /\ f.client = c /\ f.idle)
                <=> \E i \in 1..Len(s) :
                        s[i].kind = "closed" /\ s[i].client = c /\ s[i].idle
    BY DEF OnStack
<1>. QED
    BY <1>1, <1>2 DEF Holders, Owners, One, Closing, IdleRuns

LEMMA OwnersType ==
    ASSUME NEW c \in Clients, NEW inTable, NEW s, NEW left, NEW reads,
           NEW idles \in [Clients -> Nat]
    PROVE  /\ Owners(c, inTable, s, left, reads, idles) \in Nat
           /\ c \in inTable \/ c \in left \/ c \in reads \/ idles[c] > 0
                 \/ Closing(s, c)
              => Owners(c, inTable, s, left, reads, idles) > 0
           /\ Closing(s, c) /\ IdleRuns(s, c)
              => Owners(c, inTable, s, left, reads, idles) > 1
<1>1. One(c \in inTable) \in {0, 1} /\ (c \in inTable => One(c \in inTable) = 1)
    BY DEF One
<1>2. One(c \in left) \in {0, 1} /\ (c \in left => One(c \in left) = 1)
    BY DEF One
<1>3. One(c \in reads) \in {0, 1} /\ (c \in reads => One(c \in reads) = 1)
    BY DEF One
<1>4. One(Closing(s, c)) \in {0, 1} /\ (Closing(s, c) => One(Closing(s, c)) = 1)
    BY DEF One
<1>5. One(IdleRuns(s, c)) \in {0, 1}
      /\ (IdleRuns(s, c) => One(IdleRuns(s, c)) = 1)
    BY DEF One
<1>6. idles[c] \in Nat
    OBVIOUS
<1>. QED
    BY <1>1, <1>2, <1>3, <1>4, <1>5, <1>6 DEF Owners

\* What the invariant says of the references, by owner.
LEMMA Counted ==
    ASSUME Inv, NEW c \in Clients
    PROVE  /\ refs[c] = Owners(c, clients, stack, releases, reading, failedIdles)
           /\ refs[c] \in Nat /\ failedIdles[c] \in Nat
           /\ failedIdles \in [Clients -> Nat]
BY HoldersAre, MaxPanicsAssumption DEF Inv, ReferencesAreOwned, TypeOK

\* A step under which the owners of every client are as many as refs says.
LEMMA CountedStep ==
    ASSUME \A c \in Clients :
               refs'[c] = Owners(c, clients', stack', releases', reading',
                                 failedIdles')
    PROVE  ReferencesAreOwned'
BY HoldersAre DEF ReferencesAreOwned

-----------------------------------------------------------------------------
(* One lemma per action.                                                   *)

\* accept_io_stream: two references, for the table and for the read loop.
LEMMA AcceptStep ==
    ASSUME Inv, NEW c \in Clients, AcceptIoStream(c)
    PROVE  Inv'
<1>. DEFINE f == Accepted(c)
<1>1. /\ ~disposed /\ link[c] = "none"
      /\ link' = [link EXCEPT ![c] = "open"]
      /\ clients' = clients \cup {c} /\ reading' = reading \cup {c}
      /\ refs' = [refs EXCEPT ![c] = 2]
      /\ stack' = <<f>> \o stack
      /\ UNCHANGED <<disposed, aborted, releases, announced, failedIdles,
                     emittedFailed, foreachs>>
    BY DEF AcceptIoStream
<1>2. TypeOK /\ ClientInv /\ StackInv
    BY DEF Inv
<1>3. f \in Frame /\ f.kind = "accepted"
    BY DEF Accepted, Frame
<1>4. /\ stack' \in Seq(Frame) /\ OnStack(stack') = {f} \cup OnStack(stack)
      /\ ClosedOnce(stack')
  <2>. HIDE DEF f
  <2>. QED
    BY <1>1, <1>2, <1>3, PushFacts DEF TypeOK, StackInv
<1>5. TypeOK'
    BY <1>1, <1>2, <1>4 DEF TypeOK
<1>6. \A d \in Clients : /\ Closing(stack', d) <=> Closing(stack, d)
                         /\ IdleRuns(stack', d) <=> IdleRuns(stack, d)
    BY <1>3, <1>4 DEF Closing, IdleRuns
<1>7. /\ c \notin emittedFailed /\ c \notin clients /\ c \notin releases
      /\ c \notin reading /\ failedIdles[c] = 0
      /\ ~Closing(stack, c) /\ ~IdleRuns(stack, c)
  <2>1. /\ c \notin emittedFailed /\ c \notin clients /\ c \notin reading
        /\ c \notin releases
    BY <1>1, <1>2 DEF ClientInv
  <2>2. failedIdles[c] = 0
    BY <1>1, <1>2, Counted DEF ClientInv
  <2>. QED
    BY <1>2, <2>1, <2>2 DEF StackInv, Closing, IdleRuns
<1>8. ReferencesAreOwned'
  <2>1. ASSUME NEW d \in Clients
        PROVE  refs'[d] = Owners(d, clients', stack', releases', reading',
                                 failedIdles')
    <3>1. CASE d = c
      <4>1. /\ One(c \in clients') = 1 /\ One(c \in reading') = 1
            /\ One(c \in releases') = 0 /\ failedIdles'[c] = 0
            /\ One(Closing(stack', c)) = 0 /\ One(IdleRuns(stack', c)) = 0
        BY <1>1, <1>6, <1>7 DEF One
      <4>2. refs'[c] = 2
        BY <1>1, <1>2 DEF TypeOK
      <4>. QED
        BY <3>1, <4>1, <4>2 DEF Owners
    <3>2. CASE d # c
        BY <1>1, <1>2, <1>6, <3>2, Counted DEF Owners, One, TypeOK
    <3>. QED
        BY <3>1, <3>2
  <2>. QED
    BY <2>1, CountedStep
<1>9. ClientInv'
    BY <1>1, <1>2, <1>7 DEF ClientInv, TypeOK
<1>10. StackInv'
    BY <1>1, <1>2, <1>3, <1>4 DEF StackInv, Rooted
<1>11. (disposed => clients = {})' /\ TableIsCurrent'
    BY <1>1, <1>2, <1>7 DEF Inv, TableIsCurrent, TypeOK
<1>. QED
    BY <1>5, <1>8, <1>9, <1>10, <1>11 DEF Inv

\* The stack, the table and the announcements after ::failed.
LEMMA ClientFailedFacts ==
    ASSUME Inv, NEW c \in Clients, NEW idle \in BOOLEAN, c \notin emittedFailed,
           ClientFailed(c, idle)
    PROVE  /\ clients' = clients \ {c}
           /\ stack' \in Seq(Frame) /\ ClosedOnce(stack')
           /\ ~Closing(stack, c) /\ ~IdleRuns(stack, c) /\ c \notin releases
           /\ \A d \in Clients \ {c} :
                 /\ Closing(stack', d) <=> Closing(stack, d)
                 /\ IdleRuns(stack', d) <=> IdleRuns(stack, d)
           /\ announced' \in [Clients -> Nat]
           /\ \A d \in Clients \ {c} : announced'[d] = announced[d]
           /\ \/ /\ ~disposed /\ c \in clients /\ UNCHANGED refs
                 /\ OnStack(stack') = {Closed(c, idle)} \cup OnStack(stack)
                 /\ announced'[c] = announced[c] + 1
                 /\ Closing(stack', c) /\ (IdleRuns(stack', c) <=> idle)
              \/ /\ disposed \/ c \notin clients
                 /\ c \notin clients
                 /\ UNCHANGED <<announced, stack>>
                 /\ IF idle THEN Unref(c) ELSE UNCHANGED refs
<1>. DEFINE f == Closed(c, idle)
<1>1. ~Closing(stack, c) /\ ~IdleRuns(stack, c) /\ c \notin releases
    BY DEF Inv, StackInv, ClientInv, Closing, IdleRuns
<1>2. stack \in Seq(Frame) /\ ClosedOnce(stack)
    BY DEF Inv, TypeOK, StackInv
<1>3. CASE /\ ~disposed /\ c \in clients /\ UNCHANGED refs
           /\ clients' = clients \ {c} /\ stack' = <<f>> \o stack
           /\ announced' = [announced EXCEPT ![c] = @ + 1]
  <2>1. f \in Frame /\ f.kind = "closed" /\ f.client = c /\ f.idle = idle
    BY DEF Closed, Frame
  <2>2. /\ stack' \in Seq(Frame) /\ ClosedOnce(stack')
        /\ OnStack(stack') = {f} \cup OnStack(stack)
    <3>. HIDE DEF f
    <3>. QED
        BY <1>1, <1>2, <1>3, <2>1, PushFacts
  <2>3. \A d \in Clients \ {c} :
            /\ Closing(stack', d) <=> Closing(stack, d)
            /\ IdleRuns(stack', d) <=> IdleRuns(stack, d)
    BY <2>1, <2>2 DEF Closing, IdleRuns
  <2>4. Closing(stack', c) /\ (IdleRuns(stack', c) <=> idle)
    BY <1>1, <2>1, <2>2 DEF Closing, IdleRuns
  <2>5. /\ announced' \in [Clients -> Nat]
        /\ announced'[c] = announced[c] + 1
        /\ \A d \in Clients \ {c} : announced'[d] = announced[d]
    <3>1. announced \in [Clients -> Nat]
        BY DEF Inv, TypeOK
    <3>. QED
        BY <1>3, <3>1
  <2>. QED
    BY <1>1, <1>3, <2>2, <2>3, <2>4, <2>5
<1>4. CASE /\ disposed \/ c \notin clients
           /\ IF idle THEN Unref(c) ELSE UNCHANGED refs
           /\ UNCHANGED <<clients, announced, stack>>
  <2>1. c \notin clients
    BY <1>4 DEF Inv
  <2>2. clients' = clients \ {c}
    BY <1>4, <2>1
  <2>3. announced' \in [Clients -> Nat]
    BY <1>4 DEF Inv, TypeOK
  <2>. QED
    BY <1>1, <1>2, <1>4, <2>1, <2>2, <2>3
<1>. QED
    BY <1>3, <1>4 DEF ClientFailed

\* jsonrpc_client_close: the reference of the table goes to the handlers.
LEMMA CloseStep ==
    ASSUME Inv, NEW c \in Clients, CloseClient(c)
    PROVE  Inv'
<1>1. /\ link[c] = "open" /\ link' = [link EXCEPT ![c] = "shut"]
      /\ emittedFailed' = emittedFailed \cup {c}
      /\ ClientFailed(c, FALSE)
      /\ UNCHANGED <<disposed, aborted, releases, reading, failedIdles,
                     foreachs>>
    BY DEF CloseClient
<1>2. TypeOK /\ ClientInv /\ StackInv
    BY DEF Inv
<1>3. c \notin emittedFailed
    BY <1>1, <1>2 DEF ClientInv
<1>4. /\ clients' = clients \ {c}
      /\ stack' \in Seq(Frame) /\ ClosedOnce(stack')
      /\ ~Closing(stack, c) /\ ~IdleRuns(stack, c) /\ c \notin releases
      /\ \A d \in Clients \ {c} :
            /\ Closing(stack', d) <=> Closing(stack, d)
            /\ IdleRuns(stack', d) <=> IdleRuns(stack, d)
      /\ announced' \in [Clients -> Nat]
      /\ \A d \in Clients \ {c} : announced'[d] = announced[d]
      /\ \/ /\ ~disposed /\ c \in clients /\ UNCHANGED refs
            /\ OnStack(stack') = {Closed(c, FALSE)} \cup OnStack(stack)
            /\ announced'[c] = announced[c] + 1
            /\ Closing(stack', c) /\ ~IdleRuns(stack', c)
         \/ /\ disposed \/ c \notin clients
            /\ c \notin clients
            /\ UNCHANGED <<announced, stack>>
            /\ UNCHANGED refs
    BY <1>1, <1>3, ClientFailedFacts
<1>5. TypeOK'
  <2>1. UNCHANGED refs
    BY <1>4
  <2>. QED
    BY <1>1, <1>2, <1>4, <2>1 DEF TypeOK
<1>6. ReferencesAreOwned'
  <2>1. ASSUME NEW d \in Clients \ {c}
        PROVE  refs'[d] = Owners(d, clients', stack', releases', reading',
                                 failedIdles')
    BY <1>1, <1>4, Counted DEF Owners, One
  <2>2. refs'[c] = Owners(c, clients', stack', releases', reading', failedIdles')
    <3>1. One(c \in clients) + One(Closing(stack, c))
              = One(c \in clients') + One(Closing(stack', c))
      <4>1. CASE c \in clients
        <5>1. /\ One(c \in clients) = 1 /\ One(c \in clients') = 0
              /\ One(Closing(stack, c)) = 0 /\ One(Closing(stack', c)) = 1
            BY <1>4, <4>1 DEF One
        <5>. QED
            BY <5>1
      <4>2. CASE c \notin clients
        <5>1. stack' = stack /\ One(c \in clients) = One(c \in clients')
            BY <1>4, <4>2 DEF One
        <5>. QED
            BY <5>1
      <4>. QED
        BY <4>1, <4>2
    <3>2. One(IdleRuns(stack, c)) = One(IdleRuns(stack', c))
        BY <1>4 DEF One
    <3>. QED
        BY <1>1, <1>4, <3>1, <3>2, Counted DEF Owners
  <2>. QED
    BY <2>1, <2>2, CountedStep
<1>7. ClientInv'
    BY <1>1, <1>2, <1>4 DEF ClientInv, TypeOK
<1>8. StackInv'
  <2>1. \A f \in OnStack(stack') :
           f \in OnStack(stack) \/ (f.kind = "closed" /\ f.client = c)
    BY <1>4 DEF Closed
  <2>. QED
    BY <1>1, <1>2, <1>4, <2>1 DEF StackInv, Rooted
<1>9. (disposed => clients = {})' /\ TableIsCurrent'
  <2>1. ASSUME ~disposed', NEW d \in Clients
        PROVE  /\ d \in clients' <=> link'[d] # "none" /\ d \notin emittedFailed'
               /\ announced'[d] = IF d \in emittedFailed' THEN 1 ELSE 0
               /\ d \in emittedFailed' => link'[d] \in {"shut", "failed"}
    <3>1. CASE d = c
      <4>1. ~disposed /\ c \in clients /\ announced[c] = 0
        BY <1>1, <1>3, <2>1 DEF Inv, TableIsCurrent
      <4>2. announced'[c] = 1 /\ c \notin clients'
        <5>1. announced'[c] = announced[c] + 1 /\ clients' = clients \ {c}
            BY <1>4, <4>1, Zenon
        <5>. QED
            BY <4>1, <5>1
      <4>3. link'[c] = "shut" /\ c \in emittedFailed'
        BY <1>1, <1>2 DEF TypeOK
      <4>. QED
        BY <3>1, <4>2, <4>3
    <3>2. CASE d # c
        BY <1>1, <1>2, <1>4, <2>1, <3>2 DEF Inv, TableIsCurrent, TypeOK
    <3>. QED
        BY <3>1, <3>2
  <2>2. (disposed => clients = {})'
    BY <1>1, <1>4 DEF Inv
  <2>. QED
    BY <2>1, <2>2 DEF TableIsCurrent
<1>. QED
    BY <1>5, <1>6, <1>7, <1>8, <1>9 DEF Inv

\* emit_failed_from_main: the reference of the idle source is kept until
\* the handlers of ::client-closed have returned.
LEMMA FailedIdleStep ==
    ASSUME Inv, NEW c \in Clients, FailedIdle(c)
    PROVE  Inv'
<1>1. /\ stack = <<>> /\ failedIdles[c] > 0
      /\ failedIdles' = [failedIdles EXCEPT ![c] = @ - 1]
      /\ emittedFailed' = emittedFailed \cup {c}
      /\ UNCHANGED <<disposed, aborted, releases, link, reading, foreachs>>
    BY DEF FailedIdle, Looping
<1>2. TypeOK /\ ClientInv /\ StackInv
    BY DEF Inv
<1>3. /\ failedIdles'[c] = failedIdles[c] - 1
      /\ failedIdles[c] \in Nat /\ failedIdles'[c] \in Nat
      /\ failedIdles' \in [Clients -> 0..MaxPanics]
      /\ \A d \in Clients \ {c} : failedIdles'[d] = failedIdles[d]
      /\ link[c] = "failed"
    BY <1>1, <1>2, MaxPanicsAssumption DEF TypeOK, ClientInv
<1>4. OnStack(stack) = {}
    BY <1>1 DEF OnStack
<1>5. CASE c \notin emittedFailed /\ ClientFailed(c, TRUE)
  <2>1. /\ clients' = clients \ {c}
        /\ stack' \in Seq(Frame) /\ ClosedOnce(stack')
        /\ ~Closing(stack, c) /\ ~IdleRuns(stack, c) /\ c \notin releases
        /\ \A d \in Clients \ {c} :
              /\ Closing(stack', d) <=> Closing(stack, d)
              /\ IdleRuns(stack', d) <=> IdleRuns(stack, d)
        /\ announced' \in [Clients -> Nat]
        /\ \A d \in Clients \ {c} : announced'[d] = announced[d]
        /\ \/ /\ ~disposed /\ c \in clients /\ UNCHANGED refs
              /\ OnStack(stack') = {Closed(c, TRUE)} \cup OnStack(stack)
              /\ announced'[c] = announced[c] + 1
              /\ Closing(stack', c) /\ IdleRuns(stack', c)
           \/ /\ disposed \/ c \notin clients
              /\ c \notin clients
              /\ UNCHANGED <<announced, stack>>
              /\ Unref(c)
    BY <1>5, ClientFailedFacts
  <2>2. refs[c] \in Nat /\ refs[c] > 0
    BY <1>1, Counted, OwnersType
  <2>3. /\ TypeOK'
        /\ \A d \in Clients \ {c} : refs'[d] = refs[d]
        /\ refs'[c] = IF c \in clients THEN refs[c] ELSE refs[c] - 1
    <3>1. refs' \in [Clients -> Nat]
      <4>1. refs' = refs \/ refs' = [refs EXCEPT ![c] = refs[c] - 1]
        BY <2>1 DEF Unref
      <4>2. refs[c] - 1 \in Nat
        BY <2>2
      <4>. QED
        BY <1>2, <4>1, <4>2 DEF TypeOK
    <3>2. /\ \A d \in Clients \ {c} : refs'[d] = refs[d]
          /\ refs'[c] = IF c \in clients THEN refs[c] ELSE refs[c] - 1
        BY <1>2, <2>1 DEF Unref, TypeOK
    <3>. QED
        BY <1>1, <1>2, <1>3, <2>1, <3>1, <3>2 DEF TypeOK
  <2>4. ReferencesAreOwned'
    <3>1. ASSUME NEW d \in Clients \ {c}
          PROVE  refs'[d] = Owners(d, clients', stack', releases', reading',
                                   failedIdles')
        BY <1>1, <1>3, <2>1, <2>3, Counted DEF Owners, One
    <3>2. refs'[c] =
              Owners(c, clients', stack', releases', reading', failedIdles')
      <4>1. CASE c \in clients
        <5>1. /\ One(c \in clients) = 1 /\ One(c \in clients') = 0
              /\ One(Closing(stack, c)) = 0 /\ One(Closing(stack', c)) = 1
              /\ One(IdleRuns(stack, c)) = 0 /\ One(IdleRuns(stack', c)) = 1
            BY <2>1, <4>1 DEF One
        <5>2. One(c \in releases) \in {0, 1} /\ One(c \in reading) \in {0, 1}
            BY DEF One
        <5>. QED
            BY <1>1, <1>3, <2>3, <4>1, <5>1, <5>2, Counted DEF Owners
      <4>2. CASE c \notin clients
        <5>1. /\ stack' = stack
              /\ One(c \in clients) = One(c \in clients')
            BY <2>1, <4>2 DEF One
        <5>2. /\ One(c \in releases) \in {0, 1} /\ One(c \in reading) \in {0, 1}
              /\ One(c \in clients) \in {0, 1}
              /\ One(Closing(stack, c)) \in {0, 1}
              /\ One(IdleRuns(stack, c)) \in {0, 1}
            BY DEF One
        <5>. QED
            BY SMTT(30), <1>1, <1>3, <2>3, <4>2, <5>1, <5>2, Counted DEF Owners
      <4>. QED
        BY <4>1, <4>2
    <3>. QED
        BY <3>1, <3>2, CountedStep
  <2>5. StackInv'
    <3>1. \A f \in OnStack(stack') : f.kind = "closed" /\ f.client = c
        BY <1>4, <2>1 DEF Closed
    <3>. QED
        BY <1>1, <2>1, <3>1 DEF StackInv
  <2>6. ClientInv'
    BY <1>1, <1>2, <1>3, <2>1 DEF ClientInv
  <2>7. (disposed => clients = {})' /\ TableIsCurrent'
    <3>1. ASSUME ~disposed', NEW d \in Clients
          PROVE  /\ d \in clients' <=> link'[d] # "none" /\ d \notin emittedFailed'
                 /\ announced'[d] = IF d \in emittedFailed' THEN 1 ELSE 0
                 /\ d \in emittedFailed' => link'[d] \in {"shut", "failed"}
      <4>1. CASE d = c
        <5>1. ~disposed /\ c \in clients /\ announced[c] = 0
            BY <1>1, <1>3, <1>5, <3>1 DEF Inv, TableIsCurrent
        <5>2. announced'[c] = 1 /\ c \notin clients'
          <6>1. announced'[c] = announced[c] + 1 /\ clients' = clients \ {c}
            BY <2>1, <5>1, Zenon
          <6>. QED
            BY <5>1, <6>1
        <5>3. link'[c] = "failed" /\ c \in emittedFailed'
            BY <1>1, <1>3
        <5>. QED
            BY <4>1, <5>2, <5>3
      <4>2. CASE d # c
        BY <1>1, <1>2, <2>1, <3>1, <4>2 DEF Inv, TableIsCurrent, TypeOK
      <4>. QED
        BY <4>1, <4>2
    <3>2. (disposed => clients = {})'
        BY <1>1, <2>1 DEF Inv
    <3>. QED
        BY <3>1, <3>2 DEF TableIsCurrent
  <2>. QED
    BY <2>3, <2>4, <2>5, <2>6, <2>7 DEF Inv
<1>6. CASE c \in emittedFailed /\ Unref(c) /\ UNCHANGED <<clients, announced, stack>>
  <2>1. refs[c] \in Nat /\ refs[c] > 0
    BY <1>1, Counted, OwnersType
  <2>2. /\ refs' \in [Clients -> Nat] /\ refs'[c] = refs[c] - 1
        /\ \A d \in Clients \ {c} : refs'[d] = refs[d]
    BY <1>2, <1>6, <2>1 DEF Unref, TypeOK
  <2>3. TypeOK'
    BY <1>1, <1>2, <1>3, <1>6, <2>2 DEF TypeOK
  <2>4. ReferencesAreOwned'
    <3>1. ASSUME NEW d \in Clients \ {c}
          PROVE  refs'[d] = Owners(d, clients', stack', releases', reading',
                                   failedIdles')
        BY <1>1, <1>3, <1>6, <2>2, Counted DEF Owners
    <3>2. refs'[c] =
              Owners(c, clients', stack', releases', reading', failedIdles')
      <4>1. /\ One(c \in releases) \in {0, 1} /\ One(c \in reading) \in {0, 1}
            /\ One(c \in clients) \in {0, 1}
            /\ One(Closing(stack, c)) \in {0, 1}
            /\ One(IdleRuns(stack, c)) \in {0, 1}
        BY DEF One
      <4>2. Owners(c, clients', stack', releases', reading', failedIdles')
              = One(c \in clients) + One(Closing(stack, c)) + One(c \in releases)
                + One(c \in reading) + failedIdles'[c] + One(IdleRuns(stack, c))
        BY <1>1, <1>6 DEF Owners
      <4>3. refs[c] = One(c \in clients) + One(Closing(stack, c))
                + One(c \in releases) + One(c \in reading) + failedIdles[c]
                + One(IdleRuns(stack, c))
        BY Counted DEF Owners
      <4>. QED
        BY <1>3, <2>2, <4>1, <4>2, <4>3
    <3>. QED
        BY <3>1, <3>2, CountedStep
  <2>5. StackInv'
    BY <1>1, <1>2, <1>4, <1>6 DEF StackInv
  <2>6. ClientInv' /\ (disposed => clients = {})' /\ TableIsCurrent'
    BY <1>1, <1>2, <1>3, <1>6 DEF Inv, ClientInv, TableIsCurrent
  <2>. QED
    BY <2>3, <2>4, <2>5, <2>6 DEF Inv
<1>. QED
    BY <1>5, <1>6 DEF FailedIdle

\* The handlers of ::client-closed have returned: dummy_func gets the
\* reference, and the dispatch under them gives up its own.
LEMMA ClosedReturnsStep == Inv /\ ClosedReturns => Inv'
<1>. SUFFICES ASSUME Inv, ClosedReturns PROVE Inv'
    OBVIOUS
<1>0. PICK f : f = Head(stack)
    OBVIOUS
<1>. DEFINE c == f.client
<1>1. /\ stack # <<>> /\ f.kind = "closed"
      /\ stack' = Tail(stack)
      /\ releases' = releases \cup {c}
      /\ IF f.idle THEN Unref(c) ELSE UNCHANGED refs
      /\ UNCHANGED <<clients, disposed, aborted, announced, clientVars,
                     foreachs>>
    BY <1>0 DEF ClosedReturns
<1>2. TypeOK /\ ClientInv /\ StackInv
    BY DEF Inv
<1>3. /\ stack' \in Seq(Frame) /\ f \in Frame
      /\ OnStack(stack) = {f} \cup OnStack(stack')
      /\ ClosedOnce(stack') /\ ~Closing(stack', c)
    BY <1>0, <1>1, <1>2, PopFacts DEF TypeOK, StackInv
<1>4. c \in Clients /\ f.idle \in BOOLEAN
    BY <1>3 DEF Frame
<1>5. /\ Closing(stack, c) /\ ~IdleRuns(stack', c)
      /\ IdleRuns(stack, c) <=> f.idle
      /\ \A d \in Clients \ {c} :
            /\ Closing(stack', d) <=> Closing(stack, d)
            /\ IdleRuns(stack', d) <=> IdleRuns(stack, d)
    BY <1>1, <1>3 DEF Closing, IdleRuns
<1>6. c \notin releases /\ c \in emittedFailed
    BY <1>1, <1>2, <1>3 DEF StackInv
<1>. HIDE DEF c
<1>. USE DEF clientVars
<1>7. /\ refs' \in [Clients -> Nat]
      /\ refs'[c] = IF f.idle THEN refs[c] - 1 ELSE refs[c]
      /\ \A d \in Clients \ {c} : refs'[d] = refs[d]
  <2>1. f.idle => refs[c] \in Nat /\ refs[c] > 0
    BY <1>4, <1>5, Counted, OwnersType
  <2>2. CASE f.idle
    <3>1. refs' = [refs EXCEPT ![c] = refs[c] - 1] /\ refs[c] - 1 \in Nat
        BY <1>1, <2>1, <2>2 DEF Unref
    <3>. QED
        BY <1>2, <1>4, <2>2, <3>1 DEF TypeOK
  <2>3. CASE ~f.idle
    BY <1>1, <1>2, <2>3 DEF TypeOK
  <2>. QED
    BY <1>4, <2>2, <2>3
<1>8. TypeOK'
    BY <1>1, <1>2, <1>3, <1>4, <1>7 DEF TypeOK
<1>9. ReferencesAreOwned'
  <2>1. ASSUME NEW d \in Clients \ {c}
        PROVE  refs'[d] = Owners(d, clients', stack', releases', reading',
                                 failedIdles')
    BY <1>1, <1>5, <1>7, Counted DEF Owners, One
  <2>2. refs'[c] = Owners(c, clients', stack', releases', reading', failedIdles')
    <3>1. /\ One(Closing(stack, c)) = 1 /\ One(Closing(stack', c)) = 0
          /\ One(c \in releases) = 0 /\ One(c \in releases') = 1
          /\ One(IdleRuns(stack, c)) = (IF f.idle THEN 1 ELSE 0)
          /\ One(IdleRuns(stack', c)) = 0
        BY <1>1, <1>3, <1>5, <1>6 DEF One
    <3>2. One(c \in clients) \in {0, 1} /\ One(c \in reading) \in {0, 1}
        BY DEF One
    <3>3. refs[c] = One(c \in clients) + 1 + 0 + One(c \in reading)
              + failedIdles[c] + One(IdleRuns(stack, c))
        BY <1>4, <3>1, Counted DEF Owners
    <3>4. Owners(c, clients', stack', releases', reading', failedIdles')
              = One(c \in clients) + 0 + 1 + One(c \in reading)
                + failedIdles[c] + 0
        BY <1>1, <3>1 DEF Owners
    <3>. QED
        BY <1>4, <1>7, <3>1, <3>2, <3>3, <3>4, Counted
  <2>. QED
    BY <2>1, <2>2, CountedStep
<1>10. StackInv'
  <2>1. \A g \in OnStack(stack') : g.kind = "closed" => g.client # c
    BY <1>3 DEF Closing
  <2>. QED
    BY <1>1, <1>2, <1>3, <2>1 DEF StackInv, Rooted
<1>11. ClientInv' /\ (disposed => clients = {})' /\ TableIsCurrent'
    BY <1>1, <1>2, <1>6 DEF Inv, ClientInv, TableIsCurrent
<1>. QED
    BY <1>8, <1>9, <1>10, <1>11 DEF Inv

\* Frames that come and go without a change of the clients.
LEMMA FrameStep ==
    ASSUME Inv, UNCHANGED <<serverVars, clientVars, refs>>,
           foreachs' \in 0..MaxForeach,
           stack' \in Seq(Frame), ClosedOnce(stack'),
           \A c \in Clients : /\ Closing(stack', c) <=> Closing(stack, c)
                              /\ IdleRuns(stack', c) <=> IdleRuns(stack, c),
           \A f \in OnStack(stack') :
              f \in OnStack(stack)
              \/ /\ f.kind # "closed"
                 /\ f.kind = "foreach" =>
                       \A c \in {f.client} \cup f.keys : Rooted(c)
    PROVE  Inv'
<1>. USE DEF serverVars, clientVars
<1>1. TypeOK'
    BY DEF Inv, TypeOK
<1>2. ReferencesAreOwned'
    BY Counted, CountedStep DEF Owners, One
<1>3. StackInv'
    BY DEF Inv, StackInv, Rooted
<1>4. ClientInv' /\ (disposed => clients = {})' /\ TableIsCurrent'
    BY DEF Inv, ClientInv, TableIsCurrent
<1>. QED
    BY <1>1, <1>2, <1>3, <1>4 DEF Inv

\* The clients of the table are rooted.
LEMMA TableIsRooted == Inv => \A c \in clients : c \in Clients /\ Rooted(c)
BY DEF Inv, TypeOK, ClientInv, Rooted

LEMMA AcceptedReturnsStep == Inv /\ AcceptedReturns => Inv'
<1>. SUFFICES ASSUME Inv, AcceptedReturns PROVE Inv'
    OBVIOUS
<1>1. /\ stack # <<>> /\ Head(stack).kind = "accepted"
      /\ stack' = Tail(stack)
      /\ UNCHANGED <<serverVars, clientVars, refs, foreachs>>
    BY DEF AcceptedReturns
<1>2. stack' \in Seq(Frame) /\ ClosedOnce(stack')
      /\ OnStack(stack) = {Head(stack)} \cup OnStack(stack')
    BY <1>1, PopFacts DEF Inv, TypeOK, StackInv
<1>3. \A c \in Clients : /\ Closing(stack', c) <=> Closing(stack, c)
                         /\ IdleRuns(stack', c) <=> IdleRuns(stack, c)
    BY <1>1, <1>2 DEF Closing, IdleRuns
<1>4. foreachs' \in 0..MaxForeach
    BY <1>1 DEF Inv, TypeOK
<1>. QED
    BY <1>1, <1>2, <1>3, <1>4, FrameStep

LEMMA ForeachStep == Inv /\ Foreach => Inv'
<1>. SUFFICES ASSUME Inv, Foreach PROVE Inv'
    OBVIOUS
<1>1. PICK c \in clients : stack' = <<Visits(c, clients \ {c})>> \o stack
    BY DEF Foreach
<1>. DEFINE f == Visits(c, clients \ {c})
<1>2. UNCHANGED <<serverVars, clientVars, refs>> /\ foreachs' \in 0..MaxForeach
    BY MaxForeachAssumption DEF Foreach, Inv, TypeOK
<1>3. /\ f \in Frame /\ f.kind = "foreach"
      /\ {f.client} \cup f.keys = clients
    BY DEF Visits, Frame, Inv, TypeOK
<1>. HIDE DEF f
<1>4. stack' \in Seq(Frame) /\ ClosedOnce(stack')
      /\ OnStack(stack') = {f} \cup OnStack(stack)
    BY <1>1, <1>3, PushFacts DEF Inv, TypeOK, StackInv, f
<1>5. \A d \in Clients : /\ Closing(stack', d) <=> Closing(stack, d)
                         /\ IdleRuns(stack', d) <=> IdleRuns(stack, d)
    BY <1>3, <1>4 DEF Closing, IdleRuns
<1>. QED
    BY <1>2, <1>3, <1>4, <1>5, FrameStep, TableIsRooted

LEMMA ForeachNextStep == Inv /\ ForeachNext => Inv'
<1>. SUFFICES ASSUME Inv, ForeachNext PROVE Inv'
    OBVIOUS
<1>. DEFINE s == Tail(stack)
<1>1. /\ stack # <<>> /\ Head(stack).kind = "foreach"
      /\ UNCHANGED <<serverVars, clientVars, refs, foreachs>>
    BY DEF ForeachNext
<1>2. /\ s \in Seq(Frame) /\ ClosedOnce(s) /\ Head(stack) \in Frame
      /\ OnStack(stack) = {Head(stack)} \cup OnStack(s)
    BY <1>1, PopFacts DEF Inv, TypeOK, StackInv
<1>3. \A c \in Clients : /\ Closing(s, c) <=> Closing(stack, c)
                         /\ IdleRuns(s, c) <=> IdleRuns(stack, c)
    BY <1>1, <1>2 DEF Closing, IdleRuns
<1>4. foreachs' \in 0..MaxForeach
    BY <1>1 DEF Inv, TypeOK
<1>. HIDE DEF s
<1>5. CASE stack' = s
    BY <1>1, <1>2, <1>3, <1>4, <1>5, FrameStep
<1>6. ASSUME NEW c \in Head(stack).keys,
             stack' = <<Visits(c, Head(stack).keys \ {c})>> \o s
      PROVE  Inv'
  <2>. DEFINE f == Visits(c, Head(stack).keys \ {c})
  <2>1. /\ f \in Frame /\ f.kind = "foreach"
        /\ {f.client} \cup f.keys = Head(stack).keys
    BY <1>2 DEF Visits, Frame
  <2>. HIDE DEF f
  <2>2. stack' \in Seq(Frame) /\ ClosedOnce(stack')
        /\ OnStack(stack') = {f} \cup OnStack(s)
    BY <1>2, <1>6, <2>1, PushFacts DEF f
  <2>3. \A d \in Clients : /\ Closing(stack', d) <=> Closing(stack, d)
                           /\ IdleRuns(stack', d) <=> IdleRuns(stack, d)
    BY <1>3, <2>1, <2>2 DEF Closing, IdleRuns
  <2>4. \A d \in Head(stack).keys : Rooted(d)
    BY <1>1, <1>2 DEF Inv, StackInv
  <2>. QED
    BY <1>1, <1>2, <1>4, <2>1, <2>2, <2>3, <2>4, FrameStep
<1>. QED
    BY <1>5, <1>6 DEF ForeachNext, s

\* The server is dropped while nothing but jsonrpc_server_foreach runs: the
\* table gives up its references.
LEMMA DisposeStep == Inv /\ Dispose => Inv'
<1>. SUFFICES ASSUME Inv, Dispose PROVE Inv'
    OBVIOUS
<1>. USE DEF clientVars
<1>1. /\ disposed' = TRUE /\ clients' = {}
      /\ refs' = [c \in Clients |-> IF c \in clients THEN refs[c] - 1 ELSE refs[c]]
      /\ UNCHANGED <<aborted, releases, announced, clientVars, stack, foreachs>>
    BY DEF Dispose
<1>2. ASSUME NEW c \in Clients
      PROVE  /\ refs'[c] = Owners(c, clients', stack', releases', reading',
                                  failedIdles')
             /\ refs'[c] \in Nat
  <2>1. refs'[c] = refs[c] - One(c \in clients)
    BY <1>1, Counted DEF One
  <2>2. Owners(c, clients', stack', releases', reading', failedIdles')
            = One(Closing(stack, c)) + One(c \in releases) + One(c \in reading)
              + failedIdles[c] + One(IdleRuns(stack, c))
    BY <1>1, Counted DEF Owners, One
  <2>3. /\ One(c \in releases) \in {0, 1} /\ One(c \in reading) \in {0, 1}
        /\ One(c \in clients) \in {0, 1}
        /\ One(Closing(stack, c)) \in {0, 1}
        /\ One(IdleRuns(stack, c)) \in {0, 1}
    BY DEF One
  <2>4. refs[c] = One(c \in clients) + One(Closing(stack, c))
            + One(c \in releases) + One(c \in reading) + failedIdles[c]
            + One(IdleRuns(stack, c))
    BY Counted DEF Owners
  <2>. QED
    BY <2>1, <2>2, <2>3, <2>4, Counted
<1>3. TypeOK'
    BY <1>1, <1>2 DEF Inv, TypeOK
<1>4. ReferencesAreOwned'
    BY <1>2, CountedStep
<1>5. StackInv'
    BY <1>1 DEF Inv, StackInv, Rooted
<1>6. ClientInv' /\ (disposed => clients = {})' /\ TableIsCurrent'
    BY <1>1 DEF Inv, ClientInv, TableIsCurrent
<1>. QED
    BY <1>3, <1>4, <1>5, <1>6 DEF Inv

\* The reference of the read loop goes to the idle source.
LEMMA ReadPanicsStep ==
    ASSUME Inv, NEW c \in Clients, ReadPanics(c)
    PROVE  Inv'
<1>. USE DEF serverVars
<1>1. /\ stack = <<>> /\ link[c] \in {"open", "failed"} /\ c \in reading
      /\ c \notin emittedFailed /\ failedIdles[c] < MaxPanics
      /\ link' = [link EXCEPT ![c] = "failed"]
      /\ reading' = reading \ {c}
      /\ failedIdles' = [failedIdles EXCEPT ![c] = @ + 1]
      /\ UNCHANGED <<serverVars, emittedFailed, refs, stack, foreachs>>
    BY DEF ReadPanics, Looping, MayPanic, QueueFailed
<1>2. TypeOK /\ ClientInv /\ OnStack(stack) = {}
    BY <1>1 DEF Inv, OnStack
<1>3. /\ failedIdles'[c] = failedIdles[c] + 1
      /\ failedIdles[c] \in Nat /\ failedIdles'[c] \in 0..MaxPanics
      /\ failedIdles' \in [Clients -> 0..MaxPanics]
      /\ \A d \in Clients \ {c} : failedIdles'[d] = failedIdles[d]
    BY <1>1, <1>2, MaxPanicsAssumption DEF TypeOK
<1>4. TypeOK'
    BY <1>1, <1>2, <1>3 DEF TypeOK
<1>5. ReferencesAreOwned'
  <2>1. ASSUME NEW d \in Clients \ {c}
        PROVE  refs'[d] = Owners(d, clients', stack', releases', reading',
                                 failedIdles')
    BY <1>1, <1>3, Counted DEF Owners, One
  <2>2. refs'[c] = Owners(c, clients', stack', releases', reading', failedIdles')
    <3>1. One(c \in reading) = 1 /\ One(c \in reading') = 0
        BY <1>1 DEF One
    <3>2. /\ One(c \in releases) \in {0, 1} /\ One(c \in clients) \in {0, 1}
          /\ One(Closing(stack, c)) \in {0, 1}
          /\ One(IdleRuns(stack, c)) \in {0, 1}
        BY DEF One
    <3>. QED
        BY <1>1, <1>3, <3>1, <3>2, Counted DEF Owners
  <2>. QED
    BY <2>1, <2>2, CountedStep
<1>6. StackInv'
    BY <1>1, <1>2 DEF Inv, StackInv
<1>7. ClientInv'
    BY <1>1, <1>2, <1>3 DEF ClientInv, TypeOK
<1>8. (disposed => clients = {})' /\ TableIsCurrent'
    BY <1>1, <1>2 DEF Inv, TableIsCurrent, TypeOK
<1>. QED
    BY <1>4, <1>5, <1>6, <1>7, <1>8 DEF Inv

\* The idle source gets a reference of its own.
LEMMA WritePanicsStep ==
    ASSUME Inv, NEW c \in Clients, WritePanics(c)
    PROVE  Inv'
<1>. USE DEF serverVars
<1>1. /\ stack = <<>> /\ link[c] \in {"open", "failed"}
      /\ c \notin emittedFailed /\ failedIdles[c] < MaxPanics
      /\ link' = [link EXCEPT ![c] = "failed"]
      /\ failedIdles' = [failedIdles EXCEPT ![c] = @ + 1]
      /\ refs' = [refs EXCEPT ![c] = @ + 1]
      /\ UNCHANGED <<serverVars, reading, emittedFailed, stack, foreachs>>
    BY DEF WritePanics, Looping, MayPanic, QueueFailed, Ref
<1>2. TypeOK /\ ClientInv /\ OnStack(stack) = {}
    BY <1>1 DEF Inv, OnStack
<1>3. /\ failedIdles'[c] = failedIdles[c] + 1
      /\ failedIdles[c] \in Nat /\ failedIdles'[c] \in 0..MaxPanics
      /\ failedIdles' \in [Clients -> 0..MaxPanics]
      /\ \A d \in Clients \ {c} : failedIdles'[d] = failedIdles[d]
    BY <1>1, <1>2, MaxPanicsAssumption DEF TypeOK
<1>4. /\ refs' \in [Clients -> Nat] /\ refs'[c] = refs[c] + 1
      /\ \A d \in Clients \ {c} : refs'[d] = refs[d]
    BY <1>1, <1>2 DEF TypeOK
<1>5. TypeOK'
    BY <1>1, <1>2, <1>3, <1>4 DEF TypeOK
<1>6. ReferencesAreOwned'
  <2>1. ASSUME NEW d \in Clients \ {c}
        PROVE  refs'[d] = Owners(d, clients', stack', releases', reading',
                                 failedIdles')
    BY <1>1, <1>3, <1>4, Counted DEF Owners, One
  <2>2. refs'[c] = Owners(c, clients', stack', releases', reading', failedIdles')
    <3>1. /\ One(c \in releases) \in {0, 1} /\ One(c \in clients) \in {0, 1}
          /\ One(Closing(stack, c)) \in {0, 1} /\ One(c \in reading) \in {0, 1}
          /\ One(IdleRuns(stack, c)) \in {0, 1}
        BY DEF One
    <3>2. Owners(c, clients', stack', releases', reading', failedIdles')
              = One(c \in clients) + One(Closing(stack, c)) + One(c \in releases)
                + One(c \in reading) + failedIdles'[c] + One(IdleRuns(stack, c))
        BY <1>1 DEF Owners
    <3>3. refs[c] = One(c \in clients) + One(Closing(stack, c))
              + One(c \in releases) + One(c \in reading) + failedIdles[c]
              + One(IdleRuns(stack, c))
        BY Counted DEF Owners
    <3>. QED
        BY <1>3, <1>4, <3>1, <3>2, <3>3
  <2>. QED
    BY <2>1, <2>2, CountedStep
<1>7. StackInv'
    BY <1>1, <1>2 DEF Inv, StackInv
<1>8. ClientInv'
    BY <1>1, <1>2, <1>3 DEF ClientInv, TypeOK
<1>9. (disposed => clients = {})' /\ TableIsCurrent'
    BY <1>1, <1>2 DEF Inv, TableIsCurrent, TypeOK
<1>. QED
    BY <1>5, <1>6, <1>7, <1>8, <1>9 DEF Inv

\* The read loop or dummy_func gives up its reference.
LEMMA GiveUpStep ==
    ASSUME Inv, NEW c \in Clients, stack = <<>>, Unref(c),
           UNCHANGED <<clients, disposed, aborted, announced, link, failedIdles,
                       emittedFailed, stack, foreachs>>,
           \/ /\ c \in reading /\ reading' = reading \ {c}
              /\ link[c] \in {"shut", "failed"} /\ UNCHANGED releases
           \/ /\ c \in releases /\ releases' = releases \ {c}
              /\ UNCHANGED reading
    PROVE  Inv'
<1>1. TypeOK /\ ClientInv /\ OnStack(stack) = {}
    BY DEF Inv, OnStack
<1>2. refs[c] \in Nat /\ refs[c] > 0
    BY Counted, OwnersType
<1>3. /\ refs' \in [Clients -> Nat] /\ refs'[c] = refs[c] - 1
      /\ \A d \in Clients \ {c} : refs'[d] = refs[d]
  <2>1. refs' = [refs EXCEPT ![c] = refs[c] - 1] /\ refs[c] - 1 \in Nat
    BY <1>2 DEF Unref
  <2>. QED
    BY <1>1, <2>1 DEF TypeOK
<1>4. TypeOK'
    BY <1>1, <1>3 DEF TypeOK
<1>5. ReferencesAreOwned'
  <2>1. ASSUME NEW d \in Clients \ {c}
        PROVE  refs'[d] = Owners(d, clients', stack', releases', reading',
                                 failedIdles')
    <3>1. (d \in reading' <=> d \in reading) /\ (d \in releases' <=> d \in releases)
        OBVIOUS
    <3>. QED
        BY <1>3, <3>1, Counted DEF Owners, One
  <2>2. refs'[c] = Owners(c, clients', stack', releases', reading', failedIdles')
    <3>1. /\ One(c \in reading') \in {0, 1} /\ One(c \in releases') \in {0, 1}
          /\ One(c \in reading) + One(c \in releases)
                = One(c \in reading') + One(c \in releases') + 1
        BY DEF One
    <3>2. /\ One(c \in releases) \in {0, 1} /\ One(c \in clients) \in {0, 1}
          /\ One(Closing(stack, c)) \in {0, 1} /\ One(c \in reading) \in {0, 1}
          /\ One(IdleRuns(stack, c)) \in {0, 1}
        BY DEF One
    <3>3. Owners(c, clients', stack', releases', reading', failedIdles')
              = One(c \in clients) + One(Closing(stack, c)) + One(c \in releases')
                + One(c \in reading') + failedIdles[c] + One(IdleRuns(stack, c))
        BY DEF Owners
    <3>4. refs[c] = One(c \in clients) + One(Closing(stack, c))
              + One(c \in releases) + One(c \in reading) + failedIdles[c]
              + One(IdleRuns(stack, c))
        BY Counted DEF Owners
    <3>. QED
        BY <1>3, <3>1, <3>2, <3>3, <3>4, Counted
  <2>. QED
    BY <2>1, <2>2, CountedStep
<1>6. StackInv'
    BY <1>1 DEF Inv, StackInv
<1>7. ClientInv' /\ (disposed => clients = {})' /\ TableIsCurrent'
    BY <1>1 DEF Inv, ClientInv, TableIsCurrent
<1>. QED
    BY <1>4, <1>5, <1>6, <1>7 DEF Inv

-----------------------------------------------------------------------------
(* Safety.                                                                 *)

LEMMA InvInit == Init => Inv
<1>. SUFFICES ASSUME Init PROVE Inv
    OBVIOUS
<1>1. OnStack(stack) = {} /\ ClosedOnce(stack)
    BY DEF Init, OnStack, ClosedOnce
<1>2. TypeOK
  <2>1. stack \in Seq(Frame)
    BY DEF Init
  <2>2. failedIdles \in [Clients -> 0..MaxPanics] /\ foreachs \in 0..MaxForeach
    BY MaxPanicsAssumption, MaxForeachAssumption DEF Init
  <2>3. /\ clients \subseteq Clients /\ disposed \in BOOLEAN /\ aborted \in BOOLEAN
        /\ reading \subseteq Clients /\ emittedFailed \subseteq Clients
        /\ releases \subseteq Clients
    BY DEF Init
  <2>4. /\ link \in [Clients -> {"none", "open", "shut", "failed"}]
        /\ refs \in [Clients -> Nat] /\ announced \in [Clients -> Nat]
    BY DEF Init
  <2>. QED
    BY <2>1, <2>2, <2>3, <2>4 DEF TypeOK
<1>3. StackInv /\ ClientInv /\ TableIsCurrent /\ (disposed => clients = {})
    BY <1>1 DEF Init, StackInv, ClientInv, TableIsCurrent
<1>4. ReferencesAreOwned
    BY <1>1, HoldersAre
    DEF Init, ReferencesAreOwned, Owners, One, Closing, IdleRuns
<1>. QED
    BY <1>2, <1>3, <1>4 DEF Inv

LEMMA InvStep == Inv /\ [Next]_vars => Inv'
<1>. SUFFICES ASSUME Inv, [Next]_vars PROVE Inv'
    OBVIOUS
<1>. USE DEF serverVars, clientVars
<1>1. ASSUME NEW c \in Clients, ReadEnds(c) PROVE Inv'
    BY <1>1, GiveUpStep DEF ReadEnds, Looping
<1>2. ASSUME NEW c \in Clients, ReleaseIdle(c) PROVE Inv'
    BY <1>2, GiveUpStep DEF ReleaseIdle, Looping
<1>3. ASSUME UNCHANGED vars
             \/ \E c \in Clients : NotificationWithoutParams(c)
      PROVE  Inv'
  <2>1. /\ UNCHANGED <<clients, disposed, releases, announced, clientVars, refs,
                       stack, foreachs>>
        /\ aborted' \in BOOLEAN
    BY <1>3 DEF vars, NotificationWithoutParams, Inv, TypeOK
  <2>2. TypeOK' /\ StackInv' /\ ClientInv'
    BY <2>1 DEF Inv, TypeOK, StackInv, ClientInv, Rooted
  <2>3. ReferencesAreOwned'
    BY <2>1, Counted, CountedStep
  <2>4. TableIsCurrent' /\ (disposed => clients = {})'
    BY <2>1 DEF Inv, TableIsCurrent
  <2>. QED
    BY <2>2, <2>3, <2>4 DEF Inv
<1>. QED
    BY <1>1, <1>2, <1>3, AcceptStep, CloseStep, ReadPanicsStep, WritePanicsStep,
       FailedIdleStep, AcceptedReturnsStep, ClosedReturnsStep, ForeachStep,
       ForeachNextStep, DisposeStep
    DEF Next

\* Inv is an inductive invariant.
THEOREM Invariance == Spec => []Inv
BY InvInit, InvStep, PTL DEF Spec

\* Every state of the server is well-typed; no reference count goes below 0.
THEOREM TypeCorrect == Spec => []TypeOK
<1>1. Inv => TypeOK
    BY DEF Inv
<1>. QED
    BY <1>1, Invariance, PTL

\* Clients have as many references as owners.
THEOREM ReferencesAreOwnedHolds == Spec => []ReferencesAreOwned
<1>1. Inv => ReferencesAreOwned
    BY DEF Inv
<1>. QED
    BY <1>1, Invariance, PTL

\* The table has the clients whose loss is yet to be told.
THEOREM TableIsCurrentHolds == Spec => []TableIsCurrent
<1>1. Inv => TableIsCurrent
    BY DEF Inv
<1>. QED
    BY <1>1, Invariance, PTL

\* jsonrpc_server_foreach never meets a client that was freed.
THEOREM ForeachIsSafeHolds == Spec => []ForeachIsSafe
<1>1. Inv => ForeachIsSafe
  <2>. SUFFICES ASSUME Inv, NEW i \in 1..Len(stack),
                       stack[i].kind = "foreach",
                       NEW c \in {stack[i].client} \cup stack[i].keys
                PROVE  refs[c] > 0
    BY DEF ForeachIsSafe
  <2>1. stack[i] \in OnStack(stack) /\ stack[i] \in Frame
    BY ElementOfSeq DEF OnStack, Inv, TypeOK
  <2>2. c \in Clients /\ Rooted(c)
    BY <2>1 DEF Inv, StackInv, Frame
  <2>. QED
    BY <2>2, Counted, OwnersType DEF Rooted
<1>. QED
    BY <1>1, Invariance, PTL
-----------------------------------------------------------------------------
(* What the liveness properties rest on.                                   *)

\* A client that is lost is never forgotten: one that is yet to be told of
\* has an idle source that will do so, and when the main loop has its turn,
\* one that is yet to be freed is held by a read or by an idle source.
NothingForgotten ==
    \A c \in Clients :
        link[c] \in {"shut", "failed"} =>
            /\ ~disposed /\ announced[c] # 1 => failedIdles[c] > 0
            /\ stack = <<>> /\ refs[c] > 0
                  => c \in reading \/ c \in releases \/ failedIdles[c] > 0

\* The safety part of LossIsAnnounced and LostIsFreed: a client is neither
\* left unannounced nor leaked for want of a source that would see to it.
THEOREM NothingForgottenHolds == Spec => []NothingForgotten
<1>1. Inv => NothingForgotten
  <2>. SUFFICES ASSUME Inv, NEW c \in Clients, link[c] \in {"shut", "failed"}
                PROVE  /\ ~disposed /\ announced[c] # 1 => failedIdles[c] > 0
                       /\ stack = <<>> /\ refs[c] > 0
                             => \/ c \in reading \/ c \in releases
                                \/ failedIdles[c] > 0
    BY DEF NothingForgotten
  <2>1. c \in emittedFailed \/ failedIdles[c] > 0
    BY DEF Inv, ClientInv
  <2>2. ~disposed /\ announced[c] # 1 => c \notin emittedFailed
    BY DEF Inv, TableIsCurrent
  <2>3. ASSUME stack = <<>>, c \notin reading, c \notin releases,
               ~ failedIdles[c] > 0
        PROVE  refs[c] = 0
    <3>1. c \notin clients
        BY <2>1, <2>3 DEF Inv, ClientInv
    <3>2. ~Closing(stack, c) /\ ~IdleRuns(stack, c)
        BY <2>3 DEF Closing, IdleRuns, OnStack
    <3>3. failedIdles[c] = 0
        BY <2>3, Counted
    <3>4. /\ One(c \in clients) = 0 /\ One(Closing(stack, c)) = 0
          /\ One(c \in releases) = 0 /\ One(c \in reading) = 0
          /\ One(IdleRuns(stack, c)) = 0
        BY <2>3, <3>1, <3>2 DEF One
    <3>. QED
        BY <3>3, <3>4, Counted DEF Owners
  <2>4. refs[c] \in Nat /\ failedIdles[c] \in Nat
    BY Counted
  <2>. QED
    BY <2>1, <2>2, <2>3, <2>4
<1>. QED
    BY <1>1, Invariance, PTL

-----------------------------------------------------------------------------
(* The server implements ServerClients.tla.                                *)

\* A client that is open, in the table, or left to an idle source is not
\* freed; one that is freed was lost, and told of unless the server is gone.
FreedLast ==
    \A c \in Clients :
        /\ Rooted(c) \/ c \in clients \/ c \in releases => refs[c] > 0
        /\ link[c] # "none" /\ refs[c] = 0
              => /\ link[c] \in {"shut", "failed"}
                 /\ ~disposed => announced[c] = 1

LEMMA FreedLastHolds == Inv => FreedLast
<1>. SUFFICES ASSUME Inv, NEW c \in Clients
              PROVE  /\ Rooted(c) \/ c \in clients \/ c \in releases => refs[c] > 0
                     /\ link[c] # "none" /\ refs[c] = 0
                           => /\ link[c] \in {"shut", "failed"}
                              /\ ~disposed => announced[c] = 1
    BY DEF FreedLast
<1>1. Rooted(c) \/ c \in clients \/ c \in releases => refs[c] > 0
    BY Counted, OwnersType DEF Rooted
<1>2. ASSUME link[c] # "none", refs[c] = 0
      PROVE  link[c] \in {"shut", "failed"} /\ (~disposed => announced[c] = 1)
  <2>1. c \notin reading /\ c \notin clients
    BY <1>1, <1>2 DEF Rooted
  <2>2. link[c] \in {"none", "open", "shut", "failed"}
    BY DEF Inv, TypeOK
  <2>3. link[c] \in {"shut", "failed"}
    BY <1>2, <2>1, <2>2 DEF Inv, ClientInv
  <2>4. ~disposed => c \in emittedFailed
    BY <1>2, <2>1 DEF Inv, TableIsCurrent
  <2>. QED
    BY <2>3, <2>4 DEF Inv, TableIsCurrent
<1>. QED
    BY <1>1, <1>2

\* Steps in which nothing happens to a client but that callbacks begin or
\* return, or that a reference which is not the last one goes.
LEMMA CallbacksStep ==
    ASSUME UNCHANGED <<disposed, link, announced>>,
           \A c \in Clients : link[c] # "none" => (refs'[c] = 0 <=> refs[c] = 0)
    PROVE  [Promise!Next]_(Promise!vars)
<1>1. /\ {c \in Clients : link[c] # "none"}' = {c \in Clients : link[c] # "none"}
      /\ {c \in Clients : link[c] \in {"shut", "failed"}}'
            = {c \in Clients : link[c] \in {"shut", "failed"}}
      /\ {c \in Clients : announced[c] = 1}' = {c \in Clients : announced[c] = 1}
      /\ {c \in Clients : link[c] # "none" /\ refs[c] = 0}'
            = {c \in Clients : link[c] # "none" /\ refs[c] = 0}
    OBVIOUS
<1>2. (stack = <<>>)' \in BOOLEAN /\ (~disposed)' = ~disposed
    OBVIOUS
<1>3. Promise!Callbacks
    BY <1>1, <1>2 DEF Promise!Callbacks
<1>. QED
    BY <1>3 DEF Promise!Next

\* The main loop drops a reference of a client, which may be its last.
LEMMA UnrefStep ==
    ASSUME FreedLast', NEW c \in Clients, stack = <<>>,
           UNCHANGED <<disposed, stack, link, announced>>,
           refs[c] > 0, \A d \in Clients \ {c} : refs'[d] = refs[d]
    PROVE  [Promise!Next]_(Promise!vars)
<1>1. CASE link[c] # "none" /\ refs'[c] = 0
  <2>1. link[c] \in {"shut", "failed"} /\ (~disposed => announced[c] = 1)
    BY <1>1 DEF FreedLast
  <2>2. {d \in Clients : link[d] # "none" /\ refs[d] = 0}'
            = {d \in Clients : link[d] # "none" /\ refs[d] = 0} \cup {c}
    BY <1>1
  <2>3. c \notin {d \in Clients : link[d] # "none" /\ refs[d] = 0}
    OBVIOUS
  <2>4. /\ {d \in Clients : link[d] # "none"}' = {d \in Clients : link[d] # "none"}
        /\ {d \in Clients : link[d] \in {"shut", "failed"}}'
              = {d \in Clients : link[d] \in {"shut", "failed"}}
        /\ {d \in Clients : announced[d] = 1}' = {d \in Clients : announced[d] = 1}
        /\ (stack = <<>>)' = (stack = <<>>) /\ (~disposed)' = ~disposed
    OBVIOUS
  <2>5. Promise!Free(c)
    BY <2>1, <2>2, <2>3, <2>4 DEF Promise!Free
  <2>. QED
    BY <2>5 DEF Promise!Next
<1>2. CASE link[c] = "none" \/ refs'[c] # 0
    BY <1>2, CallbacksStep
<1>. QED
    BY <1>1, <1>2

\* A client is lost and, if the server has it in its table, told of.
LEMMA LoseStep ==
    ASSUME Inv, NEW c \in Clients, UNCHANGED disposed,
           link[c] # "none",
           link' = [link EXCEPT ![c] = link'[c]],
           link'[c] \in {"shut", "failed"},
           \A d \in Clients : link[d] # "none" => (refs'[d] = 0 <=> refs[d] = 0),
           \/ UNCHANGED <<stack, announced>>
           \/ /\ ~disposed /\ c \in clients
              /\ announced' = [announced EXCEPT ![c] = @ + 1]
              /\ stack' # <<>>
    PROVE  [Promise!Next]_(Promise!vars)
<1>1. link \in [Clients -> {"none", "open", "shut", "failed"}]
      /\ announced \in [Clients -> Nat]
    BY DEF Inv, TypeOK
<1>2. \A d \in Clients \ {c} : link'[d] = link[d]
    BY <1>1
<1>3. {d \in Clients : link[d] # "none"}' = {d \in Clients : link[d] # "none"}
    BY <1>2
<1>4. {d \in Clients : link[d] \in {"shut", "failed"}}'
          = {d \in Clients : link[d] \in {"shut", "failed"}} \cup {c}
    BY <1>2
<1>5. {d \in Clients : link[d] # "none" /\ refs[d] = 0}'
          = {d \in Clients : link[d] # "none" /\ refs[d] = 0}
    BY <1>2
<1>6. (~disposed)' = ~disposed
    OBVIOUS
<1>7. CASE UNCHANGED <<stack, announced>> /\ link[c] \notin {"shut", "failed"}
  <2>1. {d \in Clients : announced[d] = 1}' = {d \in Clients : announced[d] = 1}
        /\ (stack = <<>>)' = (stack = <<>>)
    BY <1>7
  <2>2. Promise!Lose(c)
    BY <1>3, <1>4, <1>5, <1>6, <1>7, <2>1 DEF Promise!Lose
  <2>. QED
    BY <2>2 DEF Promise!Next
<1>8. CASE UNCHANGED <<stack, announced>> /\ link[c] \in {"shut", "failed"}
  <2>1. {d \in Clients : announced[d] = 1}' = {d \in Clients : announced[d] = 1}
        /\ (stack = <<>>)' = (stack = <<>>)
    BY <1>8
  <2>2. {d \in Clients : link[d] \in {"shut", "failed"}}'
            = {d \in Clients : link[d] \in {"shut", "failed"}}
    BY <1>4, <1>8
  <2>3. Promise!Callbacks
    BY <1>3, <1>5, <1>6, <2>1, <2>2 DEF Promise!Callbacks
  <2>. QED
    BY <2>3 DEF Promise!Next
<1>9. CASE /\ ~disposed /\ c \in clients
           /\ announced' = [announced EXCEPT ![c] = @ + 1]
           /\ stack' # <<>>
  <2>1. announced[c] = 0
    BY <1>9 DEF Inv, TableIsCurrent
  <2>2. announced'[c] = 1 /\ \A d \in Clients \ {c} : announced'[d] = announced[d]
    BY <1>1, <1>9, <2>1
  <2>3. {d \in Clients : announced[d] = 1}'
            = {d \in Clients : announced[d] = 1} \cup {c}
    BY <2>2
  <2>4. (stack = <<>>)' = FALSE
    BY <1>9
  <2>5. Promise!Tell(c)
    BY <1>3, <1>4, <1>5, <1>6, <1>9, <2>1, <2>3, <2>4 DEF Promise!Tell
  <2>. QED
    BY <2>5 DEF Promise!Next
<1>. QED
    BY <1>7, <1>8, <1>9

\* A client is accepted.
LEMMA AcceptImplements ==
    ASSUME Inv, NEW c \in Clients, AcceptIoStream(c)
    PROVE  [Promise!Next]_(Promise!vars)
<1>1. /\ ~disposed /\ link[c] = "none"
      /\ link' = [link EXCEPT ![c] = "open"]
      /\ refs' = [refs EXCEPT ![c] = 2]
      /\ stack' = <<Accepted(c)>> \o stack
      /\ UNCHANGED <<disposed, announced>>
    BY DEF AcceptIoStream
<1>2. /\ link \in [Clients -> {"none", "open", "shut", "failed"}]
      /\ refs \in [Clients -> Nat] /\ stack \in Seq(Frame)
    BY DEF Inv, TypeOK
<1>3. /\ link'[c] = "open" /\ refs'[c] = 2
      /\ \A d \in Clients \ {c} : link'[d] = link[d] /\ refs'[d] = refs[d]
    BY <1>1, <1>2
<1>4. {d \in Clients : link[d] # "none"}'
          = {d \in Clients : link[d] # "none"} \cup {c}
    BY <1>3
<1>5. /\ {d \in Clients : link[d] \in {"shut", "failed"}}'
            = {d \in Clients : link[d] \in {"shut", "failed"}}
      /\ {d \in Clients : link[d] # "none" /\ refs[d] = 0}'
            = {d \in Clients : link[d] # "none" /\ refs[d] = 0}
      /\ {d \in Clients : announced[d] = 1}' = {d \in Clients : announced[d] = 1}
    BY <1>1, <1>3
<1>6. (stack = <<>>)' = FALSE /\ (~disposed)' = ~disposed
  <2>1. Accepted(c) \in Frame
    BY DEF Accepted, Frame
  <2>2. Len(stack') = Len(stack) + 1 /\ Len(stack) \in Nat
    BY <1>1, <1>2, <2>1
  <2>. QED
    BY <1>1, <2>2
<1>7. Promise!Accept(c)
    BY <1>1, <1>4, <1>5, <1>6 DEF Promise!Accept
<1>. QED
    BY <1>7 DEF Promise!Next

\* A client is closed by the program, or emits ::failed from its idle source.
LEMMA FailedImplements ==
    ASSUME Inv, FreedLast', NEW c \in Clients, CloseClient(c) \/ FailedIdle(c)
    PROVE  [Promise!Next]_(Promise!vars)
<1>1. /\ link \in [Clients -> {"none", "open", "shut", "failed"}]
      /\ refs \in [Clients -> Nat] /\ stack \in Seq(Frame)
    BY DEF Inv, TypeOK
<1>2. ASSUME NEW idle \in BOOLEAN PROVE <<Closed(c, idle)>> \o stack # <<>>
  <2>1. Closed(c, idle) \in Frame
    BY DEF Closed, Frame
  <2>2. Len(<<Closed(c, idle)>> \o stack) = Len(stack) + 1 /\ Len(stack) \in Nat
    BY <1>1, <2>1
  <2>. QED
    BY <2>2
<1>3. CASE CloseClient(c)
  <2>1. /\ UNCHANGED <<disposed, refs>> /\ link[c] = "open"
        /\ link' = [link EXCEPT ![c] = "shut"]
        /\ \/ UNCHANGED <<stack, announced>>
           \/ /\ ~disposed /\ c \in clients
              /\ announced' = [announced EXCEPT ![c] = @ + 1]
              /\ stack' # <<>>
    BY <1>2, <1>3 DEF CloseClient, ClientFailed
  <2>2. link'[c] = "shut"
    BY <1>1, <2>1
  <2>. QED
    BY <1>1, <2>1, <2>2, LoseStep
<1>4. CASE FailedIdle(c)
  <2>1. /\ UNCHANGED <<disposed, link>> /\ stack = <<>> /\ failedIdles[c] > 0
    BY <1>4 DEF FailedIdle, Looping
  <2>2. link[c] = "failed" /\ refs[c] > 0
    BY <2>1, FreedLastHolds DEF Inv, ClientInv, FreedLast, Rooted
  <2>3. CASE UNCHANGED <<announced, stack>> /\ Unref(c)
    <3>1. \A d \in Clients \ {c} : refs'[d] = refs[d]
        BY <1>1, <2>3 DEF Unref
    <3>. QED
        BY <2>1, <2>2, <2>3, <3>1, UnrefStep
  <2>4. CASE /\ ~disposed /\ c \in clients /\ UNCHANGED refs
             /\ announced' = [announced EXCEPT ![c] = @ + 1]
             /\ stack' # <<>>
    <3>1. link' = [link EXCEPT ![c] = link'[c]]
        BY <1>1, <2>1
    <3>. QED
        BY <2>1, <2>2, <2>4, <3>1, LoseStep
  <2>. QED
    BY <1>2, <1>4, <2>3, <2>4 DEF FailedIdle, ClientFailed
<1>. QED
    BY <1>3, <1>4

\* A client panics, at a read or at a write.
LEMMA PanicImplements ==
    ASSUME Inv, NEW c \in Clients, ReadPanics(c) \/ WritePanics(c)
    PROVE  [Promise!Next]_(Promise!vars)
<1>1. /\ UNCHANGED <<disposed, stack, announced>>
      /\ link[c] \in {"open", "failed"} /\ c \notin emittedFailed
      /\ link' = [link EXCEPT ![c] = "failed"]
      /\ UNCHANGED refs \/ Ref(c)
    BY DEF ReadPanics, WritePanics, MayPanic, serverVars
<1>2. /\ link \in [Clients -> {"none", "open", "shut", "failed"}]
      /\ refs \in [Clients -> Nat]
    BY DEF Inv, TypeOK
<1>3. refs[c] > 0
    BY <1>1, FreedLastHolds DEF Inv, ClientInv, FreedLast, Rooted
<1>4. \A d \in Clients : refs'[d] = 0 <=> refs[d] = 0
    BY <1>1, <1>2, <1>3 DEF Ref
<1>5. link'[c] = "failed"
    BY <1>1, <1>2
<1>. QED
    BY <1>1, <1>4, <1>5, LoseStep

\* The end of a read, and dummy_func.
LEMMA GiveUpImplements ==
    ASSUME Inv, FreedLast', NEW c \in Clients, ReadEnds(c) \/ ReleaseIdle(c)
    PROVE  [Promise!Next]_(Promise!vars)
<1>1. /\ UNCHANGED <<disposed, link, announced, stack>> /\ stack = <<>>
      /\ c \in reading \/ c \in releases
      /\ Unref(c)
    BY DEF ReadEnds, ReleaseIdle, Looping, serverVars, clientVars
<1>2. refs[c] > 0
    BY <1>1, FreedLastHolds DEF FreedLast, Rooted
<1>3. \A d \in Clients \ {c} : refs'[d] = refs[d]
    BY <1>1 DEF Unref, Inv, TypeOK
<1>. QED
    BY <1>1, <1>2, <1>3, UnrefStep

\* Handlers of ::client-closed return: the reference of the dispatch that
\* emitted it is not the last one.
LEMMA ClosedReturnsImplements ==
    ASSUME Inv, FreedLast', ClosedReturns
    PROVE  [Promise!Next]_(Promise!vars)
<1>0. PICK c : c = Head(stack).client
    OBVIOUS
<1>1. /\ UNCHANGED <<disposed, link, announced>>
      /\ Head(stack).kind = "closed" /\ stack # <<>>
      /\ c \in releases'
      /\ UNCHANGED refs \/ Unref(c)
    BY <1>0 DEF ClosedReturns, clientVars
<1>2. stack \in Seq(Frame) /\ refs \in [Clients -> Nat]
    BY DEF Inv, TypeOK
<1>3. Head(stack) \in Frame /\ Head(stack) \in OnStack(stack)
    BY <1>1, <1>2, PopFacts DEF Inv, StackInv
<1>4. c \in Clients /\ Closing(stack, c)
    BY <1>0, <1>1, <1>3 DEF Frame, Closing
<1>5. refs[c] > 0
    BY <1>4, Counted, OwnersType
<1>6. refs'[c] > 0
    BY <1>1, <1>4 DEF FreedLast
<1>7. \A d \in Clients \ {c} : refs'[d] = refs[d]
    BY <1>1, <1>2 DEF Unref
<1>8. \A d \in Clients : refs'[d] = 0 <=> refs[d] = 0
    BY <1>5, <1>6, <1>7
<1>. QED
    BY <1>1, <1>8, CallbacksStep

\* The server is dropped: none of its clients is freed by that.
LEMMA DisposeImplements ==
    ASSUME Inv, FreedLast', Dispose
    PROVE  [Promise!Next]_(Promise!vars)
<1>1. /\ ~disposed /\ disposed' = TRUE
      /\ refs' = [c \in Clients |-> IF c \in clients THEN refs[c] - 1 ELSE refs[c]]
      /\ UNCHANGED <<link, announced, stack, reading, failedIdles>>
    BY DEF Dispose, clientVars
<1>2. \A c \in Clients : link[c] # "none" => (refs'[c] = 0 <=> refs[c] = 0)
  <2>. SUFFICES ASSUME NEW c \in Clients, c \in clients
                PROVE  refs'[c] > 0 /\ refs[c] > 0
    BY <1>1
  <2>1. Rooted(c)
    BY DEF Inv, ClientInv, TypeOK, Rooted
  <2>2. Rooted(c)'
    BY <1>1, <2>1 DEF Rooted
  <2>. QED
    BY <2>1, <2>2, FreedLastHolds DEF FreedLast
<1>3. /\ {c \in Clients : link[c] # "none"}' = {c \in Clients : link[c] # "none"}
      /\ {c \in Clients : link[c] \in {"shut", "failed"}}'
            = {c \in Clients : link[c] \in {"shut", "failed"}}
      /\ {c \in Clients : announced[c] = 1}' = {c \in Clients : announced[c] = 1}
      /\ {c \in Clients : link[c] # "none" /\ refs[c] = 0}'
            = {c \in Clients : link[c] # "none" /\ refs[c] = 0}
      /\ (stack = <<>>)' = (stack = <<>>)
    BY <1>1, <1>2
<1>4. Promise!Drop
    BY <1>1, <1>3 DEF Promise!Drop
<1>. QED
    BY <1>4 DEF Promise!Next

\* Every step of the server is one that ServerClients.tla allows.
LEMMA StepImplements ==
    Inv /\ FreedLast' /\ [Next]_vars => [Promise!Next]_(Promise!vars)
<1>. SUFFICES ASSUME Inv, FreedLast', [Next]_vars
              PROVE  [Promise!Next]_(Promise!vars)
    OBVIOUS
<1>1. CASE \/ \E c \in Clients : NotificationWithoutParams(c)
           \/ AcceptedReturns \/ Foreach \/ ForeachNext
           \/ UNCHANGED vars
  <2>1. UNCHANGED <<disposed, link, announced, refs>>
    BY <1>1
    DEF NotificationWithoutParams, AcceptedReturns, Foreach, ForeachNext, vars,
        serverVars, clientVars
  <2>. QED
    BY <2>1, CallbacksStep
<1>. QED
    BY <1>1, AcceptImplements, FailedImplements, PanicImplements,
       GiveUpImplements, ClosedReturnsImplements, DisposeImplements
    DEF Next

\* The server implements ServerClients.tla: whatever callbacks do within
\* callbacks, a client that is lost is told of once and freed after that,
\* not while a callback runs, and nothing touches it afterwards.
THEOREM Implementation == Spec => KeepsPromise
<1>1. Init => Promise!Init
    BY DEF Init, Promise!Init
<1>2. Inv /\ Inv' /\ [Next]_vars => [Promise!Next]_(Promise!vars)
  <2>1. Inv' => FreedLast'
    BY FreedLastHolds, PTL
  <2>. QED
    BY <2>1, StepImplements
<1>. QED
    BY <1>1, <1>2, Invariance, PTL DEF Spec, KeepsPromise, Promise!Spec
=============================================================================
