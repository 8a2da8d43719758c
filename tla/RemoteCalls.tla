---------------------------- MODULE RemoteCalls ----------------------------
(***************************************************************************)
(* What two programs that call each other through JsonrpcClients are       *)
(* promised, without streams, queues, pipes, tables of ids or main loops.  *)
(* A call of an open end is handled at the other end at most once, after   *)
(* all that were made before it, and is answered by the handler once.  It  *)
(* ends once: with the kind of answer that its handler gave, and only      *)
(* after it gave it, while the end of the caller is open, or it fails      *)
(* after that end went down.                                               *)
(*                                                                         *)
(* Connection.tla implements this specification.                           *)
(***************************************************************************)

EXTENDS Naturals

CONSTANTS
    Ends,
    Calls,              \* a call is the end that makes it and its number
    Errors              \* those that are answered with an error

VARIABLES
    open,               \* the ends that are open
    st,                 \* st[c]: how far the caller has got with c
    serve               \* serve[c]: how far the callee has got with it

vars == <<open, st, serve>>

TypeOK ==
    /\ open \subseteq Ends
    /\ st \in [Calls -> {"unused", "waiting", "result", "error", "failed"}]
    /\ serve \in [Calls -> {"none", "handling", "owed", "answered"}]

Before(c) == {d \in Calls : d[1] = c[1] /\ d[2] < c[2]}

Init ==
    /\ open = Ends
    /\ st = [c \in Calls |-> "unused"]
    /\ serve = [c \in Calls |-> "none"]

Make(c) ==
    /\ c[1] \in open
    /\ st[c] = "unused"
    /\ \A d \in Before(c) : st[d] # "unused"
    /\ st' = [st EXCEPT ![c] = "waiting"]
    /\ UNCHANGED <<open, serve>>

Handle(c) ==
    /\ st[c] # "unused"
    /\ serve[c] = "none"
    /\ \A d \in Before(c) : serve[d] # "none"
    /\ serve' = [serve EXCEPT ![c] = "handling"]
    /\ UNCHANGED <<open, st>>

\* The handler leaves the answer to later.
Owe(c) ==
    /\ serve[c] = "handling"
    /\ serve' = [serve EXCEPT ![c] = "owed"]
    /\ UNCHANGED <<open, st>>

Reply(c) ==
    /\ serve[c] \in {"handling", "owed"}
    /\ serve' = [serve EXCEPT ![c] = "answered"]
    /\ UNCHANGED <<open, st>>

Answer(c) ==
    /\ c[1] \in open
    /\ st[c] = "waiting"
    /\ serve[c] = "answered"
    /\ st' = [st EXCEPT ![c] = IF c \in Errors THEN "error" ELSE "result"]
    /\ UNCHANGED <<open, serve>>

Fail(c) ==
    /\ c[1] \notin open
    /\ st[c] = "waiting"
    /\ st' = [st EXCEPT ![c] = "failed"]
    /\ UNCHANGED <<open, serve>>

GoDown(e) ==
    /\ e \in open
    /\ open' = open \ {e}
    /\ UNCHANGED <<st, serve>>

Next ==
    \/ \E c \in Calls :
          Make(c) \/ Handle(c) \/ Owe(c) \/ Reply(c) \/ Answer(c) \/ Fail(c)
    \/ \E e \in Ends : GoDown(e)

Spec == Init /\ [][Next]_vars
=============================================================================
