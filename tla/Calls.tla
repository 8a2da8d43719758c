------------------------------- MODULE Calls -------------------------------
(***************************************************************************)
(* What a caller of JsonrpcClient is promised, without ids, tables, read   *)
(* loops or idle sources.  A call made on an open client is accepted and   *)
(* then ends exactly once: the peer answers it, with a result or with an   *)
(* error, while the client is open, or it is aborted after the client went *)
(* down.  A call made on a client that is down is refused.  A client that  *)
(* went down never comes back.                                             *)
(*                                                                         *)
(* Client.tla implements this specification.                               *)
(***************************************************************************)

CONSTANT Calls          \* the calls the program makes

VARIABLES
    open,               \* the client can send and receive
    st                  \* st[c]: how far the call c has got

vars == <<open, st>>

Stages == {"unused", "waiting", "answered", "aborted", "refused"}

TypeOK ==
    /\ open \in BOOLEAN
    /\ st \in [Calls -> Stages]

Init ==
    /\ open \in BOOLEAN
    /\ st = [c \in Calls |-> "unused"]

Accept(c) ==
    /\ open
    /\ st[c] = "unused"
    /\ st' = [st EXCEPT ![c] = "waiting"]
    /\ UNCHANGED open

Refuse(c) ==
    /\ ~open
    /\ st[c] = "unused"
    /\ st' = [st EXCEPT ![c] = "refused"]
    /\ UNCHANGED open

Answer(c) ==
    /\ open
    /\ st[c] = "waiting"
    /\ st' = [st EXCEPT ![c] = "answered"]
    /\ UNCHANGED open

Abort(c) ==
    /\ ~open
    /\ st[c] = "waiting"
    /\ st' = [st EXCEPT ![c] = "aborted"]
    /\ UNCHANGED open

GoDown ==
    /\ open
    /\ open' = FALSE
    /\ UNCHANGED st

Next ==
    \/ \E c \in Calls : Accept(c) \/ Refuse(c) \/ Answer(c) \/ Abort(c)
    \/ GoDown

Spec == Init /\ [][Next]_vars
=============================================================================
