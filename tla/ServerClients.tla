--------------------------- MODULE ServerClients ---------------------------
(***************************************************************************)
(* What JsonrpcServer promises to a program about the clients it is given  *)
(* by the signals of the server, without tables, references, idle sources  *)
(* or a stack of callbacks.  A client is accepted, is lost at some time,   *)
(* is told of as closed, once, and is freed after that; none is freed      *)
(* while code of the program runs, so that a callback may use any client   *)
(* it was given "without having to be careful about incrementing ref"      *)
(* (jsonrpc_server_client_failed).  Of a server that was dropped only      *)
(* the last part is left: it tells of nothing, and clients that are lost   *)
(* are freed all the same.                                                 *)
(*                                                                         *)
(* Server.tla implements this specification.                               *)
(***************************************************************************)

CONSTANT Clients        \* one for each stream the program may hand over

VARIABLES
    up,                 \* the server was not dropped
    calm,               \* no callback of the program runs
    accepted,           \* clients the server has, or had
    lost,               \* those that were closed or failed
    told,               \* those announced with ::client-closed
    freed               \* those whose last reference is gone

vars == <<up, calm, accepted, lost, told, freed>>

TypeOK ==
    /\ up \in BOOLEAN
    /\ calm \in BOOLEAN
    /\ accepted \subseteq Clients
    /\ lost \subseteq accepted
    /\ told \subseteq lost
    /\ freed \subseteq lost
    /\ up => freed \subseteq told

Init ==
    /\ up = TRUE
    /\ calm = TRUE
    /\ accepted = {}
    /\ lost = {}
    /\ told = {}
    /\ freed = {}

\* ::client-accepted: its handlers run.
Accept(c) ==
    /\ up
    /\ c \notin accepted
    /\ accepted' = accepted \cup {c}
    /\ calm' = FALSE
    /\ UNCHANGED <<up, lost, told, freed>>

Lose(c) ==
    /\ c \in accepted \ lost
    /\ lost' = lost \cup {c}
    /\ UNCHANGED <<up, calm, accepted, told, freed>>

\* ::client-closed: its handlers run, within jsonrpc_client_close if that is
\* how the client is lost.
Tell(c) ==
    /\ up
    /\ c \in accepted \ told
    /\ lost' = lost \cup {c}
    /\ told' = told \cup {c}
    /\ calm' = FALSE
    /\ UNCHANGED <<up, accepted, freed>>

Free(c) ==
    /\ calm
    /\ c \in lost \ freed
    /\ up => c \in told
    /\ freed' = freed \cup {c}
    /\ UNCHANGED <<up, calm, accepted, lost, told>>

\* Callbacks return, and jsonrpc_server_foreach begins.
Callbacks ==
    /\ calm' \in BOOLEAN
    /\ UNCHANGED <<up, accepted, lost, told, freed>>

Drop ==
    /\ up
    /\ up' = FALSE
    /\ UNCHANGED <<calm, accepted, lost, told, freed>>

Next ==
    \/ \E c \in Clients : Accept(c) \/ Lose(c) \/ Tell(c) \/ Free(c)
    \/ Callbacks
    \/ Drop

Spec == Init /\ [][Next]_vars
=============================================================================
