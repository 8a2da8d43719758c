------------------------------- MODULE Server -------------------------------
(***************************************************************************)
(* JsonrpcServer (src/jsonrpc-server.c): the clients of the server and the *)
(* references that keep them alive.                                        *)
(*                                                                         *)
(* A client is what Client.tla describes, seen from the server: it is      *)
(* open, or it was closed by jsonrpc_client_close, or it panicked.  The    *)
(* program reaches it through the signals of the server, and holds no      *)
(* reference of its own: the owners of a client are the table of the       *)
(* server, its read loop and idle sources.                                 *)
(*                                                                         *)
(* As in OutputStream.tla the callbacks of the program that are running    *)
(* are the frames of an explicit stack; the main loop dispatches only when *)
(* the stack is empty.                                                     *)
(***************************************************************************)
EXTENDS Integers, Sequences

CONSTANTS
    Clients,                \* one for each io_stream that is accepted
    MaxPanics,              \* bound: panics of one client before it is told
    MaxForeach              \* bound: calls of jsonrpc_server_foreach

ASSUME MaxPanicsAssumption == MaxPanics \in Nat
ASSUME MaxForeachAssumption == MaxForeach \in Nat

VARIABLES
    clients,                \* the hash table
    disposed,               \* the program dropped the server
    aborted,                \* an assertion failed
    link,                   \* link[c]: the state of the client
    reading,                \* clients whose read loop holds a reference
    failedIdles,            \* failedIdles[c]: queued emit_failed_from_main
    emittedFailed,          \* clients that emitted ::failed
    releases,               \* clients with a queued dummy_func
    refs,                   \* refs[c]: the reference count
    stack,                  \* callbacks that run, innermost first
    announced,              \* announced[c]: how often ::client-closed was
    foreachs                \* calls of jsonrpc_server_foreach so far

serverVars == <<clients, disposed, aborted, releases, announced>>
clientVars == <<link, reading, failedIdles, emittedFailed>>

vars == <<serverVars, clientVars, refs, stack, foreachs>>

\* A handler of ::client-accepted or of ::client-closed.  idle: the dispatch
\* of emit_failed_from_main is underneath, and ends with the handler.
Accepted(c) ==
    [kind |-> "accepted", client |-> c, idle |-> FALSE, keys |-> {}]
Closed(c, idle) ==
    [kind |-> "closed", client |-> c, idle |-> idle, keys |-> {}]

\* foreach_func of jsonrpc_server_foreach, which has more keys to go.
Visits(c, keys) ==
    [kind |-> "foreach", client |-> c, idle |-> FALSE, keys |-> keys]

Frame == [kind : {"accepted", "closed", "foreach"}, client : Clients,
          idle : BOOLEAN, keys : SUBSET Clients]

TypeOK ==
    /\ clients \subseteq Clients
    /\ disposed \in BOOLEAN
    /\ aborted \in BOOLEAN
    /\ link \in [Clients -> {"none", "open", "shut", "failed"}]
    /\ reading \subseteq Clients
    /\ failedIdles \in [Clients -> 0..MaxPanics]
    /\ emittedFailed \subseteq Clients
    /\ releases \subseteq Clients
    /\ refs \in [Clients -> Nat]
    /\ stack \in Seq(Frame)
    /\ announced \in [Clients -> Nat]
    /\ foreachs \in 0..MaxForeach

Init ==
    /\ clients = {}
    /\ disposed = FALSE
    /\ aborted = FALSE
    /\ link = [c \in Clients |-> "none"]
    /\ reading = {}
    /\ failedIdles = [c \in Clients |-> 0]
    /\ emittedFailed = {}
    /\ releases = {}
    /\ refs = [c \in Clients |-> 0]
    /\ stack = <<>>
    /\ announced = [c \in Clients |-> 0]
    /\ foreachs = 0

-----------------------------------------------------------------------------
(* Helpers.                                                                *)

Looping == stack = <<>> /\ ~aborted

\* Code of the program may run: a dispatch of its own, or a callback.
ProgramRuns == ~aborted

Ref(c) == refs' = [refs EXCEPT ![c] = @ + 1]
Unref(c) == refs' = [refs EXCEPT ![c] = @ - 1]

\* Faulty: g_hash_table_remove, which drops the reference of the table.
ClientFailedRemoves(c, idle) ==
    \/ /\ ~disposed /\ c \in clients
       /\ clients' = clients \ {c}
       /\ announced' = [announced EXCEPT ![c] = @ + 1]
       /\ stack' = <<Closed(c, idle)>> \o stack
       /\ Unref(c)
    \/ /\ disposed \/ c \notin clients
       /\ IF idle THEN Unref(c) ELSE UNCHANGED refs
       /\ UNCHANGED <<clients, announced, stack>>

\* Faulty: announces the client and leaves it in the table.
ClientFailedKeeps(c, idle) ==
    \/ /\ ~disposed /\ c \in clients
       /\ announced' = [announced EXCEPT ![c] = @ + 1]
       /\ stack' = <<Closed(c, idle)>> \o stack
       /\ UNCHANGED <<clients, refs>>
    \/ /\ disposed \/ c \notin clients
       /\ IF idle THEN Unref(c) ELSE UNCHANGED refs
       /\ UNCHANGED <<clients, announced, stack>>

\* jsonrpc_server_client_failed, up to the handlers of ::client-closed.  The
\* closure is gone when the server is (g_signal_connect_object).
ClientFailed(c, idle) ==
    \/ /\ ~disposed /\ c \in clients
       /\ clients' = clients \ {c}
       /\ announced' = [announced EXCEPT ![c] = @ + 1]
       /\ stack' = <<Closed(c, idle)>> \o stack
       /\ UNCHANGED refs
    \/ /\ disposed \/ c \notin clients
       /\ IF idle THEN Unref(c) ELSE UNCHANGED refs
       /\ UNCHANGED <<clients, announced, stack>>

-----------------------------------------------------------------------------
(* Calls of the program.                                                   *)

\* Faulty: the read loop has no reference of its own.
AcceptIoStreamUnheld(c) ==
    /\ ProgramRuns /\ ~disposed
    /\ link[c] = "none"
    /\ link' = [link EXCEPT ![c] = "open"]
    /\ clients' = clients \cup {c}
    /\ reading' = reading \cup {c}
    /\ refs' = [refs EXCEPT ![c] = 1]
    /\ stack' = <<Accepted(c)>> \o stack
    /\ UNCHANGED <<disposed, aborted, releases, announced, failedIdles,
                   emittedFailed, foreachs>>

\* jsonrpc_server_accept_io_stream, up to the handlers of ::client-accepted:
\* the new reference goes to the table, start_listening takes another one.
AcceptIoStream(c) ==
    /\ ProgramRuns /\ ~disposed
    /\ link[c] = "none"
    /\ link' = [link EXCEPT ![c] = "open"]
    /\ clients' = clients \cup {c}
    /\ reading' = reading \cup {c}
    /\ refs' = [refs EXCEPT ![c] = 2]
    /\ stack' = <<Accepted(c)>> \o stack
    /\ UNCHANGED <<disposed, aborted, releases, announced, failedIdles,
                   emittedFailed, foreachs>>

AcceptedReturns ==
    /\ stack # <<>> /\ Head(stack).kind = "accepted" /\ ~aborted
    /\ stack' = Tail(stack)
    /\ UNCHANGED <<serverVars, clientVars, refs, foreachs>>

\* jsonrpc_client_close, which emits ::failed before it returns.
CloseClient(c) ==
    /\ ProgramRuns
    /\ link[c] = "open"
    /\ link' = [link EXCEPT ![c] = "shut"]
    /\ emittedFailed' = emittedFailed \cup {c}
    /\ ClientFailed(c, FALSE)
    /\ UNCHANGED <<disposed, aborted, releases, reading, failedIdles,
                   foreachs>>

\* Faulty: no idle source, the reference is forgotten.
ClosedReturnsForgets ==
    /\ stack # <<>> /\ Head(stack).kind = "closed" /\ ~aborted
    /\ stack' = Tail(stack)
    /\ UNCHANGED releases
    /\ IF Head(stack).idle THEN Unref(Head(stack).client) ELSE UNCHANGED refs
    /\ UNCHANGED <<clients, disposed, aborted, announced, clientVars,
                   foreachs>>

\* Faulty: drops the reference at once, not from an idle source.
ClosedReturnsUnrefs ==
    /\ stack # <<>> /\ Head(stack).kind = "closed" /\ ~aborted
    /\ stack' = Tail(stack)
    /\ refs' = [refs EXCEPT ![Head(stack).client] =
                               @ - IF Head(stack).idle THEN 2 ELSE 1]
    /\ UNCHANGED <<serverVars, clientVars, foreachs>>

\* The end of jsonrpc_server_client_failed, and of the dispatch under it.
ClosedReturns ==
    /\ stack # <<>> /\ Head(stack).kind = "closed" /\ ~aborted
    /\ stack' = Tail(stack)
    /\ releases' = releases \cup {Head(stack).client}
    /\ IF Head(stack).idle THEN Unref(Head(stack).client) ELSE UNCHANGED refs
    /\ UNCHANGED <<clients, disposed, aborted, announced, clientVars,
                   foreachs>>

\* jsonrpc_server_foreach: the keys are those of the moment it is called, in
\* any order, and are not referenced.
Foreach ==
    /\ ProgramRuns /\ ~disposed /\ foreachs < MaxForeach
    /\ \E c \in clients : stack' = <<Visits(c, clients \ {c})>> \o stack
    /\ foreachs' = foreachs + 1
    /\ UNCHANGED <<serverVars, clientVars, refs>>

\* foreach_func returns: on to the next key.
ForeachNext ==
    /\ stack # <<>> /\ Head(stack).kind = "foreach" /\ ~aborted
    /\ LET keys == Head(stack).keys IN
       \/ keys = {} /\ stack' = Tail(stack)
       \/ \E c \in keys : stack' = <<Visits(c, keys \ {c})>> \o Tail(stack)
    /\ UNCHANGED <<serverVars, clientVars, refs, foreachs>>

\* The program drops the server.  An emission holds a reference on it, but
\* jsonrpc_server_foreach does not: dispose runs when nothing else is on the
\* stack.  The clients stay open.
Dispose ==
    /\ ~aborted /\ ~disposed
    /\ \A i \in 1..Len(stack) : stack[i].kind = "foreach"
    /\ disposed' = TRUE
    /\ clients' = {}
    /\ refs' = [c \in Clients |-> IF c \in clients THEN refs[c] - 1 ELSE refs[c]]
    /\ UNCHANGED <<aborted, releases, announced, clientVars, stack, foreachs>>

-----------------------------------------------------------------------------
(* Dispatches of the main loop: the clients.                               *)

\* Faulty: the signal is not queued.
QueueNothing(c) == UNCHANGED failedIdles

\* jsonrpc_client_panic queues emit_failed_from_main with a reference.
QueueFailed(c) == failedIdles' = [failedIdles EXCEPT ![c] = @ + 1]

MayPanic(c) == c \notin emittedFailed /\ failedIdles[c] < MaxPanics

\* call_read_cb panics, at once or after a write did: the reference of the
\* read loop goes and the one of the idle source comes.
ReadPanics(c) ==
    /\ Looping
    /\ link[c] \in {"open", "failed"} /\ c \in reading /\ MayPanic(c)
    /\ link' = [link EXCEPT ![c] = "failed"]
    /\ reading' = reading \ {c}
    /\ QueueFailed(c)
    /\ UNCHANGED <<serverVars, emittedFailed, refs, stack, foreachs>>

\* The request of a call could not be written: the read goes on.
WritePanics(c) ==
    /\ Looping
    /\ link[c] \in {"open", "failed"} /\ MayPanic(c)
    /\ link' = [link EXCEPT ![c] = "failed"]
    /\ QueueFailed(c)
    /\ Ref(c)
    /\ UNCHANGED <<serverVars, reading, emittedFailed, stack, foreachs>>

\* The read of a client that went down ends: at once when it was cancelled,
\* when the peer does something otherwise.
ReadEnds(c) ==
    /\ Looping
    /\ link[c] \in {"shut", "failed"}
    /\ c \in reading
    /\ reading' = reading \ {c}
    /\ Unref(c)
    /\ UNCHANGED <<serverVars, link, failedIdles, emittedFailed, stack,
                   foreachs>>

\* emit_failed_from_main from its idle source.
FailedIdle(c) ==
    /\ Looping
    /\ failedIdles[c] > 0
    /\ failedIdles' = [failedIdles EXCEPT ![c] = @ - 1]
    /\ emittedFailed' = emittedFailed \cup {c}
    /\ \/ c \notin emittedFailed /\ ClientFailed(c, TRUE)
       \/ /\ c \in emittedFailed /\ Unref(c)
          /\ UNCHANGED <<clients, announced, stack>>
    /\ UNCHANGED <<disposed, aborted, releases, link, reading, foreachs>>

\* dummy_func and its destroy notify.
ReleaseIdle(c) ==
    /\ Looping
    /\ c \in releases
    /\ releases' = releases \ {c}
    /\ Unref(c)
    /\ UNCHANGED <<clients, disposed, aborted, announced, clientVars, stack,
                   foreachs>>

\* A notification, or a call, without a handler that does anything to the
\* server leaves no trace.  g_assert (params != NULL) in the closure of
\* ::notification: params is NULL if the message has none, and assertions
\* may be compiled out (G_DISABLE_ASSERT).
NotificationWithoutParams(c) ==
    /\ Looping /\ ~disposed
    /\ link[c] = "open"
    /\ aborted' \in BOOLEAN
    /\ UNCHANGED <<clients, disposed, releases, announced, clientVars, refs,
                   stack, foreachs>>

-----------------------------------------------------------------------------
Next ==
    \/ \E c \in Clients :
          \/ AcceptIoStream(c)
          \/ CloseClient(c)
          \/ ReadPanics(c)
          \/ WritePanics(c)
          \/ ReadEnds(c)
          \/ FailedIdle(c)
          \/ ReleaseIdle(c)
          \/ NotificationWithoutParams(c)
    \/ AcceptedReturns
    \/ ClosedReturns
    \/ Foreach
    \/ ForeachNext
    \/ Dispose

Spec == Init /\ [][Next]_vars

(***************************************************************************)
(* Callbacks return and idle sources are dispatched.  A read that was      *)
(* cancelled ends; one that was not may go on for ever.                    *)
(***************************************************************************)
Fairness ==
    /\ WF_vars(AcceptedReturns)
    /\ WF_vars(ClosedReturns)
    /\ WF_vars(ForeachNext)
    /\ \A c \in Clients :
          /\ WF_vars(FailedIdle(c))
          /\ WF_vars(ReleaseIdle(c))
          /\ WF_vars(link[c] = "shut" /\ ReadEnds(c))

LiveSpec == Spec /\ Fairness

-----------------------------------------------------------------------------
(* Safety.                                                                 *)

Holders(c) ==
    LET One(b) == IF b THEN 1 ELSE 0
        IdleRunning == \E i \in 1..Len(stack) :
            stack[i].kind = "closed" /\ stack[i].client = c /\ stack[i].idle
        Closing == \E i \in 1..Len(stack) :
            stack[i].kind = "closed" /\ stack[i].client = c
    IN  One(c \in clients) + One(Closing) + One(c \in releases)
        + One(c \in reading) + failedIdles[c] + One(IdleRunning)

\* A client has exactly as many references as owners, although its reference
\* from the table wanders through the handlers of ::client-closed to an idle
\* source: no client is freed while one of them still uses it, none is kept
\* by nobody.
ReferencesAreOwned == \A c \in Clients : refs[c] = Holders(c)

\* The table holds the clients whose loss is yet to be told, and no others:
\* each of those accepted is either there or was announced with
\* ::client-closed, once, after it was lost, whatever mix of closes, panics
\* and callbacks that close it again.
TableIsCurrent ==
    ~disposed =>
        \A c \in Clients :
            /\ c \in clients <=> link[c] # "none" /\ c \notin emittedFailed
            /\ announced[c] = IF c \in emittedFailed THEN 1 ELSE 0
            /\ c \in emittedFailed => link[c] \in {"shut", "failed"}

\* jsonrpc_server_foreach may go on with its keys, none of which it holds a
\* reference on: they are not freed before it is done, although foreach_func
\* closes clients, accepts others or drops the server ("Release instance from
\* main thread to ensure callers return safely without having to be careful
\* about incrementing ref", jsonrpc_server_client_failed).
ForeachIsSafe ==
    \A i \in 1..Len(stack) :
        stack[i].kind = "foreach" =>
            \A c \in {stack[i].client} \cup stack[i].keys : refs[c] > 0

\* params is nullable in ::notification (the documentation of JsonrpcClient):
\* a notification without them is no programming error.
NeverAborts == ~aborted

-----------------------------------------------------------------------------
(* The abstract specification.                                             *)

Promise == INSTANCE ServerClients WITH
    up <- ~disposed,
    calm <- stack = <<>>,
    accepted <- {c \in Clients : link[c] # "none"},
    lost <- {c \in Clients : link[c] \in {"shut", "failed"}},
    told <- {c \in Clients : announced[c] = 1},
    freed <- {c \in Clients : link[c] # "none" /\ refs[c] = 0}

\* The server keeps the promise of ServerClients.tla: a client that is lost
\* is announced once before it is freed, freed once, never used again, and
\* not freed while code of the program runs (dummy_func); dropping the
\* server frees none of its clients.
KeepsPromise == Promise!Spec

-----------------------------------------------------------------------------
(* Liveness, under LiveSpec.                                               *)

\* Every client that is lost is announced with ::client-closed, unless the
\* server is dropped.
LossIsAnnounced ==
    \A c \in Clients :
        link[c] \in {"shut", "failed"} ~>
            (announced[c] = 1 \/ disposed \/ aborted)

\* A client that is lost is freed once its read loop has ended, which for a
\* client that was closed it does.
LostIsFreed ==
    \A c \in Clients :
        (link[c] = "shut" \/ (link[c] = "failed" /\ c \notin reading)) ~>
            (refs[c] = 0 \/ aborted)
=============================================================================
