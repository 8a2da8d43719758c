------------------------------- MODULE Client -------------------------------
(***************************************************************************)
(* JsonrpcClient (src/jsonrpc-client.c): one endpoint of a connection.     *)
(*                                                                         *)
(* Everything runs in one thread, in the main loop: the program calls the  *)
(* client between dispatches or from inside a callback, and the main loop  *)
(* dispatches the ends of reads and writes and the idle sources.  An       *)
(* action is one such call or dispatch, up to the point where it hands     *)
(* control to a callback of the program; what follows the callback is an   *)
(* action of its own ("...Returns"), because the program may call the      *)
(* client again in between.  While a callback runs the main loop does not, *)
(* unless a handler of ::handle-call waits in jsonrpc_client_reply(),      *)
(* which iterates the main loop (Looping).                                 *)
(*                                                                         *)
(* The peer is anybody: it may answer any id, known or not, any number of  *)
(* times, call, notify, send garbage or hang up.  A write may take any     *)
(* time and may fail.  The streams are the ones of a GSimpleIOStream, the  *)
(* stream the documentation recommends for stdin/stdout of a process.      *)
(***************************************************************************)
EXTENDS Naturals

CONSTANTS
    Calls,              \* calls the program makes (each made once)
    PeerCalls,          \* calls the peer makes (each made once)
    ParamlessCalls,     \* those of PeerCalls that carry no "params" member
    Notes,              \* notifications the program sends
    ReplyIds            \* integer ids the peer may put in an answer

ASSUME ParamlessAssumption == ParamlessCalls \subseteq PeerCalls
ASSUME ReplyIdsAssumption == ReplyIds \subseteq Nat

\* The answer METHOD_NOT_FOUND to a call of the peer.
NotFound(p) == <<"not found", p>>
NotFounds == {NotFound(p) : p \in PeerCalls}

ASSUME DisjointAssumption ==
    /\ Calls \cap PeerCalls = {}
    /\ Calls \cap Notes = {}
    /\ PeerCalls \cap Notes = {}
    /\ NotFounds \cap (Calls \cup PeerCalls \cup Notes) = {}

VARIABLES
    \* The GTask of each call.
    call,               \* "waiting": not returned; "returned": its callback
                        \* runs; "done": GTask:completed is TRUE
    idOf,               \* task data: the request id, 0 before it is given one
    outcome,            \* what the task was returned with
    twice,              \* calls whose task was returned more than once
    \* JsonrpcClientPrivate.
    sequence,           \* the last request id
    invocations,        \* the table of calls in flight
    isFirstCall, inShutdown, failed, emittedFailed,
    streams,            \* input_stream and output_stream are not NULL
    readCancelled,      \* read_loop_cancellable is cancelled
    \* Idle sources.
    orphans,            \* invocations stolen by cancel_pending_from_main
    erroring,           \* error_invocations_from_idle is on the stack
    failedIdles,        \* queued emit_failed_from_main sources
    emissions,          \* emissions of ::failed so far
    \* The read loop.
    reads,              \* outstanding jsonrpc_input_stream_read_message_async
    readFrame,          \* the callback that call_read_cb is inside of
    handling,           \* the peer's call whose handler is on the stack
    syncing,            \* the reply that handler waits for in the main loop
    \* The streams.
    outbox,             \* messages given to the output stream, not yet ended
    peer,               \* the peer's calls
    inputShut, outputShut   \* halves of io_stream closed by jsonrpc_client_close

taskVars == <<call, idOf, outcome, twice>>
stateVars == <<isFirstCall, inShutdown, failed, streams, readCancelled>>
signalVars == <<emittedFailed, failedIdles, emissions>>
tableVars == <<sequence, invocations, orphans, erroring>>
readVars == <<reads, readFrame, handling, syncing>>
peerVars == <<outbox, peer>>
shutVars == <<inputShut, outputShut>>

vars == <<taskVars, stateVars, signalVars, tableVars, readVars, peerVars,
          shutVars>>

\* A call, a notification, the program's reply to a call of the peer, or the
\* client's own answer to it.
Messages == Calls \cup Notes \cup PeerCalls \cup NotFounds

TypeOK ==
    /\ call \in [Calls -> {"unused", "refused", "waiting", "returned", "done"}]
    /\ idOf \in [Calls -> Nat]
    /\ outcome \in [Calls ->
                    {"none", "result", "error", "aborted", "notconnected"}]
    /\ twice \subseteq Calls
    /\ sequence \in Nat
    /\ invocations \subseteq Calls
    /\ isFirstCall \in BOOLEAN
    /\ inShutdown \in BOOLEAN
    /\ failed \in BOOLEAN
    /\ emittedFailed \in BOOLEAN
    /\ streams \in BOOLEAN
    /\ readCancelled \in BOOLEAN
    /\ orphans \subseteq Calls
    /\ erroring \in BOOLEAN
    /\ failedIdles \in Nat
    /\ emissions \in Nat
    /\ reads \in {0, 1}
    /\ readFrame \in {"none", "callback", "notification", "handle-call"}
    /\ handling \subseteq PeerCalls
    /\ syncing \subseteq PeerCalls
    /\ outbox \subseteq Messages
    /\ peer \in [PeerCalls ->
                 {"none", "asked", "replied", "unreplied", "ignored"}]
    /\ inputShut \in BOOLEAN
    /\ outputShut \in BOOLEAN

\* jsonrpc_client_constructed: without a GIOStream the client is disabled.
Init ==
    /\ call = [c \in Calls |-> "unused"]
    /\ idOf = [c \in Calls |-> 0]
    /\ outcome = [c \in Calls |-> "none"]
    /\ twice = {}
    /\ sequence = 0
    /\ invocations = {}
    /\ isFirstCall = TRUE
    /\ inShutdown = FALSE
    /\ failed = FALSE
    /\ emittedFailed = FALSE
    /\ streams \in BOOLEAN
    /\ readCancelled = FALSE
    /\ orphans = {}
    /\ erroring = FALSE
    /\ failedIdles = 0
    /\ emissions = 0
    /\ reads = 0
    /\ readFrame = "none"
    /\ handling = {}
    /\ syncing = {}
    /\ outbox = {}
    /\ peer = [p \in PeerCalls |-> "none"]
    /\ inputShut = FALSE
    /\ outputShut = FALSE

-----------------------------------------------------------------------------
(* Helpers of the code.                                                    *)

\* jsonrpc_client_check_ready.
Ready == ~failed /\ ~inShutdown /\ streams

\* The thread is in a main loop: nothing of the client is on the stack, or
\* only a handler that iterates the main loop until its reply is written.
Looping ==
    /\ ~erroring
    /\ readFrame = "none" \/ (readFrame = "handle-call" /\ syncing # {})

\* g_hash_table_lookup in the table of invocations.
Known(n) == {c \in invocations : idOf[c] = n}

\* g_task_return_*: the callback of the call starts to run.
ReturnTask(c, o) ==
    /\ call' = [call EXCEPT ![c] = "returned"]
    /\ outcome' = [outcome EXCEPT ![c] = o]
    /\ twice' = IF call[c] = "waiting" THEN twice ELSE twice \cup {c}
    /\ UNCHANGED idOf

\* Faulty: an earlier stolen table that was not dispatched yet is lost.
CancelPendingOverwrites ==
    /\ orphans' = invocations
    /\ invocations' = {}

\* cancel_pending_from_main: the table goes to an idle source.
CancelPending ==
    /\ orphans' = orphans \cup invocations
    /\ invocations' = {}

\* Faulty: the signal is not queued.
PanicSilently ==
    /\ failed' = TRUE
    /\ CancelPending
    /\ streams' = FALSE
    /\ UNCHANGED failedIdles

\* The jsonrpc_client_close in the middle finds failed set and returns at
\* its check_ready, so that it changes nothing.
Panic ==
    /\ failed' = TRUE
    /\ CancelPending
    /\ streams' = FALSE
    /\ failedIdles' = IF emittedFailed THEN failedIdles ELSE failedIdles + 1

\* Faulty: the check of emitted_failed is missing.
EmitFailedAlways ==
    /\ emittedFailed' = TRUE
    /\ emissions' = emissions + 1

\* emit_failed_from_main.
EmitFailed ==
    /\ emittedFailed' = TRUE
    /\ emissions' = IF emittedFailed THEN emissions ELSE emissions + 1

\* Faulty: does not set in_shutdown.
ShutdownForgotten ==
    /\ UNCHANGED inShutdown
    /\ readCancelled' = TRUE

\* Faulty: does not cancel the read loop.
ShutdownLeavesRead ==
    /\ inShutdown' = TRUE
    /\ UNCHANGED readCancelled

\* The start of jsonrpc_client_close.
Shutdown ==
    /\ inShutdown' = TRUE
    /\ readCancelled' = TRUE

\* Faulty: is_first_call stays set.
StartReadLoopAgain ==
    /\ UNCHANGED isFirstCall
    /\ reads' = IF isFirstCall /\ streams THEN reads + 1 ELSE reads

\* start_listening, with its g_return_if_fail on a NULL input stream.
StartReadLoop ==
    /\ isFirstCall' = FALSE
    /\ reads' = IF isFirstCall /\ streams THEN reads + 1 ELSE reads

\* Faulty: reads on only while answers are expected.
BeginNextReadIfCalling == reads' = IF Ready /\ invocations # {} THEN 1 ELSE 0

\* The label begin_next_read, when no read is outstanding any more.
BeginNextRead == reads' = IF Ready THEN 1 ELSE 0

\* Faulty: without check_ready.
SendReplyUnchecked(p, m) ==
    /\ outbox' = outbox \cup {m}
    /\ peer' = [peer EXCEPT ![p] = "replied"]

\* jsonrpc_client_reply_async and jsonrpc_client_reply_error_async: nothing
\* keeps the client from sending a second answer to a call.
SendReply(p, m) ==
    /\ outbox' = IF Ready THEN outbox \cup {m} ELSE outbox
    /\ peer' = [peer EXCEPT ![p] =
                    IF @ # "asked" THEN @
                    ELSE IF Ready THEN "replied" ELSE "unreplied"]

-----------------------------------------------------------------------------
(* Calls of the program, between dispatches or from inside a callback.     *)

CallAccepted(c) ==
    /\ call[c] = "unused"
    /\ Ready
    /\ sequence' = sequence + 1
    /\ idOf' = [idOf EXCEPT ![c] = sequence + 1]
    /\ invocations' = (invocations \ Known(sequence + 1)) \cup {c}
    /\ call' = [call EXCEPT ![c] = "waiting"]
    /\ outbox' = outbox \cup {c}
    /\ StartReadLoop
    /\ UNCHANGED <<outcome, twice, inShutdown, failed, streams, readCancelled,
                   signalVars, orphans, erroring, readFrame, handling, syncing,
                   peer, shutVars>>

CallRefused(c) ==
    /\ call[c] = "unused"
    /\ ~Ready
    /\ call' = [call EXCEPT ![c] = "refused"]
    /\ UNCHANGED <<idOf, outcome, twice, stateVars, signalVars, tableVars,
                   readVars, peerVars, shutVars>>

StartListening ==
    /\ isFirstCall
    /\ StartReadLoop
    /\ UNCHANGED <<taskVars, inShutdown, failed, streams, readCancelled,
                   signalVars, tableVars, readFrame, handling, syncing,
                   peerVars, shutVars>>

\* A half of io_stream that has an operation pending may refuse to close:
\* the result is lost, g_io_stream_close is not tried again.
Close ==
    /\ Ready
    /\ Shutdown
    /\ inputShut' \in IF reads = 0 THEN {TRUE} ELSE BOOLEAN
    /\ outputShut' \in IF outbox = {} THEN {TRUE} ELSE BOOLEAN
    /\ CancelPending
    /\ EmitFailed
    /\ UNCHANGED <<taskVars, isFirstCall, failed, streams, failedIdles,
                   sequence, erroring, readVars, peerVars>>

\* Sending on a client that is not ready has no effect.
SendNotification(n) ==
    /\ Ready
    /\ n \notin outbox
    /\ outbox' = outbox \cup {n}
    /\ UNCHANGED <<taskVars, stateVars, signalVars, tableVars, readVars, peer,
                   shutVars>>

Reply(p) ==
    /\ peer[p] = "asked"
    /\ SendReply(p, p)
    /\ UNCHANGED <<taskVars, stateVars, signalVars, tableVars, readVars,
                   shutVars>>

\* jsonrpc_client_reply in a handler: iterate the main loop until written.
SyncReply(p) ==
    /\ peer[p] = "asked"
    /\ readFrame = "handle-call" /\ ~erroring /\ syncing = {}
    /\ SendReply(p, p)
    /\ syncing' = IF Ready THEN {p} ELSE {}
    /\ UNCHANGED <<taskVars, stateVars, signalVars, tableVars, reads,
                   readFrame, handling, shutVars>>

-----------------------------------------------------------------------------
(* Dispatches of the main loop: ends of writes.                            *)

WriteDone(m) ==
    /\ Looping
    /\ m \in outbox
    /\ outbox' = outbox \ {m}
    /\ syncing' = syncing \ {m}
    /\ UNCHANGED <<taskVars, stateVars, signalVars, tableVars, reads,
                   readFrame, handling, peer, shutVars>>

\* Only the request of a call takes the client down with it: the callbacks
\* of replies and notifications report the error to the caller.
WriteFails(m) ==
    /\ Looping
    /\ m \in outbox
    /\ outbox' = outbox \ {m}
    /\ syncing' = syncing \ {m}
    /\ \/ m \in Calls /\ Panic
       \/ m \notin Calls
          /\ UNCHANGED <<failed, orphans, invocations, streams, failedIdles>>
    /\ UNCHANGED <<taskVars, isFirstCall, inShutdown, readCancelled,
                   emittedFailed, emissions, sequence, erroring, reads,
                   readFrame, handling, peer, shutVars>>

-----------------------------------------------------------------------------
(* Dispatches of the main loop: jsonrpc_client_call_read_cb.               *)

\* A message, or an error other than cancellation, ends the read.
ReadEnds == Looping /\ reads = 1 /\ ~readCancelled

ReadCancelledDone ==
    /\ Looping /\ reads = 1 /\ readCancelled
    /\ reads' = 0
    /\ IF inShutdown
       THEN UNCHANGED <<failed, orphans, invocations, streams, failedIdles>>
       ELSE Panic
    /\ UNCHANGED <<taskVars, isFirstCall, inShutdown, readCancelled,
                   emittedFailed, emissions, sequence, erroring, readFrame,
                   handling, syncing, peerVars, shutVars>>

\* End of stream, unparsable input, a batch, something that is not JSON-RPC
\* 2.0, a result or an error without an integer id.
ReadBroken ==
    /\ ReadEnds
    /\ reads' = 0
    /\ Panic
    /\ UNCHANGED <<taskVars, isFirstCall, inShutdown, readCancelled,
                   emittedFailed, emissions, sequence, erroring, readFrame,
                   handling, syncing, peerVars, shutVars>>

ReadNotification ==
    /\ ReadEnds
    /\ reads' = 0
    /\ readFrame' = "notification"
    /\ UNCHANGED <<taskVars, stateVars, signalVars, tableVars, handling,
                   syncing, peerVars, shutVars>>

\* The result or the error of a call in flight.
ReadAnswer(n, o) ==
    /\ ReadEnds
    /\ reads' = 0
    /\ readFrame' = "callback"
    /\ \E c \in Known(n) : ReturnTask(c, o)
    /\ UNCHANGED <<stateVars, signalVars, tableVars, handling, syncing,
                   peerVars, shutVars>>

ReadUnknownResult(n) ==
    /\ ReadEnds
    /\ Known(n) = {}
    /\ reads' = 0
    /\ Panic
    /\ UNCHANGED <<taskVars, isFirstCall, inShutdown, readCancelled,
                   emittedFailed, emissions, sequence, erroring, readFrame,
                   handling, syncing, peerVars, shutVars>>

\* A warning, and on to the next message.
ReadUnknownError(n) ==
    /\ ReadEnds
    /\ Known(n) = {}
    /\ BeginNextRead
    /\ UNCHANGED <<taskVars, stateVars, signalVars, tableVars, readFrame,
                   handling, syncing, peerVars, shutVars>>

ReadCall(p) ==
    /\ ReadEnds
    /\ peer[p] = "none"
    /\ p \notin ParamlessCalls
    /\ reads' = 0
    /\ readFrame' = "handle-call"
    /\ handling' = {p}
    /\ peer' = [peer EXCEPT ![p] = "asked"]
    /\ UNCHANGED <<taskVars, stateVars, signalVars, tableVars, syncing,
                   outbox, shutVars>>

\* is_jsonrpc_call wants "params": without it the call is "Unhandled RPC".
ReadUnhandled(p) ==
    /\ ReadEnds
    /\ peer[p] = "none"
    /\ p \in ParamlessCalls
    /\ peer' = [peer EXCEPT ![p] = "ignored"]
    /\ BeginNextRead
    /\ UNCHANGED <<taskVars, stateVars, signalVars, tableVars, readFrame,
                   handling, syncing, outbox, shutVars>>

-----------------------------------------------------------------------------
(* Callbacks of the program return.                                        *)

\* The callback of a call: GTask sets completed, whose notification removes
\* the call from the table; then call_read_cb or the idle source goes on.
CallbackReturns(c) ==
    /\ call[c] = "returned"
    /\ call' = [call EXCEPT ![c] = "done"]
    /\ invocations' = invocations \ Known(idOf[c])
    /\ \/ /\ readFrame = "callback"
          /\ readFrame' = "none"
          /\ BeginNextRead
       \/ /\ erroring
          /\ UNCHANGED <<reads, readFrame>>
    /\ UNCHANGED <<idOf, outcome, twice, stateVars, signalVars, sequence,
                   orphans, erroring, handling, syncing, peerVars, shutVars>>

NotificationReturns ==
    /\ readFrame = "notification"
    /\ readFrame' = "none"
    /\ BeginNextRead
    /\ UNCHANGED <<taskVars, stateVars, signalVars, tableVars, handling,
                   syncing, peerVars, shutVars>>

\* A handler returned TRUE, having replied or promising to, or no handler
\* did and the client answers with METHOD_NOT_FOUND, also if there is a reply
\* already.
HandlerReturns(p) ==
    /\ readFrame = "handle-call" /\ ~erroring /\ syncing = {}
    /\ p \in handling
    /\ readFrame' = "none"
    /\ handling' = {}
    /\ \/ UNCHANGED peerVars
       \/ SendReply(p, NotFound(p))
    /\ BeginNextRead
    /\ UNCHANGED <<taskVars, stateVars, signalVars, tableVars, syncing,
                   shutVars>>

-----------------------------------------------------------------------------
(* Idle sources.                                                           *)

\* The idle callback of a call that found the client not ready.
RefusedCompletes(c) ==
    /\ Looping
    /\ call[c] = "refused"
    /\ call' = [call EXCEPT ![c] = "done"]
    /\ outcome' = [outcome EXCEPT ![c] = "notconnected"]
    /\ UNCHANGED <<idOf, twice, stateVars, signalVars, tableVars, readVars,
                   peerVars, shutVars>>

\* Faulty: without g_task_get_completed.
FailOrphanAlways(c) == ReturnTask(c, "aborted")

\* The body of the loop of error_invocations_from_idle.
FailOrphan(c) ==
    \/ call[c] # "done" /\ ReturnTask(c, "aborted")
    \/ call[c] = "done" /\ UNCHANGED taskVars

\* error_invocations_from_idle: enter, one iteration of its loop, leave.
ErrorIdle ==
    /\ Looping
    /\ orphans # {}
    /\ erroring' = TRUE
    /\ UNCHANGED <<taskVars, stateVars, signalVars, sequence, invocations,
                   orphans, readVars, peerVars, shutVars>>

ErrorNext(c) ==
    /\ erroring
    /\ c \in orphans
    /\ \A d \in Calls : call[d] # "returned"
    /\ orphans' = orphans \ {c}
    /\ FailOrphan(c)
    /\ UNCHANGED <<stateVars, signalVars, sequence, invocations, erroring,
                   readVars, peerVars, shutVars>>

ErrorEnd ==
    /\ erroring
    /\ orphans = {}
    /\ \A d \in Calls : call[d] # "returned"
    /\ erroring' = FALSE
    /\ UNCHANGED <<taskVars, stateVars, signalVars, sequence, invocations,
                   orphans, readVars, peerVars, shutVars>>

\* emit_failed_from_main, queued by a panic.
FailedIdle ==
    /\ Looping
    /\ failedIdles > 0
    /\ failedIdles' = failedIdles - 1
    /\ EmitFailed
    /\ UNCHANGED <<taskVars, stateVars, tableVars, readVars, peerVars,
                   shutVars>>

-----------------------------------------------------------------------------
Program ==
    \/ \E c \in Calls : CallAccepted(c) \/ CallRefused(c)
    \/ StartListening
    \/ Close
    \/ \E n \in Notes : SendNotification(n)
    \/ \E p \in PeerCalls : Reply(p) \/ SyncReply(p)

Stream ==
    \/ \E m \in Messages : WriteDone(m) \/ WriteFails(m)
    \/ ReadBroken
    \/ ReadNotification
    \/ \E n \in ReplyIds :
          \/ ReadAnswer(n, "result")
          \/ ReadAnswer(n, "error")
          \/ ReadUnknownResult(n)
          \/ ReadUnknownError(n)
    \/ \E p \in PeerCalls : ReadCall(p) \/ ReadUnhandled(p)

MainLoop ==
    \/ ReadCancelledDone
    \/ \E c \in Calls : CallbackReturns(c) \/ RefusedCompletes(c) \/ ErrorNext(c)
    \/ NotificationReturns
    \/ \E p \in PeerCalls : HandlerReturns(p)
    \/ ErrorIdle
    \/ ErrorEnd
    \/ FailedIdle

Next == Program \/ Stream \/ MainLoop

Spec == Init /\ [][Next]_vars

(***************************************************************************)
(* The main loop dispatches what is ready and callbacks return.  Neither   *)
(* the program, nor the peer, nor a write has to do anything.              *)
(***************************************************************************)
Fairness ==
    /\ WF_vars(ReadCancelledDone)
    /\ \A c \in Calls : /\ WF_vars(CallbackReturns(c))
                        /\ WF_vars(RefusedCompletes(c))
                        /\ WF_vars(ErrorNext(c))
    /\ WF_vars(NotificationReturns)
    /\ \A p \in PeerCalls : WF_vars(HandlerReturns(p))
    /\ WF_vars(ErrorIdle)
    /\ WF_vars(ErrorEnd)
    /\ WF_vars(FailedIdle)

LiveSpec == Spec /\ Fairness

-----------------------------------------------------------------------------
(* Safety.                                                                 *)

\* A call that waits for its answer is where something will find it: in the
\* table as long as the client is ready, with the error idle afterwards.
\* Then the table stays empty: nothing puts a call in it that no idle source
\* will ever fail.  What close, panic, id reuse and answers do to the table
\* must agree.
NoCallLost ==
    /\ \A c \in Calls : call[c] = "waiting" =>
           c \in IF Ready THEN invocations ELSE orphans
    /\ ~Ready => invocations = {}

\* No task is returned twice, although a call that is answered and whose
\* callback closes the client is in the stolen table when that happens
\* (g_task_get_completed in error_invocations_from_idle).
NoDoubleReturn == twice = {}

\* The read loop is neither doubled (start_listening from a first call and
\* from the program) nor lost: a client that listens has exactly one read
\* outstanding or one message being dispatched, and handlers do not nest.
OneReadLoop ==
    /\ readFrame # "none" => reads = 0
    /\ Ready /\ ~isFirstCall => reads = 1 \/ readFrame # "none"
    /\ IF readFrame = "handle-call"
       THEN \E p \in PeerCalls : handling = {p}
       ELSE handling = {}

\* "If no handler has returned %TRUE an error will be synthesized", and
\* params is nullable (the documentation of ::handle-call): every call of
\* the peer gets to a handler or is answered.
NoPeerCallIgnored == \A p \in PeerCalls : peer[p] # "ignored"

-----------------------------------------------------------------------------
(* Action properties.                                                      *)

\* A client that is down never gets ready again and gives nothing to the
\* output stream any more: check_ready guards every way to send.  One that
\* failed starts no read either: of the messages the peer still sends at most
\* the one already being read is dispatched.
DownIsFinal ==
    [][~Ready => /\ ~Ready'
                 /\ outbox' \subseteq outbox
                 /\ failed => reads' <= reads]_vars

-----------------------------------------------------------------------------
(* The abstract specification.                                             *)

Stage(c) ==
    IF call[c] \in {"unused", "refused", "waiting"}
    THEN call[c]
    ELSE CASE outcome[c] = "notconnected" -> "refused"
           [] outcome[c] = "aborted" -> "aborted"
           [] OTHER -> "answered"

Promise == INSTANCE Calls WITH
    open <- Ready,
    st <- [c \in Calls |-> Stage(c)]

\* The client keeps the promise of Calls.tla: a call is answered only while
\* the client is open, aborted only after it went down, and ends once.
KeepsPromise == Promise!Spec

-----------------------------------------------------------------------------
(* Liveness, under LiveSpec.                                               *)

\* Every call ends once the client is down: those in flight are failed,
\* also while a handler is stuck in jsonrpc_client_reply, and those made
\* afterwards are refused.
EveryCallEnds ==
    \A c \in Calls :
        (~Ready /\ call[c] \in {"waiting", "refused"}) ~> (call[c] = "done")

\* After jsonrpc_client_close the read loop, which holds a reference on the
\* client, ends even if the peer is silent for ever, unless a handler waits
\* in jsonrpc_client_reply for a write that does not end.
CloseEndsReadLoop ==
    inShutdown ~> (reads = 0 /\ (readFrame = "none" \/ syncing # {}))

\* Both ways to go down are announced with ::failed, and not a second time
\* whatever mix of panics and closes follows.
DownIsSignalled == (failed \/ inShutdown) ~> [](emissions = 1)

\* The base input stream is closed: by jsonrpc_client_close, or because the
\* last reference on the JsonrpcInputStream, the one the read loop holds on
\* it after a panic, was dropped (GInputStream closes itself on dispose).
InputClosed == inputShut \/ (~streams /\ reads = 0 /\ readFrame = "none")

\* A client that went down closes what it reads from.  By a panic: "tear down
\* everything and ensure we cleanup", "Now close the connection"
\* (jsonrpc_client_panic).  By the program: "Closes the underlying streams",
\* "just rely on the callback from the async function to complete/close the
\* stream" (jsonrpc_client_close).
DownClosesInput == (failed ~> InputClosed) /\ (inShutdown ~> InputClosed)
=============================================================================
