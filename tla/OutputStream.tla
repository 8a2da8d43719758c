---------------------------- MODULE OutputStream ----------------------------
(***************************************************************************)
(* JsonrpcOutputStream (src/jsonrpc-output-stream.c): the queue of writes. *)
(*                                                                         *)
(* Messages are numbered in the order of the calls of write_message_async. *)
(* One thread runs the main loop; the bytes are written elsewhere, by      *)
(* g_output_stream_write_all_async, whose end the main loop dispatches.    *)
(*                                                                         *)
(* The stack of the dispatch is explicit, because g_task_return_* runs the *)
(* callback of the program in the middle of the code, and the callback may *)
(* write again: a frame is either a callback of the program ("callback")   *)
(* or what the code does once the frame above it is gone: pump ("pump"),   *)
(* fail_pending ("fail"), the rest of the loop of fail_pending ("list").   *)
(* A task that is returned in the turn of the main loop in which it was    *)
(* created gets its callback from an idle source instead (GTask).          *)
(***************************************************************************)
EXTENDS Sequences, Naturals

CONSTANT MaxMessages        \* how many messages are written

ASSUME MaxMessagesAssumption == MaxMessages \in Nat

VARIABLES
    \* JsonrpcOutputStreamPrivate and GOutputStream.
    queue,                  \* messages that wait
    processing,             \* a write was started and has not ended
    closed,                 \* g_output_stream_is_closed
    \* The tasks.
    submitted,              \* number of messages submitted
    result,                 \* result[m]: what the task was returned with
    deferred,               \* tasks whose callback is in an idle source
    fresh,                  \* tasks created in this turn of the main loop
    stack,                  \* the frames of the dispatch, innermost first
    \* Underneath.
    writes,                 \* write_all_async operations under way
    wire,                   \* what was written: messages, whole or cut short
    barrier                 \* history: submitted when a write last failed

streamVars == <<queue, processing, closed>>
taskVars == <<submitted, result, deferred, fresh, stack>>
lowerVars == <<writes, wire, barrier>>

vars == <<streamVars, taskVars, lowerVars>>

Messages == 1..MaxMessages

Callback == [kind |-> "callback"]
ThenPump == [kind |-> "pump"]
ThenFailPending == [kind |-> "fail"]
FailList(list) == [kind |-> "list", list |-> list]

Push(frame, s) == <<frame>> \o s

Submitted == 1..submitted

TypeOK ==
    /\ queue \in Seq(Messages)
    /\ processing \in BOOLEAN
    /\ closed \in BOOLEAN
    /\ submitted \in 0..MaxMessages
    /\ result \in [Messages -> {"none", "ok", "failed"}]
    /\ deferred \subseteq Messages
    /\ fresh \subseteq Messages
    /\ stack \in Seq({Callback, ThenPump, ThenFailPending}
                     \cup [kind : {"list"}, list : Seq(Messages)])
    /\ writes \subseteq Messages
    /\ wire \in Seq([msg : Messages, whole : BOOLEAN])
    /\ Len(wire) <= submitted
    /\ barrier \in 0..MaxMessages

Init ==
    /\ queue = <<>>
    /\ processing = FALSE
    /\ closed = FALSE
    /\ submitted = 0
    /\ result = [m \in Messages |-> "none"]
    /\ deferred = {}
    /\ fresh = {}
    /\ stack = <<>>
    /\ writes = {}
    /\ wire = <<>>
    /\ barrier = 0

-----------------------------------------------------------------------------
(* Helpers.                                                                *)

\* The main loop is between two dispatches.
Looping == stack = <<>>

\* The frame that runs.
Running == IF Looping THEN "loop" ELSE stack[1].kind

\* The program may call the stream: from a dispatch of its own or from a
\* callback.
ProgramRuns == Running \in {"loop", "callback"}

\* g_task_return_* on task m, with s the stack under it and f the tasks
\* created in this turn.
ReturnTask(m, r, s, f) ==
    /\ result' = [result EXCEPT ![m] = r]
    /\ IF m \in f
       THEN deferred' = deferred \cup {m} /\ stack' = s
       ELSE UNCHANGED deferred /\ stack' = Push(Callback, s)

StartWrite(m) ==
    /\ processing' = TRUE
    /\ writes' = writes \cup {m}

\* Faulty: does not look at processing.
PumpWhileProcessing(q, s, f) ==
    \/ /\ q = <<>>
       /\ queue' = q /\ stack' = s
       /\ UNCHANGED <<processing, writes, result, deferred>>
    \/ /\ q # <<>> /\ ~closed
       /\ queue' = Tail(q) /\ stack' = s
       /\ StartWrite(Head(q))
       /\ UNCHANGED <<result, deferred>>

\* Faulty: takes the newest message.
PumpNewest(q, s, f) ==
    \/ /\ q = <<>> \/ processing
       /\ queue' = q /\ stack' = s
       /\ UNCHANGED <<processing, writes, result, deferred>>
    \/ /\ q # <<>> /\ ~processing /\ ~closed
       /\ queue' = SubSeq(q, 1, Len(q) - 1) /\ stack' = s
       /\ StartWrite(q[Len(q)])
       /\ UNCHANGED <<result, deferred>>

\* Faulty: leaves the message it writes in the queue.
PumpPeeks(q, s, f) ==
    \/ /\ q = <<>> \/ processing
       /\ queue' = q /\ stack' = s
       /\ UNCHANGED <<processing, writes, result, deferred>>
    \/ /\ q # <<>> /\ ~processing /\ ~closed
       /\ queue' = q /\ stack' = s
       /\ StartWrite(Head(q))
       /\ UNCHANGED <<result, deferred>>

\* pump, with q the queue and s the stack under it.
Pump(q, s, f) ==
    \/ /\ q = <<>> \/ processing
       /\ queue' = q /\ stack' = s
       /\ UNCHANGED <<processing, writes, result, deferred>>
    \/ /\ q # <<>> /\ ~processing /\ closed
       /\ queue' = Tail(q)
       /\ ReturnTask(Head(q), "failed", s, f)
       /\ UNCHANGED <<processing, writes>>
    \/ /\ q # <<>> /\ ~processing /\ ~closed
       /\ queue' = Tail(q) /\ stack' = s
       /\ StartWrite(Head(q))
       /\ UNCHANGED <<result, deferred>>

-----------------------------------------------------------------------------
(* Calls of the program.                                                   *)

\* A call from outside of any callback may be the first of its turn.
Turn == IF Looping THEN {fresh, {}} ELSE {fresh}

\* write_message_async; create_bytes never fails.
WriteMessage ==
    /\ ProgramRuns
    /\ submitted < MaxMessages
    /\ submitted' = submitted + 1
    /\ \E f \in Turn :
          /\ fresh' = f \cup {submitted + 1}
          /\ Pump(Append(queue, submitted + 1), stack, fresh')
    /\ UNCHANGED <<closed, wire, barrier>>

\* g_output_stream_close on the stream itself: refused while a write is
\* pending.
CloseStream ==
    /\ ProgramRuns
    /\ ~closed
    /\ writes = {}
    /\ closed' = TRUE
    /\ UNCHANGED <<queue, processing, taskVars, lowerVars>>

-----------------------------------------------------------------------------
(* write_message_async_cb, dispatched by the main loop.                    *)

\* Faulty: leaves the queue to the next call of write_message_async.
AfterSuccessNothing == FailList(<<>>)

\* What write_message_async_cb does after it returned a task that is done.
AfterSuccess == ThenPump

WriteSucceeds(m) ==
    /\ Looping
    /\ m \in writes
    /\ writes' = writes \ {m}
    /\ wire' = Append(wire, [msg |-> m, whole |-> TRUE])
    /\ processing' = FALSE
    /\ fresh' = {}
    /\ ReturnTask(m, "ok", Push(AfterSuccess, stack), {})
    /\ UNCHANGED <<queue, closed, submitted, barrier>>

\* Faulty: pumps after a failure as it does after a success.
AfterFailurePump == ThenPump

\* What write_message_async_cb does after it returned a failed task.
AfterFailure == ThenFailPending

\* Faulty: does not look at what write_all_finish says.
FailureResultIgnored == "ok"

FailureResult == "failed"

\* An error, a cancellation, also one noticed when all was written, or a
\* short write.
WriteFails(m) ==
    /\ Looping
    /\ m \in writes
    /\ writes' = writes \ {m}
    /\ \/ UNCHANGED wire
       \/ \E whole \in BOOLEAN :
             wire' = Append(wire, [msg |-> m, whole |-> whole])
    /\ processing' = FALSE
    /\ fresh' = {}
    /\ barrier' = submitted
    /\ ReturnTask(m, FailureResult, Push(AfterFailure, stack), {})
    /\ UNCHANGED <<queue, closed, submitted>>

-----------------------------------------------------------------------------
(* The frames of the dispatch.                                             *)

CallbackReturns ==
    /\ Running = "callback"
    /\ stack' = Tail(stack)
    /\ UNCHANGED <<streamVars, submitted, result, deferred, fresh, lowerVars>>

PumpAfterWrite ==
    /\ Running = "pump"
    /\ Pump(queue, Tail(stack), fresh)
    /\ UNCHANGED <<closed, submitted, fresh, wire, barrier>>

\* Faulty: fails only the first message that waits.
StolenHead == IF queue = <<>> THEN <<>> ELSE <<Head(queue)>>

\* The list that fail_pending works on.
Stolen == queue

\* fail_pending empties the queue before it fails the first task.
FailPending ==
    /\ Running = "fail"
    /\ queue' = <<>>
    /\ stack' = Push(FailList(Stolen), Tail(stack))
    /\ UNCHANGED <<processing, closed, submitted, result, deferred, fresh,
                   lowerVars>>

FailNext ==
    /\ Running = "list"
    /\ LET list == Head(stack).list IN
       \/ /\ list = <<>>
          /\ stack' = Tail(stack)
          /\ UNCHANGED <<result, deferred>>
       \/ /\ list # <<>>
          /\ ReturnTask(Head(list), "failed",
                        Push(FailList(Tail(list)), Tail(stack)), fresh)
    /\ UNCHANGED <<streamVars, submitted, fresh, lowerVars>>

\* The idle source of a task that was returned in the turn of its creation.
IdleCallback(m) ==
    /\ Looping
    /\ m \in deferred
    /\ deferred' = deferred \ {m}
    /\ stack' = <<Callback>>
    /\ fresh' \in {fresh, {}}
    /\ UNCHANGED <<streamVars, submitted, result, lowerVars>>

-----------------------------------------------------------------------------
Next ==
    \/ WriteMessage
    \/ CloseStream
    \/ \E m \in Messages : WriteSucceeds(m) \/ WriteFails(m) \/ IdleCallback(m)
    \/ CallbackReturns
    \/ PumpAfterWrite
    \/ FailPending
    \/ FailNext

Spec == Init /\ [][Next]_vars

(***************************************************************************)
(* Code runs to its end, callbacks return, idle sources are dispatched.    *)
(* That a write ends, well or badly, is an assumption on the peer and the  *)
(* kernel, made here so that what the queue adds to it can be stated.      *)
(***************************************************************************)
Fairness ==
    /\ WF_vars(CallbackReturns)
    /\ WF_vars(PumpAfterWrite)
    /\ WF_vars(FailPending)
    /\ WF_vars(FailNext)
    /\ \A m \in Messages :
          /\ WF_vars(IdleCallback(m))
          /\ WF_vars(WriteSucceeds(m) \/ WriteFails(m))

LiveSpec == Spec /\ Fairness

-----------------------------------------------------------------------------
(* Safety.                                                                 *)

\* The bytes of two messages are never written at the same time, and
\* processing says whether one is, although callbacks start writes between
\* the reset of processing and the pump that follows.
SingleWriter ==
    /\ \A m, k \in writes : m = k
    /\ processing <=> writes # {}

\* A queue that is not empty is being worked on: a write is under way or
\* the dispatch on the stack will pump or fail what waits.  Nothing waits
\* for a pump that nobody calls.
NeverForgotten ==
    queue # <<>> /\ ~closed =>
        \/ processing
        \/ \E i \in 1..Len(stack) : stack[i] \in {ThenPump, ThenFailPending}

InQueue(m) == \E i \in 1..Len(queue) : queue[i] = m

InList(m) ==
    \E i \in 1..Len(stack) :
        /\ stack[i].kind = "list"
        /\ \E j \in 1..Len(stack[i].list) : stack[i].list[j] = m

\* A message that has no result is in exactly one place: it waits, it is
\* being written or fail_pending holds it; one that has a result is in none.
\* So no message is lost, written after it failed, or ended twice.
InOnePlace ==
    \A m \in Messages :
        LET Here == {InQueue(m), m \in writes, InList(m)} IN
        IF m \in Submitted /\ result[m] = "none"
        THEN /\ TRUE \in Here
             /\ ~(InQueue(m) /\ m \in writes)
             /\ ~(InQueue(m) /\ InList(m))
             /\ ~(InList(m) /\ m \in writes)
        ELSE Here = {FALSE}

\* The peer reads messages in the order in which they were submitted, each
\* at most once, also around failures and writes made by callbacks, and it
\* got all of every message whose task succeeded.
WireInOrder ==
    /\ \A i, j \in 1..Len(wire) : i < j => wire[i].msg < wire[j].msg
    /\ \A m \in Messages : result[m] = "ok" =>
          \E i \in 1..Len(wire) : wire[i] = [msg |-> m, whole |-> TRUE]

\* A failed write, which may have left half a message on the wire, is the
\* end of everything submitted before it: what waited is not written any
\* more, except for what a callback starts by writing itself, after the
\* failed task was returned and before fail_pending empties the queue.
FailureIsBarrier ==
    [][\A m \in writes' \ writes :
          \/ m > barrier
          \/ \E i \in 1..Len(stack) : stack[i] = ThenFailPending]_vars

-----------------------------------------------------------------------------
(* The abstract specification.                                             *)

Stage(m) ==
    CASE result[m] = "ok" -> "sent"
      [] result[m] = "failed" -> "failed"
      [] result[m] = "none" /\ m \in Submitted -> "pending"
      [] OTHER -> "none"

Promise == INSTANCE WriteQueue WITH st <- [m \in Messages |-> Stage(m)]

\* The stream keeps the promise of WriteQueue.tla: first come, first
\* served, and every message ends once.
KeepsPromise == Promise!Spec

-----------------------------------------------------------------------------
(* Liveness, under LiveSpec.                                               *)

Completed(m) == result[m] # "none" /\ m \notin deferred

\* Every write completes, whatever fails and whatever callbacks do, unless
\* the program closes the stream.
WritesComplete ==
    \A m \in Messages : m \in Submitted ~> (Completed(m) \/ closed)

\* "This asynchronous operation will complete once the message has been
\* buffered" (write_message_async), with no exception for a closed stream.
EveryWriteCompletes ==
    \A m \in Messages : m \in Submitted ~> Completed(m)
=============================================================================
