----------------------------- MODULE Connection -----------------------------
(***************************************************************************)
(* Two JsonrpcClients that are the two ends of one connection.  Client.tla *)
(* has one of them, in detail, against any peer; here both are as the code *)
(* is, and what is written at one end, in the order of its output queue,   *)
(* is read at the other one, through a pipe that takes only so much.       *)
(*                                                                         *)
(* Each end has a thread with a main loop.  jsonrpc_client_call and        *)
(* jsonrpc_client_reply iterate it until they are done, so that the stack  *)
(* of an end is a sequence of handlers and of such waits.                  *)
(*                                                                         *)
(* Both ends listen (jsonrpc_client_start_listening).  The callbacks of    *)
(* jsonrpc_client_call_async run to their end here.                        *)
(***************************************************************************)
EXTENDS Naturals, Sequences, FiniteSets, SequencesExt

CONSTANTS
    MaxCalls,           \* how many calls each end makes at most
    SyncCalls,          \* those made with jsonrpc_client_call
    Errors,             \* those that are answered with an error
    Disowned,           \* those whose handler may reply and yet return FALSE
    Closers,            \* the ends whose program may close its client
    Capacity,           \* messages that fit into the pipe
    Starts              \* which ends use GVariant before anything is read

Ends == {"a", "b"}
Other(e) == IF e = "a" THEN "b" ELSE "a"

\* A call is the end that makes it and its id.
Calls == UNION {{e} \X (1..MaxCalls[e]) : e \in Ends}
Owner(c) == c[1]

ASSUME MaxCallsAssumption == MaxCalls \in [Ends -> Nat]
ASSUME SortsAssumption ==
    SyncCalls \subseteq Calls /\ Errors \subseteq Calls /\ Disowned \subseteq Calls
ASSUME ClosersAssumption == Closers \subseteq Ends
ASSUME CapacityAssumption == Capacity \in Nat \ {0}
ASSUME StartsAssumption == Starts \subseteq [Ends -> BOOLEAN]

VARIABLES
    \* The caller.
    sequence,           \* the last id each end gave to a call
    st,                 \* how far each call has got
    got,                \* the answer that each call was given
    \* The callee.
    serve,              \* how far the callee has got with each call
    \* The ends.
    state,              \* "up"; "closed" by the program; "failed": panicked
    gvariant,           \* use-gvariant
    stack,              \* frames of handlers and of waits
    reads,              \* outstanding jsonrpc_input_stream_read_message_async
    queue,              \* messages given to the output stream
    \* The connection.
    pipe,               \* messages written and not yet read, by their reader
    shut                \* ends whose output stream is closed

callerVars == <<sequence, st, got>>
endVars == <<state, gvariant, stack, reads>>
vars == <<callerVars, serve, endVars, queue, pipe, shut>>

NoAnswer == [kind |-> "none"]

CallMessage(c) == [kind |-> "call", of |-> c, gv |-> gvariant[Owner(c)]]

\* The id is that of the call.  The code of an error is written as "i"; in
\* JSON there is one type of integers, which is read as "x".
Answer(c) ==
    LET gv == gvariant[Other(Owner(c))]
    IN  [kind |-> IF c \in Errors THEN "error" ELSE "result",
         of |-> c, gv |-> gv, code |-> IF gv THEN "i" ELSE "x"]

\* METHOD_NOT_FOUND, which is sent for a handler that returned FALSE.
NotFound(c) == [Answer(c) EXCEPT !.kind = "error"]

Handler(c) == <<"handler", c>>
InReply(c) == <<"reply", c>>
InCall(c) == <<"call", c>>
Frames == {"handler", "reply", "call"} \X Calls

TypeOK ==
    /\ \A e \in Ends : sequence[e] \in 0..MaxCalls[e]
    /\ st \in [Calls -> {"unused", "waiting", "answered", "failed"}]
    /\ \A c \in Calls : got[c].kind \in {"none", "result", "error"}
    /\ serve \in [Calls -> {"none", "handling", "owed", "answered"}]
    /\ state \in [Ends -> {"up", "closed", "failed"}]
    /\ gvariant \in [Ends -> BOOLEAN]
    /\ \A e \in Ends : stack[e] \in Seq(Frames)
    /\ reads \in [Ends -> {0, 1}]
    /\ \A e \in Ends : Len(pipe[e]) <= Capacity
    /\ shut \subseteq Ends

Init ==
    /\ sequence = [e \in Ends |-> 0]
    /\ st = [c \in Calls |-> "unused"]
    /\ got = [c \in Calls |-> NoAnswer]
    /\ serve = [c \in Calls |-> "none"]
    /\ state = [e \in Ends |-> "up"]
    /\ gvariant \in Starts
    /\ stack = [e \in Ends |-> <<>>]
    /\ reads = [e \in Ends |-> 1]
    /\ queue = [e \in Ends |-> <<>>]
    /\ pipe = [e \in Ends |-> <<>>]
    /\ shut = {}

-----------------------------------------------------------------------------
Up(e) == state[e] = "up"

Top(e) == IF stack[e] = <<>> THEN <<"none">> ELSE Last(stack[e])

\* The thread of an end is in a main loop.
Looping(e) == Top(e)[1] # "handler"

Push(e, frame) == stack' = [stack EXCEPT ![e] = Append(@, frame)]
Pop(e) == stack' = [stack EXCEPT ![e] = Front(@)]

\* Faulty: as if each message went to the head of the queue.
EnqueueFirst(e, m) == queue' = [queue EXCEPT ![e] = <<m>> \o @]

\* jsonrpc_output_stream_write_message_async.
Enqueue(e, m) == queue' = [queue EXCEPT ![e] = Append(@, m)]

\* Faulty: the id is not looked at.
KnownAny(e, c) == IF Up(e) THEN {d \in Calls : d[1] = e /\ st[d] = "waiting"} ELSE {}

\* The call of an end with the id of an answer to c, in the table of calls in
\* flight, which is empty once the end went down.
Known(e, c) ==
    IF Up(e) THEN {d \in Calls : d = <<e, c[2]>> /\ st[d] = "waiting"} ELSE {}

\* Faulty: the read that ended is not forgotten.
BeginSecondRead(e) == reads' = [reads EXCEPT ![e] = IF Up(e) THEN @ + 1 ELSE 0]

\* Faulty: reads on only while an answer is expected.
BeginNextReadIfCalling(e) ==
    reads' = [reads EXCEPT ![e] =
                  IF Up(e) /\ \E d \in Calls : d[1] = e /\ st[d] = "waiting" THEN 1 ELSE 0]

\* The label begin_next_read.
BeginNextRead(e) == reads' = [reads EXCEPT ![e] = IF Up(e) THEN 1 ELSE 0]

\* jsonrpc_client_panic, and what jsonrpc_client_close does: either way the
\* output stream closes at once if nothing is being written.
GoDown(e, how) ==
    /\ state' = [state EXCEPT ![e] = IF Up(e) THEN how ELSE @]
    /\ shut' = IF queue[e] = <<>> THEN shut \cup {e} ELSE shut

-----------------------------------------------------------------------------
(* The program: between dispatches or in a handler.                        *)

\* jsonrpc_client_call_async.
CallAsync(c) ==
    LET e == Owner(c) IN
    /\ Up(e)
    /\ c[2] = sequence[e] + 1
    /\ sequence' = [sequence EXCEPT ![e] = @ + 1]
    /\ st' = [st EXCEPT ![c] = "waiting"]
    /\ Enqueue(e, CallMessage(c))
    /\ UNCHANGED <<got, serve, state, gvariant, reads, pipe, shut>>

\* jsonrpc_client_call: iterate the main loop until the call has ended.
Call(c) ==
    /\ CallAsync(c)
    /\ IF c \in SyncCalls THEN Push(Owner(c), InCall(c)) ELSE UNCHANGED stack

SendAnswer(c) ==
    LET e == Other(Owner(c)) IN
    /\ serve' = [serve EXCEPT ![c] = "answered"]
    /\ IF Up(e) THEN Enqueue(e, Answer(c)) ELSE UNCHANGED queue

\* jsonrpc_client_reply_async and jsonrpc_client_reply_error_async, in the
\* handler or later.
Reply(c) ==
    /\ serve[c] \in {"handling", "owed"}
    /\ SendAnswer(c)
    /\ UNCHANGED <<callerVars, endVars, pipe, shut>>

\* jsonrpc_client_reply in the handler.
ReplySync(c) ==
    LET e == Other(Owner(c)) IN
    /\ serve[c] = "handling" /\ Top(e) = Handler(c)
    /\ Up(e) /\ c \notin Errors
    /\ SendAnswer(c)
    /\ Push(e, InReply(c))
    /\ UNCHANGED <<callerVars, state, gvariant, reads, pipe, shut>>

\* TRUE, having replied or promising to, or FALSE: METHOD_NOT_FOUND, which
\* is the answer, or comes after the one that the handler gave.
HandlerReturns(c) ==
    LET e == Other(Owner(c)) IN
    /\ Top(e) = Handler(c)
    /\ Pop(e)
    /\ \/ /\ serve' = [serve EXCEPT ![c] = IF @ = "handling" THEN "owed" ELSE @]
          /\ UNCHANGED queue
       \/ /\ serve[c] = "handling" /\ c \in Errors
          /\ SendAnswer(c)
       \/ /\ serve[c] = "answered" /\ c \in Disowned
          /\ IF Up(e) THEN Enqueue(e, NotFound(c)) ELSE UNCHANGED queue
          /\ UNCHANGED serve
    /\ BeginNextRead(e)
    /\ UNCHANGED <<callerVars, state, gvariant, pipe, shut>>

\* jsonrpc_client_close.
Close(e) ==
    /\ Up(e) /\ e \in Closers
    /\ GoDown(e, "closed")
    /\ UNCHANGED <<callerVars, serve, gvariant, stack, reads, queue, pipe>>

-----------------------------------------------------------------------------
(* Dispatches of the main loop of an end.                                  *)

\* Something is queued, and the pipe takes it.
CanWrite(e) ==
    Looping(e) /\ queue[e] # <<>> /\ Len(pipe[Other(e)]) < Capacity

\* Faulty: the message stays at the head of the queue.
WriteAgain(e) ==
    /\ CanWrite(e)
    /\ pipe' = [pipe EXCEPT ![Other(e)] = Append(@, Head(queue[e]))]
    /\ UNCHANGED <<callerVars, serve, endVars, queue, shut>>

Write(e) ==
    /\ CanWrite(e)
    /\ pipe' = [pipe EXCEPT ![Other(e)] = Append(@, Head(queue[e]))]
    /\ queue' = [queue EXCEPT ![e] = Tail(@)]
    /\ UNCHANGED <<callerVars, serve, endVars, shut>>

\* Something is queued for an end that is down.
CanFailWrite(e) == Looping(e) /\ queue[e] # <<>> /\ ~ Up(Other(e))

\* A write fails, and all that are queued with it.  The request of a call
\* that is among them takes the end down.
WriteFails(e) ==
    /\ CanFailWrite(e)
    /\ queue' = [queue EXCEPT ![e] = <<>>]
    /\ IF \E i \in 1..Len(queue[e]) : queue[e][i].kind = "call"
       THEN state' = [state EXCEPT ![e] = IF Up(e) THEN "failed" ELSE @]
       ELSE UNCHANGED state
    /\ UNCHANGED <<callerVars, serve, gvariant, stack, reads, pipe, shut>>

CanHangUp(e) == ~ Up(e) /\ queue[e] = <<>> /\ e \notin shut

\* The output stream of an end that is down is dropped, with the last write
\* if the end panicked, and else with the client itself.
HangUp(e) ==
    /\ CanHangUp(e)
    /\ shut' = shut \cup {e}
    /\ UNCHANGED <<callerVars, serve, endVars, queue, pipe>>

\* A read is outstanding, and there is something to dispatch for it.
CanRead(e) ==
    /\ Looping(e) /\ reads[e] = 1
    /\ pipe[e] # <<>> \/ Other(e) \in shut \/ state[e] = "closed"

\* The read of an end takes a message: not after jsonrpc_client_close, which
\* cancelled it.
Takes(e, m) ==
    /\ CanRead(e) /\ state[e] # "closed"
    /\ pipe[e] # <<>> /\ m = Head(pipe[e])
    /\ pipe' = [pipe EXCEPT ![e] = Tail(@)]
    /\ gvariant' = [gvariant EXCEPT ![e] = @ \/ m.gv]

ReadCall(e) ==
    \E m \in ToSet(pipe[e]) :
        /\ Takes(e, m)
        /\ m.kind = "call"
        /\ reads' = [reads EXCEPT ![e] = 0]
        /\ Push(e, Handler(m.of))
        /\ serve' = [serve EXCEPT ![m.of] = "handling"]
        /\ UNCHANGED <<callerVars, state, queue, shut>>

\* Only an "x" is taken for the code of an error, else it stays -1.
ReadAnswer(e) ==
    \E m \in ToSet(pipe[e]) :
        /\ Takes(e, m)
        /\ m.kind # "call"
        /\ \E c \in Known(e, m.of) :
              /\ st' = [st EXCEPT ![c] = "answered"]
              /\ got' = [got EXCEPT ![c] =
                            [kind |-> m.kind, of |-> m.of, gv |-> m.gv,
                             code |-> IF m.code = "x" THEN "sent" ELSE "-1"]]
        /\ BeginNextRead(e)
        /\ UNCHANGED <<sequence, serve, state, stack, queue, shut>>

\* An end that failed in a write may have a last read outstanding.
ReadUnknown(e) ==
    \E m \in ToSet(pipe[e]) :
        /\ Takes(e, m)
        /\ m.kind # "call"
        /\ Known(e, m.of) = {}
        /\ IF m.kind = "result"
           THEN GoDown(e, "failed") /\ reads' = [reads EXCEPT ![e] = 0]
           ELSE BeginNextRead(e) /\ UNCHANGED <<state, shut>>
        /\ UNCHANGED <<callerVars, serve, stack, queue>>

\* The peer hung up, or the read was cancelled by jsonrpc_client_close.
ReadEnds(e) ==
    /\ CanRead(e)
    /\ reads' = [reads EXCEPT ![e] = 0]
    /\ \/ pipe[e] = <<>> /\ Other(e) \in shut /\ GoDown(e, "failed")
       \/ state[e] = "closed" /\ UNCHANGED <<state, shut>>
    /\ UNCHANGED <<callerVars, serve, gvariant, stack, queue, pipe>>

CanFail(c) == Looping(Owner(c)) /\ st[c] = "waiting" /\ ~ Up(Owner(c))

\* error_invocations_from_idle.
FailCall(c) ==
    /\ CanFail(c)
    /\ st' = [st EXCEPT ![c] = "failed"]
    /\ UNCHANGED <<sequence, got, serve, endVars, queue, pipe, shut>>

CanLeaveReply(c) ==
    LET e == Other(Owner(c)) IN
    /\ Top(e) = InReply(c)
    /\ \A i \in 1..Len(queue[e]) :
           queue[e][i].of = c => queue[e][i].kind = "call"

\* jsonrpc_client_reply returns when its message is no longer queued.
ReplyReturns(c) ==
    /\ CanLeaveReply(c)
    /\ Pop(Other(Owner(c)))
    /\ UNCHANGED <<callerVars, serve, state, gvariant, reads, queue, pipe,
                   shut>>

CanLeaveCall(c) == Top(Owner(c)) = InCall(c) /\ st[c] # "waiting"

\* jsonrpc_client_call returns when the call has ended.
CallReturns(c) ==
    /\ CanLeaveCall(c)
    /\ Pop(Owner(c))
    /\ UNCHANGED <<callerVars, serve, state, gvariant, reads, queue, pipe,
                   shut>>

Program ==
    \/ \E c \in Calls : Call(c) \/ Reply(c) \/ ReplySync(c)
    \/ \E e \in Ends : Close(e)

\* What the thread of an end does on its own, and what ends in it when the
\* program does its part.
Thread(e) ==
    \/ Write(e)
    \/ WriteFails(e)
    \/ HangUp(e)
    \/ ReadCall(e)
    \/ ReadAnswer(e)
    \/ ReadUnknown(e)
    \/ ReadEnds(e)
    \/ \E c \in {c \in Calls : Owner(c) = e} : FailCall(c) \/ CallReturns(c)
    \/ \E c \in {c \in Calls : Owner(c) # e} : ReplyReturns(c) \/ HandlerReturns(c)

Next == Program \/ \E e \in Ends : Thread(e)

Spec == Init /\ [][Next]_vars

(***************************************************************************)
(* Main loops dispatch what is ready; handlers return, and what they took  *)
(* is replied to in the end; a client that is down is dropped, so that the *)
(* peer reads the end of its stream and gets errors when it writes.  There *)
(* are as many steps as calls allow: that the thread takes some step is    *)
(* then enough.                                                            *)
(***************************************************************************)
Fairness ==
    \A e \in Ends :
        WF_vars(\/ Thread(e)
                \/ \E c \in Calls : Owner(c) # e /\ serve[c] = "owed" /\ Reply(c))

LiveSpec == Spec /\ Fairness

-----------------------------------------------------------------------------
(* Properties.                                                             *)

\* A call is given the answer that the handler of this very call decided on,
\* although both ends count their calls from 1, answer in any order and may
\* have a call of the other end with the same id in hand.  The code of an
\* error comes with it over JSON only.
AnswersBelong ==
    \A c \in Calls : st[c] = "answered" =>
        /\ got[c].of = c
        /\ got[c].kind = IF c \in Errors THEN "error" ELSE "result"
        /\ got[c].kind = "error" => (got[c].code = "-1") = got[c].gv

\* The handlers of one end get the calls of the other one in the order in
\* which they were made, one at a time, whatever waits are on the stacks and
\* whichever of the writes fail.
HandledInOrder ==
    \A c \in Calls :
        /\ serve[c] # "none" /\ c[2] > 1 => serve[<<c[1], c[2] - 1>>] # "none"
        /\ Handler(c) \in ToSet(stack[Other(c[1])]) =>
               \A d \in Calls \ {c} : Handler(d) \notin ToSet(stack[Other(c[1])])

\* The caller's view of a call.
Stage(c) == IF st[c] = "answered" THEN got[c].kind ELSE st[c]

\* Connection.tla implements RemoteCalls.tla: no call is handled twice or in
\* front of an earlier one, none has an answer that its handler did not give,
\* and none fails while its caller is up.
Promise == INSTANCE RemoteCalls WITH
    open <- {e \in Ends : Up(e)},
    st <- [c \in Calls |-> Stage(c)]

KeepsPromise == Promise!Spec

\* Both ends are in jsonrpc_client_reply, which reads nothing because its
\* handler has the message that was read last, and both pipes are full.
RepliesDeadlock ==
    \A e \in Ends :
        /\ Up(e) /\ Top(e)[1] = "reply"
        /\ Len(pipe[e]) = Capacity

\* jsonrpc_client_call in a handler waits for an answer that nobody reads.
CallInHandler ==
    \E e \in Ends : \E i, j \in 1..Len(stack[e]) :
        /\ i < j
        /\ stack[e][i][1] = "handler" /\ stack[e][j][1] = "call"

\* What the fairness of LiveSpec asks of an end: its thread has a step, or
\* its program an answer to give.  These are the guards of Thread(e); a
\* handler on top of the stack may return.
CanStep(e) ==
    \/ CanWrite(e) \/ CanFailWrite(e) \/ CanHangUp(e) \/ CanRead(e)
    \/ Top(e)[1] = "handler"
    \/ \E c \in Calls : Owner(c) = e /\ (CanFail(c) \/ CanLeaveCall(c))
    \/ \E c \in Calls : Owner(c) # e /\ (CanLeaveReply(c) \/ serve[c] = "owed")

\* While a call has not ended some end has a step to take, without a new
\* call, unless a handler made a synchronous call or both ends wait in a
\* synchronous reply with full pipes: there is no third way for two clients
\* to wait for each other, whoever closes or fails.
NoOtherDeadlock ==
    (\E c \in Calls : st[c] = "waiting")
        => CallInHandler \/ RepliesDeadlock \/ \E e \in Ends : CanStep(e)

\* Every call ends at either end, whoever closes or fails and whatever the
\* handlers do, but for two cases: a handler made a synchronous call, or
\* both ends wait in a synchronous reply with full pipes.
EveryCallEnds ==
    (\E c \in Calls : st[c] = "waiting")
        ~> ((\A c \in Calls : st[c] # "waiting") \/ CallInHandler \/ RepliesDeadlock)
=============================================================================
