# A TLA+ model of jsonrpc-glib

jsonrpc-glib is a GObject library for JSON-RPC 2.0: an endpoint
(`JsonrpcClient`, used on both sides of a connection), a server that owns many
endpoints (`JsonrpcServer`), and the two streams that read and write messages
(`JsonrpcInputStream`, `JsonrpcOutputStream`). This directory holds TLA+
modules of its control logic, TLC configurations that check them on small
instances, and proofs for TLAPS: every safety property that a run checks, of
every module but `Message.tla`, is proved for all values of the constants, as is
that each of client, output stream, framing, server (its clients) and connection
implements an abstract specification of what it promises.

Paths are relative to the directory that holds the repository as `src/`.

## Inventory

| Component | State | Operations | Hard part |
|---|---|---|---|
| `JsonrpcClient` (`src/src/jsonrpc-client.c`) | table `invocations` from id to `GTask`, `sequence`, the flags `is_first_call`, `in_shutdown`, `failed`, `emitted_failed`, the streams, the read loop's cancellable | call, notify, reply, reply with an error, start listening, close; ends of reads and writes; two idle sources | callbacks of the program run in the middle of the code and may call the client again; close, panic, answers and idle sources all work on the table |
| `JsonrpcOutputStream` (`src/src/jsonrpc-output-stream.c`) | `queue` of tasks, `processing` | write a message; end of a write | a callback may write or close between the reset of `processing` and the pump or the failing of the queue |
| `JsonrpcInputStream` (`src/src/jsonrpc-input-stream.c`) | `ReadState` of the task, `has_seen_gvariant` | read a message: header lines, body | state of one message and of the next, ends of stream anywhere, encodings mixed on one connection |
| `JsonrpcServer`, handlers (`src/src/jsonrpc-server.c`) | array `handlers`, `last_handler_id` | add, remove, look up with `bsearch` | order of the array, ids |
| `JsonrpcServer`, clients (`src/src/jsonrpc-server.c`) | table `clients`, which holds references | accept, a client fails, dispose, foreach | references wander from the table through signal handlers to idle sources |
| `JsonrpcMessage` (`src/src/jsonrpc-message.c`) | none | build and parse by a pattern of varargs | recursive functions share one list of arguments: what one leaves decides what the next one finds; types change with the encoding |
| A connection: two clients and two pipes | the state of both ends, what is queued, what is in the pipes | calls both ways, synchronous and not, replies, close, panic | order across handlers, queues and pipes; everyone waiting on everyone |

How they interact: the client gives messages to its output stream and is told
the end of each write by a callback; it asks its input stream for one message
at a time, and the callback of that read (`jsonrpc_client_call_read_cb`) is the
read loop. The server is connected to the signals `::failed`, `::handle-call`
and `::notification` of each client. Everything at one end runs in one thread,
in the main loop of GLib. There is no preemption, but there are two other kinds
of interleaving at one end, and the models are about them, and the third kind,
of two ends that run on their own, in `Connection.tla`:

* **re-entrancy**: `g_task_return_*` and `g_signal_emit` run code of the
  program on the spot, which may call the library again before the code that
  emitted goes on;
* **idle sources**: what `cancel_pending_from_main`, `jsonrpc_client_panic` and
  the server put off to an idle source of the lowest priority happens after any
  number of other dispatches.

What makes each component correct is the list of properties below; the hazards
they are for are listed, with lines, in `PROJECT.json`.

## Modules

### `Client.tla`, with `Calls.tla` and `ClientProofs.tla`

One endpoint. The correspondence:

| Model | Code |
|---|---|
| `call`, `outcome`, `idOf` | the `GTask` of a call: not returned, its callback runs, `completed`; what it was returned with; its task data |
| `invocations`, `sequence`, `isFirstCall`, `inShutdown`, `failed`, `emittedFailed` | the fields of `JsonrpcClientPrivate` of the same names |
| `streams` | `input_stream` and `output_stream` are not NULL |
| `orphans` | the `invocations` of the `PanicData` of all queued `error_invocations_from_idle`. Two batches are merged in one set: the table is empty from the first steal on (`NoCallLost`), so a second batch never has a member |
| `erroring`, `readFrame`, `handling`, `syncing` | what is on the C stack: the error idle, the callback or signal that `jsonrpc_client_call_read_cb` is inside of, a handler that waits in `jsonrpc_client_reply` |
| `failedIdles`, `emissions` | queued `emit_failed_from_main`, emissions of `::failed` |
| `reads` | outstanding `jsonrpc_input_stream_read_message_async` |
| `outbox` | messages the output stream has not finished |
| `peer` | what became of each call of the peer: it keeps the reply of a handler that returns FALSE nevertheless, though METHOD_NOT_FOUND is sent behind it |
| `inputShut`, `outputShut` | halves of `io_stream` that `jsonrpc_client_close` closed |

An action is one call of the program, or one dispatch of the main loop, up to
the point where control goes to a callback of the program. What the code does
after the callback is the action of the same place called `...Returns`. Actions
of the program are enabled at any time, also while a callback runs; dispatches
need `Looping`. That is how the re-entrant calls of a callback come in between
the two halves of the code around it.

The peer is unconstrained: it answers known and unknown ids any number of
times, with results and errors, calls, notifies, sends what cannot be parsed
and hangs up. Kinds of malformed messages that the code treats alike are one
action (`ReadBroken`).

`Calls.tla` is what a caller is promised: a call is accepted on an open client
and then ends once, answered while the client is open or aborted after it went
down; a client that went down never comes back. `Client!KeepsPromise` says that
`Client.tla` implements it, with `open` mapped to `Ready`
(`jsonrpc_client_check_ready`).

### `OutputStream.tla`, with `WriteQueue.tla` and `OutputStreamProofs.tla`

The queue of writes. The stack of the dispatch is a variable: a frame is a
callback of the program, or what the code does when the frame above it has
returned (`pump`, `fail_pending`, the rest of its loop). A callback may write
and close the stream; both show up as actions that are enabled while a callback
is on top of the stack, and a write may push a callback of its own. GTask
returns a task on the spot only if it was created in an earlier turn of the
main loop; `fresh` and `deferred` model that. The program is taken to run in
dispatches of the main loop.

`WriteQueue.tla` is the promise: first come, first served, each message ends
once. `OutputStream!KeepsPromise` is checked.

### `Framing.tla`, with `MessageStream.tla`, `MCFraming.tla` and `FramingProofs.tla`

Two ends that write messages to each other: `create_bytes` on one side, the
reads of `JsonrpcInputStream` on the other, and the switch to GVariant of
`jsonrpc_client_call_read_cb`. What is on its way is a sequence of items
(header lines, the empty line, bytes of a body that carry the number of their
message). One end may be another implementation, with headers in another order,
repeated, unknown or wrong: any sequences of `HeaderLine` (`ForeignAssumption`).
`Meaning` says what such headers mean as a whole, in one definition, and is what
the line by line reading is compared with.

`MessageStream.tla` is the promise of the two streams together, without header
lines, bodies, encodings or what is on its way: messages are received one by one
in their order, each as it was sent, none after a read has failed; and a read
fails only at a message that is no message of the protocol, or once one of the
ends closed. `Framing!KeepsPromise` says that `Framing.tla` implements it, with
the failed ends those whose `phase` is `"failed"`, and the invalid messages those
that `Meaning` calls so, none of which `JsonrpcOutputStream` writes.

### `Connection.tla`, with `RemoteCalls.tla`, `MCConnection.tla`, `ConnectionProofs.tla` and `RemoteCallsProofs.tla`

Two clients and the two pipes between them. Each end is a thread with its own
main loop. It sees less of a client than `Client.tla` does (no notifications,
no malformed messages, no idle sources apart from the one that fails calls),
and more of what is around it:

| Model | Code |
|---|---|
| `queue[e]` | the queue of the output stream of `e`, with the message being written |
| `pipe[e]` | messages written to `e` and not yet read; a write waits while it holds `Capacity` messages |
| `stack[e]` | handlers that run and the main loops inside of them: `jsonrpc_client_reply` and `jsonrpc_client_call` iterate until their task has completed |
| `serve[c]` | how far the handler of a call has got; a handler may reply later (`owed`) |
| `got[c]` | the answer a call was given, with the end's reading of the code of an error |
| `shut` | ends whose output stream is closed, so that the peer reads an end of stream and fails to write |

A message is a record of its kind, of the call it belongs to, of its encoding
and, for an error, of the type its code has in that encoding. The receiver uses
only the id of the call (`Known`), not which end made it, as on the wire. A handler that
replies and yet returns FALSE (`Disowned`) gets METHOD_NOT_FOUND sent behind its
answer; the other end finds no call for it any more (`ReadUnknown`).

`RemoteCalls.tla` is the promise from program to program, without streams,
queues, pipes and main loops: a call is handled at the other end at most once,
after all that were made before it; it ends once, with the kind of answer that
its own handler gave and after it gave it, or it fails after its end went down.
`Connection!KeepsPromise` says that `Connection.tla` implements it.

What an end waits for is the guard of an action, with a name of its own
(`CanWrite`, `CanRead`, `CanLeaveReply`, ...): `CanStep` puts them together, so
that what cannot go on can be said without ENABLED.

### `Message.tla`, with `MCMessage.tla`

`jsonrpc_message_new`, `_new_array`, `_parse` and `_parse_array`. The functions
of the code are operators that take the list of arguments and the position of
the next `va_arg`, and return the next position with their result; the values
are those of GVariant with their types. What the program means is a tree, and
`Flatten` makes the arguments of it, so that the properties can be stated about
trees, without positions. A behaviour builds a message, sends it over GVariant,
in another variant, or as JSON (`OverJson`), and parses it with a pattern.

The module declares RECURSIVE operators and is meant for TLC only.

### `Handlers.tla`, with `HandlersProofs.tla`

The array of handlers of the server, kept sorted by `g_array_sort`, and
`bsearch` as the C library does it. `Sorted` is the contract of `g_array_sort`
(a stable sort by the comparison of the code, `ByMethod`), `Bsearch` a recursive
function on ranges of the array. `registered` is the history of what the
program added and did not remove, `destroyed` that of the destroy notifies of
the data of handlers (the clear function of the array).

### `Server.tla`, with `ServerClients.tla` and `ServerProofs.tla`

The clients of a server and their references. A client is seen from outside:
open, closed by the program, or failed, with or without a read that still goes
on. `refs` is the reference count, changed where the code refs and unrefs; the
frames of the handlers of `::client-accepted` and `::client-closed`, and of the
callback of `jsonrpc_server_foreach` with the keys it has yet to visit, are on
a stack as in `OutputStream.tla`.

`ServerClients.tla` is the promise to the program, without references: a client
is accepted, lost, told of once and then freed, never while code of the program
runs, so that a callback may use the clients it was given without a reference.
A server that was dropped tells of nothing; its clients are freed when they are
lost. `Server!KeepsPromise` says that `Server.tla` implements it, with the freed
clients those that had references and have none left.

## Runs

Checked, with every property holding:

* **client** (`Client.cfg`): two calls, two calls of the peer, one of them
  without params, one notification, three ids the peer may answer (the two that
  are given out, at most, and one that never is).
  * `NoCallLost`: a call that waits is in the table while the client is ready,
    in a stolen table afterwards; nothing enters the table of a client that is
    down.
  * `NoDoubleReturn`: no task is returned twice.
  * `OneReadLoop`: a client that listens and is ready has one read outstanding
    or is inside of the callback of one; handlers do not nest.
  * `DownIsSignalled`: `::failed` is emitted, and once only.
  * `DownIsFinal`: a client that is down stays so and sends nothing, and one that
    failed starts no read.
  * `KeepsPromise`: it implements `Calls.tla`.
  * `EveryCallEnds`: on a client that is down each call ends.
  * `CloseEndsReadLoop`: after `jsonrpc_client_close` the read loop ends.
* **output** (`OutputStream.cfg`): five messages, so that one is written while
  others wait, are in the hands of `fail_pending`, and are written by callbacks.
  * `SingleWriter`: one write at a time, and `processing` says so.
  * `NeverForgotten`: while something waits, a write or a frame will see to it.
  * `InOnePlace`: a message without a result is in exactly one place.
  * `WireInOrder`: what the peer reads is in order, and what succeeded was
    written whole.
  * `FailureIsBarrier`: after a failed write nothing that was submitted before
    is written, except in the window before `fail_pending` in which the callback
    of the failed task writes again and so pumps the head of the old queue.
    The model shows that the window is real; nothing documents it.
  * `KeepsPromise`, `WritesComplete`: each write ends, unless the stream is
    closed by the program.
* **framing** (`Framing.cfg`): two messages one way, one the other way, of two
  bytes each; foreign ones of one and two bytes.
  * `ReceivedIsSent`: received is what was sent, decoded as it was encoded.
  * `KeepsPromise`: it implements `MessageStream.tla`; above all, a read fails
    only over an invalid message or a close.
  * `FollowsPeer`: an end writes GVariant if and only if it received it, unless
    its program chose. (A program that turned GVariant off is switched back by
    any later message once GVariant was seen; the property says nothing there.)
  * `EveryMessageArrives`.
* **connection** (`Connection.cfg`): two calls each way, one of them
  synchronous, one answered with an error and one whose handler may reply and
  yet return FALSE, a pipe of one message, either encoding at one end, and one
  end that may close.
  * `AnswersBelong`: a call is given the answer to this very call, and the code
    of an error with it if and only if the answer came as JSON (the code is
    written as "i" and looked up as "x").
  * `HandledInOrder`: calls are handled in the order in which they were made,
    one at a time, also around waits in handlers and failed writes.
  * `KeepsPromise`: it implements `RemoteCalls.tla`.
  * `EveryCallEnds`: a call ends whoever closes or fails, except in two cases
    that the property names. `CallInHandler`: a handler calls
    `jsonrpc_client_call`, and no read is started before it returns.
    `RepliesDeadlock`: both ends wait in `jsonrpc_client_reply` with full
    pipes. Both are reachable here, and no other wait for ever is.
  * `NoOtherDeadlock`: in every state in which a call waits, and which is neither
    of the two, some end can go on (`CanStep`). Without either of the two
    exceptions it is violated. `EveryCallEnds` says more, that going on leads
    somewhere; this part of it is the one that can be proved.
* **message** (`Message.cfg`): messages of up to two fields, with raw keys and
  keys in `PUT_STRING`, with every `PUT_*` and up to two levels of objects and
  arrays in the first field; patterns of the same kind with every `GET_*`, and the pattern that mirrors the message.
  * `ParsesWhatIsMeant`: parsing succeeds exactly if the value matches the tree
    of the pattern at every depth, and stores what belongs to each `GET_*`.
    `GET_DICT` in an array is left out: `jsonrpc_message_parse_array_va` tests
    for `GET_ITER` there and goes on as after a "{".
  * `RoundTrip`: what was put in is what is taken out, over either encoding,
    except for what JSON does not keep (`LosesInJson`: integers of 32 bits, null
    strings in arrays) and for fields after an injected variant (see below).
* **handlers** (`Handlers.cfg`): five additions of three methods, with removals
  in any order, also of ids that are gone or not yet given out.
  * `DispatchIsExact`: a call of a method gets to a handler of it if there is
    one, and to no other.
  * `DataLivesWhileRegistered`: the array is in step with what is registered,
    and the data of a handler is destroyed once, when it is removed or when the
    server is disposed.
* **server** (`Server.cfg`): three clients, one `jsonrpc_server_foreach`.
  * `ReferencesAreOwned`: the count of references is the number of owners at
    every step.
  * `TableIsCurrent`: the table and the announcements agree with the states of
    the clients.
  * `ForeachIsSafe`: the clients that `jsonrpc_server_foreach` has yet to visit
    are not freed, although its callback closes clients, accepts others or drops
    the server.
  * `KeepsPromise`: it implements `ServerClients.tla`. This is what the idle
    source with `dummy_func` is for: a server that dropped its reference when
    the handlers of `::client-closed` return, instead of from an idle source,
    would free a client under the callbacks that still run.
  * `LossIsAnnounced`, `LostIsFreed`: what is lost is announced, and freed.

Each of these modules has one type invariant, `TypeOK`, checked by its run, but
for `Message.tla`, whose variables only record the inputs and the result.

Runs that end in a violation, each a place where the code and its documentation
or comments disagree (`findings` in `PROJECT.json` quotes them):

* **down_closes** (`DownClosesInput.cfg`): a client that goes down leaves its
  input stream open, in two ways. `jsonrpc_client_panic` sets `failed` before it
  calls `jsonrpc_client_close`, which then returns at once: after a panic from a
  failed write the read goes on until the peer acts, and keeps the client. And
  `jsonrpc_client_close` with a read outstanding fails to close the input half
  of a `GSimpleIOStream`, and the end of that read does not close it either.
  (With a `GSocketConnection` the socket is closed; the model is of the stream
  that `jsonrpc_client_new` recommends for processes.) TLC reports one of the
  two; either conjunct of the property is violated when it is checked alone.
* **message_inject** (`MessageInject.cfg`): fields that follow an injected
  variant (`"key", "{", JSONRPC_MESSAGE_PUT_VARIANT (v), "}", "next", ...`) are
  not built: the "}" stays in the list of arguments and ends the object around.
* **paramless_call**: a call without `params` is neither handled nor answered.
* **output_closed**: messages that wait when the stream is closed never end:
  pump fails one of them and returns.
* **server_abort**: the server asserts that a notification has params.

### Bounds

Only constants bound the models: the sets of calls, messages and clients, each
used once; `MaxMessages`, `MaxHandlers`, `MaxCalls`, `Capacity` (of a pipe, in
messages: one, so that it is full at once), `MaxForeach` (one: a second one inside
of the first differs in nothing but its keys), and `MaxPanics` (panics of one
client before `::failed` is emitted: two, for a write and the read). No state
constraint is used. Two calls are enough for one to be answered or to fail while
the other waits, is stolen, or is made by a callback. For the safety properties
the proofs remove all these bounds, except those of `Message.tla`. Ids never wrap: `sequence` has 63
bits. `last_handler_id` has 32 bits and is taken not to wrap. In
`Framing.cfg` only end "b" vanishes, chooses an encoding and may be foreign,
and its peer "a" is the mirror image: the module treats the ends alike.
`CHECK_DEADLOCK FALSE` is given where a connection may just be over.

### Fairness

Liveness is checked under `LiveSpec`. Weak fairness is assumed of what the main
loop dispatches (idle sources, cancelled reads, data that arrived) and of the
return of callbacks. Idle sources have the lowest priority: that they run
assumes that the main loop is idle at some time. No fairness is assumed of the
program, of the peer, nor of writes in `Client.tla`, where `EveryCallEnds` and
`CloseEndsReadLoop` hold although a handler may be stuck in a reply.
In `OutputStream.tla` a write is assumed to end, well or badly; what is checked
is that then every message in the queue ends. In `Connection.tla` the thread of
each end is assumed to go on while it can: its main loop dispatches, handlers
return, a reply that is owed is given in the end, and a client that is down is
dropped, which closes its streams. The last three are up to the program; without
them a call may wait for ever whatever the library does. In `Server.tla`, the
callback of `jsonrpc_server_foreach` returns.

## Proofs

The theorems hold for every value of the constants that satisfies the `ASSUME`s
of the module, which TLC evaluates in the runs. They say of the constants what
they are (sets of calls, natural numbers, sizes up to the limit) and no more.
The proofs of a module are laid out alike: the inductive invariant `Inv`, lemmas
about the operators that several actions use, one lemma for each action or group
of actions, `Invariance` (`Spec => []Inv`), and a theorem for each property that
a run checks. Where `TypeOK` of a module cannot be stated as the type that the
steps preserve, the invariant has a stronger type, and `TypeCorrect` follows.

Assumed everywhere, because the modules say so: callbacks and handlers are
actions that come between the steps of the code, and messages are not changed on
the way.

### The client (`ClientProofs.tla`)

For all sets of calls, of calls of the peer, of notifications and of ids.
Assumptions: `ParamlessAssumption`, `ReplyIdsAssumption`, `DisjointAssumption`.

`Inv` is a conjunction of four parts:

* `TypeOK`. Alone it is not inductive: `reads \in {0, 1}` needs that
  `start_listening` meets a client without a read (`Listening`).
* `ReadLoopInv`: `OneReadLoop`, `Listening`, and that a failed client has no
  streams; the last is what begin_next_read and start_listening test.
* `TasksInv`, in three parts. `IdInv`: calls in flight have different ids, not
  above `sequence`; without it a lookup might remove another call and
  `NoCallLost` is lost. `TableInv`: `NoCallLost`. `CallbackInv`:
  `NoDoubleReturn`, and at most one callback of a call runs, inside of the read
  loop or of the error idle; it is what makes the check of
  `g_task_get_completed` sufficient.
* `SignalInv`: `emissions` is 1 if `emittedFailed` and 0 otherwise.

From it follow `TypeCorrect`, `NoCallLostHolds`, `NoDoubleReturnHolds`,
`OneReadLoopHolds` and `FailedOnce` (the part of `DownIsSignalled` that is
safety); with `StaysDown` (a client that is down does not come back) and
`FailedReadsNoMore` the action property `DownIsFinalHolds`, and
`Implementation`: every step of the client is a step of `Calls.tla` or a
stutter, so that `KeepsPromise` holds.

### The output stream (`OutputStreamProofs.tla`)

For any number of messages (`MaxMessagesAssumption`). The parts of `Inv` take
the queue, the stack and the number of messages as parameters, because pump is
called in the middle of an action. Beside `TypeOK`, `SingleWriter` and
`NeverForgotten`:

* `StackInv`: only the frame that the main loop dispatched is more than a
  callback. This is why one `fail_pending` at most is under way, and why a write
  by a callback cannot get in between pump and its caller.
* `QueueInv`: the queue is increasing, and behind every write and all that is on
  the wire. `WireInOrder` is not inductive without it.
* `PlacesInv`: `InOnePlace`, with lists of `fail_pending` on the stack counted.
* `WireInv`: `WireInOrder`, and the wire is behind what is being written.
* `BarrierInv`: what waits was submitted after the last failure, unless
  `fail_pending` is still to come. This is the window of `FailureIsBarrier`.

`Inv` gives `TypeCorrect`, `SingleWriterHolds`, `NeverForgottenHolds`,
`InOnePlaceHolds` and `WireInOrderHolds`, the action property
`FailureIsBarrierHolds`, and `Implementation`: each step is one of
`WriteQueue.tla` or a stutter.

### The clients of the server (`ServerProofs.tla`)

For all sets of clients, and any number of panics and of
`jsonrpc_server_foreach` inside of each other (`MaxPanicsAssumption`,
`MaxForeachAssumption`). `Inv` is `TypeOK`, `TableIsCurrent`,
`ReferencesAreOwned`, that a disposed server has no clients, and

* `ClientInv`: the stages of a client, from its acceptance to its loss.
* `StackInv`: at most one handler of `::client-closed` runs for a client, and
  that client has been lost and is not yet left to `dummy_func`; the clients
  that a `foreach` has yet to visit are kept by a read or by an idle source, both
  of which only the main loop ends. `ReferencesAreOwned` needs the first,
  because the frame owns what the table gave up; `ForeachIsSafe` is the second.

Theorems: `TypeCorrect`, `ReferencesAreOwnedHolds`, `TableIsCurrentHolds`,
`ForeachIsSafeHolds`, and

* `NothingForgottenHolds`, the safety part of `LossIsAnnounced` and
  `LostIsFreed`: a lost client that was not announced has an idle source that
  will do it, and one that is not freed has a read or an idle source that holds
  it when the main loop has its turn. So no client leaks, provided that sources
  are dispatched and reads end, which is what the fairness says.
* `Implementation`: each step is one of `ServerClients.tla` or a stutter. It
  rests on `FreedLast`, which follows from `Inv`: a client that is open, in the
  table or left to an idle source has a reference, and one without was lost and,
  while the server is up, told of. The only steps that drop a last reference are
  then those of the main loop (`UnrefStep`): that of the table wanders to
  `dummy_func` (`ClosedReturnsImplements`), and disposal meets only clients that
  a read or an idle source holds as well (`DisposeImplements`).

### A connection (`ConnectionProofs.tla`)

For any number of calls, any choice of which are synchronous, refused, or
answered by a handler that returns FALSE, any ends that close, pipes of any
capacity, any encodings at the start (`MaxCallsAssumption`, `SortsAssumption`, `ClosersAssumption`,
`CapacityAssumption`, `StartsAssumption`).

* `TypeInv`, `FlowInv`: what an end has queued, and what is in the pipe it writes
  to, are calls of its own, and answers to calls of the other end, of either
  kind, in the encoding they were made in. Ids are the same at both ends, so this
  is what makes looking up by the id alone right.
* `GotInv`: an answer was given to the call with its id, and the code of an error
  was read if and only if it came as JSON. Which of two answers a call is given
  is left to `KindInv` below.
* `OneHandler`: a handler runs only while no read is outstanding, so there is at
  most one at an end, however many main loops are inside of each other.
* `OrderInv`: no call is missing before one that was served, is in a pipe or in a
  queue. A call that was made earlier was served, or is in front of it; a step
  that takes the first of a pipe then takes the next call.

Theorems: `TypeCorrect`, `HandledInOrderHolds`.

`RemoteCallsProofs.tla` has the refinement, with more invariants (`PInv`).
`LineInv` is about all that is on its way from an end, the pipe followed by the
queue: a call there was made, is not yet handled and is not there twice, and an
answer is that of a handler. A write does not change this line, a read takes its
head, a failed write cuts its end off. `MadeInv`: the calls that were made are
those up to `sequence`. What follows needs to know why an end does not go on
(`WaitInv`):

* `LoopInv`: an end that is up and has no read outstanding is inside of a
  handler; the read loop is never lost. (A `begin_next_read` that is left out
  breaks the property here.)
* `RepliesInv`, `HandlingInv`: what a wait in `jsonrpc_client_reply` is about is
  a call of the other end, and a call that is being handled has its handler on
  the stack.
* `AnswerInv`: as long as both ends are up, the answer to a call that waits is on
  its way; with `LineInv` and `OrderInv` a call that was not handled is too.

A call may have two answers on the line, that of its handler and METHOD_NOT_FOUND
behind it. `KindInv` says that it is given the first: of the answers on the line
to a call that waits, the first is that of the handler (`FirstInv`), and a call
that was answered was given that one (`GivenInv`). It rests on `AnswerInv`: when
METHOD_NOT_FOUND is sent for a call that waits, its answer is on the line
already. With `GotInv`, `AnswersBelongHolds` follows; and `Implementation`: every
step is one of `RemoteCalls.tla` or a stutter. That calls are handled in order is
again `OrderInv`, that an answer is of the right kind `KindInv`.

The last section proves `NoOtherDeadlockHolds`: `NoOtherDeadlock` for any number
of calls, any depth of handlers and main loops inside of each other and pipes of any
capacity. Suppose that a call waits and that nobody can go on (`Unstuck`). An end
inside of a handler, and not of a `jsonrpc_client_call` there, is in
`jsonrpc_client_reply` with something queued (`StuckHandler`), so that the pipe
it writes to is full (`StuckWriter`); an end that has something to read and does
not read it is inside of a handler (`StuckReader`). The end of the call is up, or
the call would be failed, and so is the other one: had it gone down, the first
would read the end of the stream, or fail what it has queued. If one end has no
read outstanding, or something in its pipe, then it is in a reply, so the other
pipe is full, so the other end is in a reply, and the first pipe is full too:
`RepliesDeadlock`. If not, both ends read and nothing is on its way. But then
the call was handled, its handler is not on a stack, and has neither an answer
to give nor one on its way, against `HandlingInv` and `AnswerInv`.

`CanStep` spells out the guards because ENABLED is beyond TLAPS here. It is what
the fairness of `LiveSpec` asks of an end: a step of its thread, or an answer
its program owes.

### Framing (`FramingProofs.tla`)

For messages of any number, type and size up to the limit, and any headers of
another implementation (`SizeAssumption`, `MessagesAssumption`,
`VardictAssumption`, `ForeignAssumption`).

* `StreamInv`: for each end whose reads have not failed, the wire is, from the
  messages the end has received on, what its peer has written next, item by item
  (`Laid`), and the state of its read is what the lines it has read of the next
  message say (`ReaderAt`, `After`): the last length, the last type, whether a
  content type was among them. `ReceivedIsSent` alone says nothing about a
  message that is half read.
* `SeenInv`: `has_seen_gvariant` is set if and only if one of the messages
  received was in GVariant.
* `ReceivedIsSent`, `FollowsPeer`, and `FailsForAReason`: a read that failed did
  so over an invalid message, the next one, or because an end closed.

Theorems: `TypeCorrect` (which includes that no `Content-Length` above the limit
is taken over), `ReceivedIsSentHolds`, `FailsForAReasonHolds`,
`FollowsPeerHolds`, and

* `NoReadStuckHolds`, the safety part of `EveryMessageArrives`: an end that is up,
  whose reads have not failed and that has not received all that its peer wrote,
  has a step to take (`CanRead` spells out the guards). By `Laid`, the rest of the
  next message is on the wire if the peer has not gone: it is more than the lines
  that were read, and a whole body if they all were.
* `Implementation`: every step is one of `MessageStream.tla` or a stutter. A
  write is `Send` and the end of a body `Receive`, where `ReceivedIsSent` of the
  state reached says that it is the message awaited, and a type other than
  `"invalid"` (`VardictAssumption`) that it is a valid one. A read that fails is
  `Fail`, whose guard is `FailsForAReason` of the state reached. All else (lines,
  the start of a read, the choice of an encoding) is a stutter.

### Handlers (`HandlersProofs.tla`)

For any methods and any number of handlers (`MethodsAssumption`,
`MaxHandlersAssumption`). `Inv` is `TypeOK`, `DataLivesWhileRegistered`, and that
the array is sorted (`InOrder`), which neither property says and `bsearch` needs.

Theorems: `TypeCorrect`, `DataLivesWhileRegisteredHolds`, `DispatchIsExactHolds`
(the binary search finds a handler of a method if and only if there is one), and
`SortingSucceeds`: a sorted array with one more handler has a sorted
rearrangement, so that the `\E` over the results of the sort never blocks
`AddHandler`.

`Bsearch` is a recursive function. That its recursion has a solution, and that
the solution finds what it should, is an induction on the length of the range.
The induction theorems of the library take the formula as an operator, which the
provers cannot instantiate; `NaturalProofs.tla` derives from the library's
theorem on minimal elements that a set of natural numbers that is not empty has
a least element, and a bounded one a greatest. The proofs take the set of the
lengths at which the claim fails. `FramingProofs.tla` uses the greatest number
for the last header line of a kind.

### Only model-checked

* The liveness properties: `DownIsSignalled`, `EveryCallEnds` (of a client and of
  a connection), `CloseEndsReadLoop`, `WritesComplete`, `EveryMessageArrives`,
  `LossIsAnnounced`, `LostIsFreed`. They rest on fairness and ENABLED, which
  TLAPS does not reason about here. What is proved of them is the part that is
  safety, that nothing is waited for in vain: `NoCallLost`, `NeverForgotten`,
  `NoOtherDeadlock`, `NothingForgottenHolds`, `NoReadStuckHolds`, and that
  `::failed` is emitted only once.
* `Message.tla`: `ParsesWhatIsMeant` and `RoundTrip`. The functions of the code
  recurse on trees and thread a list of arguments through; the module declares
  RECURSIVE operators, for which TLAPS has no SMT backend.
* The runs that end in a violation, which need no proof.

## Assumptions, and what is not modelled

* Callbacks do not iterate the main loop, except through `jsonrpc_client_reply`
  in a handler of `::handle-call` (as `src/tests/test-server.c` does). The
  documentation calls mixing synchronous and asynchronous calls a programming
  error (`src/src/jsonrpc-client.c:46`). The synchronous functions are otherwise
  the asynchronous ones followed by iterations of the main loop.
* The program holds a reference on a client while it uses it (`Client.tla`), or
  none at all (`Server.tla`).
* `GTask`, `GMainContext`, `GSimpleIOStream`, `bsearch` and `GArray` are modelled
  as the code uses them; the definitions are marked external in `PROJECT.json`.
* Contents of messages, except for what decides where a message goes
  (`Client.tla`), its encoding (`Framing.tla`), its call and error code
  (`Connection.tla`), or its fields (`Message.tla`).
* In `Message.tla`: what the code gives no meaning to. `PUT_VARIANT` of something
  that is no dictionary (a warning, and a builder left open), `PUT_VARIANT`
  directly in an array or in place of a key (assertions, the latter in
  `src/src/jsonrpc-message.c:93`), `PUT_STRV` in an array, raw strings that begin
  with a parenthesis, parentheses that do not match.
* In `Framing.tla`: an `X-GVariant-Type` that is valid but indefinite, as "a*".
  `g_variant_type_string_is_valid` (`src/src/jsonrpc-input-stream.c:226`) lets it
  pass; what `g_variant_new_from_bytes` does with it is outside of the model.
* A destroy notify of the data of a handler that adds or removes handlers: the
  array is in the middle of a removal then.
* Callbacks of `jsonrpc_server_foreach` that iterate the main loop (as above): a
  client that fails meanwhile may be freed before its turn.
* Version macros; marshallers; build and binding files.

## Plan

Done, in this order: client, its proofs, output stream, framing, handlers,
server, messages, connection; then the proofs about handlers, server, output
stream, connection and framing; then the abstract specifications and what
implements them, with `RemoteCalls.tla`, `ServerClients.tla` and
`MessageStream.tla` the last; then that a connection has no deadlocks but the
two that are named.

Not done: proofs about `Message.tla`; its functions would have to be written
without RECURSIVE, and what they compute be proved by induction over trees. And
the fairness arguments that lead from `NoOtherDeadlock` to `EveryCallEnds`, and
from `NoReadStuckHolds` to `EveryMessageArrives`.
