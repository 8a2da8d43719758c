------------------------------ MODULE Framing ------------------------------
(***************************************************************************)
(* Messages on the wire: jsonrpc_output_stream_create_bytes writes them    *)
(* (src/jsonrpc-output-stream.c), JsonrpcInputStream reads them            *)
(* (src/jsonrpc-input-stream.c), JsonrpcClient switches to GVariant when   *)
(* its peer does (src/jsonrpc-client.c).                                   *)
(*                                                                         *)
(* Two ends are connected; each writes to the other.  What is on its way   *)
(* is a sequence of items: a header line, the empty line, a byte of a      *)
(* body.  An end may also be another implementation, with headers of its   *)
(* own (ForeignHeaders), and it may vanish in the middle of a message.     *)
(* A body is the number of its message, once for each byte.                *)
(***************************************************************************)
EXTENDS Integers, Sequences, SequencesExt

CONSTANTS
    MaxSize,            \* max_size_bytes
    Sizes,              \* the sizes of the messages that are written
    MaxMessages,        \* bound: how many messages each end writes
    Types,              \* the types of messages, as GVariant
    Vardict,            \* a{sv}, the type assumed if none is given
    Choosers,           \* ends whose program sets use-gvariant
    Mortals,            \* ends that may close or vanish
    ForeignHeaders      \* ForeignHeaders[e]: header lines e writes if it is an
                        \* implementation of another kind

ASSUME SizeAssumption == MaxSize \in Nat \ {0} /\ Sizes \subseteq 1..MaxSize
ASSUME MessagesAssumption == MaxMessages \in [{"a", "b"} -> Nat]
ASSUME VardictAssumption ==
    Vardict \in Types /\ "json" \notin Types /\ "invalid" \notin Types

Ends == {"a", "b"}
Other(e) == CHOOSE x \in Ends : x # e

\* External: the header lines of the protocol; a type that is not valid is
\* "none", and a line that no reader knows is an "other" one.  Types that are
\* valid and indefinite ("a*") are accepted by the code as well: what
\* g_variant_new_from_bytes makes of one is not modelled, nor are such lines.
HeaderLine ==
    [kind : {"length"}, value : Int]
    \cup [kind : {"content-type"}, value : {"gvariant"}]
    \cup [kind : {"type"}, value : Types \cup {"none"}]
    \cup [kind : {"other"}, value : {"none"}]

ASSUME ForeignAssumption ==
    \A e \in Ends : ForeignHeaders[e] \subseteq Seq(HeaderLine)

VARIABLES
    \* Writing.
    useGvariant,        \* use-gvariant of the client and of its output stream
    wire,               \* wire[e]: written by e and not read by its peer
    gone,               \* ends that closed their side
    frames,             \* frames[e]: history, the messages e has written
    \* Reading: ReadState, of the task of read_message_async.
    phase,              \* what the read of e waits for
    contentLength, gvariant, gvariantType,
    \* Reading: the streams and what the program gets.
    hasSeenGvariant,
    received,           \* received[e]: messages read by e, in order
    choice              \* choice[e]: what the program last asked for

writeVars == <<wire, gone, frames>>
stateVars == <<contentLength, gvariant, gvariantType>>
modeVars == <<useGvariant, hasSeenGvariant, choice>>

vars == <<writeVars, phase, stateVars, modeVars, received>>

Length(n) == [kind |-> "length", value |-> n]
TypeGvariant == [kind |-> "content-type", value |-> "gvariant"]
GvariantType(t) == [kind |-> "type", value |-> t]
EmptyLine == [kind |-> "end", value |-> "none"]
Byte(m) == [kind |-> "byte", value |-> m]

\* The number of a body that is not JSON, and of one that is no whole body.
Unparsable == 0
Mixed == -1

\* A message as the program of the other end gets it.
Message(m, as) == [msg |-> m, as |-> as]

TypeOK ==
    /\ useGvariant \in [Ends -> BOOLEAN]
    /\ \A e \in Ends : \A i \in 1..Len(wire[e]) :
          wire[e][i].kind \in {"length", "content-type", "type", "other",
                               "end", "byte"}
    /\ gone \subseteq Ends
    /\ \A e \in Ends : Len(frames[e]) <= MaxMessages[e]
    /\ phase \in [Ends -> {"idle", "headers", "body", "failed"}]
    /\ contentLength \in [Ends -> (-1)..MaxSize]
    /\ gvariant \in [Ends -> BOOLEAN]
    /\ gvariantType \in [Ends -> Types]
    /\ hasSeenGvariant \in [Ends -> BOOLEAN]
    /\ \A e \in Ends : \A i \in 1..Len(received[e]) :
          received[e][i].as \in Types \cup {"json"}
    /\ choice \in [Ends -> {"none", "json", "gvariant"}]

Init ==
    /\ useGvariant = [e \in Ends |-> FALSE]
    /\ wire = [e \in Ends |-> <<>>]
    /\ gone = {}
    /\ frames = [e \in Ends |-> <<>>]
    /\ phase = [e \in Ends |-> "idle"]
    /\ contentLength = [e \in Ends |-> -1]
    /\ gvariant = [e \in Ends |-> FALSE]
    /\ gvariantType = [e \in Ends |-> Vardict]
    /\ hasSeenGvariant = [e \in Ends |-> FALSE]
    /\ received = [e \in Ends |-> <<>>]
    /\ choice = [e \in Ends |-> "none"]

-----------------------------------------------------------------------------
(* Writing.                                                                *)

\* Faulty: the type of the message is left out.
HeadersUntyped(size, type, asGvariant) ==
    <<Length(size)>> \o (IF asGvariant THEN <<TypeGvariant>> ELSE <<>>)

\* The header lines of jsonrpc_output_stream_create_bytes.
Headers(size, type, asGvariant) ==
    <<Length(size)>>
    \o (IF asGvariant THEN <<TypeGvariant, GvariantType(type)>> ELSE <<>>)

\* The lines, an empty one and a body are written; message is history, what
\* the peer should make of them.
Write(e, lines, size, byte, message) ==
    LET Body == [i \in 1..size |-> byte] IN
    /\ e \notin gone
    /\ Len(frames[e]) < MaxMessages[e]
    /\ wire' = [wire EXCEPT ![e] = @ \o lines \o <<EmptyLine>> \o Body]
    /\ frames' = [frames EXCEPT ![e] = Append(@, message)]
    /\ UNCHANGED <<gone, phase, stateVars, modeVars, received>>

WriteMessage(e, size, type) ==
    LET m == Len(frames[e]) + 1 IN
    Write(e, Headers(size, type, useGvariant[e]), size, Byte(m),
          Message(m, IF useGvariant[e] THEN type ELSE "json"))

\* External: what header lines mean to the protocol, the last of each kind
\* being the one that counts.
LastOf(lines, kind) == SelectLastInSeq(lines, LAMBDA h : h.kind = kind)

ValidLines(lines) ==
    LET n == LastOf(lines, "length") IN
    /\ \A i \in 1..Len(lines) :
          /\ lines[i].kind = "length" => lines[i].value \in 0..MaxSize
          /\ lines[i].kind = "type" => lines[i].value \in Types
    /\ n # 0
    /\ lines[n].value > 0

Meaning(lines, parses) ==
    LET t == LastOf(lines, "type") IN
    CASE ~ValidLines(lines) -> "invalid"
      [] ValidLines(lines) /\ LastOf(lines, "content-type") = 0 ->
            IF parses THEN "json" ELSE "invalid"
      [] OTHER -> IF t = 0 THEN Vardict ELSE lines[t].value

\* External: another implementation writes; the body may not be JSON.
WriteForeign(e, lines, parses) ==
    LET m == Len(frames[e]) + 1
        n == LastOf(lines, "length")
        size == IF ValidLines(lines) THEN lines[n].value ELSE 0
    IN  /\ parses \/ ValidLines(lines)
        /\ Write(e, lines, size, IF parses THEN Byte(m) ELSE Byte(Unparsable),
                 Message(IF parses THEN m ELSE Unparsable,
                         Meaning(lines, parses)))

\* The end closes or vanishes; the last write may have been cut short.
Vanish(e) ==
    /\ e \notin gone
    /\ gone' = gone \cup {e}
    /\ \E n \in 0..Len(wire[e]) : wire' = [wire EXCEPT ![e] = SubSeq(@, 1, n)]
    /\ UNCHANGED <<frames, phase, stateVars, modeVars, received>>

SetUseGvariant(e, use) ==
    /\ useGvariant' = [useGvariant EXCEPT ![e] = use]
    /\ choice' = [choice EXCEPT ![e] = IF use THEN "gvariant" ELSE "json"]
    /\ UNCHANGED <<writeVars, phase, stateVars, hasSeenGvariant, received>>

-----------------------------------------------------------------------------
(* Reading.                                                                *)

\* Faulty: the state of the last message is used again.
FreshStateStale(e) == UNCHANGED stateVars

\* The ReadState of a new task.
FreshState(e) ==
    /\ contentLength' = [contentLength EXCEPT ![e] = -1]
    /\ gvariant' = [gvariant EXCEPT ![e] = FALSE]
    /\ gvariantType' = [gvariantType EXCEPT ![e] = Vardict]

\* Faulty: the read loop does not go on.
ReadMessageOnce(e) ==
    /\ phase[e] = "idle" /\ received[e] = <<>>
    /\ e \notin gone
    /\ phase' = [phase EXCEPT ![e] = "headers"]
    /\ FreshState(e)
    /\ UNCHANGED <<writeVars, modeVars, received>>

\* jsonrpc_input_stream_read_message_async, from the read loop.
ReadMessage(e) ==
    /\ phase[e] = "idle"
    /\ e \notin gone
    /\ phase' = [phase EXCEPT ![e] = "headers"]
    /\ FreshState(e)
    /\ UNCHANGED <<writeVars, modeVars, received>>

Arrived(e) == wire[Other(e)]

Take(e, n) ==
    wire' = [wire EXCEPT ![Other(e)] = SubSeq(@, n + 1, Len(@))]

\* read_message_finish of a read that failed: the client panics.
ReadFails(e) ==
    /\ phase' = [phase EXCEPT ![e] = "failed"]
    /\ hasSeenGvariant' = [hasSeenGvariant EXCEPT ![e] = @ \/ gvariant[e]]
    /\ UNCHANGED <<stateVars, useGvariant, choice, received>>

\* Faulty: max_size_bytes is not looked at.
LengthIsValidUnchecked(n) == n >= 0

\* The conditions on Content-Length.
LengthIsValid(n) == n >= 0 /\ n <= MaxSize

\* read_headers_cb with a line that is not empty, each kind in its turn.
LineIsRead(e, line) ==
    \/ /\ line.kind = "length" /\ LengthIsValid(line.value)
       /\ contentLength' = [contentLength EXCEPT ![e] = line.value]
       /\ UNCHANGED <<phase, gvariant, gvariantType, modeVars, received>>
    \/ /\ line.kind = "content-type"
       /\ gvariant' = [gvariant EXCEPT ![e] = TRUE]
       /\ UNCHANGED <<phase, contentLength, gvariantType, modeVars, received>>
    \/ /\ line.kind = "type" /\ line.value \in Types
       /\ gvariantType' = [gvariantType EXCEPT ![e] = line.value]
       /\ UNCHANGED <<phase, contentLength, gvariant, modeVars, received>>
    \/ /\ \/ line.kind = "length" /\ ~LengthIsValid(line.value)
          \/ line.kind = "type" /\ line.value \notin Types
       /\ ReadFails(e)
    \/ /\ line.kind \notin {"length", "content-type", "type"}
       /\ UNCHANGED <<phase, stateVars, modeVars, received>>

ReadLine(e) ==
    /\ phase[e] = "headers"
    /\ Arrived(e) # <<>> /\ Head(Arrived(e)) # EmptyLine
    /\ Take(e, 1)
    /\ LineIsRead(e, Head(Arrived(e)))
    /\ UNCHANGED <<gone, frames>>

\* Faulty: off by one.
HasBodyOffByOne(e) == contentLength[e] > 1

HasBody(e) == contentLength[e] > 0

ReadEmptyLine(e) ==
    /\ phase[e] = "headers"
    /\ Arrived(e) # <<>> /\ Head(Arrived(e)) = EmptyLine
    /\ Take(e, 1)
    /\ \/ HasBody(e)
          /\ phase' = [phase EXCEPT ![e] = "body"]
          /\ UNCHANGED <<stateVars, modeVars, received>>
       \/ ~HasBody(e) /\ ReadFails(e)
    /\ UNCHANGED <<gone, frames>>

\* The body as it is decoded: GVariant takes any bytes.
Decoded(e, body) ==
    LET m == body[1].value IN
    Message(IF \A i \in 1..Len(body) : body[i] = Byte(m) THEN m ELSE Mixed,
            IF gvariant[e] THEN gvariantType[e] ELSE "json")

\* Faulty: the output stream is not told.
UpgradeForgotten(e) == UNCHANGED useGvariant

\* call_read_cb: once GVariant was seen, any message switches to it.
Upgrade(e) ==
    useGvariant' = [useGvariant EXCEPT ![e] = @ \/ hasSeenGvariant'[e]]

\* read_body_cb, read_message_finish and the start of call_read_cb.
ReadBody(e) ==
    LET n == contentLength[e]
        message == Decoded(e, SubSeq(Arrived(e), 1, n))
    IN
    /\ phase[e] = "body"
    /\ Len(Arrived(e)) >= n
    /\ Take(e, n)
    /\ \/ /\ gvariant[e] \/ message.msg # Unparsable
          /\ phase' = [phase EXCEPT ![e] = "idle"]
          /\ hasSeenGvariant' = [hasSeenGvariant EXCEPT ![e] = @ \/ gvariant[e]]
          /\ received' = [received EXCEPT ![e] = Append(@, message)]
          /\ Upgrade(e)
          /\ UNCHANGED <<stateVars, choice>>
       \/ /\ ~gvariant[e] /\ message.msg = Unparsable
          /\ ReadFails(e)
    /\ UNCHANGED <<gone, frames>>

\* Faulty: n_read is not compared with the content length.
BodyCutShortDelivered(e) ==
    /\ phase[e] = "body"
    /\ Len(Arrived(e)) < contentLength[e]
    /\ Take(e, Len(Arrived(e)))
    /\ phase' = [phase EXCEPT ![e] = "idle"]
    /\ received' = [received EXCEPT ![e] = Append(@, Message(Mixed, "json"))]
    /\ UNCHANGED <<stateVars, modeVars>>

\* The end of the stream before the end of a body.
BodyCutShort(e) ==
    /\ phase[e] = "body"
    /\ Len(Arrived(e)) < contentLength[e]
    /\ Take(e, Len(Arrived(e)))
    /\ ReadFails(e)

\* The peer is gone and there is no whole line or no whole body any more.  A
\* line that is cut short is read as a line; it is the last one.
ReadEnd(e) ==
    /\ Other(e) \in gone
    /\ \/ BodyCutShort(e)
       \/ /\ phase[e] = "headers" /\ Arrived(e) = <<>>
          /\ UNCHANGED wire
          /\ ReadFails(e)
    /\ UNCHANGED <<gone, frames>>

\* The read is cancelled when its own end closes (jsonrpc_client_close).
ReadCancelled(e) ==
    /\ e \in gone
    /\ phase[e] \in {"headers", "body"}
    /\ ReadFails(e)
    /\ UNCHANGED writeVars

-----------------------------------------------------------------------------
Next ==
    \E e \in Ends :
        \/ \E size \in Sizes, type \in Types : WriteMessage(e, size, type)
        \/ \E lines \in ForeignHeaders[e], parses \in BOOLEAN :
              WriteForeign(e, lines, parses)
        \/ e \in Mortals /\ Vanish(e)
        \/ \E use \in BOOLEAN : e \in Choosers /\ SetUseGvariant(e, use)
        \/ ReadMessage(e)
        \/ ReadLine(e)
        \/ ReadEmptyLine(e)
        \/ ReadBody(e)
        \/ ReadEnd(e)
        \/ ReadCancelled(e)

Spec == Init /\ [][Next]_vars

(***************************************************************************)
(* The main loop dispatches what has arrived.  Nobody has to write.        *)
(***************************************************************************)
Fairness ==
    \A e \in Ends :
        /\ WF_vars(ReadMessage(e))
        /\ WF_vars(ReadLine(e))
        /\ WF_vars(ReadEmptyLine(e))
        /\ WF_vars(ReadBody(e))
        /\ WF_vars(ReadEnd(e))
        /\ WF_vars(ReadCancelled(e))

LiveSpec == Spec /\ Fairness

-----------------------------------------------------------------------------
(* Properties.                                                             *)

\* What an end receives is what the other one wrote, in its order, each body
\* decoded as it was encoded: the headers of one message never apply to
\* another one, the switch to GVariant never hits a message that was written
\* before it, and no message is delivered that was cut short.
ReceivedIsSent ==
    \A e \in Ends :
        \A i \in 1..Len(received[e]) :
            /\ i <= Len(frames[Other(e)])
            /\ received[e][i] = frames[Other(e)][i]

\* An end that received GVariant writes GVariant, unless its program chose
\* JSON, and one that did not writes JSON, unless its program chose GVariant.
FollowsPeer ==
    \A e \in Ends :
        LET Seen == \E i \in 1..Len(received[e]) : received[e][i].as # "json" IN
        /\ Seen /\ choice[e] # "json" => useGvariant[e]
        /\ ~Seen /\ choice[e] # "gvariant" => ~useGvariant[e]

Promise == INSTANCE MessageStream WITH
    sent <- frames,
    invalid <- [e \in Ends |->
                   {i \in 1..Len(frames[e]) : frames[e][i].as = "invalid"}],
    failed <- {e \in Ends : phase[e] = "failed"}

\* The streams keep the promise of MessageStream.tla: messages are received
\* one by one in their order, none after a failure, and a read fails only at
\* a message that is invalid or once an end closed; JsonrpcOutputStream
\* writes nothing JsonrpcInputStream refuses.
KeepsPromise == Promise!Spec

\* Every message arrives, unless the read fails (for a reason).
EveryMessageArrives ==
    \A e \in Ends : \A i \in 1..MaxMessages[Other(e)] :
        Len(frames[Other(e)]) >= i ~>
            (Len(received[e]) >= i \/ phase[e] = "failed" \/ e \in gone)
=============================================================================
