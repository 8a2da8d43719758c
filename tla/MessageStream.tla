--------------------------- MODULE MessageStream ---------------------------
(***************************************************************************)
(* What JsonrpcOutputStream and JsonrpcInputStream promise together to the *)
(* programs at the two ends of a connection, without header lines, bodies, *)
(* encodings or what is on its way: an end receives the messages of the    *)
(* other one in the order in which they were sent, each once and as it was *)
(* sent.  Reading fails, for good, only at a message that is no message of *)
(* the protocol, or after one of the two ends closed.                      *)
(*                                                                         *)
(* Framing.tla implements this specification.                              *)
(***************************************************************************)
EXTENDS Naturals, Sequences

CONSTANT Ends           \* two of them

VARIABLES
    sent,               \* sent[e]: all messages that e sent
    invalid,            \* invalid[e]: the places in sent[e] of those that
                        \* are no messages of the protocol
    received,           \* received[e]: what e got from the other end
    failed,             \* ends a read of which failed
    gone                \* ends that closed

vars == <<sent, invalid, received, failed, gone>>

Other(e) == CHOOSE x \in Ends : x # e

\* The place of the message that e receives next.
Awaited(e) == Len(received[e]) + 1

Init ==
    /\ sent = [e \in Ends |-> <<>>]
    /\ invalid = [e \in Ends |-> {}]
    /\ received = [e \in Ends |-> <<>>]
    /\ failed = {}
    /\ gone = {}

\* A message is sent, any one (it is the last of sent'[e]).
Send(e) ==
    /\ e \notin gone
    /\ \E i \in 1..Len(sent'[e]) :
          sent' = [sent EXCEPT ![e] = Append(@, sent'[e][i])]
    /\ invalid' \in {invalid,
                     [invalid EXCEPT ![e] = @ \cup {Len(sent[e]) + 1}]}
    /\ UNCHANGED <<received, failed, gone>>

Receive(e) ==
    /\ e \notin failed
    /\ Awaited(e) \in 1..Len(sent[Other(e)]) \ invalid[Other(e)]
    /\ received' = [received EXCEPT ![e] = Append(@, sent[Other(e)][Awaited(e)])]
    /\ UNCHANGED <<sent, invalid, failed, gone>>

Fail(e) ==
    /\ e \notin failed
    /\ gone # {} \/ Awaited(e) \in invalid[Other(e)]
    /\ failed' = failed \cup {e}
    /\ UNCHANGED <<sent, invalid, received, gone>>

Close(e) ==
    /\ e \notin gone
    /\ gone' = gone \cup {e}
    /\ UNCHANGED <<sent, invalid, received, failed>>

Next == \E e \in Ends : Send(e) \/ Receive(e) \/ Fail(e) \/ Close(e)

Spec == Init /\ [][Next]_vars
=============================================================================
