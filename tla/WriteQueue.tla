----------------------------- MODULE WriteQueue -----------------------------
(***************************************************************************)
(* What JsonrpcOutputStream promises to a caller that writes messages:     *)
(* each message that is submitted ends once, sent whole or failed, and     *)
(* messages are sent in the order in which they were submitted.  No        *)
(* message is sent while an earlier one has not ended.                     *)
(*                                                                         *)
(* OutputStream.tla implements this specification.                         *)
(***************************************************************************)
EXTENDS Naturals

CONSTANT MaxMessages        \* messages are numbered as they are submitted

VARIABLE st                 \* st[m]: how far the message m has got

Messages == 1..MaxMessages

TypeOK == st \in [Messages -> {"none", "pending", "sent", "failed"}]

Init == st = [m \in Messages |-> "none"]

\* A closed stream fails a message, m or one that waits, when it is given m.
Submit(m) ==
    /\ st[m] = "none"
    /\ \A k \in 1..(m - 1) : st[k] # "none"
    /\ \/ st' = [st EXCEPT ![m] = "pending"]
       \/ \E k \in 1..m :
             /\ st[k] = "pending" \/ k = m
             /\ st' = [st EXCEPT ![m] = "pending", ![k] = "failed"]

Send(m) ==
    /\ st[m] = "pending"
    /\ \A k \in 1..(m - 1) : st[k] # "pending"
    /\ st' = [st EXCEPT ![m] = "sent"]

Fail(m) ==
    /\ st[m] = "pending"
    /\ st' = [st EXCEPT ![m] = "failed"]

Next == \E m \in Messages : Submit(m) \/ Send(m) \/ Fail(m)

Spec == Init /\ [][Next]_st
=============================================================================
