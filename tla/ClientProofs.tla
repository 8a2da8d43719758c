---------------------------- MODULE ClientProofs ----------------------------
(***************************************************************************)
(* Proofs about Client.tla, for every set of calls, peer calls,            *)
(* notifications and ids.                                                  *)
(***************************************************************************)
EXTENDS Client, TLAPS

-----------------------------------------------------------------------------
(* Type correctness.  It needs a fact of the read loop: start_listening    *)
(* adds a read to none.                                                    *)

Listening == isFirstCall => reads = 0 /\ readFrame = "none"

\* What the helpers of the code return, type by type.
LEMMA PanicType ==
    ASSUME TypeOK, Panic
    PROVE  /\ failed' \in BOOLEAN /\ streams' \in BOOLEAN
           /\ orphans' \subseteq Calls /\ invocations' \subseteq Calls
           /\ failedIdles' \in Nat
<1>1. failed' \in BOOLEAN /\ streams' \in BOOLEAN
    BY DEF Panic
<1>2. orphans' \subseteq Calls /\ invocations' \subseteq Calls
    BY DEF Panic, CancelPending, TypeOK
<1>3. failedIdles' \in Nat
    BY DEF Panic, TypeOK
<1>. QED
    BY <1>1, <1>2, <1>3

\* start_listening starts at most one read, if none is outstanding.
LEMMA StartReadLoopType ==
    ASSUME TypeOK, Listening, StartReadLoop
    PROVE  isFirstCall' \in BOOLEAN /\ reads' \in {0, 1}
<1>1. isFirstCall' \in BOOLEAN
    BY DEF StartReadLoop
<1>2. reads' \in {0, 1}
    BY DEF StartReadLoop, Listening, TypeOK
<1>. QED
    BY <1>1, <1>2

\* begin_next_read leaves at most one read.
LEMMA BeginNextReadType ==
    ASSUME BeginNextRead
    PROVE  reads' \in {0, 1}
BY DEF BeginNextRead

\* g_task_return_* keeps the types of the tasks.
LEMMA ReturnTaskType ==
    ASSUME TypeOK, NEW c \in Calls,
           NEW o \in {"result", "error", "aborted"}, ReturnTask(c, o)
    PROVE  /\ call' \in [Calls -> {"unused", "refused", "waiting", "returned",
                                   "done"}]
           /\ idOf' \in [Calls -> Nat]
           /\ outcome' \in [Calls -> {"none", "result", "error", "aborted",
                                      "notconnected"}]
           /\ twice' \subseteq Calls
BY DEF ReturnTask, TypeOK

\* What a call of the peer may be answered with.
LEMMA ReplyMessages ==
    ASSUME NEW p \in PeerCalls
    PROVE  p \in Messages /\ NotFound(p) \in Messages
BY DEF Messages, NotFounds

\* A reply keeps the types of the outbox and of the calls of the peer.
LEMMA SendReplyType ==
    ASSUME TypeOK, NEW p \in PeerCalls, NEW m \in Messages, SendReply(p, m)
    PROVE  /\ outbox' \subseteq Messages
           /\ peer' \in [PeerCalls -> {"none", "asked", "replied",
                                       "unreplied", "ignored"}]
<1>1. outbox' \subseteq Messages
    BY DEF SendReply, TypeOK
<1>2. peer' \in [PeerCalls -> {"none", "asked", "replied", "unreplied",
                               "ignored"}]
    BY DEF SendReply, TypeOK
<1>. QED
    BY <1>1, <1>2

\* emit_failed_from_main keeps the types of what it counts.
LEMMA EmitFailedType ==
    ASSUME TypeOK, EmitFailed
    PROVE  emittedFailed' \in BOOLEAN /\ emissions' \in Nat
<1>1. emittedFailed' \in BOOLEAN
    BY DEF EmitFailed
<1>2. emissions' \in Nat
    BY DEF EmitFailed, TypeOK
<1>. QED
    BY <1>1, <1>2

\* Every step keeps the types, provided that a client that has not
\* started its read loop has no read.
LEMMA TypeStep == TypeOK /\ Listening /\ [Next]_vars => TypeOK'
<1>. SUFFICES ASSUME TypeOK, Listening, [Next]_vars PROVE TypeOK'
    OBVIOUS
<1>. USE DEF taskVars, stateVars, signalVars, tableVars, readVars, peerVars,
             shutVars
<1>1. ASSUME NEW c \in Calls, CallAccepted(c) PROVE TypeOK'
  <2>1. sequence' \in Nat /\ idOf' \in [Calls -> Nat]
    BY <1>1 DEF CallAccepted, TypeOK
  <2>2. /\ invocations' \subseteq Calls
        /\ call' \in [Calls -> {"unused", "refused", "waiting", "returned",
                                "done"}]
    BY <1>1 DEF CallAccepted, TypeOK
  <2>3. isFirstCall' \in BOOLEAN /\ reads' \in {0, 1}
    BY <1>1, StartReadLoopType DEF CallAccepted
  <2>4. outbox' \subseteq Messages
    BY <1>1 DEF CallAccepted, Messages, TypeOK
  <2>. QED
    BY <1>1, <2>1, <2>2, <2>3, <2>4 DEF CallAccepted, TypeOK
<1>2. ASSUME NEW c \in Calls, CallRefused(c) PROVE TypeOK'
    BY <1>2 DEF CallRefused, TypeOK
<1>3. CASE StartListening
    BY <1>3, StartReadLoopType DEF StartListening, TypeOK
<1>4. CASE Close
  <2>1. inputShut' \in BOOLEAN /\ outputShut' \in BOOLEAN
    BY <1>4 DEF Close
  <2>2. emittedFailed' \in BOOLEAN /\ emissions' \in Nat
    BY <1>4, EmitFailedType DEF Close
  <2>3. orphans' \subseteq Calls /\ invocations' \subseteq Calls
    BY <1>4 DEF Close, CancelPending, TypeOK
  <2>. QED
    BY <1>4, <2>1, <2>2, <2>3 DEF Close, Shutdown, TypeOK
<1>5. ASSUME NEW n \in Notes, SendNotification(n) PROVE TypeOK'
    BY <1>5 DEF SendNotification, Messages, TypeOK
<1>6. ASSUME NEW p \in PeerCalls, Reply(p) PROVE TypeOK'
    BY <1>6, ReplyMessages, SendReplyType DEF Reply, TypeOK
<1>7. ASSUME NEW p \in PeerCalls, SyncReply(p) PROVE TypeOK'
  <2>1. syncing' \subseteq PeerCalls
    BY <1>7 DEF SyncReply
  <2>. QED
    BY <1>7, <2>1, ReplyMessages, SendReplyType DEF SyncReply, TypeOK
<1>8. ASSUME NEW m \in Messages, WriteDone(m) PROVE TypeOK'
    BY <1>8 DEF WriteDone, TypeOK
<1>9. ASSUME NEW m \in Messages, WriteFails(m) PROVE TypeOK'
  <2>1. CASE Panic
    BY <1>9, <2>1, PanicType DEF WriteFails, TypeOK
  <2>2. CASE UNCHANGED <<failed, orphans, invocations, streams, failedIdles>>
    BY <1>9, <2>2 DEF WriteFails, TypeOK
  <2>. QED
    BY <1>9, <2>1, <2>2 DEF WriteFails
<1>10. CASE ReadBroken
    BY <1>10, PanicType DEF ReadBroken, TypeOK
<1>11. CASE ReadNotification
    BY <1>11 DEF ReadNotification, TypeOK
<1>12. ASSUME NEW n \in ReplyIds, NEW o \in {"result", "error"},
              ReadAnswer(n, o)
       PROVE  TypeOK'
    BY <1>12, ReturnTaskType DEF ReadAnswer, Known, TypeOK
<1>13. ASSUME NEW n \in ReplyIds, ReadUnknownResult(n) PROVE TypeOK'
    BY <1>13, PanicType DEF ReadUnknownResult, TypeOK
<1>14. ASSUME NEW n \in ReplyIds, ReadUnknownError(n) PROVE TypeOK'
    BY <1>14, BeginNextReadType DEF ReadUnknownError, TypeOK
<1>15. ASSUME NEW p \in PeerCalls, ReadCall(p) PROVE TypeOK'
    BY <1>15 DEF ReadCall, TypeOK
<1>16. ASSUME NEW p \in PeerCalls, ReadUnhandled(p) PROVE TypeOK'
    BY <1>16, BeginNextReadType DEF ReadUnhandled, TypeOK
<1>17. CASE ReadCancelledDone
  <2>1. CASE Panic
    BY <1>17, <2>1, PanicType DEF ReadCancelledDone, TypeOK
  <2>2. CASE UNCHANGED <<failed, orphans, invocations, streams, failedIdles>>
    BY <1>17, <2>2 DEF ReadCancelledDone, TypeOK
  <2>. QED
    BY <1>17, <2>1, <2>2 DEF ReadCancelledDone
<1>18. ASSUME NEW c \in Calls, CallbackReturns(c) PROVE TypeOK'
    BY <1>18, BeginNextReadType DEF CallbackReturns, TypeOK
<1>19. ASSUME NEW c \in Calls, RefusedCompletes(c) PROVE TypeOK'
    BY <1>19 DEF RefusedCompletes, TypeOK
<1>20. ASSUME NEW c \in Calls, ErrorNext(c) PROVE TypeOK'
    BY <1>20, ReturnTaskType DEF ErrorNext, FailOrphan, TypeOK
<1>21. CASE NotificationReturns
    BY <1>21, BeginNextReadType DEF NotificationReturns, TypeOK
<1>22. ASSUME NEW p \in PeerCalls, HandlerReturns(p) PROVE TypeOK'
  <2>1. /\ outbox' \subseteq Messages
        /\ peer' \in [PeerCalls -> {"none", "asked", "replied", "unreplied",
                                   "ignored"}]
    BY <1>22, ReplyMessages, SendReplyType DEF HandlerReturns, TypeOK, peerVars
  <2>. QED
    BY <1>22, <2>1, BeginNextReadType DEF HandlerReturns, TypeOK
<1>23. CASE ErrorIdle
    BY <1>23 DEF ErrorIdle, TypeOK
<1>24. CASE ErrorEnd
    BY ZenonT(30), <1>24 DEF ErrorEnd, TypeOK
<1>25. CASE FailedIdle
    BY <1>25, EmitFailedType DEF FailedIdle, TypeOK
<1>26. CASE UNCHANGED vars
    BY <1>26 DEF vars, TypeOK
<1>. QED
    BY <1>1, <1>2, <1>3, <1>4, <1>5, <1>6, <1>7, <1>8, <1>9, <1>10, <1>11,
       <1>12, <1>13, <1>14, <1>15, <1>16, <1>17, <1>18, <1>19, <1>20, <1>21,
       <1>22, <1>23, <1>24, <1>25, <1>26
    DEF Next, Program, Stream, MainLoop

-----------------------------------------------------------------------------
(* Going down.                                                             *)

\* No step takes back failed or in_shutdown or brings the streams back.
LEMMA NoWayBack ==
    [Next]_vars => /\ failed => failed'
                   /\ inShutdown => inShutdown'
                   /\ ~streams => ~streams'
<1>. SUFFICES ASSUME [Next]_vars
              PROVE  /\ failed => failed'
                     /\ inShutdown => inShutdown'
                     /\ ~streams => ~streams'
    OBVIOUS
<1>. USE DEF stateVars
<1>1. CASE Program
  <2>1. CASE Close
    BY <2>1 DEF Close, Shutdown
  <2>2. CASE ~Close
    BY <1>1, <2>2 DEF Program, CallAccepted, CallRefused, StartListening,
                      SendNotification, Reply, SyncReply
  <2>. QED
    BY <2>1, <2>2
<1>2. CASE Stream
    BY <1>2 DEF Stream, WriteDone, WriteFails, ReadBroken, ReadNotification,
                ReadAnswer, ReadUnknownResult, ReadUnknownError, ReadCall,
                ReadUnhandled, Panic
<1>3. CASE MainLoop
    BY <1>3 DEF MainLoop, ReadCancelledDone, CallbackReturns,
                RefusedCompletes, ErrorNext, NotificationReturns,
                HandlerReturns, ErrorIdle, ErrorEnd, FailedIdle, Panic
<1>4. CASE UNCHANGED vars
    BY <1>4 DEF vars
<1>. QED
    BY <1>1, <1>2, <1>3, <1>4 DEF Next

\* check_ready fails for ever once it failed.
COROLLARY StaysDown == [Next]_vars /\ ~Ready => ~Ready'
BY NoWayBack DEF Ready

-----------------------------------------------------------------------------
(* The read loop.                                                          *)

ReadLoopInv ==
    /\ Listening
    /\ OneReadLoop
    /\ failed => ~streams

\* A step that leaves the read loop alone.
LEMMA ReadLoopFrame ==
    ASSUME ReadLoopInv, [Next]_vars,
           UNCHANGED <<isFirstCall, reads, readFrame, handling>>,
           failed' => ~streams'
    PROVE  ReadLoopInv'
BY StaysDown DEF ReadLoopInv, Listening, OneReadLoop

\* Every step keeps what is known of the read loop.
LEMMA ReadLoopStep == TypeOK /\ ReadLoopInv /\ [Next]_vars => ReadLoopInv'
<1>. SUFFICES ASSUME TypeOK, ReadLoopInv, [Next]_vars PROVE ReadLoopInv'
    OBVIOUS
<1>. USE DEF taskVars, stateVars, signalVars, tableVars, readVars, peerVars,
             shutVars
<1>1. ASSUME NEW c \in Calls, CallAccepted(c) PROVE ReadLoopInv'
    BY <1>1 DEF CallAccepted, StartReadLoop, ReadLoopInv, Listening,
                OneReadLoop, Ready
<1>2. ASSUME NEW c \in Calls, CallRefused(c) PROVE ReadLoopInv'
    BY <1>2, ReadLoopFrame DEF CallRefused, ReadLoopInv
<1>3. CASE StartListening
    BY <1>3 DEF StartListening, StartReadLoop, ReadLoopInv, Listening,
                OneReadLoop, Ready
<1>4. CASE Close
    BY <1>4, ReadLoopFrame DEF Close, ReadLoopInv
<1>5. ASSUME NEW n \in Notes, SendNotification(n) PROVE ReadLoopInv'
    BY <1>5, ReadLoopFrame DEF SendNotification, ReadLoopInv
<1>6. ASSUME NEW p \in PeerCalls, Reply(p) PROVE ReadLoopInv'
    BY <1>6, ReadLoopFrame DEF Reply, ReadLoopInv
<1>7. ASSUME NEW p \in PeerCalls, SyncReply(p) PROVE ReadLoopInv'
    BY <1>7, ReadLoopFrame DEF SyncReply, ReadLoopInv
<1>8. ASSUME NEW m \in Messages, WriteDone(m) PROVE ReadLoopInv'
    BY <1>8, ReadLoopFrame DEF WriteDone, ReadLoopInv
<1>9. ASSUME NEW m \in Messages, WriteFails(m) PROVE ReadLoopInv'
    BY <1>9, ReadLoopFrame DEF WriteFails, Panic, ReadLoopInv
<1>10. ASSUME reads = 1, reads' = 0, UNCHANGED readFrame,
              UNCHANGED handling, UNCHANGED isFirstCall,
              ~Ready', failed' => ~streams'
       PROVE  ReadLoopInv'
    BY <1>10 DEF ReadLoopInv, Listening, OneReadLoop, Ready
<1>11. CASE ReadBroken
    BY <1>10, <1>11 DEF ReadBroken, ReadEnds, Panic, Ready
<1>12. CASE ReadNotification
    BY <1>12 DEF ReadNotification, ReadEnds, ReadLoopInv, Listening,
                 OneReadLoop
<1>13. ASSUME NEW n \in ReplyIds, NEW o \in {"result", "error"},
              ReadAnswer(n, o)
       PROVE  ReadLoopInv'
    BY <1>13 DEF ReadAnswer, ReadEnds, ReadLoopInv, Listening, OneReadLoop
<1>14. ASSUME NEW n \in ReplyIds, ReadUnknownResult(n) PROVE ReadLoopInv'
    BY <1>10, <1>14 DEF ReadUnknownResult, ReadEnds, Panic, Ready
<1>15. ASSUME NEW n \in ReplyIds, ReadUnknownError(n) PROVE ReadLoopInv'
    BY <1>15 DEF ReadUnknownError, ReadEnds, BeginNextRead, ReadLoopInv,
                 Listening, OneReadLoop, Ready
<1>16. ASSUME NEW p \in PeerCalls, ReadCall(p) PROVE ReadLoopInv'
    BY <1>16 DEF ReadCall, ReadEnds, ReadLoopInv, Listening, OneReadLoop
<1>17. ASSUME NEW p \in PeerCalls, ReadUnhandled(p) PROVE ReadLoopInv'
    BY <1>17 DEF ReadUnhandled, ReadEnds, BeginNextRead, ReadLoopInv,
                 Listening, OneReadLoop, Ready
<1>18. CASE ReadCancelledDone
  <2>1. CASE inShutdown
    BY <1>10, <1>18, <2>1 DEF ReadCancelledDone, ReadLoopInv, Ready
  <2>2. CASE ~inShutdown
    BY <1>10, <1>18, <2>2 DEF ReadCancelledDone, Panic, Ready
  <2>. QED
    BY <2>1, <2>2
<1>19. ASSUME NEW c \in Calls, CallbackReturns(c) PROVE ReadLoopInv'
  <2>1. CASE readFrame = "callback" /\ readFrame' = "none" /\ BeginNextRead
    BY <1>19, <2>1 DEF CallbackReturns, BeginNextRead, ReadLoopInv,
                       Listening, OneReadLoop, Ready
  <2>2. CASE UNCHANGED <<reads, readFrame>>
    BY <1>19, <2>2, ReadLoopFrame DEF CallbackReturns, ReadLoopInv
  <2>. QED
    BY <1>19, <2>1, <2>2 DEF CallbackReturns
<1>20. ASSUME NEW c \in Calls, RefusedCompletes(c) PROVE ReadLoopInv'
    BY <1>20, ReadLoopFrame DEF RefusedCompletes, ReadLoopInv
<1>21. ASSUME NEW c \in Calls, ErrorNext(c) PROVE ReadLoopInv'
    BY <1>21, ReadLoopFrame DEF ErrorNext, ReadLoopInv
<1>22. CASE NotificationReturns
    BY <1>22 DEF NotificationReturns, BeginNextRead, ReadLoopInv, Listening,
                 OneReadLoop, Ready
<1>23. ASSUME NEW p \in PeerCalls, HandlerReturns(p) PROVE ReadLoopInv'
    BY <1>23 DEF HandlerReturns, BeginNextRead, ReadLoopInv, Listening,
                 OneReadLoop, Ready
<1>24. CASE ErrorIdle
    BY <1>24, ReadLoopFrame DEF ErrorIdle, ReadLoopInv
<1>25. CASE ErrorEnd
    BY <1>25, ReadLoopFrame DEF ErrorEnd, ReadLoopInv
<1>26. CASE FailedIdle
    BY <1>26, ReadLoopFrame DEF FailedIdle, ReadLoopInv
<1>27. CASE UNCHANGED vars
    BY <1>27, ReadLoopFrame DEF vars, ReadLoopInv
<1>. QED
    BY <1>1, <1>2, <1>3, <1>4, <1>5, <1>6, <1>7, <1>8, <1>9, <1>11, <1>12,
       <1>13, <1>14, <1>15, <1>16, <1>17, <1>18, <1>19, <1>20, <1>21, <1>22,
       <1>23, <1>24, <1>25, <1>26, <1>27
    DEF Next, Program, Stream, MainLoop

-----------------------------------------------------------------------------
(* Calls, request ids and tables.                                          *)

\* Ids are given out once.
IdInv ==
    /\ \A c \in Calls : idOf[c] <= sequence
    /\ \A c \in Calls : call[c] \in {"waiting", "returned"} => idOf[c] # 0
    /\ \A c, d \in Calls : idOf[c] = idOf[d] /\ idOf[c] # 0 => c = d

\* What the table and the stolen tables hold.
TableInv ==
    /\ NoCallLost
    /\ orphans # {} => ~Ready
    /\ \A c \in invocations : call[c] \in {"waiting", "returned"}
    /\ \A c \in orphans : call[c] \in {"waiting", "returned", "done"}

\* At most one callback of a call runs, from the read loop or the error idle.
CallbackInv ==
    /\ NoDoubleReturn
    /\ \A c \in Calls :
          call[c] = "returned" => erroring \/ readFrame = "callback"
    /\ \A c, d \in Calls :
          call[c] = "returned" /\ call[d] = "returned" => c = d

TasksInv == IdInv /\ TableInv /\ CallbackInv

\* In the main loop no callback of a call is on the stack.
LEMMA LoopingMeansNoCallback ==
    ASSUME CallbackInv, Looping, NEW c \in Calls
    PROVE  call[c] # "returned"
BY DEF CallbackInv, Looping

\* Steps that leave the tasks, or the tasks and the tables, alone.
LEMMA IdFrame ==
    ASSUME IdInv, UNCHANGED <<call, idOf, sequence>>
    PROVE  IdInv'
BY DEF IdInv

\* A step that leaves the tasks, both tables and the state of the client
\* alone keeps what is known of the tables.
LEMMA TableFrame ==
    ASSUME TableInv,
           UNCHANGED <<call, invocations, orphans, failed, inShutdown, streams>>
    PROVE  TableInv'
BY DEF TableInv, NoCallLost, Ready

\* A step that leaves the tasks and the stack alone keeps what is known
\* of the callbacks that run.
LEMMA CallbackFrame ==
    ASSUME CallbackInv, UNCHANGED <<call, twice>>,
           \/ UNCHANGED <<erroring, readFrame>>
           \/ \A c \in Calls : call[c] # "returned"
    PROVE  CallbackInv'
BY DEF CallbackInv, NoDoubleReturn

\* Panic and close: what waited in the table waits in the stolen one.
LEMMA CancelPendingKeeps ==
    ASSUME TableInv, CancelPending, ~Ready', UNCHANGED call
    PROVE  TableInv'
BY DEF TableInv, CancelPending, NoCallLost

\* Panic keeps what is known of the tables.
LEMMA PanicKeeps ==
    ASSUME TableInv, Panic, UNCHANGED call
    PROVE  TableInv'
<1>1. ~Ready'
    BY DEF Panic, Ready
<1>. QED
    BY <1>1, CancelPendingKeeps DEF Panic

\* A task that waits is returned: by an answer or by the error idle.
LEMMA ReturnTaskKeepsIds ==
    ASSUME TypeOK, IdInv, NEW c \in Calls, NEW o, ReturnTask(c, o),
           call[c] = "waiting", UNCHANGED sequence
    PROVE  IdInv'
BY DEF IdInv, ReturnTask, TypeOK

\* A task that waits is returned once.
LEMMA ReturnTaskKeepsCallbacks ==
    ASSUME TypeOK, CallbackInv, NEW c \in Calls, NEW o, ReturnTask(c, o),
           call[c] = "waiting",
           \A d \in Calls : call[d] # "returned",
           erroring' \/ readFrame' = "callback"
    PROVE  CallbackInv'
BY DEF CallbackInv, NoDoubleReturn, ReturnTask, TypeOK

\* Every step keeps what is known of tasks, ids and tables.
LEMMA TasksStep == TypeOK /\ TasksInv /\ [Next]_vars => TasksInv'
<1>. SUFFICES ASSUME TypeOK, TasksInv, [Next]_vars PROVE TasksInv'
    OBVIOUS
<1>. IdInv /\ TableInv /\ CallbackInv
    BY DEF TasksInv
<1>. USE DEF taskVars, stateVars, signalVars, tableVars, readVars, peerVars,
             shutVars
<1>1. ASSUME NEW c \in Calls, CallAccepted(c) PROVE TasksInv'
  <2>1. IdInv'
    BY <1>1 DEF CallAccepted, IdInv, TypeOK
  <2>2. Ready /\ Ready'
    BY <1>1 DEF CallAccepted, Ready
  <2>3. Known(sequence + 1) = {}
    BY <1>1 DEF CallAccepted, Known, IdInv, TypeOK
  <2>4. orphans = {} /\ orphans' = {} /\ invocations' = invocations \cup {c}
    BY <1>1, <2>2, <2>3 DEF CallAccepted, TableInv
  <2>5. TableInv'
    BY <1>1, <2>2, <2>4
    DEF CallAccepted, TableInv, NoCallLost, TypeOK
  <2>6. CallbackInv'
    BY <1>1 DEF CallAccepted, CallbackInv, NoDoubleReturn, TypeOK
  <2>. QED
    BY <2>1, <2>5, <2>6 DEF TasksInv
<1>2. ASSUME NEW c \in Calls, CallRefused(c) PROVE TasksInv'
  <2>1. IdInv'
    BY <1>2 DEF CallRefused, IdInv, TypeOK
  <2>2. TableInv'
    BY <1>2 DEF CallRefused, TableInv, NoCallLost, Ready, TypeOK
  <2>3. CallbackInv'
    BY <1>2 DEF CallRefused, CallbackInv, NoDoubleReturn, TypeOK
  <2>. QED
    BY <2>1, <2>2, <2>3 DEF TasksInv
<1>3. CASE StartListening
    BY <1>3, IdFrame, TableFrame, CallbackFrame DEF StartListening, TasksInv
<1>4. CASE Close
  <2>1. ~Ready'
    BY <1>4 DEF Close, Shutdown, Ready
  <2>2. TableInv'
    BY <1>4, <2>1, CancelPendingKeeps DEF Close
  <2>. QED
    BY <1>4, <2>2, IdFrame, CallbackFrame DEF Close, TasksInv
<1>5. ASSUME NEW n \in Notes, SendNotification(n) PROVE TasksInv'
    BY <1>5, IdFrame, TableFrame, CallbackFrame DEF SendNotification, TasksInv
<1>6. ASSUME NEW p \in PeerCalls, Reply(p) PROVE TasksInv'
    BY <1>6, IdFrame, TableFrame, CallbackFrame DEF Reply, TasksInv
<1>7. ASSUME NEW p \in PeerCalls, SyncReply(p) PROVE TasksInv'
    BY <1>7, IdFrame, TableFrame, CallbackFrame DEF SyncReply, TasksInv
<1>8. ASSUME NEW m \in Messages, WriteDone(m) PROVE TasksInv'
    BY <1>8, IdFrame, TableFrame, CallbackFrame DEF WriteDone, TasksInv
<1>9. ASSUME NEW m \in Messages, WriteFails(m) PROVE TasksInv'
  <2>1. TableInv'
    <3>1. CASE Panic
        BY <1>9, <3>1, PanicKeeps DEF WriteFails
    <3>2. CASE UNCHANGED <<failed, orphans, invocations, streams, failedIdles>>
        BY <1>9, <3>2, TableFrame DEF WriteFails
    <3>. QED
        BY <1>9, <3>1, <3>2 DEF WriteFails
  <2>. QED
    BY <1>9, <2>1, IdFrame, CallbackFrame DEF WriteFails, TasksInv
<1>10. CASE ReadBroken
    BY <1>10, IdFrame, PanicKeeps, CallbackFrame DEF ReadBroken, TasksInv
<1>11. CASE ReadNotification
    BY <1>11, IdFrame, TableFrame, CallbackFrame, LoopingMeansNoCallback
    DEF ReadNotification, ReadEnds, TasksInv
<1>12. ASSUME NEW n \in ReplyIds, NEW o \in {"result", "error"},
              ReadAnswer(n, o)
       PROVE  TasksInv'
  <2>1. PICK c \in Known(n) : ReturnTask(c, o)
    BY <1>12 DEF ReadAnswer
  <2>2. c \in Calls /\ c \in invocations
    BY <2>1 DEF Known, TypeOK
  <2>3. \A d \in Calls : call[d] # "returned"
    BY <1>12, LoopingMeansNoCallback DEF ReadAnswer, ReadEnds
  <2>4. call[c] = "waiting"
    BY <2>2, <2>3 DEF TableInv
  <2>5. IdInv'
    BY <1>12, <2>1, <2>2, <2>4, ReturnTaskKeepsIds DEF ReadAnswer
  <2>6. TableInv'
    BY <1>12, <2>1, <2>2
    DEF ReadAnswer, ReturnTask, TableInv, NoCallLost, Ready,
        TypeOK
  <2>7. CallbackInv'
    BY <1>12, <2>1, <2>2, <2>3, <2>4, ReturnTaskKeepsCallbacks DEF ReadAnswer
  <2>. QED
    BY <2>5, <2>6, <2>7 DEF TasksInv
<1>13. ASSUME NEW n \in ReplyIds, ReadUnknownResult(n) PROVE TasksInv'
    BY <1>13, IdFrame, PanicKeeps, CallbackFrame
    DEF ReadUnknownResult, TasksInv
<1>14. ASSUME NEW n \in ReplyIds, ReadUnknownError(n) PROVE TasksInv'
    BY <1>14, IdFrame, TableFrame, CallbackFrame DEF ReadUnknownError, TasksInv
<1>15. ASSUME NEW p \in PeerCalls, ReadCall(p) PROVE TasksInv'
    BY <1>15, IdFrame, TableFrame, CallbackFrame, LoopingMeansNoCallback
    DEF ReadCall, ReadEnds, TasksInv
<1>16. ASSUME NEW p \in PeerCalls, ReadUnhandled(p) PROVE TasksInv'
    BY <1>16, IdFrame, TableFrame, CallbackFrame DEF ReadUnhandled, TasksInv
<1>17. CASE ReadCancelledDone
  <2>1. TableInv'
    <3>1. CASE inShutdown
        BY <1>17, <3>1, TableFrame DEF ReadCancelledDone
    <3>2. CASE ~inShutdown
        BY <1>17, <3>2, PanicKeeps DEF ReadCancelledDone
    <3>. QED
        BY <3>1, <3>2
  <2>. QED
    BY <1>17, <2>1, IdFrame, CallbackFrame DEF ReadCancelledDone, TasksInv
<1>18. ASSUME NEW c \in Calls, CallbackReturns(c) PROVE TasksInv'
  <2>1. IdInv'
    BY <1>18 DEF CallbackReturns, IdInv, TypeOK
  <2>2. \A d \in Known(idOf[c]) : d = c
    BY <1>18 DEF CallbackReturns, Known, IdInv, TypeOK
  <2>3. invocations' = invocations \ {c}
    BY <1>18, <2>2 DEF CallbackReturns, Known
  <2>4. TableInv'
    BY <1>18, <2>3
    DEF CallbackReturns, TableInv, NoCallLost, Ready, TypeOK
  <2>5. \A d \in Calls : call'[d] # "returned"
    BY <1>18 DEF CallbackReturns, CallbackInv, TypeOK
  <2>6. CallbackInv'
    BY <1>18, <2>5 DEF CallbackReturns, CallbackInv, NoDoubleReturn
  <2>. QED
    BY <2>1, <2>4, <2>6 DEF TasksInv
<1>19. ASSUME NEW c \in Calls, RefusedCompletes(c) PROVE TasksInv'
  <2>1. IdInv'
    BY <1>19 DEF RefusedCompletes, IdInv, TypeOK
  <2>2. TableInv'
    BY <1>19
    DEF RefusedCompletes, TableInv, NoCallLost, Ready, TypeOK
  <2>3. CallbackInv'
    BY <1>19 DEF RefusedCompletes, CallbackInv, NoDoubleReturn, TypeOK
  <2>. QED
    BY <2>1, <2>2, <2>3 DEF TasksInv
<1>20. ASSUME NEW c \in Calls, ErrorNext(c) PROVE TasksInv'
  <2>1. c \in orphans /\ ~Ready /\ ~Ready'
    BY <1>20 DEF ErrorNext, TableInv, Ready
  <2>2. CASE call[c] # "done" /\ ReturnTask(c, "aborted")
    <3>1. call[c] = "waiting"
        BY <1>20, <2>1, <2>2 DEF ErrorNext, TableInv
    <3>2. IdInv'
        BY <1>20, <2>2, <3>1, ReturnTaskKeepsIds DEF ErrorNext
    <3>3. TableInv'
        BY <1>20, <2>1, <2>2, <3>1
        DEF ErrorNext, ReturnTask, TableInv, NoCallLost, TypeOK
    <3>4. CallbackInv'
        BY <1>20, <2>2, <3>1, ReturnTaskKeepsCallbacks DEF ErrorNext
    <3>. QED
        BY <3>2, <3>3, <3>4 DEF TasksInv
  <2>3. CASE call[c] = "done" /\ UNCHANGED <<call, idOf, outcome, twice>>
    <3>1. TableInv'
        BY <1>20, <2>1, <2>3
        DEF ErrorNext, TableInv, NoCallLost
    <3>. QED
        BY <1>20, <2>3, <3>1, IdFrame, CallbackFrame DEF ErrorNext, TasksInv
  <2>. QED
    BY <1>20, <2>2, <2>3 DEF ErrorNext, FailOrphan
<1>21. CASE NotificationReturns
  <2>1. CallbackInv'
    BY <1>21 DEF NotificationReturns, CallbackInv, NoDoubleReturn
  <2>. QED
    BY <1>21, <2>1, IdFrame, TableFrame DEF NotificationReturns, TasksInv
<1>22. ASSUME NEW p \in PeerCalls, HandlerReturns(p) PROVE TasksInv'
  <2>1. CallbackInv'
    BY <1>22 DEF HandlerReturns, CallbackInv, NoDoubleReturn
  <2>. QED
    BY <1>22, <2>1, IdFrame, TableFrame DEF HandlerReturns, TasksInv
<1>23. CASE ErrorIdle
  <2>1. TableInv'
    BY <1>23, TableFrame DEF ErrorIdle
  <2>. QED
    BY <1>23, <2>1, IdFrame, CallbackFrame, LoopingMeansNoCallback
    DEF ErrorIdle, TasksInv
<1>24. CASE ErrorEnd
    BY <1>24, IdFrame, TableFrame, CallbackFrame DEF ErrorEnd, TasksInv
<1>25. CASE FailedIdle
    BY <1>25, IdFrame, TableFrame, CallbackFrame DEF FailedIdle, TasksInv
<1>26. CASE UNCHANGED vars
    BY <1>26, IdFrame, TableFrame, CallbackFrame DEF vars, TasksInv
<1>. QED
    BY <1>1, <1>2, <1>3, <1>4, <1>5, <1>6, <1>7, <1>8, <1>9, <1>10, <1>11,
       <1>12, <1>13, <1>14, <1>15, <1>16, <1>17, <1>18, <1>19, <1>20, <1>21,
       <1>22, <1>23, <1>24, <1>25, <1>26
    DEF Next, Program, Stream, MainLoop

-----------------------------------------------------------------------------
(* The signal ::failed.                                                    *)

SignalInv == emissions = IF emittedFailed THEN 1 ELSE 0

\* Every step keeps the count of emissions right.
LEMMA SignalStep == TypeOK /\ SignalInv /\ [Next]_vars => SignalInv'
<1>. SUFFICES ASSUME TypeOK, SignalInv, [Next]_vars PROVE SignalInv'
    OBVIOUS
<1>. USE DEF signalVars
<1>1. ASSUME UNCHANGED <<emittedFailed, emissions>> PROVE SignalInv'
    BY <1>1 DEF SignalInv
<1>2. ASSUME EmitFailed PROVE SignalInv'
    BY <1>2 DEF EmitFailed, SignalInv, TypeOK
<1>3. CASE Close
    BY <1>2, <1>3 DEF Close
<1>4. CASE FailedIdle
    BY <1>2, <1>4 DEF FailedIdle
<1>5. CASE Program /\ ~Close
    BY <1>1, <1>5
    DEF Program, CallAccepted, CallRefused, StartListening, SendNotification,
        Reply, SyncReply
<1>6. CASE Stream
    BY <1>1, <1>6
    DEF Stream, WriteDone, WriteFails, ReadBroken, ReadNotification,
        ReadAnswer, ReadUnknownResult, ReadUnknownError, ReadCall,
        ReadUnhandled
<1>7. CASE MainLoop /\ ~FailedIdle
    BY <1>1, <1>7
    DEF MainLoop, ReadCancelledDone, CallbackReturns, RefusedCompletes,
        ErrorNext, NotificationReturns, HandlerReturns, ErrorIdle, ErrorEnd
<1>8. CASE UNCHANGED vars
    BY <1>1, <1>8 DEF vars
<1>. QED
    BY <1>3, <1>4, <1>5, <1>6, <1>7, <1>8 DEF Next

-----------------------------------------------------------------------------
(* The inductive invariant and what follows from it.                       *)

Inv == TypeOK /\ ReadLoopInv /\ TasksInv /\ SignalInv

\* The inductive invariant holds initially.
LEMMA InitInv == Init => Inv
<1>. SUFFICES ASSUME Init PROVE Inv
    OBVIOUS
<1>1. TypeOK
    BY DEF Init, TypeOK
<1>2. ReadLoopInv
    BY DEF Init, ReadLoopInv, Listening, OneReadLoop
<1>3. TasksInv
    BY DEF Init, TasksInv, IdInv, TableInv, CallbackInv, NoCallLost, NoDoubleReturn
<1>4. SignalInv
    BY DEF Init, SignalInv
<1>. QED
    BY <1>1, <1>2, <1>3, <1>4 DEF Inv

\* The inductive invariant holds in every reachable state: the types, the
\* read loop, the tables and ids, the count of emissions of ::failed.
THEOREM Invariance == Spec => []Inv
<1>1. Inv /\ [Next]_vars => Inv'
    BY TypeStep, ReadLoopStep, TasksStep, SignalStep DEF Inv, ReadLoopInv
<1>. QED
    BY InitInv, <1>1, PTL DEF Spec

\* Type correctness; reads \in {0, 1} is not by construction, since both a
\* first call and start_listening start the read loop.
THEOREM TypeCorrect == Spec => []TypeOK
BY Invariance, PTL DEF Inv

\* A call in flight is always held by the table or, once the client is down,
\* by the error idle that will fail it, and the table is empty then.
THEOREM NoCallLostHolds == Spec => []NoCallLost
<1>1. Inv => NoCallLost
    BY DEF Inv, TasksInv, TableInv
<1>. QED
    BY <1>1, Invariance, PTL

\* The task of a call is never returned a second time.
THEOREM NoDoubleReturnHolds == Spec => []NoDoubleReturn
<1>1. Inv => NoDoubleReturn
    BY DEF Inv, TasksInv, CallbackInv
<1>. QED
    BY <1>1, Invariance, PTL

\* There is exactly one read loop, and handlers do not nest.
THEOREM OneReadLoopHolds == Spec => []OneReadLoop
<1>1. Inv => OneReadLoop
    BY DEF Inv, ReadLoopInv
<1>. QED
    BY <1>1, Invariance, PTL

\* ::failed is emitted at most once: the safety part of DownIsSignalled.
THEOREM FailedOnce == Spec => [](emissions <= 1)
<1>1. Inv => emissions <= 1
    BY DEF Inv, SignalInv
<1>. QED
    BY <1>1, Invariance, PTL

\* A client that failed starts no read, in any step.
LEMMA FailedReadsNoMore == Inv /\ [Next]_vars => (failed => reads' <= reads)
<1>. SUFFICES ASSUME Inv, [Next]_vars, failed PROVE reads' \in {0, reads}
    BY DEF Inv, TypeOK
<1>. USE DEF readVars
<1>1. ~streams /\ ~Ready
    BY DEF Inv, ReadLoopInv, Ready
<1>2. CASE Program
    BY <1>1, <1>2
    DEF Program, CallAccepted, CallRefused, StartListening, StartReadLoop,
        Close, SendNotification, Reply, SyncReply
<1>3. CASE Stream
    BY <1>1, <1>3
    DEF Stream, WriteDone, WriteFails, ReadBroken, ReadNotification,
        ReadAnswer, ReadUnknownResult, ReadUnknownError, ReadCall,
        ReadUnhandled, BeginNextRead
<1>4. CASE MainLoop
    BY <1>1, <1>4
    DEF MainLoop, ReadCancelledDone, CallbackReturns, RefusedCompletes,
        ErrorNext, NotificationReturns, HandlerReturns, ErrorIdle, ErrorEnd,
        FailedIdle, BeginNextRead
<1>5. CASE UNCHANGED vars
    BY <1>5 DEF vars
<1>. QED
    BY <1>2, <1>3, <1>4, <1>5 DEF Next

\* A client that is down stays down and sends nothing any more, and one
\* that failed reads no more.
THEOREM DownIsFinalHolds == Spec => DownIsFinal
<1>1. [Next]_vars => (~Ready => ~Ready' /\ outbox' \subseteq outbox)
  <2>. SUFFICES ASSUME [Next]_vars, ~Ready PROVE outbox' \subseteq outbox
    BY StaysDown
  <2>. USE DEF peerVars
  <2>1. CASE Program
    BY <2>1
    DEF Program, CallAccepted, CallRefused, StartListening, Close,
        SendNotification, Reply, SyncReply, SendReply
  <2>2. CASE Stream
    BY <2>2
    DEF Stream, WriteDone, WriteFails, ReadBroken, ReadNotification,
        ReadAnswer, ReadUnknownResult, ReadUnknownError, ReadCall,
        ReadUnhandled
  <2>3. CASE MainLoop
    BY <2>3
    DEF MainLoop, ReadCancelledDone, CallbackReturns, RefusedCompletes,
        ErrorNext, NotificationReturns, HandlerReturns, ErrorIdle, ErrorEnd,
        FailedIdle, SendReply
  <2>4. CASE UNCHANGED vars
    BY <2>4 DEF vars
  <2>. QED
    BY <2>1, <2>2, <2>3, <2>4 DEF Next
<1>. QED
    BY <1>1, FailedReadsNoMore, Invariance, PTL DEF Spec, DownIsFinal

-----------------------------------------------------------------------------
(* The client implements Calls.tla.                                        *)

\* Steps that change no stage of a call: the abstract client stutters, or
\* goes down.
LEMMA StageFrame ==
    ASSUME [Next]_vars, \A c \in Calls : Stage(c)' = Stage(c)
    PROVE  [Promise!Next]_(Promise!vars)
<1>1. [c \in Calls |-> Stage(c)]' = [c \in Calls |-> Stage(c)]
    OBVIOUS
<1>2. CASE Ready /\ ~Ready'
    BY <1>1, <1>2 DEF Promise!Next, Promise!GoDown
<1>3. CASE Ready' = Ready
    BY <1>1, <1>3 DEF Promise!vars
<1>4. Ready \in BOOLEAN /\ Ready' \in BOOLEAN
    BY DEF Ready
<1>. QED
    BY <1>2, <1>3, <1>4, StaysDown

\* A step that changes the stage of one call.
LEMMA StageOf ==
    ASSUME NEW c \in Calls, NEW s, Stage(c)' = s,
           \A d \in Calls \ {c} : Stage(d)' = Stage(d)
    PROVE  [d \in Calls |-> Stage(d)]' =
               [[d \in Calls |-> Stage(d)] EXCEPT ![c] = s]
OBVIOUS

LEMMA RefinementStep == Inv /\ [Next]_vars => [Promise!Next]_(Promise!vars)
<1>. SUFFICES ASSUME Inv, [Next]_vars PROVE [Promise!Next]_(Promise!vars)
    OBVIOUS
<1>. TypeOK /\ TasksInv /\ IdInv /\ TableInv /\ CallbackInv
    BY DEF Inv, TasksInv
<1>. USE DEF taskVars, stateVars, signalVars, tableVars, readVars, peerVars,
             shutVars
<1>1. ASSUME UNCHANGED <<call, outcome>>
      PROVE  [Promise!Next]_(Promise!vars)
    BY <1>1, StageFrame DEF Stage
<1>2. ASSUME NEW c \in Calls, CallAccepted(c) PROVE Promise!Next
  <2>1. Ready /\ Ready' = Ready
    BY <1>2 DEF CallAccepted, Ready
  <2>2. Stage(c) = "unused" /\ Stage(c)' = "waiting"
    <3>1. call[c] = "unused" /\ call'[c] = "waiting"
        BY <1>2 DEF CallAccepted, TypeOK
    <3>. QED
        BY <3>1 DEF Stage
  <2>3. \A d \in Calls \ {c} : Stage(d)' = Stage(d)
    BY <1>2 DEF CallAccepted, Stage, TypeOK
  <2>. QED
    BY <2>1, <2>2, <2>3, StageOf DEF Promise!Next, Promise!Accept
<1>3. ASSUME NEW c \in Calls, CallRefused(c) PROVE Promise!Next
  <2>1. ~Ready /\ Ready' = Ready
    BY <1>3 DEF CallRefused, Ready
  <2>2. Stage(c) = "unused" /\ Stage(c)' = "refused"
    <3>1. call[c] = "unused" /\ call'[c] = "refused"
        BY <1>3 DEF CallRefused, TypeOK
    <3>. QED
        BY <3>1 DEF Stage
  <2>3. \A d \in Calls \ {c} : Stage(d)' = Stage(d)
    BY <1>3 DEF CallRefused, Stage, TypeOK
  <2>. QED
    BY <2>1, <2>2, <2>3, StageOf DEF Promise!Next, Promise!Refuse
<1>4. ASSUME NEW c \in Calls, NEW o \in {"result", "error", "aborted"},
             ReturnTask(c, o), call[c] = "waiting"
      PROVE  /\ Stage(c) = "waiting"
             /\ Stage(c)' = IF o = "aborted" THEN "aborted" ELSE "answered"
             /\ \A d \in Calls \ {c} : Stage(d)' = Stage(d)
  <2>1. call'[c] = "returned" /\ outcome'[c] = o
    BY <1>4 DEF ReturnTask, TypeOK
  <2>2. \A d \in Calls \ {c} : call'[d] = call[d] /\ outcome'[d] = outcome[d]
    BY <1>4 DEF ReturnTask, TypeOK
  <2>3. Stage(c) = "waiting"
    BY <1>4 DEF Stage
  <2>4. Stage(c)' = IF o = "aborted" THEN "aborted" ELSE "answered"
    BY <2>1 DEF Stage
  <2>. QED
    BY <2>2, <2>3, <2>4 DEF Stage
<1>5. ASSUME NEW n \in ReplyIds, NEW o \in {"result", "error"},
             ReadAnswer(n, o)
      PROVE  Promise!Next
  <2>1. PICK c \in Known(n) : ReturnTask(c, o)
    BY <1>5 DEF ReadAnswer
  <2>2. c \in Calls /\ c \in invocations
    BY <2>1 DEF Known, TypeOK
  <2>3. Ready /\ Ready' = Ready
    BY <1>5, <2>2 DEF ReadAnswer, TableInv, NoCallLost, Ready
  <2>4. call[c] = "waiting"
    BY <1>5, <2>2, LoopingMeansNoCallback DEF ReadAnswer, ReadEnds, TableInv
  <2>. QED
    BY <1>4, <2>1, <2>2, <2>3, <2>4, StageOf DEF Promise!Next, Promise!Answer
<1>6. ASSUME NEW c \in Calls, ErrorNext(c)
      PROVE  [Promise!Next]_(Promise!vars)
  <2>1. CASE UNCHANGED <<call, idOf, outcome, twice>>
    BY <1>1, <2>1
  <2>2. CASE call[c] # "done" /\ ReturnTask(c, "aborted")
    <3>1. ~Ready /\ Ready' = Ready /\ call[c] = "waiting"
        BY <1>6, <2>2 DEF ErrorNext, TableInv, Ready
    <3>. QED
        BY <1>4, <2>2, <3>1, StageOf DEF Promise!Next, Promise!Abort
  <2>. QED
    BY <1>6, <2>1, <2>2 DEF ErrorNext, FailOrphan
<1>7. ASSUME NEW c \in Calls, CallbackReturns(c)
      PROVE  [Promise!Next]_(Promise!vars)
    BY <1>7, StageFrame DEF CallbackReturns, Stage, TypeOK
<1>8. ASSUME NEW c \in Calls, RefusedCompletes(c)
      PROVE  [Promise!Next]_(Promise!vars)
  <2>1. /\ call[c] = "refused"
        /\ call'[c] = "done" /\ outcome'[c] = "notconnected"
    BY <1>8 DEF RefusedCompletes, TypeOK
  <2>2. \A d \in Calls \ {c} : call'[d] = call[d] /\ outcome'[d] = outcome[d]
    BY <1>8 DEF RefusedCompletes, TypeOK
  <2>3. Stage(c) = "refused" /\ Stage(c)' = "refused"
    BY <2>1 DEF Stage
  <2>4. \A d \in Calls : Stage(d)' = Stage(d)
    BY <2>2, <2>3 DEF Stage
  <2>. QED
    BY <2>4, StageFrame
<1>9. CASE Program /\ ~\E c \in Calls : CallAccepted(c) \/ CallRefused(c)
    BY <1>1, <1>9
    DEF Program, StartListening, Close, SendNotification, Reply, SyncReply
<1>10. CASE Stream
  <2>1. CASE \A n \in ReplyIds, o \in {"result", "error"} : ~ReadAnswer(n, o)
    BY <1>1, <1>10, <2>1
    DEF Stream, WriteDone, WriteFails, ReadBroken, ReadNotification,
        ReadUnknownResult, ReadUnknownError, ReadCall, ReadUnhandled
  <2>. QED
    BY <1>5, <2>1
<1>11. ASSUME \/ ReadCancelledDone \/ NotificationReturns \/ ErrorIdle
              \/ ErrorEnd \/ FailedIdle \/ UNCHANGED vars
              \/ \E p \in PeerCalls : HandlerReturns(p)
       PROVE  [Promise!Next]_(Promise!vars)
    BY <1>1, <1>11
    DEF ReadCancelledDone, NotificationReturns, ErrorIdle, ErrorEnd,
        FailedIdle, HandlerReturns, vars
<1>. QED
    BY <1>2, <1>3, <1>6, <1>7, <1>8, <1>9, <1>10, <1>11 DEF Next, MainLoop, Program

LEMMA RefinementInit == Init => Promise!Init
<1>. SUFFICES ASSUME Init PROVE Promise!Init
    OBVIOUS
<1>1. Ready \in BOOLEAN
    BY DEF Ready
<1>2. \A c \in Calls : Stage(c) = "unused"
    BY DEF Init, Stage
<1>. QED
    BY <1>1, <1>2 DEF Promise!Init

\* The client implements the promise of Calls.tla: every step of the client
\* is a step of a call there, the step of going down, or no step.
THEOREM Implementation == Spec => KeepsPromise
BY RefinementInit, RefinementStep, Invariance, PTL
DEF Spec, KeepsPromise, Promise!Spec
=============================================================================
