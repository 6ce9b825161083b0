---------------------------- MODULE TransferProofs ----------------------------
(***************************************************************************)
(* TransferSession for any set of files, any choice of calls and faults    *)
(* and any length of the route.  First the invariants: TypeOK, inductive   *)
(* as it stands, and one lemma per group of TransferInvariants, with one   *)
(* proof step per action.  Then what follows: SafetyInv is inductive, the  *)
(* safety properties are consequences, and TransferSession implements      *)
(* TransferContract.                                                       *)
(***************************************************************************)
EXTENDS TransferInvariants, FiniteSetTheorems, TLAPS

\* Every variable has its type before the transfer is asked for.
LEMMA TypeInit == Init => TypeOK
<1> SUFFICES ASSUME Init PROVE TypeOK
  OBVIOUS
<1>1. JobTypeOK
  BY DEF Init, JobInit, JobTypeOK
<1>2. StreamTypeOK
  BY DEF Init, StreamInit, StreamTypeOK, Message, Result, Reset
<1>3. StageTypeOK
  BY DEF Init, StageInit, StageTypeOK, Stage
<1>4. pc = [e \in Ends |-> "idle"]
  BY DEF Init, StreamInit
<1>. QED
  BY <1>1, <1>2, <1>3, <1>4 DEF TypeOK, SenderPC, ReceiverPC, Ends

\* Every step keeps the types.
LEMMA TypeStep ==
  ASSUME TypeOK, [Next]_vars
  PROVE  TypeOK'
<1> USE DEF TypeOK, JobTypeOK, StreamTypeOK, StageTypeOK, Stage, Message,
            Result, Reset, Ends, Terminal, Status, Leaving, SenderPC,
            ReceiverPC
<1>1. CASE CheckRunning \/ InsertPreparing
  <2>1. CASE CheckRunning
    BY <2>1 DEF CheckRunning, GoTo, SenderKeeps, streamVars
  <2>2. CASE InsertPreparing
    BY <2>2 DEF InsertPreparing, SetStatus, GoTo, SenderKeeps, streamVars
  <2> QED
    BY <1>1, <2>1, <2>2
<1>2. CASE RegisterSender
  BY <1>2 DEF RegisterSender, GoTo, SenderKeeps, streamVars
<1>3. CASE FilesPrepared
  BY <1>3 DEF FilesPrepared, CanTransition, SetStatus, GoTo, SenderAbort,
       SenderKeeps, streamVars, Allowed
<1>4. CASE SetupFails
  BY <1>4 DEF SetupFails, SenderAbort, SenderKeeps, streamVars, GoTo
<1>5. CASE ConnectPeer
  BY <1>5 DEF ConnectPeer, GoTo, SenderKeeps, streamVars
<1>6. CASE WriteOffer
  BY <1>6 DEF WriteOffer, Write, GoTo, SenderKeeps
<1>7. CASE AwaitApproval
  BY <1>7 DEF AwaitApproval, TransitionOrFail, SenderKeeps, streamVars,
       CanTransition, SetStatus, GoTo, Leave, Allowed
<1>8. CASE ReadAccept
  BY <1>8 DEF ReadAccept, Read, TransitionOrFail, SenderKeeps, Peer,
       CanTransition, SetStatus, GoTo, Leave, Allowed
<1>9. CASE ReadRefusal
  BY <1>9 DEF ReadRefusal, Read, TryTransition, Leave, SenderKeeps, Peer,
       SetStatus, CanTransition, GoTo, Allowed
<1>10. CASE StartTransfer
  BY <1>10 DEF StartTransfer, TransitionOrFail, SenderKeeps, streamVars,
       CanTransition, SetStatus, GoTo, Leave, Allowed
<1>11. CASE AllDelivered
  BY <1>11 DEF AllDelivered, ReadCompletion, GoTo, SenderKeeps, Read, Peer
<1>12. CASE FinishSending
  BY <1>12 DEF FinishSending, CanTransition, SetStatus, GoTo, SenderAbort,
       SenderKeeps, Allowed
<1>13. CASE SenderInterrupted
  BY <1>13 DEF SenderInterrupted, SenderGuarded, Interrupted, SenderExit,
       SenderKeeps, streamVars, HasStream, Leave, SenderAbort, GoTo
<1>14. CASE SenderBroken
  BY <1>14 DEF SenderBroken, WriteFails, Leave, ReadErrors, Overdue,
       SenderKeeps, streamVars, Peer, GoTo, Late, Gone
<1>15. CASE ResetSender
  BY <1>15 DEF ResetSender, Close, GoTo, SenderKeeps
<1>16. CASE SettleSender
  BY <1>16 DEF SettleSender, TryTransition, FailTransfer, GoTo, SenderKeeps,
       streamVars, SetStatus, CanTransition, Allowed
<1>17. CASE RemoveSender
  BY <1>17 DEF RemoveSender, DropJob, GoTo, streamVars
<1>18. CASE AcceptOffer
  <2>1. CASE GoTo("receiver", "offer") /\ UNCHANGED fin
    BY <1>18, <2>1 DEF AcceptOffer, HasStream, GoTo, ReceiverKeeps
  <2>2. CASE /\ \E how \in {"failed", "finished"} :
                fin' = [fin EXCEPT !["receiver"] = how]
            /\ GoTo("receiver", "ended")
            /\ UNCHANGED jobs
    BY <1>18, <2>2 DEF AcceptOffer, HasStream, GoTo, ReceiverKeeps
  <2>. QED  BY <1>18, <2>1, <2>2 DEF AcceptOffer
<1>19. CASE ReadOffer
  BY <1>19 DEF ReadOffer, Read, GoTo, ReceiverKeeps, Peer
<1>20. CASE PushIncoming
  BY <1>20 DEF PushIncoming, SetStatus, GoTo, ReceiverKeeps, streamVars
<1>21. CASE AcceptDecision
  BY <1>21 DEF AcceptDecision, Accepted, GoTo, TransitionOrFail,
       ReceiverKeeps, streamVars, Consent, CanTransition, SetStatus, Leave,
       Allowed
<1>22. CASE RefuseDecision
  BY <1>22 DEF RefuseDecision, GoTo, ReceiverKeeps, streamVars
<1>23. CASE WriteRefusal
  BY <1>23 DEF WriteRefusal, Write, GoTo, ReceiverKeeps
<1>24. CASE SettleRefusal
  BY <1>24 DEF SettleRefusal, Consent, DropJob, Leave, TryTransition,
       CanTransition, streamVars, GoTo, SetStatus, Allowed
<1>25. CASE WriteAccept
  BY <1>25 DEF WriteAccept, Write, GoTo, ReceiverKeeps
<1>26. CASE StartReceiving
  BY <1>26 DEF StartReceiving, TransitionOrFail, ReceiverKeeps, streamVars,
       CanTransition, SetStatus, GoTo, Leave, Allowed
<1>27. CASE AllReceived
  BY <1>27 DEF AllReceived, JoinAll, TransitionOrFail, ReceiverKeeps,
       streamVars, CanTransition, SetStatus, GoTo, Leave, Allowed
<1>28. CASE WriteCompletion
  BY <1>28 DEF WriteCompletion, Write, Leave, ReceiverKeeps, GoTo
<1>29. CASE ReceiverInterrupted
  BY <1>29 DEF ReceiverInterrupted, ReceiverGuarded, Interrupted, Leave,
       ReceiverKeeps, streamVars, GoTo
<1>30. CASE ReceiverBroken
  BY <1>30 DEF ReceiverBroken, ReadErrors, Leave, WriteFails, Overdue,
       Consent, ReceiverKeeps, streamVars, Peer, GoTo, Late, Gone
<1>31. CASE CleanupReceiver
  BY <1>31 DEF CleanupReceiver, DropJob, GoTo, streamVars
<1>32. CASE SettleReceiver
  BY <1>32 DEF SettleReceiver, TryTransition, FailTransfer, GoTo,
       ReceiverKeeps, streamVars, SetStatus, CanTransition, Allowed
<1>33. CASE ResetReceiver
  BY <1>33 DEF ResetReceiver, Close, GoTo, ReceiverKeeps
<1>34. ASSUME NEW f \in Files, OpenStream(f)
     PROVE  TypeOK'
  BY <1>34 DEF OpenStream, Count, Step, Advance, FileKeeps, taskVars,
       streamVars
<1>35. ASSUME NEW f \in Files, SendFile(f)
     PROVE  TypeOK'
  BY <1>35 DEF SendFile, Chunk, Ready, CanRecordProgress, Advance, taskVars,
       Leave, FileKeeps, GoTo, streamVars
<1>36. ASSUME NEW f \in Files, AckFile(f)
     PROVE  TypeOK'
  BY <1>36 DEF AckFile, Step, Advance, FileKeeps, taskVars, streamVars
<1>37. ASSUME NEW f \in Files, RouteStream(f)
     PROVE  TypeOK'
  BY <1>37 DEF RouteStream, Routed, RouteHasRoom, Step, Count, Advance,
       FileKeeps, taskVars, streamVars
<1>38. ASSUME NEW f \in Files, TakeStream(f)
     PROVE  TypeOK'
  BY <1>38 DEF TakeStream, Count, Step, Advance, FileKeeps, taskVars,
       streamVars
<1>39. ASSUME NEW f \in Files, ReadFile(f)
     PROVE  TypeOK'
  BY <1>39 DEF ReadFile, Chunk, Ready, CanRecordProgress, Advance, taskVars,
       Leave, FileKeeps, GoTo, streamVars
<1>40. ASSUME NEW f \in Files, StoreFile(f)
     PROVE  TypeOK'
  BY <1>40 DEF StoreFile, Step, Advance, FileKeeps, taskVars, streamVars
<1>41. ASSUME NEW f \in Files, StoreFails(f)
     PROVE  TypeOK'
  BY <1>41 DEF StoreFails, Gone, Step, Advance, FileKeeps, taskVars,
       streamVars
<1>42. ASSUME NEW f \in Files, RecordFile(f)
     PROVE  TypeOK'
  BY <1>42 DEF RecordFile, Step, Advance, FileKeeps, taskVars, streamVars
<1>43. ASSUME NEW f \in Files, AnswerFile(f)
     PROVE  TypeOK'
  BY <1>43 DEF AnswerFile, Step, Advance, FileKeeps, taskVars, streamVars
<1>44. CASE FileFails("sender")
  BY <1>44 DEF FileFails, Answered, Starved, Leave, FileKeeps, Late, Overdue,
       GoTo, streamVars, Gone, Peer, ReadErrors
<1>45. CASE FileFails("receiver")
  BY <1>45 DEF FileFails, Answered, Starved, Leave, FileKeeps, Late, Overdue,
       GoTo, streamVars, Gone, Peer, ReadErrors
<1>46. CASE UserAnswer
  <2>1. PICK d \in {"accept", "reject"} : RespondIncoming(d, Listening)
    BY <1>46 DEF UserAnswer
  <2>2. pending' \in BOOLEAN /\ decision' \in {d, decision}
    BY <2>1 DEF RespondIncoming, Answer
  <2>. QED
    BY <1>46, <2>1, <2>2 DEF UserAnswer, RespondIncoming, streamVars, taskVars
<1>47. ASSUME NEW e \in Ends, UserCall(e)
     PROVE  TypeOK'
  <2>1. UNCHANGED <<streamVars, taskVars, stage, status>>
    BY <1>47 DEF UserCall, Pause, Resume, Cancel, Shutdown
  <2>2. JobTypeOK'
    <3>1. CASE Pause(e)
      BY <3>1 DEF Pause
    <3>2. CASE Resume(e)
      BY <3>2 DEF Resume
    <3>3. CASE Cancel(e, Listening)
      BY <3>3 DEF Cancel, Answer, CancelJob
    <3>4. CASE Shutdown(e)
      BY <3>4 DEF Shutdown, CancelJob
    <3>. QED  BY <1>47, <3>1, <3>2, <3>3, <3>4 DEF UserCall
  <2>. QED  BY <2>1, <2>2 DEF streamVars, taskVars
<1>48. ASSUME NEW e \in Ends, CallReturns(e)
     PROVE  TypeOK'
  <2>1. status' \in [Ends -> Status \union {"Absent"}]
    BY <1>48 DEF CallReturns, FinishOp, TryTransition, SetStatus
  <2>2. op' \in [Ends -> {"none", "pause", "resume", "cancel"}]
    BY <1>48 DEF CallReturns, FinishOp
  <2>. QED
    BY <1>48, <2>1, <2>2 DEF CallReturns, FinishOp, streamVars, taskVars
<1>49. CASE LoseConnection
  BY <1>49 DEF LoseConnection, jobVars, taskVars
<1>50. CASE Finished \/ UNCHANGED vars
  BY <1>50 DEF Finished, vars, jobVars, streamVars, taskVars
<1>. QED
  BY <1>1, <1>2, <1>3, <1>4, <1>5, <1>6, <1>7, <1>8, <1>9, <1>10, <1>11,
       <1>12, <1>13, <1>14, <1>15, <1>16, <1>17, <1>18, <1>19, <1>20, <1>21,
       <1>22, <1>23, <1>24, <1>25, <1>26, <1>27, <1>28, <1>29, <1>30, <1>31,
       <1>32, <1>33, <1>34, <1>35, <1>36, <1>37, <1>38, <1>39, <1>40, <1>41,
       <1>42, <1>43, <1>44, <1>45, <1>46, <1>47, <1>48, <1>49, <1>50 DEF Next,
       SenderNext, ReceiverNext, SenderStep, ReceiverStep, SenderFileStep,
       ReceiverFileStep

(***************************************************************************)
(* Every status, task position, message and stage is one the code has: in  *)
(* particular the sender's task is only ever where quic.rs puts it and the *)
(* receiver's only where receiver.rs does, and a status is never lost.     *)
(***************************************************************************)
THEOREM TypeCorrect == Spec => []TypeOK
<1>1. TypeOK /\ [Next]_vars => TypeOK'
  BY TypeStep
<1>. QED
  BY TypeInit, <1>1, PTL DEF Spec


\* ExitInv is inductive: what the tasks have left to clean up.
LEMMA ExitStep ==
  ASSUME TypeOK, DeliveryInv, ExitInv, [Next]_vars
  PROVE  ExitInv'
<1> USE DEF TypeOK, JobTypeOK, StreamTypeOK, StageTypeOK, Stage, Message,
            Result, Reset, Ends, Terminal, Status, Leaving, SenderPC,
            ReceiverPC, DeliveryInv, ExitInv, ReceiverSettled
<1>1. CASE CheckRunning \/ InsertPreparing
  BY <1>1 DEF CheckRunning, InsertPreparing, SetStatus, GoTo, SenderKeeps, streamVars
<1>2. CASE RegisterSender
  BY <1>2 DEF RegisterSender, GoTo, SenderKeeps, streamVars
<1>3. CASE FilesPrepared
  BY <1>3 DEF FilesPrepared, CanTransition, SetStatus, GoTo, SenderAbort,
       SenderKeeps, streamVars, Allowed
<1>4. CASE SetupFails
  BY <1>4 DEF SetupFails, SenderAbort, SenderKeeps, streamVars, GoTo
<1>5. CASE ConnectPeer
  BY <1>5 DEF ConnectPeer, GoTo, SenderKeeps, streamVars
<1>6. CASE WriteOffer
  BY <1>6 DEF WriteOffer, Write, GoTo, SenderKeeps
<1>7. CASE AwaitApproval
  BY <1>7 DEF AwaitApproval, TransitionOrFail, SenderKeeps, streamVars,
       CanTransition, SetStatus, GoTo, Leave, Allowed
<1>8. CASE ReadAccept
  BY <1>8 DEF ReadAccept, Read, TransitionOrFail, SenderKeeps, Peer,
       CanTransition, SetStatus, GoTo, Leave, Allowed
<1>9. CASE ReadRefusal
  BY <1>9 DEF ReadRefusal, Read, TryTransition, Leave, SenderKeeps, Peer,
       SetStatus, CanTransition, GoTo, Allowed
<1>10. CASE StartTransfer
  BY <1>10 DEF StartTransfer, TransitionOrFail, SenderKeeps, streamVars,
       CanTransition, SetStatus, GoTo, Leave, Allowed
<1>11. CASE AllDelivered
  BY <1>11 DEF AllDelivered, ReadCompletion, GoTo, SenderKeeps, Read, Peer
<1>12. CASE FinishSending
  BY <1>12 DEF FinishSending, CanTransition, SetStatus, GoTo, SenderAbort,
       SenderKeeps, Allowed
<1>13. CASE SenderInterrupted
  BY <1>13 DEF SenderInterrupted, SenderGuarded, Interrupted, SenderExit,
       SenderKeeps, streamVars, HasStream, Leave, SenderAbort, GoTo
<1>14. CASE SenderBroken
  BY <1>14 DEF SenderBroken, WriteFails, Leave, ReadErrors, Overdue,
       SenderKeeps, streamVars, Peer, GoTo, Late, Gone
<1>15. CASE ResetSender
  BY <1>15 DEF ResetSender, Close, GoTo, SenderKeeps
<1>16. CASE SettleSender
  BY <1>16 DEF SettleSender, TryTransition, FailTransfer, GoTo, SenderKeeps,
       streamVars, SetStatus, CanTransition, Allowed
<1>17. CASE RemoveSender
  BY <1>17 DEF RemoveSender, DropJob, GoTo, streamVars
<1>18. CASE AcceptOffer
  BY <1>18 DEF AcceptOffer, HasStream, GoTo, ReceiverKeeps
<1>19. CASE ReadOffer
  BY <1>19 DEF ReadOffer, Read, GoTo, ReceiverKeeps, Peer
<1>20. CASE PushIncoming
  BY <1>20 DEF PushIncoming, SetStatus, GoTo, ReceiverKeeps, streamVars
<1>21. CASE AcceptDecision
  BY <1>21 DEF AcceptDecision, Accepted, GoTo, TransitionOrFail,
       ReceiverKeeps, streamVars, Consent, CanTransition, SetStatus, Leave,
       Allowed
<1>22. CASE RefuseDecision
  BY <1>22 DEF RefuseDecision, GoTo, ReceiverKeeps, streamVars
<1>23. CASE WriteRefusal
  BY <1>23 DEF WriteRefusal, Write, GoTo, ReceiverKeeps
<1>24. CASE SettleRefusal
  BY <1>24 DEF SettleRefusal, Consent, DropJob, Leave, TryTransition,
       CanTransition, streamVars, GoTo, SetStatus, Allowed
<1>25. CASE WriteAccept
  BY <1>25 DEF WriteAccept, Write, GoTo, ReceiverKeeps
<1>26. CASE StartReceiving
  BY <1>26 DEF StartReceiving, TransitionOrFail, ReceiverKeeps, streamVars,
       CanTransition, SetStatus, GoTo, Leave, Allowed
<1>27. CASE AllReceived
  BY <1>27 DEF AllReceived, JoinAll, TransitionOrFail, ReceiverKeeps,
       streamVars, CanTransition, SetStatus, GoTo, Leave, Allowed
<1>28. CASE WriteCompletion
  BY <1>28 DEF WriteCompletion, Write, Leave, ReceiverKeeps, GoTo
<1>29. CASE ReceiverInterrupted
  BY <1>29 DEF ReceiverInterrupted, ReceiverGuarded, Interrupted, Leave,
       ReceiverKeeps, streamVars, GoTo
<1>30. CASE ReceiverBroken
  BY <1>30 DEF ReceiverBroken, ReadErrors, Leave, WriteFails, Overdue,
       Consent, ReceiverKeeps, streamVars, Peer, GoTo, Late, Gone
<1>31. CASE CleanupReceiver
  BY <1>31 DEF CleanupReceiver, DropJob, GoTo, streamVars
<1>32. CASE SettleReceiver
  BY <1>32 DEF SettleReceiver, TryTransition, FailTransfer, GoTo,
       ReceiverKeeps, streamVars, SetStatus, CanTransition, Allowed
<1>33. CASE ResetReceiver
  BY <1>33 DEF ResetReceiver, Close, GoTo, ReceiverKeeps
<1>34. ASSUME NEW f \in Files, OpenStream(f)
     PROVE  ExitInv'
  BY <1>34 DEF OpenStream, Count, Step, Advance, FileKeeps, taskVars,
       streamVars
<1>35. ASSUME NEW f \in Files, SendFile(f)
     PROVE  ExitInv'
  BY <1>35 DEF SendFile, Chunk, Ready, CanRecordProgress, Advance, taskVars,
       Leave, FileKeeps, GoTo, streamVars
<1>36. ASSUME NEW f \in Files, AckFile(f)
     PROVE  ExitInv'
  BY <1>36 DEF AckFile, Step, Advance, FileKeeps, taskVars, streamVars
<1>37. ASSUME NEW f \in Files, RouteStream(f)
     PROVE  ExitInv'
  BY <1>37 DEF RouteStream, Routed, RouteHasRoom, Step, Count, Advance,
       FileKeeps, taskVars, streamVars
<1>38. ASSUME NEW f \in Files, TakeStream(f)
     PROVE  ExitInv'
  BY <1>38 DEF TakeStream, Count, Step, Advance, FileKeeps, taskVars,
       streamVars
<1>39. ASSUME NEW f \in Files, ReadFile(f)
     PROVE  ExitInv'
  BY <1>39 DEF ReadFile, Chunk, Ready, CanRecordProgress, Advance, taskVars,
       Leave, FileKeeps, GoTo, streamVars
<1>40. ASSUME NEW f \in Files, StoreFile(f)
     PROVE  ExitInv'
  BY <1>40 DEF StoreFile, Step, Advance, FileKeeps, taskVars, streamVars
<1>41. ASSUME NEW f \in Files, StoreFails(f)
     PROVE  ExitInv'
  BY <1>41 DEF StoreFails, Gone, Step, Advance, FileKeeps, taskVars,
       streamVars
<1>42. ASSUME NEW f \in Files, RecordFile(f)
     PROVE  ExitInv'
  BY <1>42 DEF RecordFile, Step, Advance, FileKeeps, taskVars, streamVars
<1>43. ASSUME NEW f \in Files, AnswerFile(f)
     PROVE  ExitInv'
  BY <1>43 DEF AnswerFile, Step, Advance, FileKeeps, taskVars, streamVars
<1>44. CASE FileFails("sender")
  BY <1>44 DEF FileFails, Answered, Starved, Leave, FileKeeps, Late, Overdue,
       GoTo, streamVars, Gone, Peer, ReadErrors
<1>45. CASE FileFails("receiver")
  BY <1>45 DEF FileFails, Answered, Starved, Leave, FileKeeps, Late, Overdue,
       GoTo, streamVars, Gone, Peer, ReadErrors
<1>46. CASE UserAnswer
  <2>1. PICK d \in {"accept", "reject"} : RespondIncoming(d, Listening)
    BY <1>46 DEF UserAnswer
  <2>. QED
    BY <1>46, <2>1
       DEF UserAnswer, RespondIncoming, Answer, streamVars, taskVars
<1>47. ASSUME NEW e \in Ends, UserCall(e)
     PROVE  ExitInv'
  BY <1>47 DEF UserCall, Pause, Resume, Cancel, Listening, Gone, Shutdown,
       streamVars, taskVars, Answer, CancelJob
<1>48. ASSUME NEW e \in Ends, CallReturns(e)
     PROVE  ExitInv'
  BY <1>48 DEF CallReturns, FinishOp, streamVars, taskVars, TryTransition,
       SetStatus, CanTransition, Allowed
<1>49. CASE LoseConnection
  BY <1>49 DEF LoseConnection, jobVars, taskVars
<1>50. CASE Finished \/ UNCHANGED vars
  BY <1>50 DEF Finished, vars, jobVars, streamVars, taskVars
<1>. QED
  BY <1>1, <1>2, <1>3, <1>4, <1>5, <1>6, <1>7, <1>8, <1>9, <1>10, <1>11,
       <1>12, <1>13, <1>14, <1>15, <1>16, <1>17, <1>18, <1>19, <1>20, <1>21,
       <1>22, <1>23, <1>24, <1>25, <1>26, <1>27, <1>28, <1>29, <1>30, <1>31,
       <1>32, <1>33, <1>34, <1>35, <1>36, <1>37, <1>38, <1>39, <1>40, <1>41,
       <1>42, <1>43, <1>44, <1>45, <1>46, <1>47, <1>48, <1>49, <1>50 DEF Next,
       SenderNext, ReceiverNext, SenderStep, ReceiverStep, SenderFileStep,
       ReceiverFileStep

\* DeliveryInv is inductive: what the ends know of the delivery.
LEMMA DeliveryStep ==
  ASSUME TypeOK, ExitInv, DeliveryInv, [Next]_vars
  PROVE  DeliveryInv'
<1> USE DEF TypeOK, JobTypeOK, StreamTypeOK, StageTypeOK, Stage, Message,
            Result, Reset, Ends, Terminal, Status, Leaving, SenderPC,
            ReceiverPC, ExitInv, DeliveryInv, Answered
<1>1. CASE CheckRunning \/ InsertPreparing
  BY <1>1 DEF CheckRunning, InsertPreparing, SetStatus, GoTo, SenderKeeps, streamVars
<1>2. CASE RegisterSender
  BY <1>2 DEF RegisterSender, GoTo, SenderKeeps, streamVars
<1>3. CASE FilesPrepared
  BY <1>3 DEF FilesPrepared, CanTransition, SetStatus, GoTo, SenderAbort,
       SenderKeeps, streamVars, Allowed
<1>4. CASE SetupFails
  BY <1>4 DEF SetupFails, SenderAbort, SenderKeeps, streamVars, GoTo
<1>5. CASE ConnectPeer
  BY <1>5 DEF ConnectPeer, GoTo, SenderKeeps, streamVars
<1>6. CASE WriteOffer
  BY <1>6 DEF WriteOffer, Write, GoTo, SenderKeeps
<1>7. CASE AwaitApproval
  BY <1>7 DEF AwaitApproval, TransitionOrFail, SenderKeeps, streamVars,
       CanTransition, SetStatus, GoTo, Leave, Allowed
<1>8. CASE ReadAccept
  BY <1>8 DEF ReadAccept, Read, TransitionOrFail, SenderKeeps, Peer,
       CanTransition, SetStatus, GoTo, Leave, Allowed
<1>9. CASE ReadRefusal
  BY <1>9 DEF ReadRefusal, Read, TryTransition, Leave, SenderKeeps, Peer,
       SetStatus, CanTransition, GoTo, Allowed
<1>10. CASE StartTransfer
  BY <1>10 DEF StartTransfer, TransitionOrFail, SenderKeeps, streamVars,
       CanTransition, SetStatus, GoTo, Leave, Allowed
<1>11. CASE AllDelivered
  BY <1>11 DEF AllDelivered, ReadCompletion, GoTo, SenderKeeps, Read, Peer
<1>12. CASE FinishSending
  BY <1>12 DEF FinishSending, CanTransition, SetStatus, GoTo, SenderAbort,
       SenderKeeps, Allowed
<1>13. CASE SenderInterrupted
  BY <1>13 DEF SenderInterrupted, SenderGuarded, Interrupted, SenderExit,
       SenderKeeps, streamVars, HasStream, Leave, SenderAbort, GoTo
<1>14. CASE SenderBroken
  BY <1>14 DEF SenderBroken, WriteFails, Leave, ReadErrors, Overdue,
       SenderKeeps, streamVars, Peer, GoTo, Late, Gone
<1>15. CASE ResetSender
  BY <1>15 DEF ResetSender, Close, GoTo, SenderKeeps
<1>16. CASE SettleSender
  BY <1>16 DEF SettleSender, TryTransition, FailTransfer, GoTo, SenderKeeps,
       streamVars, SetStatus, CanTransition, Allowed
<1>17. CASE RemoveSender
  BY <1>17 DEF RemoveSender, DropJob, GoTo, streamVars
<1>18. CASE AcceptOffer
  BY <1>18 DEF AcceptOffer, HasStream, GoTo, ReceiverKeeps
<1>19. CASE ReadOffer
  BY <1>19 DEF ReadOffer, Read, GoTo, ReceiverKeeps, Peer
<1>20. CASE PushIncoming
  BY <1>20 DEF PushIncoming, SetStatus, GoTo, ReceiverKeeps, streamVars
<1>21. CASE AcceptDecision
  BY <1>21 DEF AcceptDecision, Accepted, GoTo, TransitionOrFail,
       ReceiverKeeps, streamVars, Consent, CanTransition, SetStatus, Leave,
       Allowed
<1>22. CASE RefuseDecision
  BY <1>22 DEF RefuseDecision, GoTo, ReceiverKeeps, streamVars
<1>23. CASE WriteRefusal
  BY <1>23 DEF WriteRefusal, Write, GoTo, ReceiverKeeps
<1>24. CASE SettleRefusal
  BY <1>24 DEF SettleRefusal, Consent, DropJob, Leave, TryTransition,
       CanTransition, streamVars, GoTo, SetStatus, Allowed
<1>25. CASE WriteAccept
  BY <1>25 DEF WriteAccept, Write, GoTo, ReceiverKeeps
<1>26. CASE StartReceiving
  BY <1>26 DEF StartReceiving, TransitionOrFail, ReceiverKeeps, streamVars,
       CanTransition, SetStatus, GoTo, Leave, Allowed
<1>27. CASE AllReceived
  BY <1>27 DEF AllReceived, JoinAll, TransitionOrFail, ReceiverKeeps,
       streamVars, CanTransition, SetStatus, GoTo, Leave, Allowed
<1>28. CASE WriteCompletion
  BY <1>28 DEF WriteCompletion, Write, Leave, ReceiverKeeps, GoTo
<1>29. CASE ReceiverInterrupted
  BY <1>29 DEF ReceiverInterrupted, ReceiverGuarded, Interrupted, Leave,
       ReceiverKeeps, streamVars, GoTo
<1>30. CASE ReceiverBroken
  BY <1>30 DEF ReceiverBroken, ReadErrors, Leave, WriteFails, Overdue,
       Consent, ReceiverKeeps, streamVars, Peer, GoTo, Late, Gone
<1>31. CASE CleanupReceiver
  BY <1>31 DEF CleanupReceiver, DropJob, GoTo, streamVars
<1>32. CASE SettleReceiver
  BY <1>32 DEF SettleReceiver, TryTransition, FailTransfer, GoTo,
       ReceiverKeeps, streamVars, SetStatus, CanTransition, Allowed
<1>33. CASE ResetReceiver
  BY <1>33 DEF ResetReceiver, Close, GoTo, ReceiverKeeps
<1>34. ASSUME NEW f \in Files, OpenStream(f)
     PROVE  DeliveryInv'
  BY <1>34 DEF OpenStream, Count, Step, Advance, FileKeeps, taskVars,
       streamVars
<1>35. ASSUME NEW f \in Files, SendFile(f)
     PROVE  DeliveryInv'
  BY <1>35 DEF SendFile, Chunk, Ready, CanRecordProgress, Advance, taskVars,
       Leave, FileKeeps, GoTo, streamVars
<1>36. ASSUME NEW f \in Files, AckFile(f)
     PROVE  DeliveryInv'
  BY <1>36 DEF AckFile, Step, Advance, FileKeeps, taskVars, streamVars
<1>37. ASSUME NEW f \in Files, RouteStream(f)
     PROVE  DeliveryInv'
  BY <1>37 DEF RouteStream, Routed, RouteHasRoom, Step, Count, Advance,
       FileKeeps, taskVars, streamVars
<1>38. ASSUME NEW f \in Files, TakeStream(f)
     PROVE  DeliveryInv'
  BY <1>38 DEF TakeStream, Count, Step, Advance, FileKeeps, taskVars,
       streamVars
<1>39. ASSUME NEW f \in Files, ReadFile(f)
     PROVE  DeliveryInv'
  BY <1>39 DEF ReadFile, Chunk, Ready, CanRecordProgress, Advance, taskVars,
       Leave, FileKeeps, GoTo, streamVars
<1>40. ASSUME NEW f \in Files, StoreFile(f)
     PROVE  DeliveryInv'
  BY <1>40 DEF StoreFile, Step, Advance, FileKeeps, taskVars, streamVars
<1>41. ASSUME NEW f \in Files, StoreFails(f)
     PROVE  DeliveryInv'
  BY <1>41 DEF StoreFails, Gone, Step, Advance, FileKeeps, taskVars,
       streamVars
<1>42. ASSUME NEW f \in Files, RecordFile(f)
     PROVE  DeliveryInv'
  BY <1>42 DEF RecordFile, Step, Advance, FileKeeps, taskVars, streamVars
<1>43. ASSUME NEW f \in Files, AnswerFile(f)
     PROVE  DeliveryInv'
  BY <1>43 DEF AnswerFile, Step, Advance, FileKeeps, taskVars, streamVars
<1>44. CASE FileFails("sender")
  BY <1>44 DEF FileFails, Starved, Leave, FileKeeps, Late, Overdue, GoTo,
       streamVars, Gone, Peer, ReadErrors
<1>45. CASE FileFails("receiver")
  BY <1>45 DEF FileFails, Starved, Leave, FileKeeps, Late, Overdue, GoTo,
       streamVars, Gone, Peer, ReadErrors
<1>46. CASE UserAnswer
  <2>1. PICK d \in {"accept", "reject"} : RespondIncoming(d, Listening)
    BY <1>46 DEF UserAnswer
  <2>. QED
    BY <1>46, <2>1
       DEF UserAnswer, RespondIncoming, Answer, streamVars, taskVars
<1>47. ASSUME NEW e \in Ends, UserCall(e)
     PROVE  DeliveryInv'
  BY <1>47 DEF UserCall, Pause, Resume, Cancel, Listening, Gone, Shutdown,
       streamVars, taskVars, Answer, CancelJob
<1>48. ASSUME NEW e \in Ends, CallReturns(e)
     PROVE  DeliveryInv'
  BY <1>48 DEF CallReturns, FinishOp, streamVars, taskVars, TryTransition,
       SetStatus, CanTransition, Allowed
<1>49. CASE LoseConnection
  BY <1>49 DEF LoseConnection, jobVars, taskVars
<1>50. CASE Finished \/ UNCHANGED vars
  BY <1>50 DEF Finished, vars, jobVars, streamVars, taskVars
<1>. QED
  BY <1>1, <1>2, <1>3, <1>4, <1>5, <1>6, <1>7, <1>8, <1>9, <1>10, <1>11,
       <1>12, <1>13, <1>14, <1>15, <1>16, <1>17, <1>18, <1>19, <1>20, <1>21,
       <1>22, <1>23, <1>24, <1>25, <1>26, <1>27, <1>28, <1>29, <1>30, <1>31,
       <1>32, <1>33, <1>34, <1>35, <1>36, <1>37, <1>38, <1>39, <1>40, <1>41,
       <1>42, <1>43, <1>44, <1>45, <1>46, <1>47, <1>48, <1>49, <1>50 DEF Next,
       SenderNext, ReceiverNext, SenderStep, ReceiverStep, SenderFileStep,
       ReceiverFileStep

\* ConsentInv is inductive: nothing that needs the consent is ahead of it.
LEMMA ConsentStep ==
  ASSUME TypeOK, ExitInv, DeliveryInv, ConsentInv, [Next]_vars
  PROVE  ConsentInv'
<1> USE DEF TypeOK, JobTypeOK, StreamTypeOK, StageTypeOK, Stage, Message,
            Result, Reset, Ends, Terminal, Status, Leaving, SenderPC,
            ReceiverPC, ExitInv, DeliveryInv, ConsentInv, Consent,
            SenderGranted, ReceiverGranted, Listening
<1>1. CASE CheckRunning \/ InsertPreparing
  BY <1>1 DEF CheckRunning, InsertPreparing, SetStatus, GoTo, SenderKeeps, streamVars
<1>2. CASE RegisterSender
  BY <1>2 DEF RegisterSender, GoTo, SenderKeeps, streamVars
<1>3. CASE FilesPrepared
  BY <1>3 DEF FilesPrepared, CanTransition, SetStatus, GoTo, SenderAbort,
       SenderKeeps, streamVars, Allowed
<1>4. CASE SetupFails
  BY <1>4 DEF SetupFails, SenderAbort, SenderKeeps, streamVars, GoTo
<1>5. CASE ConnectPeer
  BY <1>5 DEF ConnectPeer, GoTo, SenderKeeps, streamVars
<1>6. CASE WriteOffer
  BY <1>6 DEF WriteOffer, Write, GoTo, SenderKeeps
<1>7. CASE AwaitApproval
  BY <1>7 DEF AwaitApproval, TransitionOrFail, SenderKeeps, streamVars,
       CanTransition, SetStatus, GoTo, Leave, Allowed
<1>8. CASE ReadAccept
  BY <1>8 DEF ReadAccept, Read, TransitionOrFail, SenderKeeps, Peer,
       CanTransition, SetStatus, GoTo, Leave, Allowed
<1>9. CASE ReadRefusal
  BY <1>9 DEF ReadRefusal, Read, TryTransition, Leave, SenderKeeps, Peer,
       SetStatus, CanTransition, GoTo, Allowed
<1>10. CASE StartTransfer
  BY <1>10 DEF StartTransfer, TransitionOrFail, SenderKeeps, streamVars,
       CanTransition, SetStatus, GoTo, Leave, Allowed
<1>11. CASE AllDelivered
  BY <1>11 DEF AllDelivered, ReadCompletion, GoTo, SenderKeeps, Read, Peer
<1>12. CASE FinishSending
  BY <1>12 DEF FinishSending, CanTransition, SetStatus, GoTo, SenderAbort,
       SenderKeeps, Allowed
<1>13. CASE SenderInterrupted
  BY <1>13 DEF SenderInterrupted, SenderGuarded, Interrupted, SenderExit,
       SenderKeeps, streamVars, HasStream, Leave, SenderAbort, GoTo
<1>14. CASE SenderBroken
  BY <1>14 DEF SenderBroken, WriteFails, Leave, ReadErrors, Overdue,
       SenderKeeps, streamVars, Peer, GoTo, Late, Gone
<1>15. CASE ResetSender
  BY <1>15 DEF ResetSender, Close, GoTo, SenderKeeps
<1>16. CASE SettleSender
  BY <1>16 DEF SettleSender, TryTransition, FailTransfer, GoTo, SenderKeeps,
       streamVars, SetStatus, CanTransition, Allowed
<1>17. CASE RemoveSender
  BY <1>17 DEF RemoveSender, DropJob, GoTo, streamVars
<1>18. CASE AcceptOffer
  BY <1>18 DEF AcceptOffer, HasStream, GoTo, ReceiverKeeps
<1>19. CASE ReadOffer
  BY <1>19 DEF ReadOffer, Read, GoTo, ReceiverKeeps, Peer
<1>20. CASE PushIncoming
  BY <1>20 DEF PushIncoming, SetStatus, GoTo, ReceiverKeeps, streamVars
<1>21. CASE AcceptDecision
  BY <1>21 DEF AcceptDecision, Accepted, GoTo, TransitionOrFail,
       ReceiverKeeps, streamVars, CanTransition, SetStatus, Leave, Allowed
<1>22. CASE RefuseDecision
  BY <1>22 DEF RefuseDecision, GoTo, ReceiverKeeps, streamVars
<1>23. CASE WriteRefusal
  BY <1>23 DEF WriteRefusal, Write, GoTo, ReceiverKeeps
<1>24. CASE SettleRefusal
  BY <1>24 DEF SettleRefusal, DropJob, Leave, TryTransition,
       CanTransition, streamVars, GoTo, SetStatus, Allowed
<1>25. CASE WriteAccept
  BY <1>25 DEF WriteAccept, Write, GoTo, ReceiverKeeps
<1>26. CASE StartReceiving
  BY <1>26 DEF StartReceiving, TransitionOrFail, ReceiverKeeps, streamVars,
       CanTransition, SetStatus, GoTo, Leave, Allowed
<1>27. CASE AllReceived
  BY <1>27 DEF AllReceived, JoinAll, TransitionOrFail, ReceiverKeeps,
       streamVars, CanTransition, SetStatus, GoTo, Leave, Allowed
<1>28. CASE WriteCompletion
  BY <1>28 DEF WriteCompletion, Write, Leave, ReceiverKeeps, GoTo
<1>29. CASE ReceiverInterrupted
  BY <1>29 DEF ReceiverInterrupted, ReceiverGuarded, Interrupted, Leave,
       ReceiverKeeps, streamVars, GoTo
<1>30. CASE ReceiverBroken
  BY <1>30 DEF ReceiverBroken, ReadErrors, Leave, WriteFails, Overdue,
       ReceiverKeeps, streamVars, Peer, GoTo, Late, Gone
<1>31. CASE CleanupReceiver
  BY <1>31 DEF CleanupReceiver, DropJob, GoTo, streamVars
<1>32. CASE SettleReceiver
  BY <1>32 DEF SettleReceiver, TryTransition, FailTransfer, GoTo,
       ReceiverKeeps, streamVars, SetStatus, CanTransition, Allowed
<1>33. CASE ResetReceiver
  BY <1>33 DEF ResetReceiver, Close, GoTo, ReceiverKeeps
<1>34. ASSUME NEW f \in Files, OpenStream(f)
     PROVE  ConsentInv'
  BY <1>34 DEF OpenStream, Count, Step, Advance, FileKeeps, taskVars,
       streamVars
<1>35. ASSUME NEW f \in Files, SendFile(f)
     PROVE  ConsentInv'
  BY <1>35 DEF SendFile, Chunk, Ready, CanRecordProgress, Advance, taskVars,
       Leave, FileKeeps, GoTo, streamVars
<1>36. ASSUME NEW f \in Files, AckFile(f)
     PROVE  ConsentInv'
  BY <1>36 DEF AckFile, Step, Advance, FileKeeps, taskVars, streamVars
<1>37. ASSUME NEW f \in Files, RouteStream(f)
     PROVE  ConsentInv'
  BY <1>37 DEF RouteStream, Routed, RouteHasRoom, Step, Count, Advance,
       FileKeeps, taskVars, streamVars
<1>38. ASSUME NEW f \in Files, TakeStream(f)
     PROVE  ConsentInv'
  BY <1>38 DEF TakeStream, Count, Step, Advance, FileKeeps, taskVars,
       streamVars
<1>39. ASSUME NEW f \in Files, ReadFile(f)
     PROVE  ConsentInv'
  BY <1>39 DEF ReadFile, Chunk, Ready, CanRecordProgress, Advance, taskVars,
       Leave, FileKeeps, GoTo, streamVars
<1>40. ASSUME NEW f \in Files, StoreFile(f)
     PROVE  ConsentInv'
  BY <1>40 DEF StoreFile, Step, Advance, FileKeeps, taskVars, streamVars
<1>41. ASSUME NEW f \in Files, StoreFails(f)
     PROVE  ConsentInv'
  BY <1>41 DEF StoreFails, Gone, Step, Advance, FileKeeps, taskVars,
       streamVars
<1>42. ASSUME NEW f \in Files, RecordFile(f)
     PROVE  ConsentInv'
  BY <1>42 DEF RecordFile, Step, Advance, FileKeeps, taskVars, streamVars
<1>43. ASSUME NEW f \in Files, AnswerFile(f)
     PROVE  ConsentInv'
  BY <1>43 DEF AnswerFile, Step, Advance, FileKeeps, taskVars, streamVars
<1>44. CASE FileFails("sender")
  BY <1>44 DEF FileFails, Answered, Starved, Leave, FileKeeps, Late, Overdue,
       GoTo, streamVars, Gone, Peer, ReadErrors
<1>45. CASE FileFails("receiver")
  BY <1>45 DEF FileFails, Answered, Starved, Leave, FileKeeps, Late, Overdue,
       GoTo, streamVars, Gone, Peer, ReadErrors
<1>46. CASE UserAnswer
  <2>1. PICK d \in {"accept", "reject"} : RespondIncoming(d, Listening)
    BY <1>46 DEF UserAnswer
  <2>. QED
    BY <1>46, <2>1
       DEF UserAnswer, RespondIncoming, Answer, streamVars, taskVars
<1>47. ASSUME NEW e \in Ends, UserCall(e)
     PROVE  ConsentInv'
  BY <1>47 DEF UserCall, Pause, Resume, Cancel, Gone, Shutdown, streamVars,
       taskVars, Answer, CancelJob
<1>48. ASSUME NEW e \in Ends, CallReturns(e)
     PROVE  ConsentInv'
  BY <1>48 DEF CallReturns, FinishOp, streamVars, taskVars, TryTransition,
       SetStatus, CanTransition, Allowed
<1>49. CASE LoseConnection
  BY <1>49 DEF LoseConnection, jobVars, taskVars
<1>50. CASE Finished \/ UNCHANGED vars
  BY <1>50 DEF Finished, vars, jobVars, streamVars, taskVars
<1>. QED
  BY <1>1, <1>2, <1>3, <1>4, <1>5, <1>6, <1>7, <1>8, <1>9, <1>10, <1>11,
       <1>12, <1>13, <1>14, <1>15, <1>16, <1>17, <1>18, <1>19, <1>20, <1>21,
       <1>22, <1>23, <1>24, <1>25, <1>26, <1>27, <1>28, <1>29, <1>30, <1>31,
       <1>32, <1>33, <1>34, <1>35, <1>36, <1>37, <1>38, <1>39, <1>40, <1>41,
       <1>42, <1>43, <1>44, <1>45, <1>46, <1>47, <1>48, <1>49, <1>50 DEF Next,
       SenderNext, ReceiverNext, SenderStep, ReceiverStep, SenderFileStep,
       ReceiverFileStep

\* RejectionInv is inductive: a rejection and a moved file exclude each
\* other.
LEMMA RejectionStep ==
  ASSUME TypeOK, ConsentInv, RejectionInv, ExitInv, [Next]_vars
  PROVE  RejectionInv'
<1> USE DEF TypeOK, JobTypeOK, StreamTypeOK, StageTypeOK, Stage, Message,
            Result, Reset, Ends, Terminal, Status, Leaving, SenderPC,
            ReceiverPC, ConsentInv, RejectionInv, ExitInv, Consent,
            SenderGranted, Gone, Listening
<1>1. CASE CheckRunning \/ InsertPreparing
  BY <1>1 DEF CheckRunning, InsertPreparing, SetStatus, GoTo, SenderKeeps, streamVars
<1>2. CASE RegisterSender
  BY <1>2 DEF RegisterSender, GoTo, SenderKeeps, streamVars
<1>3. CASE FilesPrepared
  BY <1>3 DEF FilesPrepared, CanTransition, SetStatus, GoTo, SenderAbort,
       SenderKeeps, streamVars, Allowed
<1>4. CASE SetupFails
  BY <1>4 DEF SetupFails, SenderAbort, SenderKeeps, streamVars, GoTo
<1>5. CASE ConnectPeer
  BY <1>5 DEF ConnectPeer, GoTo, SenderKeeps, streamVars
<1>6. CASE WriteOffer
  BY <1>6 DEF WriteOffer, Write, GoTo, SenderKeeps
<1>7. CASE AwaitApproval
  BY <1>7 DEF AwaitApproval, TransitionOrFail, SenderKeeps, streamVars,
       CanTransition, SetStatus, GoTo, Leave, Allowed
<1>8. CASE ReadAccept
  BY <1>8 DEF ReadAccept, Read, TransitionOrFail, SenderKeeps, Peer,
       CanTransition, SetStatus, GoTo, Leave, Allowed
<1>9. CASE ReadRefusal
  BY <1>9 DEF ReadRefusal, Read, TryTransition, Leave, SenderKeeps, Peer,
       SetStatus, CanTransition, GoTo, Allowed
<1>10. CASE StartTransfer
  BY <1>10 DEF StartTransfer, TransitionOrFail, SenderKeeps, streamVars,
       CanTransition, SetStatus, GoTo, Leave, Allowed
<1>11. CASE AllDelivered
  BY <1>11 DEF AllDelivered, ReadCompletion, GoTo, SenderKeeps, Read, Peer
<1>12. CASE FinishSending
  BY <1>12 DEF FinishSending, CanTransition, SetStatus, GoTo, SenderAbort,
       SenderKeeps, Allowed
<1>13. CASE SenderInterrupted
  BY <1>13 DEF SenderInterrupted, SenderGuarded, Interrupted, SenderExit,
       SenderKeeps, streamVars, HasStream, Leave, SenderAbort, GoTo
<1>14. CASE SenderBroken
  BY <1>14 DEF SenderBroken, WriteFails, Leave, ReadErrors, Overdue,
       SenderKeeps, streamVars, Peer, GoTo, Late
<1>15. CASE ResetSender
  BY <1>15 DEF ResetSender, Close, GoTo, SenderKeeps
<1>16. CASE SettleSender
  BY <1>16 DEF SettleSender, TryTransition, FailTransfer, GoTo, SenderKeeps,
       streamVars, SetStatus, CanTransition, Allowed
<1>17. CASE RemoveSender
  BY <1>17 DEF RemoveSender, DropJob, GoTo, streamVars
<1>18. CASE AcceptOffer
  BY <1>18 DEF AcceptOffer, HasStream, GoTo, ReceiverKeeps
<1>19. CASE ReadOffer
  BY <1>19 DEF ReadOffer, Read, GoTo, ReceiverKeeps, Peer
<1>20. CASE PushIncoming
  BY <1>20 DEF PushIncoming, SetStatus, GoTo, ReceiverKeeps, streamVars
<1>21. CASE AcceptDecision
  BY <1>21 DEF AcceptDecision, Accepted, GoTo, TransitionOrFail,
       ReceiverKeeps, streamVars, CanTransition, SetStatus, Leave, Allowed
<1>22. CASE RefuseDecision
  BY <1>22 DEF RefuseDecision, GoTo, ReceiverKeeps, streamVars
<1>23. CASE WriteRefusal
  BY <1>23 DEF WriteRefusal, Write, GoTo, ReceiverKeeps
<1>24. CASE SettleRefusal
  BY <1>24 DEF SettleRefusal, DropJob, Leave, TryTransition,
       CanTransition, streamVars, GoTo, SetStatus, Allowed
<1>25. CASE WriteAccept
  BY <1>25 DEF WriteAccept, Write, GoTo, ReceiverKeeps
<1>26. CASE StartReceiving
  BY <1>26 DEF StartReceiving, TransitionOrFail, ReceiverKeeps, streamVars,
       CanTransition, SetStatus, GoTo, Leave, Allowed
<1>27. CASE AllReceived
  BY <1>27 DEF AllReceived, JoinAll, TransitionOrFail, ReceiverKeeps,
       streamVars, CanTransition, SetStatus, GoTo, Leave, Allowed
<1>28. CASE WriteCompletion
  BY <1>28 DEF WriteCompletion, Write, Leave, ReceiverKeeps, GoTo
<1>29. CASE ReceiverInterrupted
  BY <1>29 DEF ReceiverInterrupted, ReceiverGuarded, Interrupted, Leave,
       ReceiverKeeps, streamVars, GoTo
<1>30. CASE ReceiverBroken
  BY <1>30 DEF ReceiverBroken, ReadErrors, Leave, WriteFails, Overdue,
       ReceiverKeeps, streamVars, Peer, GoTo, Late
<1>31. CASE CleanupReceiver
  BY <1>31 DEF CleanupReceiver, DropJob, GoTo, streamVars
<1>32. CASE SettleReceiver
  BY <1>32 DEF SettleReceiver, TryTransition, FailTransfer, GoTo,
       ReceiverKeeps, streamVars, SetStatus, CanTransition, Allowed
<1>33. CASE ResetReceiver
  BY <1>33 DEF ResetReceiver, Close, GoTo, ReceiverKeeps
<1>34. ASSUME NEW f \in Files, OpenStream(f)
     PROVE  RejectionInv'
  BY <1>34 DEF OpenStream, Count, Step, Advance, FileKeeps, taskVars,
       streamVars
<1>35. ASSUME NEW f \in Files, SendFile(f)
     PROVE  RejectionInv'
  BY <1>35 DEF SendFile, Chunk, Ready, CanRecordProgress, Advance, taskVars,
       Leave, FileKeeps, GoTo, streamVars
<1>36. ASSUME NEW f \in Files, AckFile(f)
     PROVE  RejectionInv'
  BY <1>36 DEF AckFile, Step, Advance, FileKeeps, taskVars, streamVars
<1>37. ASSUME NEW f \in Files, RouteStream(f)
     PROVE  RejectionInv'
  BY <1>37 DEF RouteStream, Routed, RouteHasRoom, Step, Count, Advance,
       FileKeeps, taskVars, streamVars
<1>38. ASSUME NEW f \in Files, TakeStream(f)
     PROVE  RejectionInv'
  BY <1>38 DEF TakeStream, Count, Step, Advance, FileKeeps, taskVars,
       streamVars
<1>39. ASSUME NEW f \in Files, ReadFile(f)
     PROVE  RejectionInv'
  BY <1>39 DEF ReadFile, Chunk, Ready, CanRecordProgress, Advance, taskVars,
       Leave, FileKeeps, GoTo, streamVars
<1>40. ASSUME NEW f \in Files, StoreFile(f)
     PROVE  RejectionInv'
  BY <1>40 DEF StoreFile, Step, Advance, FileKeeps, taskVars, streamVars
<1>41. ASSUME NEW f \in Files, StoreFails(f)
     PROVE  RejectionInv'
  BY <1>41 DEF StoreFails, Step, Advance, FileKeeps, taskVars, streamVars
<1>42. ASSUME NEW f \in Files, RecordFile(f)
     PROVE  RejectionInv'
  BY <1>42 DEF RecordFile, Step, Advance, FileKeeps, taskVars, streamVars
<1>43. ASSUME NEW f \in Files, AnswerFile(f)
     PROVE  RejectionInv'
  BY <1>43 DEF AnswerFile, Step, Advance, FileKeeps, taskVars, streamVars
<1>44. CASE FileFails("sender")
  BY <1>44 DEF FileFails, Answered, Starved, Leave, FileKeeps, Late, Overdue,
       GoTo, streamVars, Peer, ReadErrors
<1>45. CASE FileFails("receiver")
  BY <1>45 DEF FileFails, Answered, Starved, Leave, FileKeeps, Late, Overdue,
       GoTo, streamVars, Peer, ReadErrors
<1>46. CASE UserAnswer
  <2>1. PICK d \in {"accept", "reject"} : RespondIncoming(d, Listening)
    BY <1>46 DEF UserAnswer
  <2>. QED
    BY <1>46, <2>1
       DEF UserAnswer, RespondIncoming, Answer, streamVars, taskVars
<1>47. ASSUME NEW e \in Ends, UserCall(e)
     PROVE  RejectionInv'
  BY <1>47 DEF UserCall, Pause, Resume, Cancel, Shutdown, streamVars,
       taskVars, Answer, CancelJob
<1>48. ASSUME NEW e \in Ends, CallReturns(e)
     PROVE  RejectionInv'
  BY <1>48 DEF CallReturns, FinishOp, streamVars, taskVars, TryTransition,
       SetStatus, CanTransition, Allowed
<1>49. CASE LoseConnection
  BY <1>49 DEF LoseConnection, jobVars, taskVars
<1>50. CASE Finished \/ UNCHANGED vars
  BY <1>50 DEF Finished, vars, jobVars, streamVars, taskVars
<1>. QED
  BY <1>1, <1>2, <1>3, <1>4, <1>5, <1>6, <1>7, <1>8, <1>9, <1>10, <1>11,
       <1>12, <1>13, <1>14, <1>15, <1>16, <1>17, <1>18, <1>19, <1>20, <1>21,
       <1>22, <1>23, <1>24, <1>25, <1>26, <1>27, <1>28, <1>29, <1>30, <1>31,
       <1>32, <1>33, <1>34, <1>35, <1>36, <1>37, <1>38, <1>39, <1>40, <1>41,
       <1>42, <1>43, <1>44, <1>45, <1>46, <1>47, <1>48, <1>49, <1>50 DEF Next,
       SenderNext, ReceiverNext, SenderStep, ReceiverStep, SenderFileStep,
       ReceiverFileStep

\* GrantInv is inductive: the receiver has written its accept before the
\* sender acts on it.
LEMMA GrantStep ==
  ASSUME TypeOK, GrantInv, DeliveryInv, [Next]_vars
  PROVE  GrantInv'
<1> USE DEF TypeOK, JobTypeOK, StreamTypeOK, StageTypeOK, Stage, Message,
            Result, Reset, Ends, Terminal, Status, Leaving, SenderPC,
            ReceiverPC, GrantInv, DeliveryInv, SenderGranted, HasAccepted
<1>1. CASE CheckRunning \/ InsertPreparing
  BY <1>1 DEF CheckRunning, InsertPreparing, SetStatus, GoTo, SenderKeeps, streamVars
<1>2. CASE RegisterSender
  BY <1>2 DEF RegisterSender, GoTo, SenderKeeps, streamVars
<1>3. CASE FilesPrepared
  BY <1>3 DEF FilesPrepared, CanTransition, SetStatus, GoTo, SenderAbort,
       SenderKeeps, streamVars, Allowed
<1>4. CASE SetupFails
  BY <1>4 DEF SetupFails, SenderAbort, SenderKeeps, streamVars, GoTo
<1>5. CASE ConnectPeer
  BY <1>5 DEF ConnectPeer, GoTo, SenderKeeps, streamVars
<1>6. CASE WriteOffer
  BY <1>6 DEF WriteOffer, Write, GoTo, SenderKeeps
<1>7. CASE AwaitApproval
  BY <1>7 DEF AwaitApproval, TransitionOrFail, SenderKeeps, streamVars,
       CanTransition, SetStatus, GoTo, Leave, Allowed
<1>8. CASE ReadAccept
  BY <1>8 DEF ReadAccept, Read, TransitionOrFail, SenderKeeps, Peer,
       CanTransition, SetStatus, GoTo, Leave, Allowed
<1>9. CASE ReadRefusal
  BY <1>9 DEF ReadRefusal, Read, TryTransition, Leave, SenderKeeps, Peer,
       SetStatus, CanTransition, GoTo, Allowed
<1>10. CASE StartTransfer
  BY <1>10 DEF StartTransfer, TransitionOrFail, SenderKeeps, streamVars,
       CanTransition, SetStatus, GoTo, Leave, Allowed
<1>11. CASE AllDelivered
  BY <1>11 DEF AllDelivered, ReadCompletion, GoTo, SenderKeeps, Read, Peer
<1>12. CASE FinishSending
  BY <1>12 DEF FinishSending, CanTransition, SetStatus, GoTo, SenderAbort,
       SenderKeeps, Allowed
<1>13. CASE SenderInterrupted
  BY <1>13 DEF SenderInterrupted, SenderGuarded, Interrupted, SenderExit,
       SenderKeeps, streamVars, HasStream, Leave, SenderAbort, GoTo
<1>14. CASE SenderBroken
  BY <1>14 DEF SenderBroken, WriteFails, Leave, ReadErrors, Overdue,
       SenderKeeps, streamVars, Peer, GoTo, Late, Gone
<1>15. CASE ResetSender
  BY <1>15 DEF ResetSender, Close, GoTo, SenderKeeps
<1>16. CASE SettleSender
  BY <1>16 DEF SettleSender, TryTransition, FailTransfer, GoTo, SenderKeeps,
       streamVars, SetStatus, CanTransition, Allowed
<1>17. CASE RemoveSender
  BY <1>17 DEF RemoveSender, DropJob, GoTo, streamVars
<1>18. CASE AcceptOffer
  BY <1>18 DEF AcceptOffer, HasStream, GoTo, ReceiverKeeps
<1>19. CASE ReadOffer
  BY <1>19 DEF ReadOffer, Read, GoTo, ReceiverKeeps, Peer
<1>20. CASE PushIncoming
  BY <1>20 DEF PushIncoming, SetStatus, GoTo, ReceiverKeeps, streamVars
<1>21. CASE AcceptDecision
  BY <1>21 DEF AcceptDecision, Accepted, GoTo, TransitionOrFail,
       ReceiverKeeps, streamVars, Consent, CanTransition, SetStatus, Leave,
       Allowed
<1>22. CASE RefuseDecision
  BY <1>22 DEF RefuseDecision, GoTo, ReceiverKeeps, streamVars
<1>23. CASE WriteRefusal
  BY <1>23 DEF WriteRefusal, Write, GoTo, ReceiverKeeps
<1>24. CASE SettleRefusal
  BY <1>24 DEF SettleRefusal, Consent, DropJob, Leave, TryTransition,
       CanTransition, streamVars, GoTo, SetStatus, Allowed
<1>25. CASE WriteAccept
  BY <1>25 DEF WriteAccept, Write, GoTo, ReceiverKeeps
<1>26. CASE StartReceiving
  BY <1>26 DEF StartReceiving, TransitionOrFail, ReceiverKeeps, streamVars,
       CanTransition, SetStatus, GoTo, Leave, Allowed
<1>27. CASE AllReceived
  BY <1>27 DEF AllReceived, JoinAll, TransitionOrFail, ReceiverKeeps,
       streamVars, CanTransition, SetStatus, GoTo, Leave, Allowed
<1>28. CASE WriteCompletion
  BY <1>28 DEF WriteCompletion, Write, Leave, ReceiverKeeps, GoTo
<1>29. CASE ReceiverInterrupted
  BY <1>29 DEF ReceiverInterrupted, ReceiverGuarded, Interrupted, Leave,
       ReceiverKeeps, streamVars, GoTo
<1>30. CASE ReceiverBroken
  BY <1>30 DEF ReceiverBroken, ReadErrors, Leave, WriteFails, Overdue,
       Consent, ReceiverKeeps, streamVars, Peer, GoTo, Late, Gone
<1>31. CASE CleanupReceiver
  BY <1>31 DEF CleanupReceiver, DropJob, GoTo, streamVars
<1>32. CASE SettleReceiver
  BY <1>32 DEF SettleReceiver, TryTransition, FailTransfer, GoTo,
       ReceiverKeeps, streamVars, SetStatus, CanTransition, Allowed
<1>33. CASE ResetReceiver
  BY <1>33 DEF ResetReceiver, Close, GoTo, ReceiverKeeps
<1>34. ASSUME NEW f \in Files, OpenStream(f)
     PROVE  GrantInv'
  BY <1>34 DEF OpenStream, Count, Step, Advance, FileKeeps, taskVars,
       streamVars
<1>35. ASSUME NEW f \in Files, SendFile(f)
     PROVE  GrantInv'
  BY <1>35 DEF SendFile, Chunk, Ready, CanRecordProgress, Advance, taskVars,
       Leave, FileKeeps, GoTo, streamVars
<1>36. ASSUME NEW f \in Files, AckFile(f)
     PROVE  GrantInv'
  BY <1>36 DEF AckFile, Step, Advance, FileKeeps, taskVars, streamVars
<1>37. ASSUME NEW f \in Files, RouteStream(f)
     PROVE  GrantInv'
  BY <1>37 DEF RouteStream, Routed, RouteHasRoom, Step, Count, Advance,
       FileKeeps, taskVars, streamVars
<1>38. ASSUME NEW f \in Files, TakeStream(f)
     PROVE  GrantInv'
  BY <1>38 DEF TakeStream, Count, Step, Advance, FileKeeps, taskVars,
       streamVars
<1>39. ASSUME NEW f \in Files, ReadFile(f)
     PROVE  GrantInv'
  BY <1>39 DEF ReadFile, Chunk, Ready, CanRecordProgress, Advance, taskVars,
       Leave, FileKeeps, GoTo, streamVars
<1>40. ASSUME NEW f \in Files, StoreFile(f)
     PROVE  GrantInv'
  BY <1>40 DEF StoreFile, Step, Advance, FileKeeps, taskVars, streamVars
<1>41. ASSUME NEW f \in Files, StoreFails(f)
     PROVE  GrantInv'
  BY <1>41 DEF StoreFails, Gone, Step, Advance, FileKeeps, taskVars,
       streamVars
<1>42. ASSUME NEW f \in Files, RecordFile(f)
     PROVE  GrantInv'
  BY <1>42 DEF RecordFile, Step, Advance, FileKeeps, taskVars, streamVars
<1>43. ASSUME NEW f \in Files, AnswerFile(f)
     PROVE  GrantInv'
  BY <1>43 DEF AnswerFile, Step, Advance, FileKeeps, taskVars, streamVars
<1>44. CASE FileFails("sender")
  BY <1>44 DEF FileFails, Answered, Starved, Leave, FileKeeps, Late, Overdue,
       GoTo, streamVars, Gone, Peer, ReadErrors
<1>45. CASE FileFails("receiver")
  BY <1>45 DEF FileFails, Answered, Starved, Leave, FileKeeps, Late, Overdue,
       GoTo, streamVars, Gone, Peer, ReadErrors
<1>46. CASE UserAnswer
  <2>1. PICK d \in {"accept", "reject"} : RespondIncoming(d, Listening)
    BY <1>46 DEF UserAnswer
  <2>. QED
    BY <1>46, <2>1
       DEF UserAnswer, RespondIncoming, Answer, streamVars, taskVars
<1>47. ASSUME NEW e \in Ends, UserCall(e)
     PROVE  GrantInv'
  BY <1>47 DEF UserCall, Pause, Resume, Cancel, Listening, Gone, Shutdown,
       streamVars, taskVars, Answer, CancelJob
<1>48. ASSUME NEW e \in Ends, CallReturns(e)
     PROVE  GrantInv'
  BY <1>48 DEF CallReturns, FinishOp, streamVars, taskVars, TryTransition,
       SetStatus, CanTransition, Allowed
<1>49. CASE LoseConnection
  BY <1>49 DEF LoseConnection, jobVars, taskVars
<1>50. CASE Finished \/ UNCHANGED vars
  BY <1>50 DEF Finished, vars, jobVars, streamVars, taskVars
<1>. QED
  BY <1>1, <1>2, <1>3, <1>4, <1>5, <1>6, <1>7, <1>8, <1>9, <1>10, <1>11,
       <1>12, <1>13, <1>14, <1>15, <1>16, <1>17, <1>18, <1>19, <1>20, <1>21,
       <1>22, <1>23, <1>24, <1>25, <1>26, <1>27, <1>28, <1>29, <1>30, <1>31,
       <1>32, <1>33, <1>34, <1>35, <1>36, <1>37, <1>38, <1>39, <1>40, <1>41,
       <1>42, <1>43, <1>44, <1>45, <1>46, <1>47, <1>48, <1>49, <1>50 DEF Next,
       SenderNext, ReceiverNext, SenderStep, ReceiverStep, SenderFileStep,
       ReceiverFileStep

\* MessageInv is inductive: when the slots of the control stream are empty.
LEMMA MessageStep ==
  ASSUME TypeOK, GrantInv, MessageInv, DeliveryInv, [Next]_vars
  PROVE  MessageInv'
<1> USE DEF TypeOK, JobTypeOK, StreamTypeOK, StageTypeOK, Stage, Message,
            Result, Reset, Ends, Terminal, Status, Leaving, SenderPC,
            ReceiverPC, GrantInv, MessageInv, DeliveryInv, SenderGranted,
            Answered, HasAccepted
<1>1. CASE CheckRunning \/ InsertPreparing
  BY <1>1 DEF CheckRunning, InsertPreparing, SetStatus, GoTo, SenderKeeps, streamVars
<1>2. CASE RegisterSender
  BY <1>2 DEF RegisterSender, GoTo, SenderKeeps, streamVars
<1>3. CASE FilesPrepared
  BY <1>3 DEF FilesPrepared, CanTransition, SetStatus, GoTo, SenderAbort,
       SenderKeeps, streamVars, Allowed
<1>4. CASE SetupFails
  BY <1>4 DEF SetupFails, SenderAbort, SenderKeeps, streamVars, GoTo
<1>5. CASE ConnectPeer
  BY <1>5 DEF ConnectPeer, GoTo, SenderKeeps, streamVars
<1>6. CASE WriteOffer
  BY <1>6 DEF WriteOffer, Write, GoTo, SenderKeeps
<1>7. CASE AwaitApproval
  BY <1>7 DEF AwaitApproval, TransitionOrFail, SenderKeeps, streamVars,
       CanTransition, SetStatus, GoTo, Leave, Allowed
<1>8. CASE ReadAccept
  BY <1>8 DEF ReadAccept, Read, TransitionOrFail, SenderKeeps, Peer,
       CanTransition, SetStatus, GoTo, Leave, Allowed
<1>9. CASE ReadRefusal
  BY <1>9 DEF ReadRefusal, Read, TryTransition, Leave, SenderKeeps, Peer,
       SetStatus, CanTransition, GoTo, Allowed
<1>10. CASE StartTransfer
  BY <1>10 DEF StartTransfer, TransitionOrFail, SenderKeeps, streamVars,
       CanTransition, SetStatus, GoTo, Leave, Allowed
<1>11. CASE AllDelivered
  BY <1>11 DEF AllDelivered, ReadCompletion, GoTo, SenderKeeps, Read, Peer
<1>12. CASE FinishSending
  BY <1>12 DEF FinishSending, CanTransition, SetStatus, GoTo, SenderAbort,
       SenderKeeps, Allowed
<1>13. CASE SenderInterrupted
  BY <1>13 DEF SenderInterrupted, SenderGuarded, Interrupted, SenderExit,
       SenderKeeps, streamVars, HasStream, Leave, SenderAbort, GoTo
<1>14. CASE SenderBroken
  BY <1>14 DEF SenderBroken, WriteFails, Leave, ReadErrors, Overdue,
       SenderKeeps, streamVars, Peer, GoTo, Late, Gone
<1>15. CASE ResetSender
  BY <1>15 DEF ResetSender, Close, GoTo, SenderKeeps
<1>16. CASE SettleSender
  BY <1>16 DEF SettleSender, TryTransition, FailTransfer, GoTo, SenderKeeps,
       streamVars, SetStatus, CanTransition, Allowed
<1>17. CASE RemoveSender
  BY <1>17 DEF RemoveSender, DropJob, GoTo, streamVars
<1>18. CASE AcceptOffer
  BY <1>18 DEF AcceptOffer, HasStream, GoTo, ReceiverKeeps
<1>19. CASE ReadOffer
  BY <1>19 DEF ReadOffer, Read, GoTo, ReceiverKeeps, Peer
<1>20. CASE PushIncoming
  BY <1>20 DEF PushIncoming, SetStatus, GoTo, ReceiverKeeps, streamVars
<1>21. CASE AcceptDecision
  BY <1>21 DEF AcceptDecision, Accepted, GoTo, TransitionOrFail,
       ReceiverKeeps, streamVars, Consent, CanTransition, SetStatus, Leave,
       Allowed
<1>22. CASE RefuseDecision
  BY <1>22 DEF RefuseDecision, GoTo, ReceiverKeeps, streamVars
<1>23. CASE WriteRefusal
  BY <1>23 DEF WriteRefusal, Write, GoTo, ReceiverKeeps
<1>24. CASE SettleRefusal
  BY <1>24 DEF SettleRefusal, Consent, DropJob, Leave, TryTransition,
       CanTransition, streamVars, GoTo, SetStatus, Allowed
<1>25. CASE WriteAccept
  BY <1>25 DEF WriteAccept, Write, GoTo, ReceiverKeeps
<1>26. CASE StartReceiving
  BY <1>26 DEF StartReceiving, TransitionOrFail, ReceiverKeeps, streamVars,
       CanTransition, SetStatus, GoTo, Leave, Allowed
<1>27. CASE AllReceived
  BY <1>27 DEF AllReceived, JoinAll, TransitionOrFail, ReceiverKeeps,
       streamVars, CanTransition, SetStatus, GoTo, Leave, Allowed
<1>28. CASE WriteCompletion
  BY <1>28 DEF WriteCompletion, Write, Leave, ReceiverKeeps, GoTo
<1>29. CASE ReceiverInterrupted
  BY <1>29 DEF ReceiverInterrupted, ReceiverGuarded, Interrupted, Leave,
       ReceiverKeeps, streamVars, GoTo
<1>30. CASE ReceiverBroken
  BY <1>30 DEF ReceiverBroken, ReadErrors, Leave, WriteFails, Overdue,
       Consent, ReceiverKeeps, streamVars, Peer, GoTo, Late, Gone
<1>31. CASE CleanupReceiver
  BY <1>31 DEF CleanupReceiver, DropJob, GoTo, streamVars
<1>32. CASE SettleReceiver
  BY <1>32 DEF SettleReceiver, TryTransition, FailTransfer, GoTo,
       ReceiverKeeps, streamVars, SetStatus, CanTransition, Allowed
<1>33. CASE ResetReceiver
  BY <1>33 DEF ResetReceiver, Close, GoTo, ReceiverKeeps
<1>34. ASSUME NEW f \in Files, OpenStream(f)
     PROVE  MessageInv'
  BY <1>34 DEF OpenStream, Count, Step, Advance, FileKeeps, taskVars,
       streamVars
<1>35. ASSUME NEW f \in Files, SendFile(f)
     PROVE  MessageInv'
  BY <1>35 DEF SendFile, Chunk, Ready, CanRecordProgress, Advance, taskVars,
       Leave, FileKeeps, GoTo, streamVars
<1>36. ASSUME NEW f \in Files, AckFile(f)
     PROVE  MessageInv'
  BY <1>36 DEF AckFile, Step, Advance, FileKeeps, taskVars, streamVars
<1>37. ASSUME NEW f \in Files, RouteStream(f)
     PROVE  MessageInv'
  BY <1>37 DEF RouteStream, Routed, RouteHasRoom, Step, Count, Advance,
       FileKeeps, taskVars, streamVars
<1>38. ASSUME NEW f \in Files, TakeStream(f)
     PROVE  MessageInv'
  BY <1>38 DEF TakeStream, Count, Step, Advance, FileKeeps, taskVars,
       streamVars
<1>39. ASSUME NEW f \in Files, ReadFile(f)
     PROVE  MessageInv'
  BY <1>39 DEF ReadFile, Chunk, Ready, CanRecordProgress, Advance, taskVars,
       Leave, FileKeeps, GoTo, streamVars
<1>40. ASSUME NEW f \in Files, StoreFile(f)
     PROVE  MessageInv'
  BY <1>40 DEF StoreFile, Step, Advance, FileKeeps, taskVars, streamVars
<1>41. ASSUME NEW f \in Files, StoreFails(f)
     PROVE  MessageInv'
  BY <1>41 DEF StoreFails, Gone, Step, Advance, FileKeeps, taskVars,
       streamVars
<1>42. ASSUME NEW f \in Files, RecordFile(f)
     PROVE  MessageInv'
  BY <1>42 DEF RecordFile, Step, Advance, FileKeeps, taskVars, streamVars
<1>43. ASSUME NEW f \in Files, AnswerFile(f)
     PROVE  MessageInv'
  BY <1>43 DEF AnswerFile, Step, Advance, FileKeeps, taskVars, streamVars
<1>44. CASE FileFails("sender")
  BY <1>44 DEF FileFails, Starved, Leave, FileKeeps, Late, Overdue, GoTo,
       streamVars, Gone, Peer, ReadErrors
<1>45. CASE FileFails("receiver")
  BY <1>45 DEF FileFails, Starved, Leave, FileKeeps, Late, Overdue, GoTo,
       streamVars, Gone, Peer, ReadErrors
<1>46. CASE UserAnswer
  <2>1. PICK d \in {"accept", "reject"} : RespondIncoming(d, Listening)
    BY <1>46 DEF UserAnswer
  <2>. QED
    BY <1>46, <2>1
       DEF UserAnswer, RespondIncoming, Answer, streamVars, taskVars
<1>47. ASSUME NEW e \in Ends, UserCall(e)
     PROVE  MessageInv'
  BY <1>47 DEF UserCall, Pause, Resume, Cancel, Listening, Gone, Shutdown,
       streamVars, taskVars, Answer, CancelJob
<1>48. ASSUME NEW e \in Ends, CallReturns(e)
     PROVE  MessageInv'
  BY <1>48 DEF CallReturns, FinishOp, streamVars, taskVars, TryTransition,
       SetStatus, CanTransition, Allowed
<1>49. CASE LoseConnection
  BY <1>49 DEF LoseConnection, jobVars, taskVars
<1>50. CASE Finished \/ UNCHANGED vars
  BY <1>50 DEF Finished, vars, jobVars, streamVars, taskVars
<1>. QED
  BY <1>1, <1>2, <1>3, <1>4, <1>5, <1>6, <1>7, <1>8, <1>9, <1>10, <1>11,
       <1>12, <1>13, <1>14, <1>15, <1>16, <1>17, <1>18, <1>19, <1>20, <1>21,
       <1>22, <1>23, <1>24, <1>25, <1>26, <1>27, <1>28, <1>29, <1>30, <1>31,
       <1>32, <1>33, <1>34, <1>35, <1>36, <1>37, <1>38, <1>39, <1>40, <1>41,
       <1>42, <1>43, <1>44, <1>45, <1>46, <1>47, <1>48, <1>49, <1>50 DEF Next,
       SenderNext, ReceiverNext, SenderStep, ReceiverStep, SenderFileStep,
       ReceiverFileStep

OnlyOneUnread ==
  \A e \in Ends : wire[e] # "none" => wire'[e] \in {"none", wire[e]}

\* No step writes a message over an unread one.
LEMMA UnreadStep ==
  ASSUME TypeOK, MessageInv, DeliveryInv, [Next]_vars
  PROVE  OnlyOneUnread
<1> USE DEF TypeOK, JobTypeOK, StreamTypeOK, StageTypeOK, Message, Ends,
            MessageInv, OnlyOneUnread
<1>1. CASE CheckRunning \/ InsertPreparing
  BY <1>1 DEF CheckRunning, InsertPreparing, SetStatus, GoTo, SenderKeeps, streamVars
<1>2. CASE RegisterSender
  BY <1>2 DEF RegisterSender, GoTo, SenderKeeps, streamVars
<1>3. CASE FilesPrepared
  BY <1>3 DEF FilesPrepared, CanTransition, SetStatus, GoTo, SenderAbort,
       SenderKeeps, streamVars, Allowed, Status, Terminal
<1>4. CASE SetupFails
  BY <1>4 DEF SetupFails, SenderAbort, SenderKeeps, streamVars, GoTo
<1>5. CASE ConnectPeer
  BY <1>5 DEF ConnectPeer, GoTo, SenderKeeps, streamVars
<1>6. CASE WriteOffer
  BY <1>6 DEF WriteOffer, Write, GoTo, SenderKeeps
<1>7. CASE AwaitApproval
  BY <1>7 DEF AwaitApproval, TransitionOrFail, SenderKeeps, streamVars,
       CanTransition, SetStatus, GoTo, Leave, Allowed, Status, Terminal
<1>8. CASE ReadAccept
  BY <1>8 DEF ReadAccept, Read, TransitionOrFail, SenderKeeps, Peer,
       CanTransition, SetStatus, GoTo, Leave, Allowed, Status, Terminal
<1>9. CASE ReadRefusal
  BY <1>9 DEF ReadRefusal, Read, TryTransition, Leave, SenderKeeps, Peer,
       SetStatus, CanTransition, GoTo, Allowed, Status, Terminal
<1>10. CASE StartTransfer
  BY <1>10 DEF StartTransfer, TransitionOrFail, SenderKeeps, streamVars,
       CanTransition, SetStatus, GoTo, Leave, Allowed, Status, Terminal
<1>11. CASE AllDelivered
  BY <1>11 DEF AllDelivered, ReadCompletion, GoTo, SenderKeeps, Read, Peer
<1>12. CASE FinishSending
  BY <1>12 DEF FinishSending, CanTransition, SetStatus, GoTo, SenderAbort,
       SenderKeeps, Allowed, Status, Terminal
<1>13. CASE SenderInterrupted
  BY <1>13 DEF SenderInterrupted, SenderGuarded, Interrupted, SenderExit,
       SenderKeeps, streamVars, HasStream, Leave, SenderAbort, GoTo
<1>14. CASE SenderBroken
  BY <1>14 DEF SenderBroken, WriteFails, Leave, ReadErrors, Overdue,
       SenderKeeps, streamVars, Peer, Reset, GoTo, Late, Gone, Leaving
<1>15. CASE ResetSender
  BY <1>15 DEF ResetSender, Close, GoTo, SenderKeeps
<1>16. CASE SettleSender
  BY <1>16 DEF SettleSender, TryTransition, FailTransfer, GoTo, SenderKeeps,
       streamVars, SetStatus, CanTransition, Allowed, Status, Terminal
<1>17. CASE RemoveSender
  BY <1>17 DEF RemoveSender, DropJob, GoTo, streamVars
<1>18. CASE AcceptOffer
  BY <1>18 DEF AcceptOffer, HasStream, GoTo, ReceiverKeeps
<1>19. CASE ReadOffer
  BY <1>19 DEF ReadOffer, Read, GoTo, ReceiverKeeps, Peer
<1>20. CASE PushIncoming
  BY <1>20 DEF PushIncoming, SetStatus, GoTo, ReceiverKeeps, streamVars
<1>21. CASE AcceptDecision
  BY <1>21 DEF AcceptDecision, Accepted, GoTo, TransitionOrFail,
       ReceiverKeeps, streamVars, Consent, CanTransition, SetStatus, Leave,
       Allowed, Status, Terminal
<1>22. CASE RefuseDecision
  BY <1>22 DEF RefuseDecision, GoTo, ReceiverKeeps, streamVars
<1>23. CASE WriteRefusal
  BY <1>23 DEF WriteRefusal, Write, GoTo, ReceiverKeeps
<1>24. CASE SettleRefusal
  BY <1>24 DEF SettleRefusal, Consent, DropJob, Leave, TryTransition,
       CanTransition, streamVars, GoTo, SetStatus, Allowed,
       Status, Terminal
<1>25. CASE WriteAccept
  BY <1>25 DEF WriteAccept, Write, GoTo, ReceiverKeeps
<1>26. CASE StartReceiving
  BY <1>26 DEF StartReceiving, TransitionOrFail, ReceiverKeeps, streamVars,
       CanTransition, SetStatus, GoTo, Leave, Allowed, Status, Terminal
<1>27. CASE AllReceived
  BY <1>27 DEF AllReceived, JoinAll, TransitionOrFail, ReceiverKeeps,
       streamVars, CanTransition, SetStatus, GoTo, Leave, Allowed, Status,
       Terminal
<1>28. CASE WriteCompletion
  <2>1. PICK f \in Files : stage[f] # "idle"
    BY <1>28, FilesAssumption DEF WriteCompletion, DeliveryInv, Answered
  <2>2. wire["receiver"] = "none"
    BY <1>28, <2>1 DEF WriteCompletion
  <2>. QED
    BY <1>28, <2>2 DEF WriteCompletion, Write
<1>29. CASE ReceiverInterrupted
  BY <1>29 DEF ReceiverInterrupted, ReceiverGuarded, Interrupted, Leave,
       ReceiverKeeps, streamVars, ReceiverPC, Leaving, GoTo
<1>30. CASE ReceiverBroken
  BY <1>30 DEF ReceiverBroken, ReadErrors, Leave, WriteFails, Overdue,
       Consent, ReceiverKeeps, streamVars, Peer, GoTo, Reset, Late, Gone,
       Leaving
<1>31. CASE CleanupReceiver
  BY <1>31 DEF CleanupReceiver, DropJob, GoTo, streamVars
<1>32. CASE SettleReceiver
  BY <1>32 DEF SettleReceiver, TryTransition, FailTransfer, GoTo,
       ReceiverKeeps, streamVars, SetStatus, CanTransition, Allowed, Status,
       Terminal
<1>33. CASE ResetReceiver
  BY <1>33 DEF ResetReceiver, Close, GoTo, ReceiverKeeps
<1>34. ASSUME NEW f \in Files, OpenStream(f)
     PROVE  OnlyOneUnread
  BY <1>34 DEF OpenStream, Count, Stage, Step, Advance, FileKeeps, taskVars,
       streamVars
<1>35. ASSUME NEW f \in Files, SendFile(f)
     PROVE  OnlyOneUnread
  BY <1>35 DEF SendFile, Chunk, Ready, CanRecordProgress, Advance, taskVars,
       Leave, FileKeeps, GoTo, streamVars
<1>36. ASSUME NEW f \in Files, AckFile(f)
     PROVE  OnlyOneUnread
  BY <1>36 DEF AckFile, Step, Advance, FileKeeps, taskVars, streamVars
<1>37. ASSUME NEW f \in Files, RouteStream(f)
     PROVE  OnlyOneUnread
  BY <1>37 DEF RouteStream, Routed, RouteHasRoom, Step, Count, Advance,
       FileKeeps, taskVars, streamVars
<1>38. ASSUME NEW f \in Files, TakeStream(f)
     PROVE  OnlyOneUnread
  BY <1>38 DEF TakeStream, Count, Step, Advance, FileKeeps, taskVars,
       streamVars
<1>39. ASSUME NEW f \in Files, ReadFile(f)
     PROVE  OnlyOneUnread
  BY <1>39 DEF ReadFile, Chunk, Ready, CanRecordProgress, Advance, taskVars,
       Leave, FileKeeps, GoTo, streamVars
<1>40. ASSUME NEW f \in Files, StoreFile(f)
     PROVE  OnlyOneUnread
  BY <1>40 DEF StoreFile, Step, Advance, FileKeeps, taskVars, streamVars
<1>41. ASSUME NEW f \in Files, StoreFails(f)
     PROVE  OnlyOneUnread
  BY <1>41 DEF StoreFails, Gone, Step, Leaving, Advance, FileKeeps, taskVars,
       streamVars
<1>42. ASSUME NEW f \in Files, RecordFile(f)
     PROVE  OnlyOneUnread
  BY <1>42 DEF RecordFile, Step, Advance, FileKeeps, taskVars, streamVars
<1>43. ASSUME NEW f \in Files, AnswerFile(f)
     PROVE  OnlyOneUnread
  BY <1>43 DEF AnswerFile, Step, Advance, FileKeeps, taskVars, streamVars
<1>44. CASE FileFails("sender")
  BY <1>44 DEF FileFails, Answered, Starved, Leave, FileKeeps, Late, Overdue,
       GoTo, streamVars, Gone, Peer, ReadErrors, Leaving
<1>45. CASE FileFails("receiver")
  BY <1>45 DEF FileFails, Answered, Starved, Leave, FileKeeps, Late, Overdue,
       GoTo, streamVars, Gone, Peer, ReadErrors, Leaving
<1>46. CASE UserAnswer
  <2>1. PICK d \in {"accept", "reject"} : RespondIncoming(d, Listening)
    BY <1>46 DEF UserAnswer
  <2>. QED
    BY <1>46, <2>1
       DEF UserAnswer, RespondIncoming, Answer, streamVars, taskVars
<1>47. ASSUME NEW e \in Ends, UserCall(e)
     PROVE  OnlyOneUnread
  BY <1>47 DEF UserCall, Pause, Resume, Cancel, Listening, Gone, Shutdown,
       streamVars, taskVars, Terminal, Answer, CancelJob, Leaving
<1>48. ASSUME NEW e \in Ends, CallReturns(e)
     PROVE  OnlyOneUnread
  BY <1>48 DEF CallReturns, FinishOp, streamVars, taskVars, TryTransition,
       SetStatus, CanTransition, Allowed, Status, Terminal
<1>49. CASE LoseConnection
  BY <1>49 DEF LoseConnection, jobVars, taskVars
<1>50. CASE Finished \/ UNCHANGED vars
  BY <1>50 DEF Finished, vars, jobVars, streamVars, taskVars
<1>. QED
  BY <1>1, <1>2, <1>3, <1>4, <1>5, <1>6, <1>7, <1>8, <1>9, <1>10, <1>11,
       <1>12, <1>13, <1>14, <1>15, <1>16, <1>17, <1>18, <1>19, <1>20, <1>21,
       <1>22, <1>23, <1>24, <1>25, <1>26, <1>27, <1>28, <1>29, <1>30, <1>31,
       <1>32, <1>33, <1>34, <1>35, <1>36, <1>37, <1>38, <1>39, <1>40, <1>41,
       <1>42, <1>43, <1>44, <1>45, <1>46, <1>47, <1>48, <1>49, <1>50 DEF Next,
       SenderNext, ReceiverNext, SenderStep, ReceiverStep, SenderFileStep,
       ReceiverFileStep

-----------------------------------------------------------------------------
\* The inductive invariant holds before the transfer is asked for.
LEMMA SafetyInit == Init => SafetyInv
<1> SUFFICES ASSUME Init PROVE SafetyInv
  OBVIOUS
<1> USE DEF Init, JobInit, StreamInit, StageInit, Ends
<1>1. TypeOK
  BY TypeInit
<1>2. ExitInv /\ DeliveryInv
  BY DEF ExitInv, DeliveryInv, ReceiverSettled
<1>3. ConsentInv /\ RejectionInv
  BY DEF ConsentInv, RejectionInv, ReceiverGranted, SenderGranted, Listening
<1>4. GrantInv /\ MessageInv
  BY DEF GrantInv, MessageInv, SenderGranted
<1>5. {f \in Files : stage[f] \in InFlight} = {}
  BY DEF InFlight
<1>6. StreamsInv
  BY <1>5, FS_EmptySet, ConcurrencyAssumption DEF StreamsInv, Count
<1>7. RouteIsReady
  BY DEF RouteIsReady
<1>. QED
  BY <1>1, <1>2, <1>3, <1>4, <1>6, <1>7 DEF SafetyInv

-----------------------------------------------------------------------------
(***************************************************************************)
(* The route. It is as long as the sender has streams open at most, so it  *)
(* has room for a stream that is only just open.                           *)
(***************************************************************************)
Moving == {f \in Files : stage[f] \in InFlight}

\* The streams open at the sender are finitely many, as the files are.
LEMMA MovingFinite ==
  ASSUME TypeOK PROVE IsFiniteSet(Moving) /\ Cardinality(Moving) \in Nat
BY FilesAssumption, FS_Subset, FS_CardinalityType DEF Moving

StageMoves(f) ==
  \/ OpenStream(f) \/ SendFile(f) \/ AckFile(f)
  \/ RouteStream(f) \/ TakeStream(f) \/ ReadFile(f)
  \/ StoreFile(f) \/ StoreFails(f) \/ RecordFile(f) \/ AnswerFile(f)

(***************************************************************************)
(* All steps but those of FileStreams leave the streams' stages alone; and *)
(* a task that has left its body does not come back.                       *)
(***************************************************************************)
LEMMA StageFrame ==
  ASSUME \/ SenderStep \/ ReceiverStep \/ FileFails("sender") \/ FileFails("receiver")
         \/ UserAnswer \/ \E e \in Ends : UserCall(e) \/ CallReturns(e)
         \/ LoseConnection \/ Finished \/ UNCHANGED vars
  PROVE  stage' = stage
<1>1. CASE SenderStep
  BY <1>1 DEF SenderStep, CheckRunning, InsertPreparing, RegisterSender, FilesPrepared,
       SetupFails, ConnectPeer, WriteOffer, AwaitApproval, ReadAccept,
       ReadRefusal, StartTransfer, AllDelivered, FinishSending,
       SenderInterrupted, SenderBroken, ResetSender, SettleSender,
       RemoveSender, SenderKeeps
<1>2. CASE ReceiverStep
  BY <1>2 DEF ReceiverStep, AcceptOffer, ReadOffer, PushIncoming,
       AcceptDecision, RefuseDecision, WriteRefusal, SettleRefusal,
       WriteAccept, StartReceiving, AllReceived, WriteCompletion,
       ReceiverInterrupted, ReceiverBroken, CleanupReceiver, SettleReceiver,
       ResetReceiver, ReceiverKeeps
<1>3. CASE FileFails("sender") \/ FileFails("receiver")
  BY <1>3 DEF FileFails
<1>4. CASE UserAnswer \/ \E e \in Ends : UserCall(e) \/ CallReturns(e)
  BY <1>4 DEF UserAnswer, UserCall, CallReturns
<1>5. CASE LoseConnection \/ Finished \/ UNCHANGED vars
  BY <1>5 DEF LoseConnection, Finished, vars
<1>. QED
  BY <1>1, <1>2, <1>3, <1>4, <1>5

\* A receiver's task that has left its body stays out of it.
LEMMA GoneStays ==
  ASSUME TypeOK, Gone("receiver"), [Next]_vars
  PROVE  Gone("receiver")'
<1> USE DEF TypeOK, Ends, Gone, Leaving, GoTo
<1>1. CASE SenderStep
  BY <1>1 DEF SenderStep, CheckRunning, InsertPreparing, RegisterSender, FilesPrepared,
       SetupFails, ConnectPeer, WriteOffer, AwaitApproval, ReadAccept,
       ReadRefusal, StartTransfer, AllDelivered, FinishSending,
       SenderInterrupted, SenderBroken, ResetSender, SettleSender,
       RemoveSender, SenderExit, SenderAbort, Leave, TransitionOrFail
<1>2. CASE ReceiverStep
  BY <1>2 DEF ReceiverStep, AcceptOffer, ReadOffer, PushIncoming,
       AcceptDecision, RefuseDecision, WriteRefusal, SettleRefusal,
       WriteAccept, StartReceiving, AllReceived, WriteCompletion,
       ReceiverInterrupted, ReceiverBroken, CleanupReceiver, SettleReceiver,
       ResetReceiver, ReceiverGuarded
<1>3. CASE FileFails("sender") \/ FileFails("receiver")
  BY <1>3 DEF FileFails, Leave
<1>4. ASSUME NEW f \in Files, StageMoves(f)
      PROVE  Gone("receiver")'
  BY <1>4 DEF StageMoves, OpenStream, SendFile, AckFile, RouteStream,
       TakeStream, ReadFile, StoreFile, StoreFails, RecordFile, AnswerFile,
       Step, Chunk, Leave, taskVars
<1>5. CASE UserAnswer \/ \E e \in Ends : UserCall(e) \/ CallReturns(e)
  BY <1>5 DEF UserAnswer, UserCall, CallReturns, taskVars
<1>6. CASE LoseConnection \/ Finished \/ UNCHANGED vars
  BY <1>6 DEF LoseConnection, Finished, vars, taskVars
<1>. QED
  BY <1>1, <1>2, <1>3, <1>4, <1>5, <1>6 DEF Next, SenderNext, ReceiverNext,
       SenderFileStep, ReceiverFileStep, StageMoves

\* Only OpenStream adds to the open streams.
LEMMA MovingShrinks ==
  ASSUME TypeOK, [Next]_vars, ~\E f \in Files : OpenStream(f)
  PROVE  Moving' \subseteq Moving
<1>1. CASE stage' = stage
  BY <1>1 DEF Moving
<1>2. ASSUME NEW f \in Files, StageMoves(f)
      PROVE  Moving' \subseteq Moving
  BY <1>2 DEF StageMoves, SendFile, AckFile, RouteStream, TakeStream,
       ReadFile, StoreFile, StoreFails, RecordFile, AnswerFile, Step, Chunk,
       Advance, Moving, InFlight, Stage, TypeOK, StageTypeOK
<1>. QED
  BY <1>1, <1>2, StageFrame DEF Next, SenderNext, ReceiverNext,
       SenderFileStep, ReceiverFileStep, StageMoves, StageMoves

\* OpenStream keeps within the sender's concurrency (quic.rs:325).
LEMMA OpenStep ==
  ASSUME TypeOK, NEW f \in Files, OpenStream(f)
  PROVE  StreamsInv'
<1>1. Moving' = Moving \union {f}
  BY DEF TypeOK, StageTypeOK, Stage, OpenStream, Step, Advance, InFlight, Moving
<1>2. Cardinality(Moving) < Concurrency
  BY DEF OpenStream, Count, InFlight, Moving
<1>3. Cardinality(Moving') <= Cardinality(Moving) + 1
  BY <1>1, MovingFinite, FS_AddElement
<1>4. Cardinality(Moving') \in Nat
  BY <1>1, MovingFinite, FS_AddElement
<1>5. Cardinality(Moving') <= Concurrency
  BY <1>2, <1>3, <1>4, MovingFinite, ConcurrencyAssumption
<1>. QED
  BY <1>5 DEF StreamsInv, Count, Moving

\* The route has room for a stream that is only just open (router.rs:42).
LEMMA RoomForOpen ==
  ASSUME TypeOK, StreamsInv, NEW f \in Files, stage[f] = "open"
  PROVE  RouteHasRoom
<1> DEFINE Waiting == {g \in Files : stage[g] \in {"routed"}}
<1>1. f \in Moving /\ Waiting \subseteq Moving \ {f}
  BY DEF Moving, InFlight, Stage
<1>2. /\ IsFiniteSet(Moving \ {f})
      /\ Cardinality(Moving \ {f}) = Cardinality(Moving) - 1
  BY <1>1, MovingFinite, FS_RemoveElement
<1>3. Cardinality(Waiting) <= Cardinality(Moving \ {f})
  BY <1>1, <1>2, FS_Subset
<1>4. Cardinality(Waiting) \in Nat
  BY <1>1, <1>2, FS_Subset, FS_CardinalityType
<1>5. Cardinality(Moving) <= Concurrency
  BY DEF StreamsInv, Count, Moving
<1>6. Cardinality(Waiting) < Concurrency
  BY <1>2, <1>3, <1>4, <1>5, MovingFinite, ConcurrencyAssumption
<1>. QED
  BY <1>6 DEF RouteHasRoom, Count

\* The bound on the open streams is inductive.
LEMMA StreamsStep ==
  ASSUME TypeOK, StreamsInv, [Next]_vars
  PROVE  StreamsInv'
<1>1. CASE \E f \in Files : OpenStream(f)
  BY <1>1, OpenStep
<1>2. CASE ~\E f \in Files : OpenStream(f)
  <2>1. Moving' \subseteq Moving
    BY <1>2, MovingShrinks
  <2>2. /\ Cardinality(Moving') <= Cardinality(Moving)
        /\ Cardinality(Moving') \in Nat
    BY <2>1, MovingFinite, FS_Subset, FS_CardinalityType
  <2>3. Cardinality(Moving) <= Concurrency
    BY DEF StreamsInv, Count, Moving
  <2>4. Cardinality(Moving') <= Concurrency
    BY <2>2, <2>3, MovingFinite, ConcurrencyAssumption
  <2>. QED
    BY <2>4 DEF StreamsInv, Count, Moving
<1>. QED
  BY <1>1, <1>2

\* RouteIsReady is inductive: an open stream finds its route, with room.
LEMMA RouteStep ==
  ASSUME TypeOK, GrantInv, StreamsInv, RouteIsReady, [Next]_vars
  PROVE  RouteIsReady'
<1>1. CASE Gone("receiver")
  BY <1>1, GoneStays DEF RouteIsReady
<1>2. CASE ~Gone("receiver")
  <2>1. \A f \in Files : stage[f] # "refused"
    BY <1>2 DEF RouteIsReady
  <2>2. ASSUME NEW f \in Files, RouteStream(f)
        PROVE  stage' = [stage EXCEPT ![f] = "routed"]
    <3>1. stage[f] = "open"
      BY <2>2 DEF RouteStream, Step
    <3>2. RouteHasRoom
      BY <3>1, RoomForOpen
    <3>3. Routed
      BY <1>2, <3>1 DEF GrantInv, HasAccepted, Routed, Gone
    <3>. QED
      BY <2>2, <3>2, <3>3 DEF RouteStream, Step, Advance
  <2>3. ASSUME NEW f \in Files, StageMoves(f)
        PROVE  \A g \in Files : stage'[g] # "refused"
    BY <2>1, <2>2, <2>3
       DEF StageMoves, OpenStream, SendFile, AckFile, TakeStream, ReadFile,
           StoreFile, StoreFails, RecordFile, AnswerFile, Step, Chunk,
           Advance, TypeOK, StageTypeOK, Stage
  <2>4. \A g \in Files : stage'[g] # "refused"
    BY <2>1, <2>3, StageFrame
       DEF Next, SenderNext, ReceiverNext, SenderFileStep, ReceiverFileStep,
           StageMoves
  <2>. QED
    BY <2>4 DEF RouteIsReady
<1>. QED
  BY <1>1, <1>2

-----------------------------------------------------------------------------
\* The inductive invariant is preserved by every step.
LEMMA SafetyStep == SafetyInv /\ [Next]_vars => SafetyInv'
BY TypeStep, ExitStep, DeliveryStep, ConsentStep, RejectionStep, GrantStep,
   MessageStep, StreamsStep, RouteStep
   DEF SafetyInv

\* The inductive invariant of a transfer holds in every behaviour, for every
\* set of files, every concurrency and every choice of faults and users'
\* calls.
THEOREM Safety == Spec => []SafetyInv
BY SafetyInit, SafetyStep, PTL DEF Spec

(***************************************************************************)
(* A sender that shows Completed has a receiver that shows Completed, and  *)
(* a receiver that shows Completed has every file in place and             *)
(* acknowledged (quic.rs:345, receiver.rs:284), whatever users, faults and *)
(* timers do and however many files there are.                             *)
(***************************************************************************)
THEOREM Delivered == Spec => []CompletedMeansDelivered
<1>1. SafetyInv => CompletedMeansDelivered
  BY DEF SafetyInv, DeliveryInv, CompletedMeansDelivered
<1>. QED
  BY Safety, <1>1, PTL

(***************************************************************************)
(* No byte of a file leaves the sender before the receiver consented, and  *)
(* none has under a rejection (quic.rs:267-310).                           *)
(***************************************************************************)
THEOREM Consented == Spec => []ConsentBeforeData
<1>1. SafetyInv => ConsentBeforeData
  BY DEF SafetyInv, ConsentInv, RejectionInv, Gone, Consent, ConsentBeforeData
<1>. QED
  BY Safety, <1>1, PTL

(***************************************************************************)
(* A task that has ended has left a final status, no job and no request to *)
(* answer (manager.rs:452-462, receiver.rs:31-48).                         *)
(***************************************************************************)
THEOREM CleanExit == Spec => []NothingLeftBehind
<1>1. SafetyInv => NothingLeftBehind
  <2> SUFFICES ASSUME ExitInv PROVE NothingLeftBehind
    BY DEF SafetyInv
  <2>1. pc["sender"] = "ended" =>
          status["sender"] \in Terminal /\ "sender" \notin jobs
    BY DEF ExitInv
  <2>2. pc["receiver"] = "ended" =>
          /\ status["receiver"] \in Terminal \union {"Absent"}
          /\ "receiver" \notin jobs /\ ~pending
    BY DEF ExitInv, ReceiverSettled
  <2>. QED
    BY <2>1, <2>2 DEF NothingLeftBehind, Ends
<1>. QED
  BY Safety, <1>1, PTL

(***************************************************************************)
(* The receiver's router turns no stream away while the receiver's task    *)
(* can still take it, for any FILE_STREAM_CONCURRENCY and any number of    *)
(* files (receiver.rs:260, router.rs:42, quic.rs:325).                     *)
(***************************************************************************)
THEOREM RouteReady == Spec => []RouteIsReady
<1>1. SafetyInv => RouteIsReady
  BY DEF SafetyInv
<1>. QED
  BY Safety, <1>1, PTL

(***************************************************************************)
(* A message of the control stream is never written over one its reader    *)
(* has not seen, so a slot per direction models the stream exactly: the    *)
(* accept is read before any file moves, and the completion is written     *)
(* after (quic.rs:273, receiver.rs:261,287).                               *)
(***************************************************************************)
THEOREM NoMessageOverwritten == Spec => OneMessageUnread
<1>1. SafetyInv /\ [Next]_vars => OnlyOneUnread
  BY UnreadStep DEF SafetyInv
<1>2. SafetyInv /\ [Next]_vars
       => [\A e \in Ends :
             wire[e] # "none" => wire'[e] \in {"none", wire[e]}]_vars
  BY <1>1 DEF OnlyOneUnread
<1>. QED
  BY Safety, <1>2, PTL DEF Spec, OneMessageUnread

-----------------------------------------------------------------------------
(***************************************************************************)
(* TransferSession implements TransferContract. The contract's four kinds  *)
(* of step are lemmas about the mapped variables; each action of the       *)
(* session is shown to be one of them. The mapping needs SafetyInv: that a *)
(* file in place was consented to, that a rejected sender has sent         *)
(* nothing, that a completion is true.                                     *)
(***************************************************************************)

ContractOrStutter == [Contract!Next]_(Contract!contractVars)

\* An absent transfer maps to an open contract with nothing agreed or
\* delivered.
LEMMA ContractInit == Init => Contract!Init
<1> SUFFICES ASSUME Init PROVE Contract!Init
  OBVIOUS
<1>1. Outcome = [e \in {"sender", "receiver"} |-> "open"]
  BY DEF Init, JobInit, Outcome, Ends, Terminal
<1>2. InPlace = {} /\ Consent = FALSE
  BY DEF Init, JobInit, StageInit, InPlace, Consent
<1>. QED
  BY <1>1, <1>2 DEF Contract!Init

\* The four kinds of step the contract knows, as steps of the session.
LEMMA Quiet ==
  ASSUME status' = status, Consent' = Consent, InPlace' = InPlace
  PROVE  ContractOrStutter
BY DEF ContractOrStutter, Contract!contractVars, Outcome

\* A step that only brings about the consent is the contract's agreement.
LEMMA AgreeStep ==
  ASSUME ~Consent, Consent', status["receiver"] # "Rejected", TypeOK,
         status' = status, InPlace' = InPlace
  PROVE  ContractOrStutter
<1>1. Consent = FALSE /\ Consent' = TRUE
  BY DEF Consent
<1>2. Outcome["receiver"] # "Rejected" /\ Outcome' = Outcome
  BY DEF Outcome, Ends
<1>3. Contract!Agree
  BY <1>1, <1>2 DEF Contract!Agree
<1>. QED
  BY <1>3 DEF ContractOrStutter, Contract!Next

\* A step that only puts a file in place is the contract's delivery.
LEMMA DeliverStep ==
  ASSUME NEW f \in Files, Consent, Consent' = Consent, status' = status,
         status["sender"] # "Rejected", InPlace' = InPlace \union {f}
  PROVE  ContractOrStutter
<1>1. Outcome["sender"] # "Rejected" /\ Outcome' = Outcome
  BY DEF Outcome, Ends
<1>2. Contract!Deliver(f)
  BY <1>1 DEF Contract!Deliver
<1>. QED
  BY <1>2 DEF ContractOrStutter, Contract!Next

\* What the contract asks of an end that concludes with s.
Entitled(e, s) ==
  /\ s = "Completed" => IF e = "receiver" THEN InPlace = Files
                                          ELSE status["receiver"] = "Completed"
  /\ s = "Rejected" => IF e = "receiver" THEN ~Consent ELSE InPlace = {}

\* A legal change of a status the contract entitles its end to is an outcome,
\* or leaves the contract unchanged.
LEMMA StatusStep ==
  ASSUME TypeOK, NEW e \in Ends, NEW s \in Status, Entitled(e, s),
         status' = [status EXCEPT ![e] = s],
         \/ CanTransition(status[e], s)
         \/ status[e] = "Absent" /\ s \notin Terminal,
         Consent' = Consent, InPlace' = InPlace
  PROVE  ContractOrStutter
<1>1. CASE Outcome' = Outcome
  BY <1>1 DEF ContractOrStutter, Contract!contractVars
<1>2. CASE status[e] \notin Terminal /\ s \in Terminal
  <2>1. Outcome[e] = "open"
    BY <1>2 DEF Outcome
  <2>2. Outcome' = [Outcome EXCEPT ![e] = s]
    BY <1>2 DEF Outcome, TypeOK, JobTypeOK
  <2>3. Outcome["receiver"] = "Completed" <=> status["receiver"] = "Completed"
    BY DEF Outcome, Ends, Terminal
  <2>4. Contract!MayConclude(e, s)
    BY <1>2, <2>3 DEF Contract!MayConclude, Entitled, Ends, Terminal
  <2>5. Contract!Conclude(e, s)
    BY <2>1, <2>2, <2>4 DEF Contract!Conclude
  <2>. QED
    BY <1>2, <2>5 DEF ContractOrStutter, Contract!Next, Contract!Outcomes, Terminal, Ends
<1>3. \/ Outcome' = Outcome
      \/ status[e] \notin Terminal /\ s \in Terminal
  BY DEF Outcome, CanTransition, Allowed, TypeOK, JobTypeOK, Terminal, Status
<1>. QED
  BY <1>1, <1>2, <1>3

\* So is a transition that the code attempts and the status may refuse.
LEMMA TryStep ==
  ASSUME TypeOK, NEW e \in Ends, NEW s \in Status, Entitled(e, s),
         TryTransition(e, s), Consent' = Consent, InPlace' = InPlace
  PROVE  ContractOrStutter
<1>1. CASE CanTransition(status[e], s)
  <2>1. status' = [status EXCEPT ![e] = s]
    BY <1>1 DEF TryTransition, SetStatus
  <2>. QED
    BY <1>1, <2>1, StatusStep
<1>2. CASE ~CanTransition(status[e], s)
  BY <1>2, Quiet DEF TryTransition, SetStatus, TypeOK, JobTypeOK
<1>. QED
  BY <1>1, <1>2

\* A status that is not final asks nothing of the contract.
LEMMA AdvanceStep ==
  ASSUME TypeOK, NEW e \in Ends, NEW s \in Status \ Terminal,
         Consent' = Consent, InPlace' = InPlace,
         status' # status => /\ status' = [status EXCEPT ![e] = s]
                             /\ CanTransition(status[e], s)
  PROVE  ContractOrStutter
<1>1. Entitled(e, s)
  BY DEF Entitled, Terminal
<1>2. CASE status' # status
  BY <1>1, <1>2, StatusStep
<1>. QED
  BY <1>2, Quiet

-----------------------------------------------------------------------------
(* Every step of the session is a step of the contract or leaves it alone. *)

\* The steps of the sender's task keep the contract, one by one.
LEMMA SenderContract ==
  ASSUME SafetyInv, SenderStep
  PROVE  ContractOrStutter
<1> USE DEF SafetyInv, SenderKeeps, Ends, Status, Terminal
<1>1. UNCHANGED <<Consent, InPlace>>
  BY DEF SenderStep, CheckRunning, InsertPreparing, RegisterSender, FilesPrepared,
         SetupFails, ConnectPeer, WriteOffer, AwaitApproval, ReadAccept,
         ReadRefusal, StartTransfer, AllDelivered, FinishSending,
         SenderInterrupted, SenderBroken, ResetSender, SettleSender,
         RemoveSender, Consent, InPlace
<1>2. CASE InsertPreparing
  BY <1>1, <1>2, StatusStep DEF InsertPreparing, SetStatus, ExitInv, Entitled
<1>3. CASE FilesPrepared
  <2>1. status' # status =>
          /\ status' = [status EXCEPT !["sender"] = "Connecting"]
          /\ CanTransition(status["sender"], "Connecting")
    BY <1>3 DEF FilesPrepared, SetStatus
  <2>. QED
    BY <1>1, <2>1, AdvanceStep
<1>4. CASE AwaitApproval
  <2>1. status' # status =>
          /\ status' = [status EXCEPT !["sender"] = "AwaitingApproval"]
          /\ CanTransition(status["sender"], "AwaitingApproval")
    BY <1>4 DEF AwaitApproval, TransitionOrFail, SetStatus
  <2>. QED
    BY <1>1, <2>1, AdvanceStep
<1>5. CASE ReadAccept
  <2>1. status' # status =>
          /\ status' = [status EXCEPT !["sender"] = "Connecting"]
          /\ CanTransition(status["sender"], "Connecting")
    BY <1>5 DEF ReadAccept, TransitionOrFail, SetStatus
  <2>. QED
    BY <1>1, <2>1, AdvanceStep
<1>6. CASE ReadRefusal
  <2>1. InPlace = {}
    BY <1>6 DEF ReadRefusal, RejectionInv, InPlace, Leaving
  <2>2. PICK s \in {"Cancelled", "Rejected"} : TryTransition("sender", s)
    BY <1>6 DEF ReadRefusal
  <2>3. Entitled("sender", s)
    BY <2>1, <2>2 DEF Entitled
  <2>. QED
    BY <1>1, <2>2, <2>3, TryStep
<1>7. CASE StartTransfer
  <2>1. status' # status =>
          /\ status' = [status EXCEPT !["sender"] = "Transferring"]
          /\ CanTransition(status["sender"], "Transferring")
    BY <1>7 DEF StartTransfer, TransitionOrFail, SetStatus
  <2>. QED
    BY <1>1, <2>1, AdvanceStep
<1>8. CASE FinishSending
  <2>1. Entitled("sender", "Completed")
    BY <1>8 DEF FinishSending, DeliveryInv, Entitled
  <2>2. \/ status' = status
        \/ /\ status' = [status EXCEPT !["sender"] = "Completed"]
           /\ CanTransition(status["sender"], "Completed")
    BY <1>8 DEF FinishSending, SetStatus
  <2>3. CASE status' = status
    BY <1>1, <2>3, Quiet
  <2>4. CASE status' # status
    BY <1>1, <2>1, <2>2, <2>4, StatusStep
  <2>. QED
    BY <2>3, <2>4
<1>9. CASE SettleSender
  <2>1. PICK s \in {"Cancelled", "Failed"} : TryTransition("sender", s)
    BY <1>9 DEF SettleSender, FailTransfer
  <2>2. Entitled("sender", s)
    BY <2>1 DEF Entitled
  <2>. QED
    BY <1>1, <2>1, <2>2, TryStep
<1>10. CASE \/ CheckRunning \/ RegisterSender \/ SetupFails \/ ConnectPeer
            \/ WriteOffer \/ AllDelivered \/ SenderInterrupted
            \/ SenderBroken \/ ResetSender \/ RemoveSender
  BY <1>1, <1>10, Quiet
     DEF CheckRunning, RegisterSender, SetupFails, ConnectPeer, WriteOffer, AllDelivered,
         SenderInterrupted, SenderBroken, ResetSender, RemoveSender
<1>. QED
  BY <1>2, <1>3, <1>4, <1>5, <1>6, <1>7, <1>8, <1>9, <1>10 DEF SenderStep

\* The steps of the receiver's task keep the contract, one by one.
LEMMA ReceiverContract ==
  ASSUME SafetyInv, ReceiverStep
  PROVE  ContractOrStutter
<1> USE DEF SafetyInv, ReceiverKeeps, Ends, Status, Terminal
<1>1. InPlace' = InPlace
  BY DEF ReceiverStep, AcceptOffer, ReadOffer, PushIncoming, AcceptDecision,
         RefuseDecision, WriteRefusal, SettleRefusal, WriteAccept,
         StartReceiving, AllReceived, WriteCompletion, ReceiverInterrupted,
         ReceiverBroken, CleanupReceiver, SettleReceiver, ResetReceiver,
         InPlace
<1>2. ReadOffer \/ Consent' = Consent
  BY DEF ReceiverStep, AcceptOffer, PushIncoming, AcceptDecision,
         RefuseDecision, WriteRefusal, SettleRefusal, WriteAccept,
         StartReceiving, AllReceived, WriteCompletion, ReceiverInterrupted,
         ReceiverBroken, CleanupReceiver, SettleReceiver, ResetReceiver,
         Consent
<1>3. CASE ReadOffer
  <2>1. status' = status /\ status["receiver"] # "Rejected" /\ ~Consent
    BY <1>3 DEF ReadOffer, ExitInv, ConsentInv, Consent
  <2>2. Consent' = FALSE \/ Consent' = TRUE
    BY DEF Consent
  <2>3. Consent = FALSE
    BY <2>1 DEF Consent
  <2>. QED
    BY <1>1, <2>1, <2>2, <2>3, Quiet, AgreeStep
<1> SUFFICES ASSUME Consent' = Consent PROVE ContractOrStutter
  BY <1>2, <1>3
<1>4. CASE PushIncoming
  <2>1. PICK s \in {"Connecting", "AwaitingApproval"} : SetStatus("receiver", s)
    BY <1>4 DEF PushIncoming
  <2>2. status["receiver"] = "Absent"
    BY <1>4 DEF PushIncoming, ExitInv
  <2>3. Entitled("receiver", s)
    BY <2>1 DEF Entitled
  <2>. QED
    BY <1>1, <2>1, <2>2, <2>3, StatusStep DEF SetStatus
<1>5. CASE AcceptDecision
  <2>1. status' # status =>
          /\ status' = [status EXCEPT !["receiver"] = "Connecting"]
          /\ CanTransition(status["receiver"], "Connecting")
    BY <1>5 DEF AcceptDecision, TransitionOrFail, SetStatus
  <2>. QED
    BY <1>1, <2>1, AdvanceStep
<1>6. CASE SettleRefusal
  <2>1. PICK s \in {"Cancelled", "Failed", "Rejected"} :
          TryTransition("receiver", s) /\ (s = "Rejected" => ~Consent)
    BY <1>6 DEF SettleRefusal
  <2>2. Entitled("receiver", s)
    BY <2>1 DEF Entitled
  <2>. QED
    BY <1>1, <2>1, <2>2, TryStep
<1>7. CASE StartReceiving
  <2>1. status' # status =>
          /\ status' = [status EXCEPT !["receiver"] = "Transferring"]
          /\ CanTransition(status["receiver"], "Transferring")
    BY <1>7 DEF StartReceiving, TransitionOrFail, SetStatus
  <2>. QED
    BY <1>1, <2>1, AdvanceStep
<1>8. CASE AllReceived
  <2>1. InPlace = Files
    BY <1>8 DEF AllReceived, JoinAll, InPlace
  <2>2. Entitled("receiver", "Completed")
    BY <2>1 DEF Entitled
  <2>3. \/ status' = status
        \/ /\ status' = [status EXCEPT !["receiver"] = "Completed"]
           /\ CanTransition(status["receiver"], "Completed")
    BY <1>8 DEF AllReceived, TransitionOrFail, SetStatus
  <2>4. CASE status' = status
    BY <1>1, <2>4, Quiet
  <2>5. CASE status' # status
    BY <1>1, <2>2, <2>3, <2>5, StatusStep
  <2>. QED
    BY <2>4, <2>5
<1>9. CASE SettleReceiver
  <2>1. CASE status' = status
    BY <1>1, <2>1, Quiet
  <2>2. CASE status' # status
    <3>1. PICK s \in {"Cancelled", "Failed"} : TryTransition("receiver", s)
      BY <1>9, <2>2 DEF SettleReceiver, FailTransfer
    <3>2. Entitled("receiver", s)
      BY <3>1 DEF Entitled
    <3>. QED
      BY <1>1, <3>1, <3>2, TryStep
  <2>. QED
    BY <2>1, <2>2
<1>10. CASE \/ AcceptOffer \/ RefuseDecision \/ WriteRefusal \/ WriteAccept
            \/ WriteCompletion \/ ReceiverInterrupted \/ ReceiverBroken
            \/ CleanupReceiver \/ ResetReceiver
  BY <1>1, <1>10, Quiet
     DEF AcceptOffer, HasStream, RefuseDecision, WriteRefusal, WriteAccept,
         WriteCompletion, ReceiverInterrupted, ReceiverBroken,
         CleanupReceiver, ResetReceiver
<1>. QED
  BY <1>3, <1>4, <1>5, <1>6, <1>7, <1>8, <1>9, <1>10 DEF ReceiverStep

\* The steps of the file streams keep the contract: files arrive once agreed
\* to.
LEMMA FilesContract ==
  ASSUME SafetyInv, NEW f \in Files, StageMoves(f)
  PROVE  ContractOrStutter
<1> USE DEF SafetyInv, FileKeeps
<1>1. UNCHANGED <<status, Consent>>
  BY DEF StageMoves, OpenStream, SendFile, AckFile, RouteStream, TakeStream,
         ReadFile, StoreFile, StoreFails, RecordFile, AnswerFile, Step, Chunk,
         Consent
<1>2. CASE StoreFile(f)
  <2>1. InPlace' = InPlace \union {f}
    BY <1>2 DEF StoreFile, Step, Advance, InPlace, TypeOK, StageTypeOK
  <2>2. stage[f] = "verified"
    BY <1>2 DEF StoreFile, Step
  <2>3. Consent /\ status["sender"] # "Rejected"
    BY <2>2 DEF ConsentInv, RejectionInv
  <2>. QED
    BY <1>1, <2>1, <2>3, DeliverStep
<1>3. CASE ~StoreFile(f)
  <2>1. InPlace' = InPlace
    BY <1>3 DEF StageMoves, OpenStream, SendFile, AckFile, RouteStream,
            TakeStream, ReadFile, StoreFails, RecordFile, AnswerFile, Step,
            Chunk, Advance, InPlace, TypeOK, StageTypeOK
  <2>. QED
    BY <1>1, <2>1, Quiet
<1>. QED
  BY <1>2, <1>3

\* The calls of the users keep the contract at any point of the tasks.
LEMMA CallContract ==
  ASSUME SafetyInv, NEW e \in Ends, UserCall(e) \/ CallReturns(e)
  PROVE  ContractOrStutter
<1> USE DEF SafetyInv
<1>1. InPlace' = InPlace
  BY DEF UserCall, CallReturns, InPlace
<1>2. CASE UserCall(e)
  <2>1. status' = status
    BY <1>2 DEF UserCall, Pause, Resume, Cancel, Shutdown
  <2>2. Consent' = Consent
    BY <1>2 DEF UserCall, Pause, Resume, Cancel, Shutdown, Answer, ConsentInv, Consent
  <2>. QED
    BY <1>1, <2>1, <2>2, Quiet
<1>3. CASE CallReturns(e)
  <2>1. PICK s \in {"Paused", "Transferring", "Cancelled"} : TryTransition(e, s)
    BY <1>3 DEF CallReturns, FinishOp
  <2>2. s \in Status /\ Entitled(e, s)
    BY <2>1 DEF Entitled, Status, Terminal
  <2>3. Consent' = Consent
    BY <1>3 DEF CallReturns, FinishOp, Consent
  <2>. QED
    BY <1>1, <2>1, <2>2, <2>3, TryStep
<1>. QED
  BY <1>2, <1>3

\* The answer to a request keeps the contract: an acceptance is the
\* agreement.
LEMMA AnswerContract ==
  ASSUME SafetyInv, UserAnswer
  PROVE  ContractOrStutter
<1>1. PICK d \in {"accept", "reject"} : RespondIncoming(d, Listening)
  BY DEF UserAnswer
<1>2. UNCHANGED <<status, InPlace, automatic>> /\ pending
  BY <1>1 DEF UserAnswer, RespondIncoming, InPlace
<1>3. CASE ~Listening
  BY <1>1, <1>2, <1>3, Quiet DEF RespondIncoming, Answer, Consent
<1>4. CASE Listening
  <2>1. decision = "none"
    BY <1>2, <1>4 DEF SafetyInv, ConsentInv
  <2>2. status["receiver"] # "Rejected"
    BY <1>4 DEF SafetyInv, RejectionInv, Gone, Leaving, Listening
  <2>3. Consent = automatic /\ Consent' \in BOOLEAN
    BY <2>1 DEF Consent, SafetyInv, TypeOK, JobTypeOK
  <2>4. CASE Consent' = Consent
    BY <1>2, <2>4, Quiet
  <2>5. CASE Consent' # Consent
    <3>1. ~Consent /\ Consent'
      BY <1>1, <1>2, <2>1, <2>3, <2>5 DEF Consent
    <3>. QED
      BY <1>2, <2>2, <3>1, AgreeStep DEF SafetyInv
  <2>. QED
    BY <2>4, <2>5
<1>. QED
  BY <1>3, <1>4

\* Every step of a state satisfying SafetyInv is a step of the contract or a
\* stutter.
LEMMA ContractStep == SafetyInv /\ [Next]_vars => ContractOrStutter
<1> SUFFICES ASSUME SafetyInv, [Next]_vars PROVE ContractOrStutter
  OBVIOUS
<1>1. CASE \/ LoseConnection \/ Finished \/ UNCHANGED vars
           \/ FileFails("sender") \/ FileFails("receiver")
  BY <1>1, Quiet
     DEF LoseConnection, Finished, FileFails, FileKeeps, vars, jobVars,
         Consent, InPlace
<1>. QED
  BY <1>1, SenderContract, ReceiverContract, FilesContract, CallContract,
     AnswerContract
     DEF Next, SenderNext, ReceiverNext, SenderFileStep, ReceiverFileStep,
         StageMoves

(***************************************************************************)
(* The two tasks, with every interleaving of users, faults and timers,     *)
(* implement the contract of TransferContract: one outcome per end, kept   *)
(* for ever; files put in place only after consent and never under a       *)
(* rejection; Completed at the receiver only with every file in place, and *)
(* at the sender only after the receiver (quic.rs:244-360,                 *)
(* receiver.rs:51-304).                                                    *)
(***************************************************************************)
THEOREM Refines == Spec => ImplementsContract
<1>1. Init => Contract!Init
  BY ContractInit
<1>2. SafetyInv /\ [Next]_vars => [Contract!Next]_(Contract!contractVars)
  BY ContractStep DEF ContractOrStutter
<1>. QED
  BY Safety, <1>1, <1>2, PTL DEF Spec, ImplementsContract, Contract!Spec
=============================================================================
