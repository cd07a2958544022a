--------------------------- MODULE AgentTurnProofs ---------------------------
(***************************************************************************)
(* Proofs about a conversation (modules AgentTurn and ActionModel), for any*)
(* set of calls and any number of queries, stops and retries: what may run *)
(* side by side, that a conversation shown as reconnecting has a recovery, *)
(* where each call is from the response that makes it to the request that  *)
(* takes its result, once, and that a conversation shown as in progress is *)
(* never stuck.                                                            *)
(***************************************************************************)
EXTENDS AgentTurn, SequenceLemmas, TLAPS

-----------------------------------------------------------------------------
(* The phase barrier *)

\* One run of the start loop keeps the barrier, whatever is in the queue.
LEMMA StartsKeepBarrier ==
    ASSUME PhaseBarrier, NEW queue, NEW accepted, NEW start \in Starts(queue, accepted),
           NEW a \in running_actions \cup start.async,
           NEW b \in running_actions \cup start.async, a # b
    PROVE  Kind[a] = "read" /\ Kind[b] = "read"
<1> DEFINE before(i) == running_actions \cup (start.async \cap FirstOf(queue, i - 1))
<1>1. /\ start.async \subseteq FirstOf(queue, start.count)
      /\ \A i \in 1..start.count : MayJoin(queue[i], before(i))
  BY DEF Starts
<1>2. ASSUME NEW x \in start.async, NEW y \in running_actions \cup start.async, x # y,
             y \in running_actions \/
                \E i \in 1..start.count : queue[i] = x /\ y \in FirstOf(queue, i - 1)
      PROVE  Kind[x] = "read" /\ Kind[y] = "read"
  <2>1. PICK i \in 1..start.count : queue[i] = x /\ y \in before(i)
    BY <1>1, <1>2 DEF FirstOf
  <2>2. MayJoin(x, before(i)) /\ before(i) # {}
    BY <1>1, <2>1
  <2>3. QED BY <2>1, <2>2 DEF MayJoin
<1>3. CASE a \in running_actions /\ b \in running_actions
  BY <1>3 DEF PhaseBarrier
<1>4. CASE a \in start.async /\ b \in running_actions
  BY <1>2, <1>4
<1>5. CASE b \in start.async /\ a \in running_actions
  BY <1>2, <1>5
<1>6. CASE a \in start.async /\ b \in start.async
  <2>1. PICK i \in 1..start.count : queue[i] = a
    BY <1>1, <1>6 DEF FirstOf
  <2>2. PICK j \in 1..start.count : queue[j] = b
    BY <1>1, <1>6 DEF FirstOf
  <2>3. CASE i < j
    <3>1. a \in FirstOf(queue, j - 1)
      BY <2>1, <2>3 DEF FirstOf
    <3>2. QED BY <1>2, <1>6, <2>2, <3>1
  <2>4. CASE j < i
    <3>1. b \in FirstOf(queue, i - 1)
      BY <2>2, <2>4 DEF FirstOf
    <3>2. QED BY <1>2, <1>6, <2>1, <3>1
  <2>5. i < j \/ j < i
    BY <2>1, <2>2
  <2>6. QED BY <2>3, <2>4, <2>5
<1>7. QED BY <1>3, <1>4, <1>5, <1>6

LEMMA StartActionsKeepsBarrier ==
    ASSUME PhaseBarrier, NEW queue, NEW accepted, NEW start \in Starts(queue, accepted),
           StartActions(queue, start)
    PROVE  PhaseBarrier'
BY StartsKeepBarrier DEF StartActions, PhaseBarrier

\* A command or an unclassified call never runs beside another call: an action
\* either takes calls out of the running phase, or starts calls by the loop of
\* try_to_execute_available_actions, or starts one call with nothing running.
THEOREM CommandsRunAlone == Spec => []PhaseBarrier
<1>1. Init => PhaseBarrier
  BY DEF Init, ActionInit, PhaseBarrier
<1>2. PhaseBarrier /\ [Next]_vars => PhaseBarrier'
  <2> SUFFICES ASSUME PhaseBarrier, [Next]_vars PROVE PhaseBarrier'
    OBVIOUS
  <2>1. ASSUME running_actions' \subseteq running_actions PROVE PhaseBarrier'
    BY <2>1 DEF PhaseBarrier
  <2>2. CASE HandleEvent
    <3>1. CASE RecordAndContinue
      BY <3>1, StartActionsKeepsBarrier DEF RecordAndContinue
    <3>2. CASE HandleExecutorFinished
      BY <2>1, <3>2 DEF HandleExecutorFinished
    <3>3. CASE RecordAndWait \/ RecordLast
      BY <2>1, <3>3 DEF RecordAndWait, RecordLast
    <3>4. CASE SubmitQuery \/ SendFollowUp
      BY <2>1, <3>4 DEF SubmitQuery, SendFollowUp
    <3>5. CASE IgnoreActionFinished \/ HandleStreamCancelled
      BY <2>1, <3>5 DEF IgnoreActionFinished, HandleStreamCancelled
    <3>6. QED BY <2>2, <3>1, <3>2, <3>3, <3>4, <3>5 DEF HandleEvent, Record
  <2>3. ASSUME NEW a \in Actions, ActionCallback(a) PROVE PhaseBarrier'
    <3>1. ASSUME NEW out \in {"ok", "snapshot"}, ExecutionDone(a, out) PROVE PhaseBarrier'
      BY <2>1, <3>1 DEF ExecutionDone
    <3>2. CASE ExecuteAction(a)
      <4>1. CASE StartActions(pending_actions, [count |-> 1, async |-> {a}])
        BY <3>2, <4>1 DEF ExecuteAction, StartActions, PhaseBarrier
      <4>2. CASE \E start \in Starts(pending_actions, {a}) : StartActions(pending_actions, start)
        BY <4>2, StartActionsKeepsBarrier
      <4>3. QED BY <3>2, <4>1, <4>2 DEF ExecuteAction
    <3>3. CASE CancelRunning(a) \/ CancelPending(a)
      BY <2>1, <3>3 DEF CancelRunning, CancelPending
    <3>4. QED BY <2>3, <3>1, <3>2, <3>3 DEF ActionCallback
  <2>4. ASSUME NEW i \in DOMAIN pending_preprocessed_actions, BatchPreprocessed(i)
        PROVE  PhaseBarrier'
    BY <2>4, StartActionsKeepsBarrier DEF BatchPreprocessed, Preprocessed
  <2>5. CASE StreamEvent \/ RetryWhenOnline \/ StreamComplete
    <3>1. running_actions' = running_actions
      BY <2>5 DEF StreamEvent, RetryWhenOnline, StreamComplete, ReceiveClientActions,
                  FinishDone, FinishError, Retry, ReceiveError, Truncated, UnchangedByStream
    <3>2. QED BY <2>1, <3>1
  <2>6. CASE ResumeFires \/ User
    BY <2>1, <2>6 DEF ResumeFires, User, SendQuery, StopStream, StopActions
  <2>7. CASE UNCHANGED vars
    BY <2>1, <2>7 DEF vars, action_vars
  <2>8. QED BY <2>2, <2>3, <2>4, <2>5, <2>6, <2>7 DEF Next
<1>3. QED BY <1>1, <1>2, PTL DEF Spec

-----------------------------------------------------------------------------
(* Retries and resumes *)

\* The stream and the scheduled resumes have their types, and a parked retry
\* still has one to spend: without that the retry it becomes could exceed the
\* budget.
RecoveryTypes == StreamTypeOK /\ ResumesTypeOK

LEMMA Bounds == MAX_RETRIES \in Nat /\ MaxCalls \in Nat
BY TurnAssumption DEF TurnAssumption

LEMMA NoneIsNoStream == None \notin Streams
BY TurnAssumption DEF TurnAssumption

LEMMA NewStreamType == \A can_resume \in BOOLEAN : NewStream(can_resume) \in Streams
<1>1. 0 \in 0..MAX_RETRIES /\ <<>> \in Seq(Actions)
  BY Bounds
<1>2. QED BY <1>1 DEF NewStream, Streams

LEMMA SendTypes ==
    ASSUME NEW results, NEW can_resume \in BOOLEAN, Send(results, can_resume)
    PROVE  StreamTypeOK' /\ status' = "InProgress"
<1>1. stream' \in Streams /\ status' = "InProgress"
  BY NewStreamType DEF Send
<1>2. ~stream'.deferred_retry_pending
  BY DEF Send, NewStream
<1>3. QED BY <1>1, <1>2 DEF StreamTypeOK

LEMMA DropTypes ==
    ASSUME ResumesTypeOK, DropTrackedResume
    PROVE  ResumesTypeOK'
<1>1. pending_auto_resumes' \in Nat
  BY DEF ResumesTypeOK, DropTrackedResume
<1>2. has_resume_handle' = FALSE
  BY DEF DropTrackedResume
<1>3. QED BY <1>1, <1>2, Zenon DEF ResumesTypeOK

LEMMA ScheduleTypes ==
    ASSUME ResumesTypeOK, ScheduleResume
    PROVE  ResumesTypeOK' /\ pending_auto_resumes' > 0
BY DEF ResumesTypeOK, ScheduleResume

LEMMA RetriedType ==
    ASSUME StreamTypeOK, stream # None, stream.retry_count < MAX_RETRIES, stream' = Retried
    PROVE  StreamTypeOK'
<1>1. stream \in Streams /\ stream.retry_count + 1 \in 0..MAX_RETRIES
  BY Bounds DEF StreamTypeOK, Streams
<1>2. Retried \in Streams /\ ~Retried.deferred_retry_pending
  BY <1>1 DEF Retried, Streams
<1>3. QED BY <1>2 DEF StreamTypeOK

LEMMA CallsType == \A calls \in Calls : calls \in Seq(Actions)
<1> SUFFICES ASSUME NEW n \in 1..MaxCalls, NEW q \in [1..n -> Actions \ used]
             PROVE  q \in Seq(Actions)
  <2>1. <<>> \in Seq(Actions)
    OBVIOUS
  <2>2. QED BY <2>1, Zenon DEF Calls
<1>1. n \in Nat
  BY Bounds
<1>2. QED BY <1>1

\* The client handles no event and no callback that touches neither the stream
\* nor the scheduled resumes.
LEMMA OtherSteps ==
    ASSUME \/ Record /\ UNCHANGED controller_vars
           \/ ~submitting /\ HandleExecutorFinished /\ UNCHANGED controller_vars
           \/ IgnoreActionFinished
           \/ \E a \in Actions : ActionCallback(a)
           \/ \E i \in DOMAIN pending_preprocessed_actions : BatchPreprocessed(i)
           \/ UNCHANGED vars
    PROVE  UNCHANGED controller_vars
BY DEF IgnoreActionFinished, ActionCallback, BatchPreprocessed, vars

LEMMA StreamEventTypes ==
    ASSUME RecoveryTypes, StreamEvent
    PROVE  RecoveryTypes'
<1>1. stream \in Streams /\ ~stream.deferred_retry_pending
  BY DEF StreamEvent, ReceiveClientActions, FinishDone, FinishError, Retry, ReceiveError,
         Truncated, Streaming, RecoveryTypes, StreamTypeOK, Streams
<1>2. CASE ReceiveClientActions \/ FinishError
  <2>1. stream' \in Streams /\ ~stream'.deferred_retry_pending
    BY <1>1, <1>2 DEF ReceiveClientActions, FinishError, Streams
  <2>2. ResumesTypeOK'
    BY <1>2 DEF ReceiveClientActions, FinishError, RecoveryTypes, ResumesTypeOK
  <2>3. QED BY <2>1, <2>2 DEF RecoveryTypes, StreamTypeOK
<1>3. ASSUME NEW calls \in Calls, FinishDone(calls) PROVE RecoveryTypes'
  BY <1>1, <1>3, CallsType DEF FinishDone, RecoveryTypes, StreamTypeOK, ResumesTypeOK, Streams
<1>4. ASSUME NEW recoverable \in BOOLEAN, NEW online \in BOOLEAN, Retry(recoverable, online)
      PROVE  RecoveryTypes'
  <2>1. stream.retry_count < MAX_RETRIES
    BY <1>1, <1>4, TurnAssumption DEF Retry, recovery_action, Streams, TurnAssumption
  <2>2. ResumesTypeOK'
    BY <1>4 DEF Retry, RecoveryTypes, ResumesTypeOK
  <2>3. CASE stream' = Retried
    BY <1>4, <2>1, <2>2, <2>3, RetriedType DEF RecoveryTypes, Retry, Streaming
  <2>4. CASE stream' = [stream EXCEPT !.deferred_retry_pending = TRUE]
    BY <1>1, <2>1, <2>2, <2>4 DEF RecoveryTypes, StreamTypeOK, Streams
  <2>5. QED BY <1>4, <2>3, <2>4 DEF Retry
<1>5. ASSUME NEW recoverable \in BOOLEAN, NEW online \in BOOLEAN,
             ReceiveError(recoverable, online)
      PROVE  RecoveryTypes'
  BY <1>1, <1>5 DEF ReceiveError, RecoveryTypes, StreamTypeOK, ResumesTypeOK, Streams
<1>6. ASSUME NEW online \in BOOLEAN, Truncated(online) PROVE RecoveryTypes'
  <2>1. StreamTypeOK'
    BY <1>6 DEF Truncated, StreamTypeOK
  <2>2. ResumesTypeOK'
    BY <1>6, ScheduleTypes DEF Truncated, RecoveryTypes, ResumesTypeOK
  <2>3. QED BY <2>1, <2>2 DEF RecoveryTypes
<1>7. QED BY <1>2, <1>3, <1>4, <1>5, <1>6 DEF StreamEvent

LEMMA RecoveryTypesStep ==
    ASSUME RecoveryTypes, [Next]_vars
    PROVE  RecoveryTypes'
<1>1. CASE UNCHANGED controller_vars
  BY <1>1 DEF controller_vars, RecoveryTypes, StreamTypeOK, ResumesTypeOK
<1>2. CASE SubmitQuery
  BY <1>2, SendTypes DEF SubmitQuery, RecoveryTypes, ResumesTypeOK
<1>3. CASE SendFollowUp
  BY <1>3, SendTypes, DropTypes DEF SendFollowUp, RecoveryTypes
<1>4. CASE HandleStreamCancelled
  BY <1>4, ScheduleTypes DEF HandleStreamCancelled, RecoveryTypes, StreamTypeOK, ResumesTypeOK
<1>5. CASE StreamEvent
  BY <1>5, StreamEventTypes
<1>6. CASE RetryWhenOnline
  BY <1>6, RetriedType
  DEF RetryWhenOnline, RecoveryTypes, StreamTypeOK, ResumesTypeOK
<1>7. CASE StreamComplete
  BY <1>7, ScheduleTypes DEF StreamComplete, RecoveryTypes, StreamTypeOK, ResumesTypeOK
<1>8. CASE ResumeFires
  <2>1. pending_auto_resumes' \in Nat
    BY <1>8 DEF ResumeFires, RecoveryTypes, ResumesTypeOK
  <2>2. has_resume_handle' = FALSE
    BY <1>8 DEF ResumeFires
  <2>3. ResumesTypeOK'
    BY <2>1, <2>2, Zenon DEF ResumesTypeOK
  <2>4. ASSUME Send(<<>>, FALSE) PROVE StreamTypeOK'
    BY <2>4, SendTypes
  <2>5. ASSUME UNCHANGED stream PROVE StreamTypeOK'
    BY <2>5 DEF RecoveryTypes, StreamTypeOK
  <2>6. QED BY <1>8, <2>3, <2>4, <2>5 DEF ResumeFires, RecoveryTypes
<1>9. CASE User
  <2>1. DropTrackedResume /\ (stream' = None \/ stream' = stream)
    BY <1>9 DEF User, SendQuery, StopStream, StopActions
  <2>2. QED BY <2>1, DropTypes DEF RecoveryTypes, StreamTypeOK
<1>10. QED BY <1>1, <1>2, <1>3, <1>4, <1>5, <1>6, <1>7, <1>8, <1>9, OtherSteps
           DEF Next, HandleEvent

LEMMA RecoveryTypesInit == Init => RecoveryTypes
<1>1. Init => StreamTypeOK
  BY DEF Init, StreamTypeOK
<1>2. Init => pending_auto_resumes \in Nat /\ has_resume_handle = FALSE
  BY DEF Init
<1>3. Init => ResumesTypeOK
  BY <1>2, Zenon DEF ResumesTypeOK
<1>4. QED BY <1>1, <1>3 DEF RecoveryTypes

\* A request is retried at most MAX_RETRIES times, and a retry that waits for
\* the client to be online is within them.
THEOREM RetriesWithinBudget == Spec => []StreamTypeOK
<1>1. Init => RecoveryTypes
  BY RecoveryTypesInit
<1>2. RecoveryTypes /\ [Next]_vars => RecoveryTypes'
  BY RecoveryTypesStep
<1>3. RecoveryTypes => StreamTypeOK
  BY DEF RecoveryTypes
<1>4. QED BY <1>1, <1>2, <1>3, PTL DEF Spec

-----------------------------------------------------------------------------
(* Reconnecting *)

\* The end of a stream the user has stopped is about to be handled.
Stopping ==
    /\ settling = <<>> /\ ~submitting /\ stream = None
    /\ effects # <<>> /\ Head(effects).event = "stream" /\ Head(effects).reason = "manual"

\* ReconnectingHasARecovery between callbacks, and what holds inside one; only
\* an attempt that is still open is parked.
Recovering ==
    /\ stream # None /\ stream.deferred_retry_pending => stream.stage = "open"
    /\ status = "TransientError" =>
        \/ submitting
        \/ stream # None /\ (stream.deferred_retry_pending \/ stream.should_resume)
        \/ stream = None /\ pending_auto_resumes > 0
        \/ Stopping

RecoveryInv == RecoveryTypes /\ Recovering

\* What runs calls or records results never shows the conversation reconnecting.
LEMMA StatusOfOtherSteps ==
    ASSUME status' = "TransientError",
           \/ Record
           \/ HandleExecutorFinished
           \/ IgnoreActionFinished
           \/ \E a \in Actions : ActionCallback(a)
           \/ \E i \in DOMAIN pending_preprocessed_actions : BatchPreprocessed(i)
    PROVE  status = "TransientError"
BY DEF Record, RecordAndWait, RecordLast, RecordAndContinue, HandleExecutorFinished,
       IgnoreActionFinished, ActionCallback, ExecutionDone, ExecuteAction, CancelRunning,
       CancelPending, BatchPreprocessed, Preprocessed, StartActions

LEMMA OtherStepsRecover ==
    ASSUME Recovering, UNCHANGED controller_vars,
           \/ Record
           \/ HandleExecutorFinished
           \/ IgnoreActionFinished
           \/ \E a \in Actions : ActionCallback(a)
           \/ \E i \in DOMAIN pending_preprocessed_actions : BatchPreprocessed(i)
    PROVE  Recovering'
<1>1. ~Stopping
  BY DEF Stopping, Record, RecordAndWait, RecordLast, RecordAndContinue,
         HandleExecutorFinished, IgnoreActionFinished, Handles, ActionCallback,
         BatchPreprocessed, Quiescent
<1>2. status' = "TransientError" => status = "TransientError"
  BY StatusOfOtherSteps
<1>3. QED BY <1>1, <1>2 DEF Recovering, controller_vars

LEMMA StreamEventsRecover ==
    ASSUME RecoveryInv, StreamEvent
    PROVE  Recovering'
<1>1. /\ stream \in Streams /\ stream # None
      /\ ~stream.deferred_retry_pending /\ stream.stage = "open"
      /\ status = "TransientError" => stream.should_resume
  <2>1. Streaming
    BY DEF StreamEvent, ReceiveClientActions, FinishDone, FinishError, Retry, ReceiveError,
           Truncated
  <2>2. ~submitting /\ ~Stopping
    BY <2>1 DEF Streaming, Quiescent, Stopping
  <2>3. QED BY <2>1, <2>2 DEF Streaming, RecoveryInv, RecoveryTypes, StreamTypeOK, Recovering
<1>2. ASSUME stream' \in Streams, stream'.deferred_retry_pending = FALSE,
             status' = "TransientError" => stream'.should_resume
      PROVE  Recovering'
  BY <1>2, NoneIsNoStream DEF Recovering
<1>3. CASE ReceiveClientActions \/ FinishError
  <2>1. stream' \in Streams /\ stream'.deferred_retry_pending = FALSE
    BY <1>1, <1>3 DEF ReceiveClientActions, FinishError, Streams
  <2>2. status' = "TransientError" => stream'.should_resume
    BY <1>1, <1>3 DEF ReceiveClientActions, FinishError, Streams
  <2>3. QED BY <1>2, <2>1, <2>2
<1>4. ASSUME NEW calls \in Calls, FinishDone(calls) PROVE Recovering'
  <2>1. stream' \in Streams /\ stream'.deferred_retry_pending = FALSE
    BY <1>1, <1>4, CallsType DEF FinishDone, Streams
  <2>2. status' = "TransientError" => stream'.should_resume
    BY <1>1, <1>4 DEF FinishDone, Streams
  <2>3. QED BY <1>2, <2>1, <2>2
<1>5. ASSUME NEW recoverable \in BOOLEAN, NEW online \in BOOLEAN, Retry(recoverable, online)
      PROVE  Recovering'
  <2>1. stream.retry_count + 1 \in 0..MAX_RETRIES
    BY <1>1, <1>5, Bounds DEF Retry, recovery_action, Streams
  <2>2. CASE stream' = Retried /\ UNCHANGED status
    <3>1. stream' \in Streams /\ stream'.deferred_retry_pending = FALSE
      BY <1>1, <2>1, <2>2 DEF Retried, Streams
    <3>2. status' = "TransientError" => stream'.should_resume
      BY <1>1, <2>2 DEF Retried, Streams
    <3>3. QED BY <1>2, <3>1, <3>2
  <2>3. CASE stream' = [stream EXCEPT !.deferred_retry_pending = TRUE]
    <3>1. /\ stream' \in Streams /\ stream'.deferred_retry_pending = TRUE
          /\ stream'.stage = "open"
      BY <1>1, <2>3 DEF Streams
    <3>2. QED BY <3>1, NoneIsNoStream DEF Recovering
  <2>4. QED BY <1>5, <2>2, <2>3 DEF Retry
<1>6. ASSUME NEW recoverable \in BOOLEAN, NEW online \in BOOLEAN,
             ReceiveError(recoverable, online)
      PROVE  Recovering'
  <2>1. stream' \in Streams /\ stream'.deferred_retry_pending = FALSE
    BY <1>1, <1>6 DEF ReceiveError, Streams
  <2>2. status' = "TransientError" => stream'.should_resume
    BY <1>1, <1>6 DEF ReceiveError, FailedStatus, Streams
  <2>3. QED BY <1>2, <2>1, <2>2
<1>7. ASSUME NEW online \in BOOLEAN, Truncated(online) PROVE Recovering'
  <2>1. stream' = None
    BY <1>7 DEF Truncated
  <2>2. status' = "TransientError" => ScheduleResume
    BY <1>7 DEF Truncated, FailedStatus
  <2>3. status' = "TransientError" => pending_auto_resumes' > 0
    BY <2>2, ScheduleTypes DEF RecoveryInv, RecoveryTypes
  <2>4. QED BY <2>1, <2>3 DEF Recovering
<1>8. QED BY <1>3, <1>4, <1>5, <1>6, <1>7 DEF StreamEvent

LEMMA RecoveringStep ==
    ASSUME RecoveryInv, [Next]_vars
    PROVE  Recovering'
<1>1. ASSUME NEW results, NEW can_resume \in BOOLEAN, Send(results, can_resume)
      PROVE  Recovering'
  BY <1>1 DEF Send, NewStream, Recovering
<1>2. CASE \/ Record /\ UNCHANGED controller_vars
           \/ ~submitting /\ HandleExecutorFinished /\ UNCHANGED controller_vars
           \/ IgnoreActionFinished
           \/ \E a \in Actions : ActionCallback(a)
           \/ \E i \in DOMAIN pending_preprocessed_actions : BatchPreprocessed(i)
  BY <1>2, OtherSteps, OtherStepsRecover DEF RecoveryInv
<1>3. CASE UNCHANGED vars
  BY <1>3 DEF vars, action_vars, controller_vars, RecoveryInv, Recovering, Stopping
<1>4. CASE SubmitQuery \/ SendFollowUp
  BY <1>1, <1>4 DEF SubmitQuery, SendFollowUp
<1>5. CASE HandleStreamCancelled
  <2>1. /\ UNCHANGED <<stream, submitting>> /\ ~submitting
        /\ pending_auto_resumes > 0 => pending_auto_resumes' > 0
    BY <1>5 DEF HandleStreamCancelled, Handles, ScheduleResume, RecoveryInv, RecoveryTypes,
                ResumesTypeOK
  <2>2. status' = "TransientError" => status = "TransientError" /\ ~Stopping
    BY <1>5 DEF HandleStreamCancelled, PreservesInProgress, Stopping
  <2>3. QED BY <2>1, <2>2 DEF RecoveryInv, Recovering
<1>6. CASE StreamEvent
  BY <1>6, StreamEventsRecover
<1>7. CASE RetryWhenOnline
  <2>1. status' = "InProgress" /\ stream \in Streams /\ stream' = Retried
    BY <1>7 DEF RetryWhenOnline, RecoveryInv, RecoveryTypes, StreamTypeOK
  <2>2. ~stream'.deferred_retry_pending
    BY <2>1 DEF Retried, Streams
  <2>3. QED BY <2>1, <2>2 DEF Recovering
<1>8. CASE StreamComplete
  <2>1. /\ status' = status /\ stream # None /\ stream.stage # "open" /\ stream' = None
        /\ ~submitting /\ ~Stopping
    BY <1>8 DEF StreamComplete, UnchangedByStream, Quiescent, Stopping
  <2>2. status = "TransientError" => stream.should_resume
    BY <2>1 DEF RecoveryInv, Recovering
  <2>3. stream.should_resume => pending_auto_resumes' > 0
    BY <1>8, ScheduleTypes DEF StreamComplete, RecoveryInv, RecoveryTypes
  <2>4. QED BY <2>1, <2>2, <2>3 DEF Recovering
<1>9. CASE ResumeFires
  <2>1. CASE stream = None
    BY <1>1, <1>9, <2>1 DEF ResumeFires
  <2>2. CASE stream # None
    <3>1. UNCHANGED <<stream, status, submitting>> /\ ~submitting /\ ~Stopping
      BY <1>9, <2>2 DEF ResumeFires, Quiescent, Stopping
    <3>2. QED BY <2>2, <3>1 DEF RecoveryInv, Recovering
  <2>3. QED BY <2>1, <2>2
<1>10. CASE User
  <2>1. CASE SendQuery
    BY <2>1 DEF SendQuery, Recovering
  <2>2. CASE StopStream
    <3>1. /\ stream' = None /\ settling' = <<>> /\ submitting' = FALSE
          /\ effects' = <<StreamCancelled("manual", stream.should_resume)>>
      BY <2>2 DEF StopStream, Quiescent, CancelledStream
    <3>2. Stopping'
      BY <3>1 DEF Stopping, StreamCancelled
    <3>3. QED BY <3>1, <3>2 DEF Recovering
  <2>3. CASE StopActions
    BY <2>3 DEF StopActions, StoppedStatus, Recovering
  <2>4. QED BY <1>10, <2>1, <2>2, <2>3 DEF User
<1>11. QED BY <1>2, <1>3, <1>4, <1>5, <1>6, <1>7, <1>8, <1>9, <1>10 DEF Next, HandleEvent

\* A conversation shown as reconnecting always has the recovery it announces,
\* however stops, queries and further errors come in between.
THEOREM RecoveryIsComing == Spec => []ReconnectingHasARecovery
<1>1. Init => RecoveryInv
  <2>1. Init => Recovering
    BY DEF Init, ActionInit, Recovering
  <2>2. QED BY <2>1, RecoveryTypesInit DEF RecoveryInv
<1>2. RecoveryInv /\ [Next]_vars => RecoveryInv'
  BY RecoveryTypesStep, RecoveringStep DEF RecoveryInv
<1>3. RecoveryInv => ReconnectingHasARecovery
  BY DEF RecoveryInv, Recovering, ReconnectingHasARecovery, Quiescent, Stopping
<1>4. QED BY <1>1, <1>2, <1>3, PTL DEF Spec

-----------------------------------------------------------------------------
(* The calls and their results *)

(* Types *)

LEMMA ResultTypes ==
    ASSUME NEW a \in Actions, NEW out \in Outcomes, NEW why \in Reasons
    PROVE  /\ Result(a, out) \in Results
           /\ Finishing(a, out, why) \in Finishings
           /\ ExecutorFinished(a, out, why) \in Effects
           /\ ActionFinished(why) \in Effects
           /\ \A resume \in BOOLEAN : StreamCancelled(why, resume) \in Effects
BY DEF Result, Finishing, ExecutorFinished, ActionFinished, StreamCancelled, Results,
       Finishings, Effects

\* What an event carries, by its kind.
LEMMA EventTypes ==
    ASSUME NEW e \in Effects
    PROVE  /\ e.event \in {"executor", "action", "stream"}
           /\ e.event = "executor" => e.result \in Finishings
           /\ e.event # "executor" => e.reason \in Reasons
           /\ e.event = "stream" => e.resume \in BOOLEAN
BY DEF Effects

LEMMA FinishingTypes ==
    ASSUME NEW s \in Seq(Actions), NEW out \in Outcomes, NEW why \in Reasons
    PROVE  /\ [i \in DOMAIN s |-> Finishing(s[i], out, why)] \in Seq(Finishings)
           /\ [i \in DOMAIN s |-> ExecutorFinished(s[i], out, why)] \in Seq(Effects)
<1>1. DOMAIN s = 1..Len(s) /\ Len(s) \in Nat /\ \A i \in DOMAIN s : s[i] \in Actions
  OBVIOUS
<1>2. [i \in DOMAIN s |-> Finishing(s[i], out, why)] \in [1..Len(s) -> Finishings]
  BY <1>1, ResultTypes
<1>3. [i \in DOMAIN s |-> ExecutorFinished(s[i], out, why)] \in [1..Len(s) -> Effects]
  BY <1>1, ResultTypes
<1>4. QED BY <1>1, <1>2, <1>3, IsASeq

LEMMA InCallOrderType ==
    ASSUME action_order \in Seq(Actions), NEW results \in Seq(Results)
    PROVE  InCallOrder(results) \in Seq(Results)
<1> DEFINE of(ids) == Keep(results, {r \in ToSet(results) : r.id \in ids})
           parts == [i \in DOMAIN action_order |-> of({action_order[i]})]
<1>1. \A ids : of(ids) \in Seq(Results)
  BY KeepElements
<1> HIDE DEF of
<1>2. DOMAIN action_order = 1..Len(action_order) /\ Len(action_order) \in Nat
  OBVIOUS
<1>3. parts \in Seq(Seq(Results))
  BY <1>1, <1>2, IsASeq
<1> HIDE DEF parts
<1>4. FlattenSeq(parts) \in Seq(Results)
  BY <1>3, FlattenElements
<1>5. FlattenSeq(parts) \o of(Actions \ ToSet(action_order)) \in Seq(Results)
  BY <1>1, <1>4
<1>6. QED BY <1>5 DEF parts, of, InCallOrder

\* A start takes the first calls of the queue: those left, those waited for,
\* and those that ran at once.
Started(queue, start) == start.count \in 0..Len(queue) /\ start.async \subseteq FirstOf(queue, start.count)

LEMMA StartsStarted ==
    ASSUME NEW queue, NEW accepted, NEW start \in Starts(queue, accepted)
    PROVE  Started(queue, start)
BY DEF Starts, Started

LEMMA ResultsOfType ==
    ASSUME NEW queue \in Seq(Actions), NEW start, Started(queue, start)
    PROVE  ResultsOf(start, queue) \in Seq(Effects)
<1> DEFINE at_once == Keep(SubSeq(queue, 1, start.count), Actions \ start.async)
<1>1. at_once \in Seq(Actions)
  BY FrontElements, KeepElements DEF Started
<1> HIDE DEF at_once
<1>2. [i \in DOMAIN at_once |-> ExecutorFinished(at_once[i], "ok", "none")] \in Seq(Effects)
  BY <1>1, FinishingTypes DEF Outcomes, Reasons
<1>3. QED BY <1>2 DEF at_once, ResultsOf

\* The types of the variables that a start of calls changes.
StartTypes ==
    /\ pending_actions \in Seq(Actions)
    /\ running_actions \subseteq Actions
    /\ async_executing_actions \subseteq Actions
    /\ futures \subseteq Actions
    /\ needs_confirmation \in Actions \cup {None}
    /\ status \in Statuses

LEMMA StartActionsTypes ==
    ASSUME StartTypes, NEW queue \in Seq(Actions), NEW start, Started(queue, start),
           StartActions(queue, start)
    PROVE  StartTypes'
<1>1. start.count \in 0..Len(queue) /\ Len(queue) \in Nat
  BY DEF Started
<1>2. pending_actions' \in Seq(Actions)
  BY <1>1, RestElements DEF StartActions
<1>3. start.async \subseteq Actions
  BY <1>1 DEF Started, FirstOf
<1>4. Refused(start, queue) \in Actions \cup {None}
  BY <1>1 DEF Refused
<1>5. QED BY <1>2, <1>3, <1>4 DEF StartActions, StartTypes, Statuses

\* TypeOK but for the stream and the scheduled resumes.
CallTypes ==
    /\ StartTypes
    /\ pending_preprocessed_actions \in Seq([calls : Seq(Actions), done : BOOLEAN])
    /\ finished_action_results \in Seq(Results)
    /\ action_order \in Seq(Actions)
    /\ settling \in Seq(Finishings)
    /\ effects \in Seq(Effects)
    /\ submitting \in BOOLEAN
    /\ used \subseteq Actions /\ stopped \subseteq Actions
    /\ delivered \subseteq Results
    /\ stale_resume \in BOOLEAN
    /\ queries \in 0..MaxQueries /\ stops \in 0..MaxStops

LEMMA PartsOfTypeOK ==
    /\ TypeOK <=> CallTypes /\ RecoveryTypes
    /\ TypeOK' <=> CallTypes' /\ RecoveryTypes'
BY DEF TypeOK, CallTypes, StartTypes, RecoveryTypes

LEMMA RecordedType ==
    ASSUME CallTypes, settling # <<>>
    PROVE  /\ Recorded \in Seq(Results)
           /\ Head(settling) \in Finishings /\ Tail(settling) \in Seq(Finishings)
           /\ Append(effects, ActionFinished(Head(settling).reason)) \in Seq(Effects)
<1>1. /\ settling \in Seq(Finishings) /\ effects \in Seq(Effects)
      /\ finished_action_results \in Seq(Results)
  BY DEF CallTypes
<1>2. Head(settling) \in Finishings /\ Tail(settling) \in Seq(Finishings)
  BY <1>1
<1>3. /\ Head(settling).id \in Actions /\ Head(settling).out \in Outcomes
      /\ Head(settling).reason \in Reasons
  BY <1>2 DEF Finishings
<1>4. /\ Result(Head(settling).id, Head(settling).out) \in Results
      /\ ActionFinished(Head(settling).reason) \in Effects
  BY <1>3, ResultTypes
<1>5. QED BY <1>1, <1>2, <1>4 DEF Recorded

LEMMA RecordTypes ==
    ASSUME CallTypes, Record, UNCHANGED controller_vars
    PROVE  CallTypes'
<1>1. settling # <<>>
  BY DEF Record, RecordAndWait, RecordLast, RecordAndContinue
<1>2. /\ Recorded \in Seq(Results) /\ InCallOrder(Recorded) \in Seq(Results)
      /\ Tail(settling) \in Seq(Finishings)
      /\ Append(effects, ActionFinished(Head(settling).reason)) \in Seq(Effects)
  BY <1>1, RecordedType, InCallOrderType DEF CallTypes
<1>3. CASE RecordAndWait
  BY <1>2, <1>3 DEF RecordAndWait, CallTypes, StartTypes, controller_vars
<1>4. CASE RecordLast
  BY <1>2, <1>4 DEF RecordLast, CallTypes, StartTypes, controller_vars, Statuses
<1>5. CASE RecordAndContinue
  <2>1. PICK start \in Starts(pending_actions, {}) :
          /\ StartActions(pending_actions, start)
          /\ effects' = Append(effects, ActionFinished(Head(settling).reason))
                          \o ResultsOf(start, pending_actions)
    BY <1>5 DEF RecordAndContinue
  <2>2. Started(pending_actions, start)
    BY <2>1, StartsStarted
  <2>3. StartTypes'
    BY <2>1, <2>2, StartActionsTypes DEF CallTypes, StartTypes
  <2>4. effects' \in Seq(Effects)
    BY <1>2, <2>1, <2>2, ResultsOfType DEF CallTypes, StartTypes
  <2>5. QED BY <1>2, <1>5, <2>3, <2>4 DEF RecordAndContinue, CallTypes, controller_vars
<1>6. QED BY <1>3, <1>4, <1>5 DEF Record

LEMMA ExecutorFinishedTypes ==
    ASSUME CallTypes, HandleExecutorFinished, UNCHANGED controller_vars
    PROVE  CallTypes'
<1> DEFINE result == Head(effects).result
           dropped == IF result.out = "snapshot"
                      THEN Keep(pending_actions, {a \in Actions : Kind[a] = "command"})
                      ELSE <<>>
<1>1. /\ effects \in Seq(Effects) /\ effects # <<>> /\ Head(effects).event = "executor"
      /\ pending_actions \in Seq(Actions)
  BY DEF HandleExecutorFinished, CallTypes, StartTypes
<1>2. Head(effects) \in Effects /\ Tail(effects) \in Seq(Effects)
  BY <1>1
<1>3. result \in Finishings /\ result.reason \in Reasons
  BY <1>1, <1>2, EventTypes DEF Finishings
<1>4. dropped \in Seq(Actions)
  BY <1>1, KeepElements
<1> HIDE DEF dropped
<1>5. Keep(pending_actions, Actions \ ToSet(dropped)) \in Seq(Actions)
  BY <1>1, KeepElements
<1>6. [i \in DOMAIN dropped |-> Finishing(dropped[i], "cancelled", result.reason)] \in Seq(Finishings)
  BY <1>3, <1>4, FinishingTypes DEF Outcomes
<1>7. Append([i \in DOMAIN dropped |-> Finishing(dropped[i], "cancelled", result.reason)], result)
        \in Seq(Finishings)
  BY <1>3, <1>6
<1>8. settling' \in Seq(Finishings) /\ pending_actions' \in Seq(Actions)
  BY <1>5, <1>7 DEF HandleExecutorFinished, dropped
<1>9. QED BY <1>2, <1>8 DEF HandleExecutorFinished, CallTypes, StartTypes, controller_vars

LEMMA SendCallTypes ==
    ASSUME CallTypes, NEW can_resume, Send(finished_action_results, can_resume)
    PROVE  delivered' \subseteq Results /\ status' \in Statuses
BY DEF Send, CallTypes, ToSet, Statuses

\* The controller's handlers of emitted events.
LEMMA EventHandlerTypes ==
    ASSUME CallTypes, SubmitQuery \/ SendFollowUp \/ IgnoreActionFinished \/ HandleStreamCancelled
    PROVE  CallTypes'
<1>1. CASE SubmitQuery
  <2>1. delivered' \subseteq Results /\ status' \in Statuses
    BY <1>1, SendCallTypes DEF SubmitQuery
  <2>2. finished_action_results' \in Seq(Results) /\ action_order' \in Seq(Actions)
    BY <1>1 DEF SubmitQuery, DrainResults
  <2>3. StartTypes'
    BY <1>1, <2>1 DEF SubmitQuery, CallTypes, StartTypes
  <2>4. QED BY <1>1, <2>1, <2>2, <2>3 DEF SubmitQuery, CallTypes
<1>2. ASSUME effects # <<>> PROVE Tail(effects) \in Seq(Effects) /\ Head(effects) \in Effects
  BY <1>2 DEF CallTypes
<1>3. CASE SendFollowUp
  <2>1. delivered' \subseteq Results /\ status' \in Statuses
    BY <1>3, SendCallTypes DEF SendFollowUp
  <2>2. effects' \in Seq(Effects)
    BY <1>2, <1>3 DEF SendFollowUp, Handles
  <2>3. QED BY <1>3, <2>1, <2>2 DEF SendFollowUp, DrainResults, CallTypes, StartTypes
<1>4. CASE IgnoreActionFinished
  <2>1. effects' \in Seq(Effects)
    BY <1>2, <1>4 DEF IgnoreActionFinished, Handles
  <2>2. QED BY <1>4, <2>1 DEF IgnoreActionFinished, CallTypes, StartTypes, controller_vars, Statuses
<1>5. CASE HandleStreamCancelled
  <2>1. effects' \in Seq(Effects) /\ Head(effects) \in Effects /\ Head(effects).event = "stream"
    BY <1>2, <1>5 DEF HandleStreamCancelled, Handles
  <2>2. Head(effects).resume \in BOOLEAN
    BY <2>1, EventTypes
  <2>3. stale_resume' \in BOOLEAN
    BY <1>5, <2>2 DEF HandleStreamCancelled, CallTypes
  <2>4. QED BY <1>5, <2>1, <2>3 DEF HandleStreamCancelled, CallTypes, StartTypes, Statuses
<1>6. QED BY <1>1, <1>3, <1>4, <1>5

\* The batches still to come, and the calls of those that are done.
LEMMA DoneBeforeType ==
    ASSUME NEW batches \in Seq([calls : Seq(Actions), done : BOOLEAN])
    PROVE  LET n == DoneBefore(batches)
           IN  /\ n \in 0..Len(batches)
               /\ \A i \in 1..n : batches[i].done
               /\ n < Len(batches) => ~batches[n + 1].done
<1> DEFINE T == {n \in 0..Len(batches) : n < Len(batches) => ~batches[n + 1].done}
           Stop(n) == /\ \A i \in 1..n : batches[i].done
                      /\ n < Len(batches) => ~batches[n + 1].done
<1>1. Len(batches) \in Nat
  OBVIOUS
<1>2. Len(batches) \in T /\ T \subseteq Nat
  BY <1>1
<1>3. PICK n \in T : \A m \in T : n <= m
  <2> HIDE DEF T
  <2>1. QED BY <1>2, LeastNumber
<1>4. ASSUME NEW i \in 1..n PROVE batches[i].done
  <2>1. i - 1 \in 0..Len(batches) /\ ~(n <= i - 1) /\ i - 1 < Len(batches) /\ (i - 1) + 1 = i
    BY <1>1, <1>3
  <2>2. i - 1 \notin T
    BY <1>3, <2>1
  <2>3. QED BY <2>1, <2>2
<1>5. n \in 0..Len(batches) /\ Stop(n)
  BY <1>3, <1>4
<1>6. DoneBefore(batches) = CHOOSE m \in 0..Len(batches) : Stop(m)
  BY DEF DoneBefore
<1> HIDE DEF Stop
<1>7. DoneBefore(batches) \in 0..Len(batches) /\ Stop(DoneBefore(batches))
  BY <1>5, <1>6
<1>8. QED BY <1>7 DEF Stop

\* What one preprocessed batch releases: the batches still to come, and the
\* calls that join the queue.
Batches(i) == [pending_preprocessed_actions EXCEPT ![i].done = TRUE]

Released(batches) == FlattenSeq([j \in 1..DoneBefore(batches) |-> batches[j].calls])

Queued(batches) ==
    pending_actions \o Keep(Released(batches), Actions \ Ids(finished_action_results))

StillToCome(batches) == SubSeq(batches, DoneBefore(batches) + 1, Len(batches))

LEMMA PreprocessedStarts ==
    ASSUME NEW i, Preprocessed(i)
    PROVE  /\ pending_preprocessed_actions' = StillToCome(Batches(i))
           /\ \E start \in Starts(Queued(Batches(i)), {}) :
                /\ StartActions(Queued(Batches(i)), start)
                /\ effects' = ResultsOf(start, Queued(Batches(i)))
BY DEF Preprocessed, Batches, Released, Queued, StillToCome

LEMMA BatchesType ==
    ASSUME CallTypes, NEW i \in DOMAIN pending_preprocessed_actions
    PROVE  /\ Batches(i) \in Seq([calls : Seq(Actions), done : BOOLEAN])
           /\ Len(Batches(i)) = Len(pending_preprocessed_actions)
           /\ \A j \in DOMAIN Batches(i) :
                Batches(i)[j].calls = pending_preprocessed_actions[j].calls
<1> DEFINE B == [calls : Seq(Actions), done : BOOLEAN]
           batches == pending_preprocessed_actions
<1>1. /\ batches \in Seq(B) /\ i \in 1..Len(batches)
      /\ DOMAIN batches = 1..Len(batches)
  BY DEF CallTypes
<1>2. batches[i] \in B
  <2> HIDE DEF B
  <2>1. QED BY <1>1, ElementsInSet
<1>3. [batches[i] EXCEPT !.done = TRUE] \in B /\ [batches[i] EXCEPT !.done = TRUE].calls = batches[i].calls
  BY <1>2
<1>4. Batches(i) = [batches EXCEPT ![i] = [batches[i] EXCEPT !.done = TRUE]]
  BY DEF Batches
<1> HIDE DEF B
<1>5. Batches(i) \in Seq(B) /\ Len(Batches(i)) = Len(batches)
  BY <1>1, <1>3, <1>4, ExceptSeq
<1>6. ASSUME NEW j \in DOMAIN Batches(i) PROVE Batches(i)[j].calls = batches[j].calls
  <2>1. j \in DOMAIN batches
    BY <1>4
  <2>2. Batches(i)[j] = IF j = i THEN [batches[i] EXCEPT !.done = TRUE] ELSE batches[j]
    BY <1>4, <2>1
  <2>3. QED BY <1>3, <2>2
<1>7. QED BY <1>5, <1>6 DEF B

LEMMA QueuedType ==
    ASSUME CallTypes, NEW batches \in Seq([calls : Seq(Actions), done : BOOLEAN])
    PROVE  /\ [j \in 1..DoneBefore(batches) |-> batches[j].calls] \in Seq(Seq(Actions))
           /\ Released(batches) \in Seq(Actions)
           /\ Queued(batches) \in Seq(Actions)
           /\ StillToCome(batches) \in Seq([calls : Seq(Actions), done : BOOLEAN])
<1> DEFINE n == DoneBefore(batches)
           released == [j \in 1..n |-> batches[j].calls]
<1>1. n \in 0..Len(batches) /\ Len(batches) \in Nat
  <2>1. n \in 0..Len(batches)
    BY DoneBeforeType
  <2>2. QED BY <2>1
<1>2. StillToCome(batches) \in Seq([calls : Seq(Actions), done : BOOLEAN])
  BY <1>1, RestElements DEF StillToCome
<1> HIDE DEF n
<1>3. released \in Seq(Seq(Actions))
  <2>1. \A j \in 1..n : j \in DOMAIN batches
    BY <1>1
  <2>2. \A j \in 1..n : batches[j].calls \in Seq(Actions)
    <3>1. \A j \in DOMAIN batches : batches[j] \in [calls : Seq(Actions), done : BOOLEAN]
      BY ElementsInSet
    <3>2. \A j \in DOMAIN batches : batches[j].calls \in Seq(Actions)
      BY <3>1
    <3>3. QED BY <2>1, <3>2
  <2>3. released \in [1..n -> Seq(Actions)] /\ n \in Nat
    BY <1>1, <2>2
  <2>4. QED BY <2>3, IsASeq
<1> HIDE DEF released
<1>4. Released(batches) \in Seq(Actions)
  BY <1>3, FlattenElements DEF Released, released, n
<1>5. Keep(Released(batches), Actions \ Ids(finished_action_results)) \in Seq(Actions)
  BY <1>4, KeepElements
<1>6. Queued(batches) \in Seq(Actions)
  BY <1>5 DEF Queued, CallTypes, StartTypes
<1>7. QED BY <1>2, <1>3, <1>4, <1>6 DEF released, n

LEMMA PreprocessedTypes ==
    ASSUME CallTypes, NEW i \in DOMAIN pending_preprocessed_actions, BatchPreprocessed(i)
    PROVE  CallTypes'
<1>1. Batches(i) \in Seq([calls : Seq(Actions), done : BOOLEAN])
  BY BatchesType
<1>2. /\ Queued(Batches(i)) \in Seq(Actions)
      /\ StillToCome(Batches(i)) \in Seq([calls : Seq(Actions), done : BOOLEAN])
  BY <1>1, QueuedType
<1>3. PICK start \in Starts(Queued(Batches(i)), {}) :
        /\ StartActions(Queued(Batches(i)), start)
        /\ effects' = ResultsOf(start, Queued(Batches(i)))
  BY PreprocessedStarts DEF BatchPreprocessed
<1>4. Started(Queued(Batches(i)), start)
  BY StartsStarted
<1>5. StartTypes'
  BY <1>2, <1>3, <1>4, StartActionsTypes DEF CallTypes
<1>6. effects' \in Seq(Effects)
  BY <1>2, <1>3, <1>4, ResultsOfType
<1>7. pending_preprocessed_actions' = StillToCome(Batches(i))
  BY PreprocessedStarts DEF BatchPreprocessed
<1>8. QED BY <1>2, <1>5, <1>6, <1>7 DEF BatchPreprocessed, Preprocessed, CallTypes, controller_vars

LEMMA ActionCallbackTypes ==
    ASSUME CallTypes, NEW a \in Actions, ActionCallback(a)
    PROVE  CallTypes'
<1>1. UNCHANGED controller_vars /\ effects \in Seq(Effects) /\ pending_actions \in Seq(Actions)
  BY DEF ActionCallback, CallTypes, StartTypes
<1>2. ASSUME NEW out \in {"ok", "snapshot"}, ExecutionDone(a, out) PROVE CallTypes'
  <2>1. ExecutorFinished(a, out, "none") \in Effects
    BY <1>2, ResultTypes DEF Outcomes, Reasons
  <2>2. effects' \in Seq(Effects)
    BY <1>1, <1>2, <2>1 DEF ExecutionDone
  <2>3. QED BY <1>1, <1>2, <2>2 DEF ExecutionDone, CallTypes, StartTypes, controller_vars
<1>3. CASE ExecuteAction(a)
  <2>1. ASSUME NEW start, Started(pending_actions, start), StartActions(pending_actions, start)
        PROVE  StartTypes'
    BY <1>1, <2>1, StartActionsTypes DEF CallTypes
  <2>2. CASE StartActions(pending_actions, [count |-> 1, async |-> {a}]) /\ UNCHANGED effects
    <3>1. Started(pending_actions, [count |-> 1, async |-> {a}])
      BY <1>1, <1>3 DEF ExecuteAction, Started, FirstOf
    <3>2. StartTypes' /\ effects' \in Seq(Effects)
      BY <1>1, <2>1, <2>2, <3>1
    <3>3. QED BY <1>1, <1>3, <3>2 DEF ExecuteAction, CallTypes, controller_vars
  <2>3. ASSUME NEW start \in Starts(pending_actions, {a}), StartActions(pending_actions, start),
               effects' = ResultsOf(start, pending_actions)
        PROVE  CallTypes'
    <3>1. Started(pending_actions, start)
      BY StartsStarted
    <3>2. StartTypes' /\ effects' \in Seq(Effects)
      BY <1>1, <2>1, <2>3, <3>1, ResultsOfType
    <3>3. QED BY <1>1, <1>3, <3>2 DEF ExecuteAction, CallTypes, controller_vars
  <2>4. QED BY <1>3, <2>2, <2>3 DEF ExecuteAction
<1>4. CASE CancelRunning(a)
  <2>1. ExecutorFinished(a, "cancelled", "manual") \in Effects
    BY ResultTypes DEF Outcomes, Reasons
  <2>2. effects' \in Seq(Effects)
    BY <1>1, <1>4, <2>1 DEF CancelRunning
  <2>3. QED BY <1>1, <1>4, <2>2 DEF CancelRunning, CallTypes, StartTypes, controller_vars
<1>5. CASE CancelPending(a)
  <2>1. Finishing(a, "cancelled", "manual") \in Finishings
    BY ResultTypes DEF Outcomes, Reasons
  <2>2. settling' \in Seq(Finishings)
    BY <1>5, <2>1 DEF CancelPending
  <2>3. pending_actions' \in Seq(Actions)
    BY <1>1, <1>5, KeepElements DEF CancelPending
  <2>4. QED BY <1>1, <1>5, <2>2, <2>3 DEF CancelPending, CallTypes, StartTypes, controller_vars
<1>6. QED BY <1>2, <1>3, <1>4, <1>5 DEF ActionCallback

LEMMA StreamTypes ==
    ASSUME CallTypes, RecoveryTypes,
           StreamEvent \/ RetryWhenOnline \/ StreamComplete \/ ResumeFires
    PROVE  CallTypes'
<1>1. ASSUME UnchangedByStream, UNCHANGED <<pending_preprocessed_actions, action_order>>,
             status' \in Statuses, used' \subseteq Actions
      PROVE  CallTypes'
  BY <1>1 DEF UnchangedByStream, CallTypes, StartTypes
<1>2. status \in Statuses /\ used \subseteq Actions
  BY DEF CallTypes, StartTypes
<1>3. CASE ReceiveClientActions \/ FinishError \/ RetryWhenOnline
  BY <1>1, <1>2, <1>3 DEF ReceiveClientActions, FinishError, RetryWhenOnline, Statuses
<1>4. ASSUME NEW calls \in Calls, FinishDone(calls) PROVE CallTypes'
  <2>1. ToSet(calls) \subseteq Actions
    BY CallsType DEF ToSet
  <2>2. QED BY <1>1, <1>2, <1>4, <2>1 DEF FinishDone, Statuses
<1>5. ASSUME NEW recoverable \in BOOLEAN, NEW online \in BOOLEAN,
             Retry(recoverable, online) \/ ReceiveError(recoverable, online) \/ Truncated(online)
      PROVE  CallTypes'
  BY <1>1, <1>2, <1>5 DEF Retry, ReceiveError, Truncated, FailedStatus, Statuses
<1>6. CASE StreamComplete
  <2>1. stream \in Streams
    BY <1>6 DEF StreamComplete, RecoveryTypes, StreamTypeOK
  <2>2. stream.calls \in Seq(Actions)
    BY <2>1 DEF Streams
  <2>3. /\ pending_preprocessed_actions' \in Seq([calls : Seq(Actions), done : BOOLEAN])
        /\ action_order' \in Seq(Actions)
    <3>1. [calls |-> stream.calls, done |-> FALSE] \in [calls : Seq(Actions), done : BOOLEAN]
      BY <2>2
    <3>2. /\ pending_preprocessed_actions \in Seq([calls : Seq(Actions), done : BOOLEAN])
          /\ action_order \in Seq(Actions)
      BY DEF CallTypes
    <3>3. Append(pending_preprocessed_actions, [calls |-> stream.calls, done |-> FALSE])
            \in Seq([calls : Seq(Actions), done : BOOLEAN])
      BY <3>1, <3>2, AppendProperties
    <3>4. QED BY <1>6, <2>2, <3>2, <3>3 DEF StreamComplete, QueueActions
  <2>4. QED BY <1>6, <2>3 DEF StreamComplete, UnchangedByStream, CallTypes, StartTypes
<1>7. CASE ResumeFires
  <2>1. delivered' \subseteq Results /\ status' \in Statuses
    <3>1. ToSet(<<>>) = {}
      BY DEF ToSet
    <3>2. QED BY <1>7, <3>1 DEF ResumeFires, Send, CallTypes, StartTypes, Statuses
  <2>2. QED BY <1>7, <2>1 DEF ResumeFires, CallTypes, StartTypes
<1>8. QED BY <1>3, <1>4, <1>5, <1>6, <1>7 DEF StreamEvent

\* Everything the user cancels: the calls waited for are reported, and those
\* queued are settled.
LEMMA CancelAllTypes ==
    ASSUME CallTypes, NEW why \in Reasons, NEW emitted \in Seq(Effects), CancelAll(why, emitted)
    PROVE  /\ effects' \in Seq(Effects) /\ settling' \in Seq(Finishings)
           /\ pending_actions' \in Seq(Actions) /\ async_executing_actions' \subseteq Actions
<1>1. PICK order \in SetToSeqs(async_executing_actions) :
        effects' = emitted \o [i \in DOMAIN order |-> ExecutorFinished(order[i], "cancelled", why)]
  BY DEF CancelAll
<1>2. async_executing_actions \subseteq Actions /\ IsFiniteSet(async_executing_actions)
  BY ActionAssumption, FS_Subset DEF CallTypes, StartTypes
<1>3. order \in Seq(async_executing_actions)
  BY <1>2, SequencesOfASet
<1>4. order \in Seq(Actions)
  BY <1>2, <1>3, SeqMonotonic
<1>5. [i \in DOMAIN order |-> ExecutorFinished(order[i], "cancelled", why)] \in Seq(Effects)
  BY <1>4, FinishingTypes DEF Outcomes
<1>6. effects' \in Seq(Effects)
  BY <1>1, <1>5, ConcatProperties
<1>7. settling' \in Seq(Finishings)
  BY FinishingTypes DEF CancelAll, CallTypes, StartTypes, Outcomes
<1>8. QED BY <1>6, <1>7 DEF CancelAll

LEMMA UserTypes ==
    ASSUME CallTypes, RecoveryTypes, User
    PROVE  CallTypes'
<1>1. MaxQueries \in Nat /\ MaxStops \in Nat
  BY TurnAssumption DEF TurnAssumption
<1>2. ASSUME NEW why \in Reasons PROVE CancelledStream(why) \in Seq(Effects)
  <2>1. stream # None => stream.should_resume \in BOOLEAN
    BY DEF RecoveryTypes, StreamTypeOK, Streams
  <2>2. stream # None => StreamCancelled(why, stream.should_resume) \in Effects
    <3>1. <<>> \in Seq(Actions)
      OBVIOUS
    <3>2. QED BY <2>1 DEF StreamCancelled, Effects
  <2>3. QED BY <2>2 DEF CancelledStream
<1>3. CASE SendQuery
  <2>1. CancelledStream("followup") \in Seq(Effects)
    BY <1>2 DEF Reasons
  <2>2. /\ effects' \in Seq(Effects) /\ settling' \in Seq(Finishings)
        /\ pending_actions' \in Seq(Actions) /\ async_executing_actions' \subseteq Actions
    BY <1>3, <2>1, CancelAllTypes DEF SendQuery, Reasons
  <2>3. queries' \in 0..MaxQueries
    BY <1>1, <1>3 DEF SendQuery, CallTypes
  <2>4. stopped' \subseteq Actions
    BY <1>3 DEF SendQuery, CallTypes
  <2>5. QED BY <1>3, <2>2, <2>3, <2>4 DEF SendQuery, CallTypes, StartTypes
<1>4. CASE StopStream
  <2>1. effects' \in Seq(Effects)
    BY <1>2, <1>4 DEF StopStream, Reasons
  <2>2. stops' \in 0..MaxStops
    BY <1>1, <1>4 DEF StopStream, CallTypes
  <2>3. QED BY <1>4, <2>1, <2>2 DEF StopStream, CallTypes, StartTypes
<1>5. CASE StopActions
  <2>1. <<>> \in Seq(Effects)
    OBVIOUS
  <2>2. /\ effects' \in Seq(Effects) /\ settling' \in Seq(Finishings)
        /\ pending_actions' \in Seq(Actions) /\ async_executing_actions' \subseteq Actions
    BY <1>5, <2>1, CancelAllTypes DEF StopActions, Reasons
  <2>3. stops' \in 0..MaxStops
    BY <1>1, <1>5 DEF StopActions, CallTypes
  <2>4. stopped' \subseteq Actions
    BY <1>5 DEF StopActions, CallTypes
  <2>5. status' \in Statuses
    BY <1>5 DEF StopActions, StoppedStatus, CallTypes, StartTypes, Statuses
  <2>6. QED BY <1>5, <2>2, <2>3, <2>4, <2>5 DEF StopActions, CallTypes, StartTypes
<1>6. QED BY <1>3, <1>4, <1>5 DEF User

LEMMA CallTypesStep ==
    ASSUME CallTypes, RecoveryTypes, [Next]_vars
    PROVE  CallTypes'
<1>1. CASE HandleEvent
  BY <1>1, RecordTypes, ExecutorFinishedTypes, EventHandlerTypes DEF HandleEvent
<1>2. ASSUME NEW a \in Actions, ActionCallback(a) PROVE CallTypes'
  BY <1>2, ActionCallbackTypes
<1>3. ASSUME NEW i \in DOMAIN pending_preprocessed_actions, BatchPreprocessed(i)
      PROVE  CallTypes'
  BY <1>3, PreprocessedTypes
<1>4. CASE StreamEvent \/ RetryWhenOnline \/ StreamComplete \/ ResumeFires
  BY <1>4, StreamTypes
<1>5. CASE User
  BY <1>5, UserTypes
<1>6. CASE UNCHANGED vars
  BY <1>6 DEF vars, action_vars, controller_vars, CallTypes, StartTypes
<1>7. QED BY <1>1, <1>2, <1>3, <1>4, <1>5, <1>6 DEF Next

LEMMA TypesInit == Init => TypeOK
<1>1. MaxQueries \in Nat /\ MaxStops \in Nat
  BY TurnAssumption DEF TurnAssumption
<1>2. Init => CallTypes
  <2>1. \A S : <<>> \in Seq(S)
    OBVIOUS
  <2>2. Init => StartTypes
    BY <2>1 DEF Init, ActionInit, StartTypes, Statuses
  <2>3. Init => queries \in 0..MaxQueries /\ stops \in 0..MaxStops
    BY <1>1 DEF Init
  <2>4. Init => /\ submitting \in BOOLEAN /\ stale_resume \in BOOLEAN
                /\ used \subseteq Actions /\ stopped \subseteq Actions
                /\ delivered \subseteq Results
    BY DEF Init
  <2>5. Init => /\ pending_preprocessed_actions \in Seq([calls : Seq(Actions), done : BOOLEAN])
                /\ finished_action_results \in Seq(Results)
                /\ action_order \in Seq(Actions)
                /\ settling \in Seq(Finishings)
                /\ effects \in Seq(Effects)
    BY <2>1, Zenon DEF Init, ActionInit
  <2>6. QED BY <2>2, <2>3, <2>4, <2>5 DEF CallTypes
<1>3. QED BY <1>2, RecoveryTypesInit, PartsOfTypeOK

\* Every variable of a conversation keeps its type: a result, an event and a
\* queued call are always of a call some response has made.
THEOREM AgentTypesHold == Spec => []TypeOK
<1> DEFINE Inv == CallTypes /\ RecoveryTypes
<1>1. Init => Inv
  BY TypesInit, PartsOfTypeOK
<1>2. Inv /\ [Next]_vars => Inv'
  BY CallTypesStep, RecoveryTypesStep
<1>3. Inv => TypeOK
  BY PartsOfTypeOK
<1> HIDE DEF Inv
<1>4. QED BY <1>1, <1>2, <1>3, PTL DEF Spec

-----------------------------------------------------------------------------
(* Lists of results and of events *)

\* No two results of a list are of one call.
DistinctIds(results) == \A i, j \in DOMAIN results : results[i].id = results[j].id => i = j

\* The calls that emitted events report, each in one event.
Reported(events) ==
    {events[i].result.id : i \in {k \in DOMAIN events : events[k].event = "executor"}}

DistinctReports(events) ==
    \A i, j \in DOMAIN events :
        /\ events[i].event = "executor" /\ events[j].event = "executor"
        /\ events[i].result.id = events[j].result.id
        => i = j

LEMMA AppendIds ==
    ASSUME NEW S, NEW s \in Seq(S), NEW e \in S
    PROVE  /\ Ids(Append(s, e)) = Ids(s) \cup {e.id}
           /\ DistinctIds(s) /\ e.id \notin Ids(s) => DistinctIds(Append(s, e))
<1> DEFINE t == Append(s, e)
<1>1. /\ DOMAIN t = 1..(Len(s) + 1) /\ DOMAIN s = 1..Len(s) /\ Len(s) \in Nat
      /\ \A i \in 1..Len(s) : t[i] = s[i]
      /\ t[Len(s) + 1] = e
  OBVIOUS
<1> HIDE DEF t
<1>2. \A i \in DOMAIN t : i \in DOMAIN s \/ i = Len(s) + 1
  BY <1>1
<1>3. \A i \in DOMAIN s : i \in DOMAIN t
  BY <1>1
<1>4. Len(s) + 1 \in DOMAIN t
  BY <1>1
<1>5. QED BY <1>1, <1>2, <1>3, <1>4 DEF t, Ids, DistinctIds

LEMMA TailIds ==
    ASSUME NEW S, NEW s \in Seq(S), s # <<>>, DistinctIds(s)
    PROVE  /\ Ids(Tail(s)) = Ids(s) \ {Head(s).id}
           /\ Head(s).id \in Ids(s)
           /\ DistinctIds(Tail(s))
<1> DEFINE t == Tail(s)
<1>1. /\ DOMAIN t = 1..(Len(s) - 1) /\ DOMAIN s = 1..Len(s) /\ Len(s) \in Nat /\ Len(s) # 0
      /\ \A i \in 1..(Len(s) - 1) : t[i] = s[i + 1]
      /\ Head(s) = s[1]
  OBVIOUS
<1> HIDE DEF t
<1>2. 1 \in DOMAIN s
  BY <1>1
<1>3. \A i \in DOMAIN t : i + 1 \in DOMAIN s /\ i + 1 # 1
  BY <1>1
<1>4. \A i \in DOMAIN s : i # 1 => i - 1 \in DOMAIN t /\ t[i - 1] = s[i]
  BY <1>1
<1>5. DistinctIds(t)
  <2> SUFFICES ASSUME NEW i \in DOMAIN t, NEW j \in DOMAIN t, t[i].id = t[j].id PROVE i = j
    BY DEF DistinctIds
  <2>1. i + 1 = j + 1
    BY <1>1, <1>3 DEF DistinctIds
  <2>2. QED BY <1>1, <2>1
<1>6. Ids(t) = Ids(s) \ {Head(s).id}
  <2>1. \A i \in DOMAIN t : t[i].id \in Ids(s) /\ t[i].id # Head(s).id
    BY <1>1, <1>2, <1>3 DEF Ids, DistinctIds
  <2>2. \A i \in DOMAIN s : s[i].id # Head(s).id => s[i].id \in Ids(t)
    BY <1>1, <1>4 DEF Ids
  <2>3. QED BY <2>1, <2>2 DEF Ids
<1>7. Head(s).id \in Ids(s)
  BY <1>1, <1>2 DEF Ids
<1>8. QED BY <1>5, <1>6, <1>7 DEF t

\* One result for each of a list of calls.
LEMMA FinishingIds ==
    ASSUME NEW s \in Seq(Actions), IsInjective(s), NEW out, NEW why
    PROVE  /\ Ids([i \in DOMAIN s |-> Finishing(s[i], out, why)]) = ToSet(s)
           /\ DistinctIds([i \in DOMAIN s |-> Finishing(s[i], out, why)])
<1>1. \A a : Finishing(a, out, why).id = a
  BY DEF Finishing
<1>2. QED BY <1>1 DEF Ids, DistinctIds, ToSet, IsInjective

\* Results put in the order of the response's calls stay those they were.
LEMMA InCallOrderIds ==
    ASSUME action_order \in Seq(Actions), IsInjective(action_order),
           NEW results \in Seq(Results), DistinctIds(results)
    PROVE  /\ ToSet(InCallOrder(results)) = ToSet(results)
           /\ Ids(InCallOrder(results)) = Ids(results) /\ DistinctIds(InCallOrder(results))
<1> DEFINE of(ids) == Keep(results, {r \in ToSet(results) : r.id \in ids})
           parts == [i \in DOMAIN action_order |-> of({action_order[i]})]
           last == of(Actions \ ToSet(action_order))
           f == FlattenSeq(parts)
           g == f \o last
<1>1. IsInjective(results) /\ \A r, q \in ToSet(results) : r.id = q.id => r = q
  BY DEF DistinctIds, IsInjective, ToSet
<1>2. ASSUME NEW ids
      PROVE  /\ of(ids) \in Seq(Results) /\ IsInjective(of(ids))
             /\ ToSet(of(ids)) = {r \in ToSet(results) : r.id \in ids}
  BY <1>1, KeepElements
<1> HIDE DEF of
<1>3. DOMAIN action_order = 1..Len(action_order) /\ Len(action_order) \in Nat
  OBVIOUS
<1>4. /\ parts \in Seq(Seq(Results)) /\ DOMAIN parts = DOMAIN action_order
      /\ \A i \in DOMAIN parts : parts[i] = of({action_order[i]})
  BY <1>2, <1>3, IsASeq
<1> HIDE DEF parts
<1>5. \A i \in DOMAIN parts : IsInjective(parts[i])
  BY <1>2, <1>4
<1>6. ASSUME NEW i \in DOMAIN parts
      PROVE  ToSet(parts[i]) = {r \in ToSet(results) : r.id = action_order[i]}
  <2>1. parts[i] = of({action_order[i]})
    BY <1>4
  <2>2. ToSet(of({action_order[i]})) = {r \in ToSet(results) : r.id \in {action_order[i]}}
    BY <1>2
  <2>3. QED BY <2>1, <2>2
<1>7. \A i, j \in DOMAIN parts : i # j => ToSet(parts[i]) \cap ToSet(parts[j]) = {}
  BY <1>4, <1>6 DEF IsInjective
<1>8. /\ f \in Seq(Results) /\ IsInjective(f)
      /\ \A i \in DOMAIN parts : \A j \in DOMAIN parts[i] :
            \E k \in DOMAIN f : f[k] = parts[i][j]
      /\ \A k \in DOMAIN f :
            \E i \in DOMAIN parts : \E j \in DOMAIN parts[i] : f[k] = parts[i][j]
  <2>1. IsInjective(f)
    BY <1>4, <1>5, <1>7, FlattenInjective
  <2>2. /\ f \in Seq(Results)
        /\ \A i \in DOMAIN parts : \A j \in DOMAIN parts[i] :
              \E k \in DOMAIN f : f[k] = parts[i][j]
        /\ \A k \in DOMAIN f :
              \E i \in DOMAIN parts : \E j \in DOMAIN parts[i] : f[k] = parts[i][j]
    BY <1>4, FlattenElements
  <2>3. QED BY <2>1, <2>2
<1> HIDE DEF f
<1>9. ToSet(f) = {r \in ToSet(results) : r.id \in ToSet(action_order)}
  <2>1. ASSUME NEW r \in ToSet(f)
        PROVE  r \in ToSet(results) /\ r.id \in ToSet(action_order)
    <3>1. PICK i \in DOMAIN parts : r \in ToSet(parts[i])
      BY <1>8 DEF ToSet
    <3>2. QED BY <1>4, <1>6, <3>1 DEF ToSet
  <2>2. ASSUME NEW r \in ToSet(results), r.id \in ToSet(action_order) PROVE r \in ToSet(f)
    <3>1. PICK i \in DOMAIN parts : r.id = action_order[i]
      BY <1>4, <2>2 DEF ToSet
    <3>2. r \in ToSet(parts[i])
      BY <1>6, <3>1
    <3>3. QED BY <1>8, <3>2 DEF ToSet
  <2>3. QED BY <2>1, <2>2
<1>10. /\ last \in Seq(Results) /\ IsInjective(last)
       /\ ToSet(last) = {r \in ToSet(results) : r.id \in Actions \ ToSet(action_order)}
  BY <1>2
<1> HIDE DEF last
<1>11. ToSet(f) \cap ToSet(last) = {}
  BY <1>9, <1>10
<1>12. g \in Seq(Results) /\ IsInjective(g) /\ ToSet(g) = ToSet(f) \cup ToSet(last)
  BY <1>8, <1>10, <1>11, ConcatInjective, ConcatElements
<1> HIDE DEF g
<1>13. \A r \in ToSet(results) : r.id \in Actions
  <2>1. \A i \in DOMAIN results : results[i].id \in Actions
    <3>1. \A i \in DOMAIN results : results[i] \in Results
      BY ElementsInSet
    <3>2. QED BY <3>1 DEF Results
  <2>2. QED BY <2>1 DEF ToSet
<1>14. ToSet(g) = ToSet(results)
  BY <1>9, <1>10, <1>12, <1>13
<1>15. Ids(g) = Ids(results)
  <2>1. \A q : Ids(q) = {r.id : r \in ToSet(q)}
    BY DEF Ids, ToSet
  <2>2. QED BY <1>14, <2>1
<1>16. DistinctIds(g)
  <2> SUFFICES ASSUME NEW i \in DOMAIN g, NEW j \in DOMAIN g, g[i].id = g[j].id PROVE i = j
    BY DEF DistinctIds
  <2>1. g[i] \in ToSet(results) /\ g[j] \in ToSet(results)
    BY <1>14 DEF ToSet
  <2>2. g[i] = g[j]
    BY <1>1, <2>1
  <2>3. QED BY <1>12, <2>2 DEF IsInjective
<1>17. InCallOrder(results) = g
  BY DEF InCallOrder, g, f, last, parts, of
<1>18. QED BY <1>14, <1>15, <1>16, <1>17

LEMMA AppendOther ==
    ASSUME NEW es \in Seq(Effects), NEW e \in Effects, e.event # "executor"
    PROVE  /\ Reported(Append(es, e)) = Reported(es)
           /\ DistinctReports(es) => DistinctReports(Append(es, e))
<1> DEFINE t == Append(es, e)
<1>1. /\ DOMAIN t = 1..(Len(es) + 1) /\ DOMAIN es = 1..Len(es) /\ Len(es) \in Nat
      /\ \A i \in 1..Len(es) : t[i] = es[i]
      /\ t[Len(es) + 1] = e
  OBVIOUS
<1> HIDE DEF t
<1>2. \A i \in DOMAIN t : t[i].event = "executor" => i \in DOMAIN es
  BY <1>1
<1>3. \A i \in DOMAIN es : i \in DOMAIN t /\ t[i] = es[i]
  BY <1>1
<1>4. QED BY <1>2, <1>3 DEF t, Reported, DistinctReports

LEMMA TailReports ==
    ASSUME NEW es \in Seq(Effects), es # <<>>, DistinctReports(es)
    PROVE  /\ DistinctReports(Tail(es))
           /\ IF Head(es).event = "executor"
              THEN /\ Head(es).result.id \in Reported(es)
                   /\ Reported(Tail(es)) = Reported(es) \ {Head(es).result.id}
              ELSE Reported(Tail(es)) = Reported(es)
<1> DEFINE t == Tail(es)
<1>1. /\ DOMAIN t = 1..(Len(es) - 1) /\ DOMAIN es = 1..Len(es) /\ Len(es) \in Nat
      /\ Len(es) # 0 /\ \A i \in 1..(Len(es) - 1) : t[i] = es[i + 1]
      /\ Head(es) = es[1]
  OBVIOUS
<1> HIDE DEF t
<1>2. 1 \in DOMAIN es
  BY <1>1
<1>3. \A i \in DOMAIN t : i + 1 \in DOMAIN es /\ i + 1 # 1 /\ t[i] = es[i + 1]
  BY <1>1
<1>4. \A i \in DOMAIN es : i # 1 => i - 1 \in DOMAIN t /\ t[i - 1] = es[i]
  BY <1>1
<1>5. DistinctReports(t)
  <2> SUFFICES ASSUME NEW i \in DOMAIN t, NEW j \in DOMAIN t,
                      t[i].event = "executor", t[j].event = "executor",
                      t[i].result.id = t[j].result.id
               PROVE  i = j
    BY DEF DistinctReports
  <2>1. i + 1 = j + 1
    BY <1>3 DEF DistinctReports
  <2>2. QED BY <1>1, <2>1
<1>6. CASE Head(es).event = "executor"
  <2>1. ASSUME NEW i \in DOMAIN t, t[i].event = "executor"
        PROVE  t[i].result.id \in Reported(es) /\ t[i].result.id # Head(es).result.id
    BY <1>1, <1>2, <1>3, <1>6, <2>1 DEF Reported, DistinctReports
  <2>2. ASSUME NEW i \in DOMAIN es, es[i].event = "executor",
               es[i].result.id # Head(es).result.id
        PROVE  es[i].result.id \in Reported(t)
    BY <1>1, <1>4, <2>2 DEF Reported
  <2>3. Reported(t) = Reported(es) \ {Head(es).result.id}
    BY <2>1, <2>2 DEF Reported
  <2>4. Head(es).result.id \in Reported(es)
    BY <1>1, <1>2, <1>6 DEF Reported
  <2>5. QED BY <1>5, <1>6, <2>3, <2>4 DEF t
<1>7. CASE Head(es).event # "executor"
  <2>1. \A i \in DOMAIN t : t[i].event = "executor" => t[i].result.id \in Reported(es)
    BY <1>3 DEF Reported
  <2>2. \A i \in DOMAIN es : es[i].event = "executor" => es[i].result.id \in Reported(t)
    BY <1>1, <1>4, <1>7 DEF Reported
  <2>3. Reported(t) = Reported(es)
    BY <2>1, <2>2 DEF Reported
  <2>4. QED BY <1>5, <1>7, <2>3 DEF t
<1>8. QED BY <1>6, <1>7

\* Events with one result for each of a list of calls, after others.
LEMMA ConcatReports ==
    ASSUME NEW es \in Seq(Effects), DistinctReports(es), NEW s \in Seq(Actions), IsInjective(s),
           NEW out \in Outcomes, NEW why \in Reasons, ToSet(s) \cap Reported(es) = {}
    PROVE  LET all == es \o [i \in DOMAIN s |-> ExecutorFinished(s[i], out, why)]
           IN  Reported(all) = Reported(es) \cup ToSet(s) /\ DistinctReports(all)
<1> DEFINE r == [i \in DOMAIN s |-> ExecutorFinished(s[i], out, why)]
           all == es \o r
<1>1. r \in Seq(Effects) /\ DOMAIN r = DOMAIN s
  BY FinishingTypes
<1>2. \A i \in DOMAIN s : r[i].event = "executor" /\ r[i].result.id = s[i]
  BY DEF ExecutorFinished, Finishing
<1> HIDE DEF r
<1>3. /\ DOMAIN all = 1..(Len(es) + Len(r)) /\ DOMAIN es = 1..Len(es) /\ DOMAIN r = 1..Len(r)
      /\ Len(es) \in Nat /\ Len(r) \in Nat
      /\ \A i \in 1..(Len(es) + Len(r)) :
            all[i] = IF i <= Len(es) THEN es[i] ELSE r[i - Len(es)]
  BY <1>1
<1> HIDE DEF all
<1>4. ASSUME NEW i \in DOMAIN all, i <= Len(es)
      PROVE  i \in DOMAIN es /\ all[i] = es[i]
  BY <1>3, <1>4
<1>5. ASSUME NEW i \in DOMAIN all, ~(i <= Len(es))
      PROVE  /\ i - Len(es) \in DOMAIN s /\ all[i].result.id = s[i - Len(es)]
             /\ all[i].event = "executor"
  <2>1. i - Len(es) \in DOMAIN r /\ all[i] = r[i - Len(es)]
    BY <1>3, <1>5
  <2>2. QED BY <1>1, <1>2, <2>1
<1>6. \A i \in DOMAIN es : i \in DOMAIN all /\ all[i] = es[i]
  BY <1>3
<1>7. ASSUME NEW i \in DOMAIN s
      PROVE  \E k \in DOMAIN all : all[k].event = "executor" /\ all[k].result.id = s[i]
  <2>1. Len(es) + i \in DOMAIN all /\ ~(Len(es) + i <= Len(es)) /\ (Len(es) + i) - Len(es) = i
    BY <1>1, <1>3
  <2>2. all[Len(es) + i] = r[i]
    BY <1>3, <2>1
  <2>3. QED BY <1>2, <2>1, <2>2
<1>8. Reported(all) = Reported(es) \cup ToSet(s)
  <2>1. ASSUME NEW i \in DOMAIN all, all[i].event = "executor"
        PROVE  all[i].result.id \in Reported(es) \cup ToSet(s)
    BY <1>4, <1>5, <2>1 DEF Reported, ToSet
  <2>2. \A a \in Reported(es) \cup ToSet(s) : a \in Reported(all)
    BY <1>6, <1>7 DEF Reported, ToSet
  <2>3. QED BY <2>1, <2>2 DEF Reported
<1>9. DistinctReports(all)
  <2> SUFFICES ASSUME NEW i \in DOMAIN all, NEW j \in DOMAIN all,
                      all[i].event = "executor", all[j].event = "executor",
                      all[i].result.id = all[j].result.id
               PROVE  i = j
    BY DEF DistinctReports
  <2>1. ASSUME NEW k \in DOMAIN all, k <= Len(es), all[k].event = "executor"
        PROVE  all[k].result.id \in Reported(es)
    BY <1>4, <2>1 DEF Reported
  <2>2. ASSUME NEW k \in DOMAIN all, ~(k <= Len(es))
        PROVE  all[k].result.id \in ToSet(s)
    BY <1>5, <2>2 DEF ToSet
  <2>3. CASE i <= Len(es) /\ j <= Len(es)
    BY <1>4, <2>3 DEF DistinctReports
  <2>4. CASE ~(i <= Len(es)) /\ ~(j <= Len(es))
    <3>1. i - Len(es) = j - Len(es)
      BY <1>5, <2>4 DEF IsInjective
    <3>2. QED BY <1>3, <3>1
  <2>5. CASE i <= Len(es) /\ ~(j <= Len(es))
    BY <2>1, <2>2, <2>5
  <2>6. CASE ~(i <= Len(es)) /\ j <= Len(es)
    BY <2>1, <2>2, <2>6
  <2>7. QED BY <2>3, <2>4, <2>5, <2>6
<1>10. QED BY <1>8, <1>9 DEF all, r

-----------------------------------------------------------------------------
(* Where a call is *)

\* The calls of the response being received, those being preprocessed, and
\* those whose result a request has taken.  Between them a call is queued,
\* waited for, reported by an event, about to be recorded, or finished.
Proposed == IF stream = None THEN {} ELSE ToSet(stream.calls)

CallsOf(batches) == UNION {ToSet(batches[i].calls) : i \in DOMAIN batches}

Taken == {r.id : r \in delivered}

BatchesOnce(batches) ==
    /\ \A i \in DOMAIN batches : IsInjective(batches[i].calls)
    /\ \A i, j \in DOMAIN batches :
        i # j => ToSet(batches[i].calls) \cap ToSet(batches[j].calls) = {}

\* Nowhere is a call twice.
Once ==
    /\ stream # None => IsInjective(stream.calls)
    /\ BatchesOnce(pending_preprocessed_actions)
    /\ IsInjective(pending_actions)
    /\ IsInjective(action_order)
    /\ DistinctReports(effects)
    /\ DistinctIds(settling)
    /\ DistinctIds(finished_action_results)
    /\ \A r, s \in delivered : r.id = s.id => r = s

\* Each of eight places holds calls that none of those after it holds.
Apart8(A, B, C, D, E, F, G, H) ==
    /\ A \cap (B \cup C \cup D \cup E \cup F \cup G \cup H) = {}
    /\ B \cap (C \cup D \cup E \cup F \cup G \cup H) = {}
    /\ C \cap (D \cup E \cup F \cup G \cup H) = {}
    /\ D \cap (E \cup F \cup G \cup H) = {}
    /\ E \cap (F \cup G \cup H) = {}
    /\ F \cap (G \cup H) = {}
    /\ G \cap H = {}

\* A call is in one place, and some response has made it.
InOnePlace ==
    /\ Apart8(Proposed, CallsOf(pending_preprocessed_actions), ToSet(pending_actions),
              async_executing_actions, Reported(effects), Ids(settling),
              Ids(finished_action_results), Taken)
    /\ Proposed \cup CallsOf(pending_preprocessed_actions) \cup ToSet(pending_actions)
        \cup async_executing_actions \cup Reported(effects) \cup Ids(settling)
        \cup Ids(finished_action_results) \cup Taken \subseteq used

CallsInv == TypeOK /\ Once /\ InOnePlace

\* A start of calls: what is left in the queue, what is waited for, and what
\* ran at once.
AtOnce(queue, start) == Keep(SubSeq(queue, 1, start.count), Actions \ start.async)

LEMMA StartMoves ==
    ASSUME NEW queue \in Seq(Actions), IsInjective(queue), NEW start, Started(queue, start),
           StartActions(queue, start)
    PROVE  /\ IsInjective(pending_actions')
           /\ async_executing_actions' = async_executing_actions \cup start.async
           /\ AtOnce(queue, start) \in Seq(Actions) /\ IsInjective(AtOnce(queue, start))
           /\ ToSet(pending_actions') \cup start.async \cup ToSet(AtOnce(queue, start))
                = ToSet(queue)
           /\ ToSet(pending_actions') \cap start.async = {}
           /\ ToSet(AtOnce(queue, start)) \cap (ToSet(pending_actions') \cup start.async) = {}
<1> DEFINE n == start.count
           front == SubSeq(queue, 1, n)
           rest == SubSeq(queue, n + 1, Len(queue))
<1>1. n \in 0..Len(queue) /\ start.async \subseteq FirstOf(queue, n) /\ Len(queue) \in Nat
  BY DEF Started
<1> HIDE DEF n
<1>2. pending_actions' = rest
  BY DEF StartActions, n
<1>3. IsInjective(rest) /\ ToSet(rest) = ToSet(queue) \ FirstOf(queue, n)
  <2>1. FirstOf(queue, n) = {queue[i] : i \in 1..n}
    BY DEF FirstOf
  <2>2. /\ IsInjective(SubSeq(queue, n + 1, Len(queue)))
        /\ ToSet(SubSeq(queue, n + 1, Len(queue))) = ToSet(queue) \ {queue[i] : i \in 1..n}
    BY <1>1, RestOfInjective
  <2>3. QED BY <2>1, <2>2
<1>4. front \in Seq(Actions) /\ IsInjective(front) /\ ToSet(front) = FirstOf(queue, n)
  BY <1>1, FrontElements DEF FirstOf
<1> HIDE DEF front, rest
<1>5. AtOnce(queue, start) = Keep(front, Actions \ start.async)
  BY DEF AtOnce, front, n
<1>6. /\ AtOnce(queue, start) \in Seq(Actions) /\ IsInjective(AtOnce(queue, start))
      /\ ToSet(AtOnce(queue, start)) = ToSet(front) \cap (Actions \ start.async)
  BY <1>4, <1>5, KeepElements
<1>7. FirstOf(queue, n) \subseteq ToSet(queue) /\ ToSet(queue) \subseteq Actions
  BY <1>1 DEF FirstOf, ToSet
<1>8. QED BY <1>1, <1>2, <1>3, <1>4, <1>6, <1>7 DEF StartActions

LEMMA AtOnceReported ==
    ASSUME NEW queue \in Seq(Actions), NEW start, NEW es \in Seq(Effects),
           AtOnce(queue, start) \in Seq(Actions), IsInjective(AtOnce(queue, start)),
           DistinctReports(es), ToSet(AtOnce(queue, start)) \cap Reported(es) = {}
    PROVE  /\ Reported(es \o ResultsOf(start, queue))
                = Reported(es) \cup ToSet(AtOnce(queue, start))
           /\ DistinctReports(es \o ResultsOf(start, queue))
<1> DEFINE q == AtOnce(queue, start)
<1>1. ResultsOf(start, queue) = [i \in DOMAIN q |-> ExecutorFinished(q[i], "ok", "none")]
  BY DEF ResultsOf, AtOnce
<1>2. "ok" \in Outcomes /\ "none" \in Reasons
  BY DEF Outcomes, Reasons
<1> HIDE DEF q
<1>3. QED BY <1>1, <1>2, ConcatReports DEF q

\* The result recorded leaves what is to be recorded and joins the finished.
LEMMA RecordMoves ==
    ASSUME CallsInv, Record, UNCHANGED controller_vars
    PROVE  /\ Head(settling).id \in Ids(settling)
           /\ DistinctIds(settling') /\ Ids(settling') = Ids(settling) \ {Head(settling).id}
           /\ DistinctIds(finished_action_results')
           /\ Ids(finished_action_results')
                = Ids(finished_action_results) \cup {Head(settling).id}
           /\ ToSet(finished_action_results')
                = ToSet(finished_action_results) \cup {Result(Head(settling).id, Head(settling).out)}
           /\ UNCHANGED <<stream, delivered, used, pending_preprocessed_actions, action_order>>
<1> DEFINE a == Head(settling).id
<1>1. settling # <<>> /\ settling' = Tail(settling)
  BY DEF Record, RecordAndWait, RecordLast, RecordAndContinue
<1>2. /\ settling \in Seq(Finishings) /\ finished_action_results \in Seq(Results)
      /\ action_order \in Seq(Actions) /\ CallTypes
  BY PartsOfTypeOK DEF CallsInv, CallTypes
<1>3. DistinctIds(settling') /\ Ids(settling') = Ids(settling) \ {a} /\ a \in Ids(settling)
  BY <1>1, <1>2, TailIds DEF CallsInv, Once
<1>4. Head(settling) \in Finishings
  BY <1>1, <1>2
<1>5. Result(a, Head(settling).out) \in Results /\ Result(a, Head(settling).out).id = a
  BY <1>4, ResultTypes DEF Finishings, Result, Results
<1>6. a \notin Ids(finished_action_results)
  BY <1>3 DEF CallsInv, InOnePlace, Apart8
<1>7. /\ Recorded \in Seq(Results) /\ DistinctIds(Recorded)
      /\ Ids(Recorded) = Ids(finished_action_results) \cup {a}
      /\ ToSet(Recorded)
            = ToSet(finished_action_results) \cup {Result(a, Head(settling).out)}
  BY <1>2, <1>5, <1>6, AppendIds, AppendedElements DEF Recorded, CallsInv, Once
<1>8. /\ DistinctIds(InCallOrder(Recorded)) /\ Ids(InCallOrder(Recorded)) = Ids(Recorded)
      /\ ToSet(InCallOrder(Recorded)) = ToSet(Recorded)
  BY <1>2, <1>7, InCallOrderIds DEF CallsInv, Once
<1>9. finished_action_results' \in {Recorded, InCallOrder(Recorded)}
  BY DEF Record, RecordAndWait, RecordLast, RecordAndContinue
<1>10. UNCHANGED <<stream, delivered, used, pending_preprocessed_actions, action_order>>
  BY DEF Record, RecordAndWait, RecordLast, RecordAndContinue, controller_vars
<1>11. QED BY <1>3, <1>7, <1>8, <1>9, <1>10

LEMMA ReportAction ==
    ASSUME CallsInv, settling # <<>>
    PROVE  LET es == Append(effects, ActionFinished(Head(settling).reason))
           IN  /\ es \in Seq(Effects) /\ DistinctReports(es)
               /\ Reported(es) = Reported(effects)
<1>1. effects \in Seq(Effects) /\ settling \in Seq(Finishings)
  BY PartsOfTypeOK DEF CallsInv, CallTypes
<1>2. Head(settling).reason \in Reasons
  <2>1. Head(settling) \in Finishings
    BY <1>1
  <2>2. QED BY <2>1 DEF Finishings
<1>3. /\ ActionFinished(Head(settling).reason) \in Effects
      /\ ActionFinished(Head(settling).reason).event # "executor"
  BY <1>2 DEF ActionFinished, Effects
<1>4. QED BY <1>1, <1>3, AppendOther DEF CallsInv, Once

LEMMA RecordKeepsCalls ==
    ASSUME CallsInv, Record, UNCHANGED controller_vars
    PROVE  Once' /\ InOnePlace'
<1> DEFINE a == Head(settling).id
           es == Append(effects, ActionFinished(Head(settling).reason))
<1>1. /\ a \in Ids(settling)
      /\ DistinctIds(settling') /\ Ids(settling') = Ids(settling) \ {a}
      /\ DistinctIds(finished_action_results')
      /\ Ids(finished_action_results') = Ids(finished_action_results) \cup {a}
      /\ UNCHANGED <<stream, delivered, used, pending_preprocessed_actions, action_order>>
  BY RecordMoves
<1>2. settling # <<>>
  BY DEF Record, RecordAndWait, RecordLast, RecordAndContinue
<1>3. es \in Seq(Effects) /\ DistinctReports(es) /\ Reported(es) = Reported(effects)
  BY <1>2, ReportAction
<1> HIDE DEF a, es
<1>4. Proposed' = Proposed /\ Taken' = Taken
  BY <1>1 DEF Proposed, Taken
<1>5. CASE RecordAndWait \/ RecordLast
  <2>1. UNCHANGED <<pending_actions, async_executing_actions>> /\ effects' = es
    BY <1>5 DEF RecordAndWait, RecordLast, es
  <2>2. Once'
    BY <1>1, <1>3, <2>1 DEF CallsInv, Once
  <2>3. InOnePlace'
    BY <1>1, <1>3, <1>4, <2>1 DEF CallsInv, InOnePlace, Apart8
  <2>4. QED BY <2>2, <2>3
<1>6. CASE RecordAndContinue
  <2>1. PICK start \in Starts(pending_actions, {}) :
          /\ StartActions(pending_actions, start)
          /\ effects' = es \o ResultsOf(start, pending_actions)
    BY <1>6 DEF RecordAndContinue, es
  <2>2. pending_actions \in Seq(Actions) /\ IsInjective(pending_actions)
    BY PartsOfTypeOK DEF CallsInv, CallTypes, StartTypes, Once
  <2> DEFINE q == AtOnce(pending_actions, start)
  <2>3. /\ IsInjective(pending_actions')
        /\ async_executing_actions' = async_executing_actions \cup start.async
        /\ q \in Seq(Actions) /\ IsInjective(q)
        /\ ToSet(pending_actions') \cup start.async \cup ToSet(q) = ToSet(pending_actions)
        /\ ToSet(pending_actions') \cap start.async = {}
        /\ ToSet(q) \cap (ToSet(pending_actions') \cup start.async) = {}
    BY <2>1, <2>2, StartsStarted, StartMoves
  <2>4. ToSet(q) \cap Reported(es) = {}
    BY <1>3, <2>3 DEF CallsInv, InOnePlace, Apart8
  <2>5. Reported(effects') = Reported(effects) \cup ToSet(q) /\ DistinctReports(effects')
    BY <1>3, <2>1, <2>2, <2>3, <2>4, AtOnceReported
  <2> HIDE DEF q
  <2>6. Once'
    BY <1>1, <2>3, <2>5 DEF CallsInv, Once
  <2>7. InOnePlace'
    BY <1>1, <1>4, <2>3, <2>5 DEF CallsInv, InOnePlace, Apart8
  <2>8. QED BY <2>6, <2>7
<1>7. QED BY <1>5, <1>6 DEF Record

\* A result is handled: its call, and the commands a snapshot drops from the
\* queue, are to be recorded.
LEMMA ExecutorFinishedKeepsCalls ==
    ASSUME CallsInv, HandleExecutorFinished, UNCHANGED controller_vars
    PROVE  Once' /\ InOnePlace'
<1> DEFINE result == Head(effects).result
           dropped == IF result.out = "snapshot"
                      THEN Keep(pending_actions, {a \in Actions : Kind[a] = "command"})
                      ELSE <<>>
           first == [i \in DOMAIN dropped |-> Finishing(dropped[i], "cancelled", result.reason)]
<1>1. /\ effects \in Seq(Effects) /\ effects # <<>> /\ Head(effects).event = "executor"
      /\ pending_actions \in Seq(Actions) /\ IsInjective(pending_actions)
      /\ settling = <<>>
  BY PartsOfTypeOK DEF HandleExecutorFinished, CallsInv, CallTypes, StartTypes, Once
<1>2. Head(effects) \in Effects
  BY <1>1
<1>3. result \in Finishings /\ result.reason \in Reasons
  BY <1>1, <1>2, EventTypes DEF Finishings
<1>4. /\ result.id \in Reported(effects) /\ effects' = Tail(effects)
      /\ Reported(effects') = Reported(effects) \ {result.id} /\ DistinctReports(effects')
  BY <1>1, TailReports DEF HandleExecutorFinished, CallsInv, Once
<1>5. /\ pending_actions' = Keep(pending_actions, Actions \ ToSet(dropped))
      /\ settling' = Append(first, result)
      /\ UNCHANGED <<stream, delivered, used, pending_preprocessed_actions, action_order,
                     async_executing_actions, finished_action_results>>
  BY DEF HandleExecutorFinished, controller_vars
<1>6. /\ dropped \in Seq(Actions) /\ IsInjective(dropped)
      /\ ToSet(dropped) \subseteq ToSet(pending_actions)
  <2>1. <<>> \in Seq(Actions) /\ IsInjective(<<>>) /\ ToSet(<<>>) = {}
    BY DEF IsInjective, ToSet
  <2>2. QED BY <1>1, <2>1, KeepElements
<1> HIDE DEF result, dropped
<1>7. /\ IsInjective(pending_actions')
      /\ ToSet(pending_actions') = ToSet(pending_actions) \cap (Actions \ ToSet(dropped))
  BY <1>1, <1>5, KeepElements
<1>8. first \in Seq(Finishings) /\ Ids(first) = ToSet(dropped) /\ DistinctIds(first)
  BY <1>3, <1>6, FinishingTypes, FinishingIds DEF Outcomes
<1> HIDE DEF first
<1>9. result.id \notin ToSet(dropped)
  BY <1>4, <1>6 DEF CallsInv, InOnePlace, Apart8
<1>10. Ids(settling') = ToSet(dropped) \cup {result.id} /\ DistinctIds(settling')
  BY <1>3, <1>5, <1>8, <1>9, AppendIds
<1>11. Proposed' = Proposed /\ Taken' = Taken
  BY <1>5 DEF Proposed, Taken
<1>12. Once'
  BY <1>4, <1>5, <1>7, <1>10 DEF CallsInv, Once
<1>13. InOnePlace'
  <2>1. /\ ToSet(pending_actions') \subseteq ToSet(pending_actions) \ ToSet(dropped)
        /\ Ids(settling') \subseteq ToSet(pending_actions) \cup Reported(effects)
        /\ Ids(settling') \cap (ToSet(pending_actions') \cup Reported(effects')) = {}
        /\ Reported(effects') \subseteq Reported(effects)
    BY <1>4, <1>6, <1>7, <1>10 DEF CallsInv, InOnePlace, Apart8
  <2>2. /\ CallsOf(pending_preprocessed_actions') = CallsOf(pending_preprocessed_actions)
        /\ async_executing_actions' = async_executing_actions /\ used' = used
        /\ Ids(finished_action_results') = Ids(finished_action_results)
    BY <1>5
  <2>3. QED BY <1>11, <2>1, <2>2 DEF CallsInv, InOnePlace, Apart8
<1>14. QED BY <1>12, <1>13

LEMMA Empty ==
    /\ Ids(<<>>) = {} /\ DistinctIds(<<>>) /\ Reported(<<>>) = {} /\ DistinctReports(<<>>)
    /\ ToSet(<<>>) = {} /\ IsInjective(<<>>)
BY DEF Ids, DistinctIds, Reported, DistinctReports, ToSet, IsInjective

\* A request takes the finished results.
LEMMA SendTakes ==
    ASSUME CallsInv, NEW can_resume \in BOOLEAN, Send(finished_action_results, can_resume)
    PROVE  /\ Taken' = Taken \cup Ids(finished_action_results)
           /\ \A r, s \in delivered' : r.id = s.id => r = s
           /\ Proposed' = {} /\ (stream' # None => IsInjective(stream'.calls))
<1>1. delivered' = delivered \cup ToSet(finished_action_results)
  BY DEF Send
<1>2. \A r \in ToSet(finished_action_results) : r.id \in Ids(finished_action_results)
  BY DEF Ids, ToSet
<1>3. \A r \in delivered : r.id \in Taken
  BY DEF Taken
<1>4. Ids(finished_action_results) \cap Taken = {}
  BY DEF CallsInv, InOnePlace, Apart8
<1>5. \A r, s \in ToSet(finished_action_results) : r.id = s.id => r = s
  BY DEF CallsInv, Once, DistinctIds, ToSet
<1>6. \A r, s \in delivered' : r.id = s.id => r = s
  BY <1>1, <1>2, <1>3, <1>4, <1>5 DEF CallsInv, Once
<1>7. Taken' = Taken \cup Ids(finished_action_results)
  BY <1>1 DEF Taken, Ids, ToSet
<1>8. stream'.calls = <<>>
  BY DEF Send, NewStream
<1>9. Proposed' = {} /\ (stream' # None => IsInjective(stream'.calls))
  BY <1>8, Empty DEF Proposed
<1>10. QED BY <1>6, <1>7, <1>9

LEMMA DrainKeepsCalls ==
    ASSUME CallsInv, NEW can_resume \in BOOLEAN, Send(finished_action_results, can_resume),
           DrainResults, DistinctReports(effects'), Reported(effects') \subseteq Reported(effects),
           UNCHANGED <<pending_preprocessed_actions, pending_actions, async_executing_actions,
                       settling, used>>
    PROVE  Once' /\ InOnePlace'
<1>1. /\ Taken' = Taken \cup Ids(finished_action_results)
      /\ \A r, s \in delivered' : r.id = s.id => r = s
      /\ Proposed' = {} /\ (stream' # None => IsInjective(stream'.calls))
  BY SendTakes
<1>2. /\ Ids(finished_action_results') = {} /\ DistinctIds(finished_action_results')
      /\ IsInjective(action_order')
  BY Empty DEF DrainResults
<1>3. Once'
  BY <1>1, <1>2 DEF CallsInv, Once
<1>4. InOnePlace'
  BY <1>1, <1>2 DEF CallsInv, InOnePlace, Apart8
<1>5. QED BY <1>3, <1>4

LEMMA EventHandlersKeepCalls ==
    ASSUME CallsInv, SubmitQuery \/ SendFollowUp \/ IgnoreActionFinished \/ HandleStreamCancelled
    PROVE  Once' /\ InOnePlace'
<1>1. CASE SubmitQuery
  <2>1. DistinctReports(effects') /\ Reported(effects') \subseteq Reported(effects)
    BY <1>1 DEF SubmitQuery, CallsInv, Once
  <2>2. QED BY <1>1, <2>1, DrainKeepsCalls DEF SubmitQuery
<1>2. ASSUME effects # <<>>, Head(effects).event # "executor", effects' = Tail(effects)
      PROVE  DistinctReports(effects') /\ Reported(effects') = Reported(effects)
  <2>1. effects \in Seq(Effects)
    BY DEF CallsInv, TypeOK
  <2>2. QED BY <1>2, <2>1, TailReports DEF CallsInv, Once
<1>3. CASE SendFollowUp
  BY <1>2, <1>3, DrainKeepsCalls DEF SendFollowUp, Handles
<1>4. CASE IgnoreActionFinished \/ HandleStreamCancelled
  <2>1. /\ UNCHANGED <<stream, delivered, used, pending_preprocessed_actions, pending_actions,
                       async_executing_actions, settling, finished_action_results, action_order>>
        /\ effects # <<>> /\ Head(effects).event # "executor" /\ effects' = Tail(effects)
    BY <1>4 DEF IgnoreActionFinished, HandleStreamCancelled, Handles, controller_vars
  <2>2. DistinctReports(effects') /\ Reported(effects') = Reported(effects)
    BY <1>2, <2>1
  <2>3. Proposed' = Proposed /\ Taken' = Taken
    BY <2>1 DEF Proposed, Taken
  <2>4. QED BY <2>1, <2>2, <2>3 DEF CallsInv, Once, InOnePlace, Apart8
<1>5. QED BY <1>1, <1>3, <1>4

\* The batches that are done, from the oldest, are released into the queue.
LEMMA ReleasedOnce ==
    ASSUME CallsInv, NEW i \in DOMAIN pending_preprocessed_actions
    PROVE  LET batches == Batches(i)
           IN  /\ BatchesOnce(StillToCome(batches))
               /\ IsInjective(Released(batches))
               /\ ToSet(Released(batches)) \subseteq CallsOf(pending_preprocessed_actions)
               /\ CallsOf(StillToCome(batches)) \subseteq CallsOf(pending_preprocessed_actions)
               /\ ToSet(Released(batches)) \cap CallsOf(StillToCome(batches)) = {}
<1> DEFINE batches == Batches(i)
           n == DoneBefore(batches)
           released == [j \in 1..n |-> batches[j].calls]
           rest == StillToCome(batches)
           old == pending_preprocessed_actions
           BatchType == [calls : Seq(Actions), done : BOOLEAN]
<1>1. /\ batches \in Seq(BatchType) /\ Len(batches) = Len(old)
      /\ \A j \in DOMAIN batches : batches[j].calls = old[j].calls
  BY BatchesType, PartsOfTypeOK DEF CallsInv
<1>2. n \in 0..Len(batches)
  BY <1>1, DoneBeforeType
<1>3. released \in Seq(Seq(Actions))
  BY <1>1, QueuedType, PartsOfTypeOK DEF CallsInv
<1>4. old \in Seq(BatchType)
  BY PartsOfTypeOK DEF CallsInv, CallTypes
<1> HIDE DEF batches, n, BatchType
<1>5. DOMAIN batches = 1..Len(batches) /\ DOMAIN old = 1..Len(old) /\ Len(batches) \in Nat
  BY <1>1, <1>4
<1>6. /\ \A j \in DOMAIN batches : IsInjective(batches[j].calls)
      /\ \A j, k \in DOMAIN batches :
            j # k => ToSet(batches[j].calls) \cap ToSet(batches[k].calls) = {}
      /\ CallsOf(batches) = CallsOf(old)
  BY <1>1, <1>5 DEF CallsInv, Once, BatchesOnce, CallsOf
<1>7. /\ DOMAIN released = 1..n /\ \A j \in 1..n : released[j] = batches[j].calls
      /\ \A j \in 1..n : j \in DOMAIN batches
  BY <1>2, <1>5
<1> HIDE DEF released
<1>8. /\ DOMAIN rest = 1..(Len(batches) - n)
      /\ \A j \in 1..(Len(batches) - n) : rest[j] = batches[n + j]
  <2>1. /\ rest \in Seq(BatchType) /\ Len(rest) = Len(batches) - n
        /\ \A j \in 1..(Len(batches) - n) : rest[j] = batches[n + j]
    BY <1>1, <1>2, RestElements DEF StillToCome, n
  <2> HIDE DEF rest
  <2>2. QED BY <2>1
<1> HIDE DEF rest
<1>9. \A j \in DOMAIN rest : n + j \in DOMAIN batches /\ n + j \notin 1..n
  BY <1>2, <1>5, <1>8
<1>10. BatchesOnce(rest)
  <2>1. \A j \in DOMAIN rest : IsInjective(rest[j].calls)
    BY <1>6, <1>8, <1>9
  <2>2. ASSUME NEW j \in DOMAIN rest, NEW k \in DOMAIN rest, j # k
        PROVE  ToSet(rest[j].calls) \cap ToSet(rest[k].calls) = {}
    <3>1. n + j # n + k
      BY <1>2, <1>8, <2>2
    <3>2. QED BY <1>6, <1>8, <1>9, <3>1
  <2>3. QED BY <2>1, <2>2 DEF BatchesOnce
<1>11. CallsOf(rest) \subseteq CallsOf(old)
  <2>1. \A j \in DOMAIN rest : ToSet(rest[j].calls) \subseteq CallsOf(batches)
    BY <1>8, <1>9 DEF CallsOf
  <2>2. QED BY <1>6, <2>1 DEF CallsOf
<1>12. \A j, k \in DOMAIN released : j # k => ToSet(released[j]) \cap ToSet(released[k]) = {}
  BY <1>6, <1>7
<1>13. \A j \in DOMAIN released : IsInjective(released[j])
  BY <1>6, <1>7
<1> DEFINE f == FlattenSeq(released)
<1>14. IsInjective(f)
  BY <1>3, <1>12, <1>13, FlattenInjective
<1>15. \A k \in DOMAIN f : \E j \in DOMAIN released : f[k] \in ToSet(released[j])
  <2>1. \A k \in DOMAIN f : \E j \in DOMAIN released : \E l \in DOMAIN released[j] :
            f[k] = released[j][l]
    BY <1>3, FlattenElements
  <2> HIDE DEF f
  <2>2. QED BY <2>1 DEF ToSet
<1>16. Released(batches) = f
  BY DEF Released, released, n
<1> HIDE DEF f
<1>17. ASSUME NEW a \in ToSet(f) PROVE \E j \in 1..n : a \in ToSet(batches[j].calls)
  BY <1>7, <1>15 DEF ToSet
<1>18. ToSet(f) \subseteq CallsOf(old)
  BY <1>6, <1>7, <1>17 DEF CallsOf
<1>19. ToSet(f) \cap CallsOf(rest) = {}
  <2> SUFFICES ASSUME NEW a \in ToSet(f), NEW k \in DOMAIN rest, a \in ToSet(rest[k].calls)
               PROVE  FALSE
    BY DEF CallsOf
  <2>1. PICK j \in 1..n : a \in ToSet(batches[j].calls)
    BY <1>17
  <2>2. a \in ToSet(batches[n + k].calls)
    BY <1>8
  <2>3. QED BY <1>6, <1>7, <1>9, <2>1, <2>2
<1>20. QED BY <1>10, <1>11, <1>14, <1>16, <1>18, <1>19 DEF batches, rest

LEMMA PreprocessedKeepsCalls ==
    ASSUME CallsInv, NEW i \in DOMAIN pending_preprocessed_actions, BatchPreprocessed(i)
    PROVE  Once' /\ InOnePlace'
<1> DEFINE batches == Batches(i)
           released == Released(batches)
           kept == Keep(released, Actions \ Ids(finished_action_results))
           queue == Queued(batches)
           old == pending_preprocessed_actions
<1>1. PICK start \in Starts(queue, {}) :
        StartActions(queue, start) /\ effects' = ResultsOf(start, queue)
  BY PreprocessedStarts DEF BatchPreprocessed
<1>2. /\ pending_preprocessed_actions' = StillToCome(batches)
      /\ effects = <<>>
      /\ UNCHANGED <<stream, delivered, used, settling, finished_action_results, action_order>>
  BY PreprocessedStarts DEF BatchPreprocessed, Preprocessed, Quiescent, controller_vars
<1>3. /\ BatchesOnce(StillToCome(batches)) /\ IsInjective(released)
      /\ ToSet(released) \subseteq CallsOf(old)
      /\ CallsOf(StillToCome(batches)) \subseteq CallsOf(old)
      /\ ToSet(released) \cap CallsOf(StillToCome(batches)) = {}
  BY ReleasedOnce
<1>4. /\ released \in Seq(Actions) /\ queue \in Seq(Actions)
      /\ pending_actions \in Seq(Actions) /\ IsInjective(pending_actions)
  BY BatchesType, QueuedType, PartsOfTypeOK DEF CallsInv, CallTypes, StartTypes, Once
<1> HIDE DEF released
<1>5. kept \in Seq(Actions) /\ IsInjective(kept) /\ ToSet(kept) \subseteq ToSet(released)
  BY <1>3, <1>4, KeepElements
<1>6. queue = pending_actions \o kept
  BY DEF Queued, released
<1> HIDE DEF kept, batches, queue
<1>7. IsInjective(queue) /\ ToSet(queue) = ToSet(pending_actions) \cup ToSet(kept)
  <2>1. ToSet(pending_actions) \cap ToSet(kept) = {}
    BY <1>3, <1>5 DEF CallsInv, InOnePlace, Apart8
  <2>2. QED BY <1>4, <1>5, <1>6, <2>1, ConcatInjective, ConcatElements
<1> DEFINE q == AtOnce(queue, start)
<1>8. /\ IsInjective(pending_actions')
      /\ async_executing_actions' = async_executing_actions \cup start.async
      /\ q \in Seq(Actions) /\ IsInjective(q)
      /\ ToSet(pending_actions') \cup start.async \cup ToSet(q) = ToSet(queue)
      /\ ToSet(pending_actions') \cap start.async = {}
      /\ ToSet(q) \cap (ToSet(pending_actions') \cup start.async) = {}
  BY <1>1, <1>4, <1>7, StartsStarted, StartMoves
<1>9. Reported(effects') = ToSet(q) /\ DistinctReports(effects')
  <2>1. <<>> \in Seq(Effects) /\ ToSet(q) \cap Reported(<<>>) = {}
    BY Empty
  <2>2. /\ Reported(<<>> \o ResultsOf(start, queue)) = Reported(<<>>) \cup ToSet(q)
        /\ DistinctReports(<<>> \o ResultsOf(start, queue))
    BY <1>4, <1>8, <2>1, Empty, AtOnceReported
  <2>3. ResultsOf(start, queue) \in Seq(Effects)
    BY <1>1, <1>4, StartsStarted, ResultsOfType
  <2>4. <<>> \o ResultsOf(start, queue) = ResultsOf(start, queue)
    BY <2>3, ConcatEmptySeq
  <2>5. QED BY <1>1, <2>2, <2>4, Empty
<1> HIDE DEF q
<1>10. Proposed' = Proposed /\ Taken' = Taken
  BY <1>2 DEF Proposed, Taken
<1>11. Once'
  BY <1>2, <1>3, <1>8, <1>9 DEF CallsInv, Once
<1>12. /\ ToSet(pending_actions') \cup start.async \cup ToSet(q)
            \subseteq ToSet(pending_actions) \cup CallsOf(old)
       /\ CallsOf(pending_preprocessed_actions') \subseteq CallsOf(old)
       /\ CallsOf(pending_preprocessed_actions')
            \cap (ToSet(pending_actions') \cup start.async \cup ToSet(q)) = {}
  <2>1. CallsOf(old) \cap ToSet(pending_actions) = {}
    BY DEF CallsInv, InOnePlace, Apart8
  <2>2. QED BY <1>2, <1>3, <1>5, <1>7, <1>8, <2>1
<1>13. InOnePlace'
  <2>1. /\ Ids(settling') = Ids(settling) /\ used' = used
        /\ Ids(finished_action_results') = Ids(finished_action_results)
    BY <1>2
  <2>2. QED BY <1>8, <1>9, <1>10, <1>12, <2>1 DEF CallsInv, InOnePlace, Apart8
<1>14. QED BY <1>11, <1>13

LEMMA ExecuteKeepsCalls ==
    ASSUME CallsInv, NEW a \in Actions, ExecuteAction(a), effects = <<>>, UNCHANGED controller_vars
    PROVE  Once' /\ InOnePlace'
<1> DEFINE queue == pending_actions
<1>1. queue \in Seq(Actions) /\ IsInjective(queue) /\ queue # <<>> /\ a = Head(queue)
  BY PartsOfTypeOK DEF ExecuteAction, CallsInv, CallTypes, StartTypes, Once
<1>2. /\ UNCHANGED <<stream, delivered, used, settling, finished_action_results, action_order,
                     pending_preprocessed_actions>>
      /\ Proposed' = Proposed /\ Taken' = Taken
  BY DEF ExecuteAction, controller_vars, Proposed, Taken
<1>3. ASSUME NEW start, Started(queue, start), StartActions(queue, start),
             DistinctReports(effects'), Reported(effects') \subseteq ToSet(AtOnce(queue, start))
      PROVE  Once' /\ InOnePlace'
  <2> DEFINE q == AtOnce(queue, start)
  <2>1. /\ IsInjective(pending_actions')
        /\ async_executing_actions' = async_executing_actions \cup start.async
        /\ ToSet(pending_actions') \cup start.async \cup ToSet(q) = ToSet(queue)
        /\ ToSet(pending_actions') \cap start.async = {}
        /\ ToSet(q) \cap (ToSet(pending_actions') \cup start.async) = {}
    BY <1>1, <1>3, StartMoves
  <2> HIDE DEF q
  <2>2. Reported(effects') \subseteq ToSet(q)
    BY <1>3 DEF q
  <2>3. Once'
    BY <1>2, <1>3, <2>1 DEF CallsInv, Once
  <2>4. InOnePlace'
    BY <1>2, <2>1, <2>2 DEF CallsInv, InOnePlace, Apart8
  <2>5. QED BY <2>3, <2>4
<1>4. CASE StartActions(queue, [count |-> 1, async |-> {a}]) /\ UNCHANGED effects
  <2>1. Started(queue, [count |-> 1, async |-> {a}])
    BY <1>1 DEF Started, FirstOf
  <2>2. DistinctReports(effects') /\ Reported(effects') = {}
    BY <1>4, Empty
  <2>3. QED BY <1>3, <1>4, <2>1, <2>2
<1>5. ASSUME NEW start \in Starts(queue, {a}), StartActions(queue, start),
             effects' = ResultsOf(start, queue)
      PROVE  Once' /\ InOnePlace'
  <2> DEFINE q == AtOnce(queue, start)
  <2>1. Started(queue, start)
    BY StartsStarted
  <2>2. q \in Seq(Actions) /\ IsInjective(q)
    BY <1>1, <1>5, <2>1, StartMoves
  <2>3. <<>> \in Seq(Effects) /\ ToSet(q) \cap Reported(<<>>) = {}
    BY Empty
  <2>4. /\ Reported(<<>> \o ResultsOf(start, queue)) = Reported(<<>>) \cup ToSet(q)
        /\ DistinctReports(<<>> \o ResultsOf(start, queue))
    BY <1>1, <2>2, <2>3, Empty, AtOnceReported
  <2>5. ResultsOf(start, queue) \in Seq(Effects)
    BY <1>1, <2>1, ResultsOfType
  <2>6. <<>> \o ResultsOf(start, queue) = ResultsOf(start, queue)
    BY <2>5, ConcatEmptySeq
  <2>7. DistinctReports(effects') /\ Reported(effects') = ToSet(q)
    BY <1>5, <2>4, <2>6, Empty
  <2>8. QED BY <1>3, <1>5, <2>1, <2>7
<1>6. QED BY <1>4, <1>5 DEF ExecuteAction

\* A call that is waited for and no longer will be has its result reported.
LEMMA ReportOne ==
    ASSUME CallsInv, NEW a \in async_executing_actions, NEW out \in Outcomes, NEW why \in Reasons,
           async_executing_actions' = async_executing_actions \ {a},
           effects' = Append(effects, ExecutorFinished(a, out, why)),
           UNCHANGED <<stream, delivered, used, pending_preprocessed_actions, pending_actions,
                       settling, finished_action_results, action_order>>
    PROVE  Once' /\ InOnePlace'
<1>1. effects \in Seq(Effects) /\ a \in Actions
  BY PartsOfTypeOK DEF CallsInv, CallTypes, StartTypes
<1> DEFINE s == <<a>>
<1>2. s \in Seq(Actions) /\ IsInjective(s) /\ ToSet(s) = {a}
  BY <1>1 DEF IsInjective, ToSet
<1>3. a \notin Reported(effects)
  BY DEF CallsInv, InOnePlace, Apart8
<1>4. effects' = effects \o [i \in DOMAIN s |-> ExecutorFinished(s[i], out, why)]
  <2>1. [i \in DOMAIN s |-> ExecutorFinished(s[i], out, why)] = <<ExecutorFinished(a, out, why)>>
    OBVIOUS
  <2>2. ExecutorFinished(a, out, why) \in Effects
    BY <1>1, ResultTypes
  <2>3. effects' = effects \o <<ExecutorFinished(a, out, why)>>
    BY <1>1, <2>2
  <2>4. QED BY <2>1, <2>3
<1> HIDE DEF s
<1>5. Reported(effects') = Reported(effects) \cup {a} /\ DistinctReports(effects')
  <2>1. DistinctReports(effects) /\ ToSet(s) \cap Reported(effects) = {}
    BY <1>2, <1>3 DEF CallsInv, Once
  <2>2. QED BY <1>1, <1>2, <1>4, <2>1, ConcatReports
<1>6. Proposed' = Proposed /\ Taken' = Taken
  BY DEF Proposed, Taken
<1>7. Once'
  BY <1>5 DEF CallsInv, Once
<1>8. InOnePlace'
  BY <1>5, <1>6 DEF CallsInv, InOnePlace, Apart8
<1>9. QED BY <1>7, <1>8

LEMMA ActionCallbackKeepsCalls ==
    ASSUME CallsInv, NEW a \in Actions, ActionCallback(a)
    PROVE  Once' /\ InOnePlace'
<1>1. UNCHANGED controller_vars /\ effects = <<>> /\ settling = <<>>
  BY DEF ActionCallback, Quiescent
<1>2. ASSUME NEW out \in {"ok", "snapshot"}, ExecutionDone(a, out) PROVE Once' /\ InOnePlace'
  <2>1. UNCHANGED <<stream, delivered, used, pending_preprocessed_actions, pending_actions,
                    settling, finished_action_results, action_order>>
    BY <1>1, <1>2 DEF ExecutionDone, controller_vars
  <2>2. CASE a \in async_executing_actions
    BY <1>2, <2>1, <2>2, ReportOne DEF ExecutionDone, Awaited, Outcomes, Reasons
  <2>3. CASE a \notin async_executing_actions
    <3>1. UNCHANGED <<effects, async_executing_actions>>
      BY <1>2, <2>3 DEF ExecutionDone, Awaited
    <3>2. Proposed' = Proposed /\ Taken' = Taken
      BY <2>1 DEF Proposed, Taken
    <3>3. QED BY <2>1, <3>1, <3>2 DEF CallsInv, Once, InOnePlace
  <2>4. QED BY <2>2, <2>3
<1>3. CASE CancelRunning(a)
  BY <1>1, <1>3, ReportOne DEF CancelRunning, controller_vars, Outcomes, Reasons
<1>4. CASE CancelPending(a)
  <2>1. pending_actions \in Seq(Actions) /\ IsInjective(pending_actions)
    BY PartsOfTypeOK DEF CallsInv, CallTypes, StartTypes, Once
  <2>2. /\ IsInjective(pending_actions')
        /\ ToSet(pending_actions') = ToSet(pending_actions) \cap (Actions \ {a})
    BY <1>4, <2>1, KeepElements DEF CancelPending
  <2>3. Ids(settling') = {a} /\ DistinctIds(settling')
    BY <1>4 DEF CancelPending, Finishing, Ids, DistinctIds
  <2>4. /\ UNCHANGED <<stream, delivered, used, pending_preprocessed_actions, effects,
                       async_executing_actions, finished_action_results, action_order>>
        /\ a \in ToSet(pending_actions)
    BY <1>1, <1>4 DEF CancelPending, controller_vars
  <2>5. Proposed' = Proposed /\ Taken' = Taken
    BY <2>4 DEF Proposed, Taken
  <2>6. Once'
    BY <2>2, <2>3, <2>4 DEF CallsInv, Once
  <2>7. InOnePlace'
    BY <2>2, <2>3, <2>4, <2>5 DEF CallsInv, InOnePlace, Apart8
  <2>8. QED BY <2>6, <2>7
<1>5. QED BY <1>1, <1>2, <1>3, <1>4, ExecuteKeepsCalls DEF ActionCallback

LEMMA BatchAppended ==
    ASSUME CallsInv, NEW calls \in Seq(Actions), IsInjective(calls),
           ToSet(calls) \cap CallsOf(pending_preprocessed_actions) = {}
    PROVE  LET batches == Append(pending_preprocessed_actions, [calls |-> calls, done |-> FALSE])
           IN  /\ BatchesOnce(batches)
               /\ CallsOf(batches) = CallsOf(pending_preprocessed_actions) \cup ToSet(calls)
<1> DEFINE old == pending_preprocessed_actions
           new == [calls |-> calls, done |-> FALSE]
           B == [calls : Seq(Actions), done : BOOLEAN]
           t == Append(old, new)
<1>1. old \in Seq(B) /\ new \in B /\ new.calls = calls
  BY PartsOfTypeOK DEF CallsInv, CallTypes
<1> HIDE DEF B, new
<1>2. /\ DOMAIN t = 1..(Len(old) + 1) /\ DOMAIN old = 1..Len(old) /\ Len(old) \in Nat
      /\ \A i \in 1..Len(old) : t[i] = old[i]
      /\ t[Len(old) + 1] = new
  BY <1>1
<1> HIDE DEF t
<1>3. \A i \in DOMAIN t : (i \in DOMAIN old /\ t[i] = old[i]) \/ (i = Len(old) + 1 /\ t[i] = new)
  BY <1>2
<1>4. \A i \in DOMAIN old : i \in DOMAIN t /\ t[i] = old[i]
  BY <1>2
<1>5. Len(old) + 1 \in DOMAIN t
  BY <1>2
<1>6. \A i \in DOMAIN old : ToSet(old[i].calls) \subseteq CallsOf(old)
  BY DEF CallsOf
<1>7. BatchesOnce(t)
  <2>1. \A i \in DOMAIN t : IsInjective(t[i].calls)
    BY <1>1, <1>3 DEF CallsInv, Once, BatchesOnce
  <2>2. ASSUME NEW i \in DOMAIN t, NEW j \in DOMAIN t, i # j
        PROVE  ToSet(t[i].calls) \cap ToSet(t[j].calls) = {}
    BY <1>1, <1>3, <1>6, <2>2 DEF CallsInv, Once, BatchesOnce
  <2>3. QED BY <2>1, <2>2 DEF BatchesOnce
<1>8. CallsOf(t) = CallsOf(old) \cup ToSet(calls)
  <2>1. CallsOf(t) \subseteq CallsOf(old) \cup ToSet(calls)
    BY <1>1, <1>3, <1>6 DEF CallsOf
  <2>2. CallsOf(old) \subseteq CallsOf(t)
    BY <1>4 DEF CallsOf
  <2>3. ToSet(calls) \subseteq CallsOf(t)
    BY <1>1, <1>2, <1>5 DEF CallsOf
  <2>4. QED BY <2>1, <2>2, <2>3
<1>9. QED BY <1>7, <1>8 DEF t, new

\* A response's calls are unused ones; they stay with the stream until it ends.
LEMMA StreamsKeepCalls ==
    ASSUME CallsInv, StreamEvent \/ RetryWhenOnline \/ StreamComplete
    PROVE  Once' /\ InOnePlace'
<1>1. /\ UNCHANGED <<delivered, pending_actions, async_executing_actions, effects, settling,
                     finished_action_results>>
      /\ Taken' = Taken
  BY DEF StreamEvent, RetryWhenOnline, StreamComplete, ReceiveClientActions, FinishDone,
         FinishError, Retry, ReceiveError, Truncated, UnchangedByStream, Taken
<1>2. stream \in Streams /\ stream # None
  BY PartsOfTypeOK DEF CallsInv, RecoveryTypes, StreamTypeOK, StreamEvent, RetryWhenOnline,
      StreamComplete, ReceiveClientActions, FinishDone, FinishError, Retry, ReceiveError,
      Truncated, Streaming
<1>3. IsInjective(stream.calls) /\ Proposed = ToSet(stream.calls) /\ stream.calls \in Seq(Actions)
  BY <1>2 DEF CallsInv, Once, Proposed, Streams
<1>4. ASSUME stream' = None \/ stream'.calls = stream.calls,
             UNCHANGED <<pending_preprocessed_actions, action_order, used>>
      PROVE  Once' /\ InOnePlace'
  <2>1. Proposed' \subseteq Proposed /\ (stream' # None => IsInjective(stream'.calls))
    BY <1>3, <1>4 DEF Proposed
  <2>2. QED BY <1>1, <1>4, <2>1 DEF CallsInv, Once, InOnePlace, Apart8
<1>5. ASSUME NEW calls \in Calls, FinishDone(calls) PROVE Once' /\ InOnePlace'
  <2>1. IsInjective(calls) /\ ToSet(calls) \cap used = {} /\ ToSet(calls) \subseteq Actions
    BY Empty DEF Calls, ToSet
  <2>2. stream'.calls = calls /\ used' = used \cup ToSet(calls)
    BY <1>2, <1>5 DEF FinishDone, Streams
  <2>3. Proposed' \subseteq ToSet(calls) /\ (stream' # None => IsInjective(stream'.calls))
    BY <2>1, <2>2 DEF Proposed
  <2>4. UNCHANGED <<pending_preprocessed_actions, action_order>>
    BY <1>5 DEF FinishDone
  <2>5. Once'
    BY <1>1, <2>3, <2>4 DEF CallsInv, Once
  <2>6. InOnePlace'
    <3>1. Proposed' \cap used = {} /\ Proposed' \subseteq used' /\ used \subseteq used'
      BY <2>1, <2>2, <2>3
    <3>2. QED BY <1>1, <2>4, <3>1 DEF CallsInv, InOnePlace, Apart8
  <2>7. QED BY <2>5, <2>6
<1>6. CASE StreamComplete
  <2>1. stream' = None /\ used' = used /\ Proposed' = {}
    BY <1>6 DEF StreamComplete, Proposed
  <2>2. CASE stream.calls = <<>>
    <3>1. UNCHANGED <<pending_preprocessed_actions, action_order>>
      BY <1>6, <2>2 DEF StreamComplete
    <3>2. QED BY <1>4, <2>1, <3>1
  <2>3. CASE stream.calls # <<>>
    <3> DEFINE new == [calls |-> stream.calls, done |-> FALSE]
    <3>1. /\ action_order' = stream.calls
          /\ pending_preprocessed_actions' = Append(pending_preprocessed_actions, new)
      BY <1>6, <2>3 DEF StreamComplete, QueueActions
    <3>2. ToSet(stream.calls) \cap CallsOf(pending_preprocessed_actions) = {}
      BY <1>3 DEF CallsInv, InOnePlace, Apart8
    <3>3. /\ BatchesOnce(pending_preprocessed_actions')
          /\ CallsOf(pending_preprocessed_actions')
               = CallsOf(pending_preprocessed_actions) \cup Proposed
      BY <1>3, <3>1, <3>2, BatchAppended
    <3>4. Once'
      BY <1>1, <1>3, <2>1, <3>1, <3>3 DEF CallsInv, Once
    <3>5. InOnePlace'
      BY <1>1, <2>1, <3>3 DEF CallsInv, InOnePlace, Apart8
    <3>6. QED BY <3>4, <3>5
  <2>4. QED BY <2>2, <2>3
<1>7. CASE RetryWhenOnline
  <2>1. stream'.calls = stream.calls /\ UNCHANGED <<pending_preprocessed_actions, action_order, used>>
    BY <1>2, <1>7 DEF RetryWhenOnline, Retried, Streams
  <2>2. QED BY <1>4, <2>1
<1>8. CASE ReceiveClientActions \/ FinishError
  <2>1. stream'.calls = stream.calls /\ UNCHANGED <<pending_preprocessed_actions, action_order, used>>
    BY <1>2, <1>8 DEF ReceiveClientActions, FinishError, Streams
  <2>2. QED BY <1>4, <2>1
<1>9. ASSUME NEW recoverable \in BOOLEAN, NEW online \in BOOLEAN,
             Retry(recoverable, online) \/ ReceiveError(recoverable, online) \/ Truncated(online)
      PROVE  Once' /\ InOnePlace'
  <2>1. UNCHANGED <<pending_preprocessed_actions, action_order, used>>
    BY <1>9 DEF Retry, ReceiveError, Truncated
  <2>2. stream' = None \/ stream'.calls = stream.calls
    BY <1>2, <1>9 DEF Retry, Retried, ReceiveError, Truncated, Streams
  <2>3. QED BY <1>4, <2>1, <2>2
<1>10. QED BY <1>5, <1>6, <1>7, <1>8, <1>9 DEF StreamEvent

LEMMA ResumeKeepsCalls ==
    ASSUME CallsInv, ResumeFires
    PROVE  Once' /\ InOnePlace'
<1>1. /\ UNCHANGED <<used, pending_preprocessed_actions, pending_actions, action_order,
                     async_executing_actions, effects, settling, finished_action_results>>
      /\ delivered' = delivered /\ Taken' = Taken
  BY Empty DEF ResumeFires, Send, Taken
<1>2. /\ Proposed' \subseteq Proposed /\ (stream' # None => IsInjective(stream'.calls))
  <2>1. CASE stream = None
    <3>1. stream'.calls = <<>>
      BY <2>1 DEF ResumeFires, Send, NewStream
    <3>2. QED BY <3>1, Empty DEF Proposed
  <2>2. CASE stream # None
    BY <2>2 DEF ResumeFires, Proposed, CallsInv, Once
  <2>3. QED BY <2>1, <2>2
<1>3. QED BY <1>1, <1>2 DEF CallsInv, Once, InOnePlace, Apart8

\* What the user cancels: the calls waited for are reported, and those queued
\* are to be recorded.
LEMMA CancelAllMoves ==
    ASSUME CallsInv, NEW why \in Reasons, NEW emitted \in Seq(Effects), DistinctReports(emitted),
           Reported(emitted) = {}, CancelAll(why, emitted), Quiescent,
           UNCHANGED <<delivered, used, pending_preprocessed_actions, finished_action_results,
                       action_order>>,
           stream' = None \/ stream' = stream
    PROVE  Once' /\ InOnePlace'
<1>1. /\ async_executing_actions \subseteq Actions /\ IsFiniteSet(async_executing_actions)
      /\ pending_actions \in Seq(Actions) /\ IsInjective(pending_actions)
  BY ActionAssumption, FS_Subset, PartsOfTypeOK DEF CallsInv, CallTypes, StartTypes, Once
<1>2. PICK order \in SetToSeqs(async_executing_actions) :
        effects' = emitted \o [i \in DOMAIN order |-> ExecutorFinished(order[i], "cancelled", why)]
  BY DEF CancelAll
<1>3. /\ order \in Seq(async_executing_actions) /\ IsInjective(order)
      /\ ToSet(order) = async_executing_actions
  BY <1>1, SequencesOfASet
<1>4. order \in Seq(Actions) /\ "cancelled" \in Outcomes /\ ToSet(order) \cap Reported(emitted) = {}
  BY <1>1, <1>3, SeqMonotonic DEF Outcomes
<1>5. Reported(effects') = async_executing_actions /\ DistinctReports(effects')
  <2>1. LET all == emitted \o [i \in DOMAIN order |-> ExecutorFinished(order[i], "cancelled", why)]
        IN  Reported(all) = Reported(emitted) \cup ToSet(order) /\ DistinctReports(all)
    BY <1>3, <1>4, ConcatReports
  <2>2. QED BY <1>2, <1>3, <2>1
<1>6. Ids(settling') = ToSet(pending_actions) /\ DistinctIds(settling')
  BY <1>1, FinishingIds DEF CancelAll
<1>7. async_executing_actions' = {} /\ ToSet(pending_actions') = {} /\ IsInjective(pending_actions')
  BY Empty DEF CancelAll
<1>8. /\ Taken' = Taken /\ Proposed' \subseteq Proposed
      /\ (stream' # None => IsInjective(stream'.calls))
  BY DEF Taken, Proposed, CallsInv, Once
<1>9. Once'
  BY <1>5, <1>6, <1>7, <1>8 DEF CallsInv, Once
<1>10. InOnePlace'
  BY <1>5, <1>6, <1>7, <1>8 DEF CallsInv, InOnePlace, Apart8
<1>11. QED BY <1>9, <1>10

LEMMA UserKeepsCalls ==
    ASSUME CallsInv, User
    PROVE  Once' /\ InOnePlace'
<1>1. ASSUME NEW why \in Reasons
      PROVE  /\ CancelledStream(why) \in Seq(Effects)
             /\ DistinctReports(CancelledStream(why)) /\ Reported(CancelledStream(why)) = {}
  <2>1. CASE stream = None
    BY <2>1, Empty DEF CancelledStream
  <2>2. CASE stream # None
    <3> DEFINE e == StreamCancelled(why, stream.should_resume)
    <3>1. stream.should_resume \in BOOLEAN
      BY <2>2, PartsOfTypeOK DEF CallsInv, RecoveryTypes, StreamTypeOK, Streams
    <3>2. e \in Effects /\ e.event # "executor"
      BY <3>1, ResultTypes DEF StreamCancelled, Effects
    <3>3. CancelledStream(why) = <<e>>
      BY <2>2 DEF CancelledStream
    <3> HIDE DEF e
    <3>4. QED BY <3>2, <3>3 DEF DistinctReports, Reported
  <2>3. QED BY <2>1, <2>2
<1>2. CASE SendQuery
  BY <1>1, <1>2, CancelAllMoves DEF SendQuery, Reasons
<1>3. CASE StopActions
  <2>1. <<>> \in Seq(Effects) /\ "manual" \in Reasons
    BY DEF Reasons
  <2>2. /\ CancelAll("manual", <<>>) /\ Quiescent /\ stream' = stream
        /\ UNCHANGED <<delivered, used, pending_preprocessed_actions, finished_action_results,
                       action_order>>
    BY <1>3 DEF StopActions
  <2>3. QED BY <2>1, <2>2, Empty, CancelAllMoves
<1>4. CASE StopStream
  <2>1. Reported(effects') = {} /\ DistinctReports(effects')
    BY <1>1, <1>4 DEF StopStream, Reasons
  <2>2. /\ UNCHANGED <<used, delivered, pending_preprocessed_actions, pending_actions, action_order,
                       async_executing_actions, settling, finished_action_results>>
        /\ stream' = None /\ Proposed' = {} /\ Taken' = Taken
    BY <1>4 DEF StopStream, Proposed, Taken
  <2>3. QED BY <2>1, <2>2 DEF CallsInv, Once, InOnePlace, Apart8
<1>5. QED BY <1>2, <1>3, <1>4 DEF User

LEMMA CallsInvStep ==
    ASSUME CallsInv, [Next]_vars
    PROVE  CallsInv'
<1>1. TypeOK'
  BY CallTypesStep, RecoveryTypesStep, PartsOfTypeOK DEF CallsInv
<1>2. Once' /\ InOnePlace'
  <2>1. CASE HandleEvent
    BY <2>1, RecordKeepsCalls, ExecutorFinishedKeepsCalls, EventHandlersKeepCalls DEF HandleEvent
  <2>2. ASSUME NEW a \in Actions, ActionCallback(a) PROVE Once' /\ InOnePlace'
    BY <2>2, ActionCallbackKeepsCalls
  <2>3. ASSUME NEW i \in DOMAIN pending_preprocessed_actions, BatchPreprocessed(i)
        PROVE  Once' /\ InOnePlace'
    BY <2>3, PreprocessedKeepsCalls
  <2>4. CASE StreamEvent \/ RetryWhenOnline \/ StreamComplete
    BY <2>4, StreamsKeepCalls
  <2>5. CASE ResumeFires
    BY <2>5, ResumeKeepsCalls
  <2>6. CASE User
    BY <2>6, UserKeepsCalls
  <2>7. CASE UNCHANGED vars
    <3>1. /\ UNCHANGED <<stream, used, delivered, pending_preprocessed_actions, pending_actions,
                         action_order, async_executing_actions, settling, effects,
                         finished_action_results>>
          /\ Proposed' = Proposed /\ Taken' = Taken
      BY <2>7 DEF vars, action_vars, controller_vars, Proposed, Taken
    <3>2. QED BY <3>1 DEF CallsInv, Once, InOnePlace
  <2>8. QED BY <2>1, <2>2, <2>3, <2>4, <2>5, <2>6, <2>7 DEF Next
<1>3. QED BY <1>1, <1>2 DEF CallsInv

LEMMA CallsInvInit == Init => CallsInv
<1> SUFFICES ASSUME Init PROVE CallsInv
  OBVIOUS
<1>1. TypeOK
  BY TypesInit
<1>2. CallsOf(<<>>) = {} /\ BatchesOnce(<<>>)
  BY DEF CallsOf, BatchesOnce
<1>3. Proposed = {} /\ Taken = {}
  BY DEF Init, Proposed, Taken
<1>4. Once
  BY <1>2, Empty DEF Init, ActionInit, Once
<1>5. InOnePlace
  BY <1>2, <1>3, Empty DEF Init, ActionInit, InOnePlace, Apart8
<1>6. QED BY <1>1, <1>4, <1>5 DEF CallsInv

\* No call is answered twice.  A call moves from the response that makes it
\* through preprocessing, the queue, the executor and the events of its result
\* to the request that takes it, and is never in two of these places: not when
\* a late future resolves after a cancellation, nor when a batch, a retry or
\* the user starts calls while results wait to be recorded.
THEOREM EveryCallAnsweredOnce == Spec => []OneResultPerCall
<1>1. Init => CallsInv
  BY CallsInvInit
<1>2. CallsInv /\ [Next]_vars => CallsInv'
  BY CallsInvStep
<1>3. CallsInv => OneResultPerCall
  BY DEF CallsInv, Once, InOnePlace, Apart8, DistinctIds, OneResultPerCall, Taken
<1>4. QED BY <1>1, <1>2, <1>3, PTL DEF Spec

-----------------------------------------------------------------------------
(* The order of the results a follow-up takes *)

InOrderOf(results, order) ==
    \A i, j \in DOMAIN results, m, n \in DOMAIN order :
        results[i].id = order[m] /\ results[j].id = order[n] /\ m < n => i < j

LEMMA InCallOrderSorts ==
    ASSUME action_order \in Seq(Actions), IsInjective(action_order), NEW results \in Seq(Results)
    PROVE  InOrderOf(InCallOrder(results), action_order)
<1> DEFINE of(ids) == Keep(results, {r \in ToSet(results) : r.id \in ids})
           parts == [i \in DOMAIN action_order |-> of({action_order[i]})]
           last == of(Actions \ ToSet(action_order))
           f == FlattenSeq(parts)
           g == f \o last
<1>1. ASSUME NEW ids
      PROVE  of(ids) \in Seq(Results) /\ \A r \in ToSet(of(ids)) : r.id \in ids
  BY KeepElements
<1> HIDE DEF of
<1>2. DOMAIN action_order = 1..Len(action_order) /\ Len(action_order) \in Nat
  OBVIOUS
<1>3. /\ parts \in Seq(Seq(Results)) /\ DOMAIN parts = DOMAIN action_order
      /\ \A i \in DOMAIN parts : parts[i] = of({action_order[i]})
  BY <1>1, <1>2, IsASeq
<1> HIDE DEF parts
<1>4. f \in Seq(Results) /\ \E sec, off : Lists(f, parts, Len(parts), sec, off)
  BY <1>3, FlattenLists
<1> HIDE DEF f
<1>5. PICK sec, off : Lists(f, parts, Len(parts), sec, off)
  BY <1>4
<1>6. DOMAIN f = 1..Len(f) /\ Len(f) \in Nat /\ DOMAIN parts = 1..Len(parts)
  BY <1>3, <1>4
<1>7. ASSUME NEW k \in DOMAIN f
      PROVE  sec[k] \in DOMAIN action_order /\ f[k].id = action_order[sec[k]]
  <2>1. sec[k] \in DOMAIN parts /\ off[k] \in 1..Len(parts[sec[k]]) /\ f[k] = parts[sec[k]][off[k]]
    BY <1>5, <1>6 DEF Lists
  <2>2. off[k] \in DOMAIN parts[sec[k]]
    BY <1>3, <2>1
  <2>3. f[k] \in ToSet(parts[sec[k]])
    BY <2>1, <2>2 DEF ToSet
  <2>4. QED BY <1>1, <1>3, <2>1, <2>3
<1>8. last \in Seq(Results) /\ \A i \in DOMAIN last : last[i].id \notin ToSet(action_order)
  BY <1>1 DEF ToSet
<1> HIDE DEF last
<1>9. /\ DOMAIN g = 1..(Len(f) + Len(last)) /\ Len(last) \in Nat /\ DOMAIN last = 1..Len(last)
      /\ \A i \in 1..(Len(f) + Len(last)) : g[i] = IF i <= Len(f) THEN f[i] ELSE last[i - Len(f)]
  BY <1>4, <1>8
<1> HIDE DEF g
<1>10. ASSUME NEW i \in DOMAIN g, NEW m \in DOMAIN action_order, g[i].id = action_order[m]
       PROVE  i \in DOMAIN f /\ sec[i] = m
  <2>1. CASE i <= Len(f)
    <3>1. i \in DOMAIN f /\ g[i] = f[i]
      BY <1>6, <1>9, <2>1
    <3>2. QED BY <1>7, <1>10, <3>1 DEF IsInjective
  <2>2. CASE ~(i <= Len(f))
    <3>1. i - Len(f) \in DOMAIN last /\ g[i] = last[i - Len(f)]
      BY <1>6, <1>9, <2>2
    <3>2. action_order[m] \in ToSet(action_order)
      BY DEF ToSet
    <3>3. QED BY <1>8, <1>10, <3>1, <3>2
  <2>3. QED BY <2>1, <2>2
<1>11. ASSUME NEW i \in DOMAIN g, NEW j \in DOMAIN g,
              NEW m \in DOMAIN action_order, NEW n \in DOMAIN action_order,
              g[i].id = action_order[m], g[j].id = action_order[n], m < n
       PROVE  i < j
  <2>1. i \in DOMAIN f /\ j \in DOMAIN f /\ sec[i] = m /\ sec[j] = n
    BY <1>10, <1>11
  <2>2. i \in Nat /\ j \in Nat /\ m \in Nat /\ n \in Nat
    BY <1>2, <1>6, <2>1
  <2>3. i # j
    BY <1>11, <2>1, <2>2
  <2>4. ~(j < i)
    <3>1. j < i => sec[j] < sec[i] \/ sec[j] = sec[i]
      BY <1>5, <1>6, <2>1 DEF Lists
    <3>2. QED BY <1>11, <2>1, <2>2, <3>1
  <2>5. QED BY <2>2, <2>3, <2>4
<1>12. InCallOrder(results) = g
  BY DEF InCallOrder, g, f, last, parts, of
<1>13. QED BY <1>11, <1>12 DEF InOrderOf

\* Once a phase has drained and its results are recorded, they are in order.
Ordered ==
    running_actions = {} /\ settling = <<>> =>
        InOrderOf(finished_action_results, action_order)

LEMMA NothingToOrder == \A order : InOrderOf(<<>>, order)
BY DEF InOrderOf

LEMMA OrderedStep ==
    ASSUME CallsInv, Ordered, [Next]_vars
    PROVE  Ordered'
<1>1. ASSUME settling = <<>>, running_actions' = {} => running_actions = {},
             UNCHANGED <<finished_action_results, action_order>>
      PROVE  Ordered'
  BY <1>1 DEF Ordered
<1>2. CASE Record
  <2>1. CASE RecordAndWait
    BY <2>1 DEF RecordAndWait, Ordered
  <2>2. CASE RecordLast \/ RecordAndContinue
    <3>1. /\ settling # <<>> /\ action_order' = action_order
          /\ finished_action_results' = InCallOrder(Recorded)
      BY <2>2 DEF RecordLast, RecordAndContinue
    <3>2. action_order \in Seq(Actions) /\ IsInjective(action_order) /\ Recorded \in Seq(Results)
      BY <3>1, RecordedType, PartsOfTypeOK DEF CallsInv, CallTypes, Once
    <3>3. InOrderOf(InCallOrder(Recorded), action_order)
      BY <3>2, InCallOrderSorts
    <3>4. QED BY <3>1, <3>3 DEF Ordered
  <2>3. QED BY <1>2, <2>1, <2>2 DEF Record
<1>3. CASE HandleExecutorFinished
  <2>1. settling' # <<>>
    <3> DEFINE dropped == IF Head(effects).result.out = "snapshot"
                          THEN Keep(pending_actions, {a \in Actions : Kind[a] = "command"})
                          ELSE <<>>
               first == [i \in DOMAIN dropped |->
                            Finishing(dropped[i], "cancelled", Head(effects).result.reason)]
    <3>1. settling' = Append(first, Head(effects).result)
      BY <1>3 DEF HandleExecutorFinished
    <3>2. settling' \in Seq(Finishings)
      <4>1. CallTypes' /\ RecoveryTypes'
        BY CallTypesStep, RecoveryTypesStep, PartsOfTypeOK DEF CallsInv
      <4>2. QED BY <4>1 DEF CallTypes
    <3>3. dropped \in Seq(Actions)
      BY KeepElements, PartsOfTypeOK DEF CallsInv, CallTypes, StartTypes
    <3> HIDE DEF dropped
    <3>4. first \in Seq({first[i] : i \in DOMAIN first})
      BY <3>3
    <3> HIDE DEF first
    <3>5. QED BY <3>1, <3>4
  <2>2. QED BY <2>1 DEF Ordered
<1>4. CASE SubmitQuery \/ SendFollowUp
  BY <1>4, NothingToOrder DEF SubmitQuery, SendFollowUp, DrainResults, Ordered
<1>5. CASE IgnoreActionFinished \/ HandleStreamCancelled
  BY <1>1, <1>5 DEF IgnoreActionFinished, HandleStreamCancelled, Handles
<1>6. ASSUME NEW a \in Actions, ActionCallback(a) PROVE Ordered'
  <2>1. settling = <<>>
    BY <1>6 DEF ActionCallback, Quiescent
  <2>2. /\ UNCHANGED <<finished_action_results, action_order>>
        /\ running_actions \subseteq running_actions'
    BY <1>6 DEF ActionCallback, ExecutionDone, ExecuteAction, CancelRunning, CancelPending,
                StartActions
  <2>3. QED BY <1>1, <2>1, <2>2
<1>7. ASSUME NEW i \in DOMAIN pending_preprocessed_actions, BatchPreprocessed(i) PROVE Ordered'
  BY <1>1, <1>7 DEF BatchPreprocessed, Preprocessed, StartActions, Quiescent
<1>8. CASE StreamEvent \/ RetryWhenOnline
  BY <1>1, <1>8 DEF StreamEvent, RetryWhenOnline, ReceiveClientActions, FinishDone, FinishError,
                    Retry, ReceiveError, Truncated, UnchangedByStream, Streaming, Quiescent
<1>9. CASE StreamComplete
  <2>1. settling = <<>> /\ UNCHANGED <<finished_action_results, running_actions>>
    BY <1>9 DEF StreamComplete, UnchangedByStream, Quiescent
  <2>2. CASE stream.calls = <<>>
    BY <1>1, <1>9, <2>1, <2>2 DEF StreamComplete
  <2>3. CASE stream.calls # <<>>
    <3>1. action_order' = stream.calls /\ Proposed = ToSet(stream.calls)
      BY <1>9, <2>3 DEF StreamComplete, QueueActions, Proposed
    <3>2. Proposed \cap Ids(finished_action_results) = {}
      BY DEF CallsInv, InOnePlace, Apart8
    <3>3. \A i \in DOMAIN finished_action_results, m \in DOMAIN stream.calls :
            finished_action_results[i].id # stream.calls[m]
      BY <3>1, <3>2 DEF Ids, ToSet
    <3>4. QED BY <2>1, <3>1, <3>3 DEF Ordered, InOrderOf
  <2>4. QED BY <2>2, <2>3
<1>10. CASE ResumeFires \/ User
  <2>1. settling = <<>> /\ UNCHANGED <<finished_action_results, running_actions, action_order>>
    BY <1>10 DEF ResumeFires, User, SendQuery, StopStream, StopActions, Quiescent
  <2>2. QED BY <1>1, <2>1
<1>11. CASE UNCHANGED vars
  BY <1>11 DEF vars, action_vars, Ordered
<1>12. QED BY <1>2, <1>3, <1>4, <1>5, <1>6, <1>7, <1>8, <1>9, <1>10, <1>11 DEF Next, HandleEvent

\* A follow-up lists the results of a response in the order of its calls, for
\* any calls, in whatever order their phases, futures and cancellations ended.
THEOREM ResultsInCallOrder == Spec => FollowUpInCallOrder
<1> DEFINE Inv == CallsInv /\ Ordered
           Listed == \A i, j \in DOMAIN finished_action_results, m, n \in DOMAIN action_order :
                        /\ finished_action_results[i].id = action_order[m]
                        /\ finished_action_results[j].id = action_order[n]
                        /\ m < n
                        => i < j
<1>1. Init => Inv
  <2>1. Init => Ordered
    BY NothingToOrder DEF Init, ActionInit, Ordered
  <2>2. QED BY <2>1, CallsInvInit
<1>2. Inv /\ [Next]_vars => Inv'
  BY CallsInvStep, OrderedStep
<1>3. Inv => (SendFollowUp => Listed)
  BY DEF Ordered, InOrderOf, SendFollowUp, Handles, HasUnfinishedActions
<1>4. Inv /\ [Next]_vars => [SendFollowUp => Listed]_vars
  BY <1>3
<1> HIDE DEF Inv, Listed
<1>5. Spec => [][SendFollowUp => Listed]_vars
  BY <1>1, <1>2, <1>4, PTL DEF Spec
<1>6. QED BY <1>5 DEF FollowUpInCallOrder, Listed

-----------------------------------------------------------------------------
(* A conversation in progress *)

\* The results that events report; the calls whose result is not a
\* cancellation; the released calls that wait, those that may still have such
\* a result recorded, and those that may have one when a request is sent.
ReportsIn(events) == {e.result : e \in {e \in events : e.event = "executor"}}

Uncancelled(results) == {r.id : r \in {r \in results : r.out # "cancelled"}}

Waiting == ToSet(pending_actions) \cup async_executing_actions

InMotion ==
    Waiting \cup Uncancelled(ToSet(settling)) \cup Uncancelled(ReportsIn(ToSet(effects)))

InHand == InMotion \cup Uncancelled(ToSet(finished_action_results))

LEMMA UncancelledOf ==
    /\ \A S, a : a \in Uncancelled(S) <=> \E r \in S : r.out # "cancelled" /\ r.id = a
    /\ \A S, T : Uncancelled(S \cup T) = Uncancelled(S) \cup Uncancelled(T)
    /\ \A S, T : S \subseteq T => Uncancelled(S) \subseteq Uncancelled(T)
BY DEF Uncancelled

LEMMA ReportsOf ==
    /\ \A S, r : r \in ReportsIn(S) <=> \E e \in S : e.event = "executor" /\ e.result = r
    /\ \A S, T : ReportsIn(S \cup T) = ReportsIn(S) \cup ReportsIn(T)
    /\ \A S, T : S \subseteq T => ReportsIn(S) \subseteq ReportsIn(T)
BY DEF ReportsIn

LEMMA ListedResults ==
    ASSUME NEW s \in Seq(Actions), NEW out, NEW why
    PROVE  /\ ToSet([i \in DOMAIN s |-> ExecutorFinished(s[i], out, why)])
                = {ExecutorFinished(a, out, why) : a \in ToSet(s)}
           /\ ToSet([i \in DOMAIN s |-> Finishing(s[i], out, why)])
                = {Finishing(a, out, why) : a \in ToSet(s)}
BY DEF ToSet

\* What a start of calls changes.
LEMMA StartChanges ==
    ASSUME NEW queue \in Seq(Actions), IsInjective(queue), NEW start, Started(queue, start),
           StartActions(queue, start), NEW es \in Seq(Effects)
    PROVE  LET now == ToSet(AtOnce(queue, start))
           IN  /\ ToSet(es \o ResultsOf(start, queue))
                    = ToSet(es) \cup {ExecutorFinished(a, "ok", "none") : a \in now}
               /\ ToSet(ResultsOf(start, queue)) = {ExecutorFinished(a, "ok", "none") : a \in now}
               /\ now \subseteq ToSet(queue) /\ start.async \subseteq ToSet(queue)
               /\ ToSet(pending_actions') \subseteq ToSet(queue)
               /\ async_executing_actions' = async_executing_actions \cup start.async
               /\ running_actions' = running_actions \cup start.async
               /\ status' \in {status, "InProgress", "Blocked"}
               /\ status' = "InProgress" /\ start.async = {} /\ now = {} =>
                    /\ status = "InProgress"
                    /\ queue = <<>> \/ running_actions # {}
<1> DEFINE now == ToSet(AtOnce(queue, start))
<1>1. /\ AtOnce(queue, start) \in Seq(Actions)
      /\ ToSet(pending_actions') \cup start.async \cup now = ToSet(queue)
  BY StartMoves
<1>2. ToSet(ResultsOf(start, queue)) = {ExecutorFinished(a, "ok", "none") : a \in now}
  <2> DEFINE s == AtOnce(queue, start)
  <2>1. ResultsOf(start, queue) = [i \in DOMAIN s |-> ExecutorFinished(s[i], "ok", "none")]
    BY DEF ResultsOf, AtOnce
  <2>2. s \in Seq(Actions)
    BY <1>1
  <2> HIDE DEF s
  <2>3. ToSet([i \in DOMAIN s |-> ExecutorFinished(s[i], "ok", "none")])
          = {ExecutorFinished(a, "ok", "none") : a \in ToSet(s)}
    BY DEF ToSet
  <2>4. QED BY <2>1, <2>3 DEF s
<1>3. ToSet(es \o ResultsOf(start, queue))
        = ToSet(es) \cup {ExecutorFinished(a, "ok", "none") : a \in now}
  BY <1>2, ResultsOfType, ConcatElements
<1>4. ASSUME start.async = {}, now = {} PROVE start.count = 0
  <2>1. start.count \in 0..Len(queue) /\ Len(queue) \in Nat
    BY DEF Started
  <2> DEFINE front == SubSeq(queue, 1, start.count)
  <2>2. now = ToSet(Keep(front, Actions \ start.async))
    BY DEF AtOnce
  <2>3. front \in Seq(Actions) /\ ToSet(front) = {queue[i] : i \in 1..start.count}
    BY <2>1, FrontElements
  <2> HIDE DEF front, now
  <2>4. now = {queue[i] : i \in 1..start.count} \cap (Actions \ start.async)
    BY <2>2, <2>3, KeepElements
  <2>5. \A i \in 1..start.count : queue[i] \in Actions
    BY <2>1
  <2>6. {queue[i] : i \in 1..start.count} = {}
    BY <1>4, <2>4, <2>5
  <2>7. start.count # 0 => 1 \in 1..start.count
    BY <2>1
  <2>8. QED BY <2>6, <2>7
<1>5. ASSUME start.async = {}, now = {}, queue # <<>>, running_actions = {}
      PROVE  status' = "Blocked"
  <2>1. start.count = 0 /\ Len(queue) > 0
    BY <1>4, <1>5
  <2>2. Refused(start, queue) = queue[1]
    BY <1>5, <2>1 DEF Refused
  <2>3. queue[1] \in Actions
    BY <2>1
  <2>4. Refused(start, queue) # None
    BY <2>2, <2>3, ActionAssumption
  <2>5. QED BY <2>4 DEF StartActions
<1>6. ASSUME status' = "InProgress", start.async = {}, now = {}
      PROVE  status = "InProgress" /\ (queue = <<>> \/ running_actions # {})
  <2>1. start.count = 0
    BY <1>4, <1>6
  <2>2. status = "InProgress"
    BY <1>6, <2>1 DEF StartActions
  <2>3. QED BY <1>5, <1>6, <2>2
<1>7. status' \in {status, "InProgress", "Blocked"}
  BY DEF StartActions
<1>8. QED BY <1>1, <1>2, <1>3, <1>6, <1>7 DEF StartActions

\* The calls a batch releases are those of the oldest batches, up to the first
\* that is still being preprocessed, and the other batches stay.
LEMMA ReleasedParts ==
    ASSUME CallTypes, NEW i \in DOMAIN pending_preprocessed_actions
    PROVE  LET old == pending_preprocessed_actions
               n == DoneBefore(Batches(i))
               rest == StillToCome(Batches(i))
           IN  /\ n \in 0..Len(old) /\ Len(old) \in Nat /\ DOMAIN old = 1..Len(old)
               /\ \A j \in 1..n : ToSet(old[j].calls) \subseteq ToSet(Released(Batches(i)))
               /\ \A a \in ToSet(Released(Batches(i))) : \E j \in 1..n : a \in ToSet(old[j].calls)
               /\ Len(rest) = Len(old) - n /\ DOMAIN rest = 1..(Len(old) - n)
               /\ \A j \in 1..(Len(old) - n) : rest[j].calls = old[n + j].calls
               /\ i = 1 => n # 0
               /\ n = Len(old) => rest = <<>>
<1> DEFINE BatchType == [calls : Seq(Actions), done : BOOLEAN]
           batches == Batches(i)
           old == pending_preprocessed_actions
           n == DoneBefore(batches)
           released == [j \in 1..n |-> batches[j].calls]
           rest == StillToCome(batches)
<1>1. /\ batches \in Seq(BatchType) /\ Len(batches) = Len(old)
      /\ \A j \in DOMAIN batches : batches[j].calls = old[j].calls
  BY BatchesType
<1>2. old \in Seq(BatchType)
  BY DEF CallTypes
<1>3. n \in 0..Len(batches) /\ (n < Len(batches) => ~batches[n + 1].done)
  BY <1>1, DoneBeforeType
<1>4. released \in Seq(Seq(Actions))
  BY <1>1, QueuedType
<1>5. i = 1 => batches[1].done
  <2>1. old[i] \in BatchType
    BY <1>2, ElementsInSet
  <2>2. i = 1 => batches[1] = [old[i] EXCEPT !.done = TRUE]
    BY DEF Batches
  <2>3. QED BY <2>1, <2>2
<1> HIDE DEF batches, n
<1>6. Len(old) \in Nat /\ DOMAIN old = 1..Len(old) /\ DOMAIN batches = 1..Len(batches)
  BY <1>1, <1>2
<1>7. i = 1 => n # 0
  <2>1. Len(batches) # 0
    BY <1>1, <1>6
  <2>2. QED BY <1>1, <1>3, <1>5, <1>6, <2>1
<1>8. \A j \in 1..n : released[j] = old[j].calls
  <2>1. \A j \in 1..n : j \in DOMAIN batches
    BY <1>1, <1>3, <1>6
  <2>2. \A j \in 1..n : released[j] = batches[j].calls
    OBVIOUS
  <2>3. QED BY <1>1, <2>1, <2>2
<1>9. DOMAIN released = 1..n
  OBVIOUS
<1> HIDE DEF released
<1> DEFINE f == FlattenSeq(released)
<1>10. /\ \A k \in DOMAIN f : \E j \in DOMAIN released : \E l \in DOMAIN released[j] :
            f[k] = released[j][l]
       /\ \A j \in DOMAIN released : \A l \in DOMAIN released[j] :
            \E k \in DOMAIN f : f[k] = released[j][l]
  BY <1>4, FlattenElements
<1>11. Released(batches) = f
  BY DEF Released, released, n
<1> HIDE DEF f
<1>12. \A j \in 1..n : ToSet(old[j].calls) \subseteq ToSet(f)
  BY <1>8, <1>9, <1>10 DEF ToSet
<1>13. \A a \in ToSet(f) : \E j \in 1..n : a \in ToSet(old[j].calls)
  BY <1>8, <1>9, <1>10 DEF ToSet
<1>14. /\ rest \in Seq(BatchType) /\ Len(rest) = Len(old) - n
       /\ \A j \in 1..(Len(old) - n) : rest[j] = batches[n + j]
  <2>1. /\ rest \in Seq(BatchType) /\ Len(rest) = Len(batches) - n
        /\ \A j \in 1..(Len(batches) - n) : rest[j] = batches[n + j]
    <3> HIDE DEF BatchType
    <3>1. QED BY <1>1, <1>3, RestElements DEF StillToCome, n
  <2>2. QED BY <1>1, <2>1
<1> HIDE DEF rest, BatchType
<1>15. DOMAIN rest = 1..(Len(old) - n)
  BY <1>14
<1>16. \A j \in 1..(Len(old) - n) : rest[j].calls = old[n + j].calls
  BY <1>1, <1>3, <1>6, <1>14
<1>17. n = Len(old) => rest = <<>>
  <2>1. n = Len(old) => Len(rest) = 0
    BY <1>6, <1>14
  <2>2. QED BY <1>14, <2>1
<1>18. QED BY <1>1, <1>3, <1>6, <1>7, <1>11, <1>12, <1>13, <1>14, <1>15, <1>16, <1>17
           DEF batches, n, rest

-----------------------------------------------------------------------------
(* What each step changes *)

LEMMA RecordChanges ==
    ASSUME CallsInv, Record, UNCHANGED controller_vars
    PROVE  LET r == Head(settling)
           IN  /\ r \in Finishings /\ ToSet(settling) = {r} \cup ToSet(settling')
               /\ ToSet(finished_action_results')
                    = ToSet(finished_action_results) \cup {Result(r.id, r.out)}
               /\ \E now \in SUBSET ToSet(pending_actions), later \in SUBSET ToSet(pending_actions) :
                    /\ ToSet(effects')
                         = ToSet(effects) \cup {ActionFinished(r.reason)}
                            \cup {ExecutorFinished(a, "ok", "none") : a \in now}
                    /\ ToSet(pending_actions') \subseteq ToSet(pending_actions)
                    /\ async_executing_actions' = async_executing_actions \cup later
                    /\ running_actions' = running_actions \cup later
                    /\ \/ now # {} \/ later # {} \/ status' # "InProgress"
                       \/ running_actions # {}
                       \/ /\ running_actions' = {} /\ pending_actions' = <<>>
                          /\ \/ PreservesInProgress(r.reason)
                             \/ \E q \in ToSet(finished_action_results') : q.out # "cancelled"
<1> DEFINE r == Head(settling)
           es == Append(effects, ActionFinished(r.reason))
<1>1. settling \in Seq(Finishings) /\ settling # <<>> /\ settling' = Tail(settling)
  BY PartsOfTypeOK DEF CallsInv, CallTypes, Record, RecordAndWait, RecordLast, RecordAndContinue
<1>2. r \in Finishings /\ ToSet(settling) = {r} \cup ToSet(settling')
  BY <1>1, HeadAndTail
<1>3. ToSet(finished_action_results') = ToSet(finished_action_results) \cup {Result(r.id, r.out)}
  BY RecordMoves
<1>4. effects \in Seq(Effects) /\ ActionFinished(r.reason) \in Effects /\ es \in Seq(Effects)
  <2>1. effects \in Seq(Effects) /\ r.reason \in Reasons
    BY <1>2, PartsOfTypeOK DEF CallsInv, CallTypes, Finishings
  <2>2. ActionFinished(r.reason) \in Effects
    BY <2>1 DEF ActionFinished, Effects
  <2>3. QED BY <2>1, <2>2
<1>5. ToSet(es) = ToSet(effects) \cup {ActionFinished(r.reason)}
  BY <1>4, AppendedElements
<1>6. pending_actions \in Seq(Actions) /\ IsInjective(pending_actions)
  BY PartsOfTypeOK DEF CallsInv, CallTypes, StartTypes, Once
<1> HIDE DEF r, es
<1>7. CASE RecordAndWait
  <2>1. /\ effects' = es /\ running_actions # {}
        /\ UNCHANGED <<pending_actions, running_actions, async_executing_actions>>
    BY <1>7 DEF RecordAndWait, es, r
  <2>2. {ExecutorFinished(a, "ok", "none") : a \in {}} = {}
    OBVIOUS
  <2>3. /\ ToSet(effects') = ToSet(effects) \cup {ActionFinished(r.reason)}
              \cup {ExecutorFinished(a, "ok", "none") : a \in {}}
        /\ async_executing_actions' = async_executing_actions \cup {}
        /\ running_actions' = running_actions \cup {}
        /\ ToSet(pending_actions') \subseteq ToSet(pending_actions)
    BY <1>5, <2>1, <2>2
  <2>4. QED BY <1>2, <1>3, <2>1, <2>3 DEF r
<1>8. CASE RecordLast
  <2>1. /\ effects' = es /\ running_actions = {} /\ pending_actions = <<>>
        /\ UNCHANGED <<pending_actions, running_actions, async_executing_actions>>
    BY <1>8 DEF RecordLast, es, r
  <2>2. {ExecutorFinished(a, "ok", "none") : a \in {}} = {}
    OBVIOUS
  <2>3. \/ status' # "InProgress" \/ PreservesInProgress(r.reason)
        \/ \E q \in ToSet(finished_action_results') : q.out # "cancelled"
    <3>1. AllCancelled(Recorded) \/ \E q \in ToSet(Recorded) : q.out # "cancelled"
      BY DEF AllCancelled, ToSet
    <3>2. ToSet(Recorded) = ToSet(finished_action_results')
      <4>1. Recorded \in Seq(Results) /\ Result(r.id, r.out) \in Results
        BY <1>1, <1>2, RecordedType, PartsOfTypeOK DEF CallsInv, Result, Results, Finishings
      <4>2. finished_action_results \in Seq(Results)
        BY PartsOfTypeOK DEF CallsInv, CallTypes
      <4>3. Recorded = Append(finished_action_results, Result(r.id, r.out))
        BY DEF Recorded, r
      <4>4. QED BY <1>3, <4>1, <4>2, <4>3, AppendedElements
    <3>3. QED BY <1>8, <3>1, <3>2 DEF RecordLast, r
  <2>4. QED BY <1>2, <1>3, <1>5, <2>1, <2>2, <2>3 DEF r
<1>9. CASE RecordAndContinue
  <2>1. PICK start \in Starts(pending_actions, {}) :
          /\ StartActions(pending_actions, start)
          /\ effects' = es \o ResultsOf(start, pending_actions)
    BY <1>9 DEF RecordAndContinue, es, r
  <2> DEFINE now == ToSet(AtOnce(pending_actions, start))
  <2>2. /\ ToSet(effects') = ToSet(es) \cup {ExecutorFinished(a, "ok", "none") : a \in now}
        /\ now \subseteq ToSet(pending_actions) /\ start.async \subseteq ToSet(pending_actions)
        /\ ToSet(pending_actions') \subseteq ToSet(pending_actions)
        /\ async_executing_actions' = async_executing_actions \cup start.async
        /\ running_actions' = running_actions \cup start.async
        /\ status' = "InProgress" /\ start.async = {} /\ now = {} =>
             pending_actions = <<>> \/ running_actions # {}
    BY <1>4, <1>6, <2>1, StartsStarted, StartChanges
  <2>3. pending_actions # <<>>
    BY <1>9 DEF RecordAndContinue
  <2> HIDE DEF now
  <2>4. QED BY <1>2, <1>3, <1>5, <2>2, <2>3 DEF r
<1>10. QED BY <1>7, <1>8, <1>9 DEF Record

LEMMA ExecutorFinishedChanges ==
    ASSUME CallsInv, HandleExecutorFinished, UNCHANGED controller_vars
    PROVE  LET e == Head(effects)
               r == e.result
           IN  /\ e.event = "executor" /\ r \in Finishings
               /\ effects' = Tail(effects) /\ ToSet(effects) = {e} \cup ToSet(effects')
               /\ settling = <<>> /\ r \in ToSet(settling')
               /\ \A f \in ToSet(settling') :
                    \/ f = r
                    \/ f.out = "cancelled" /\ f.reason = r.reason /\ f.id \in ToSet(pending_actions)
               /\ ToSet(pending_actions') \subseteq ToSet(pending_actions)
               /\ running_actions' = running_actions \ {r.id}
               /\ UNCHANGED <<async_executing_actions, finished_action_results, status,
                              pending_preprocessed_actions>>
<1> DEFINE result == Head(effects).result
           dropped == IF result.out = "snapshot"
                      THEN Keep(pending_actions, {a \in Actions : Kind[a] = "command"})
                      ELSE <<>>
           first == [i \in DOMAIN dropped |-> Finishing(dropped[i], "cancelled", result.reason)]
<1>1. /\ effects \in Seq(Effects) /\ effects # <<>> /\ Head(effects).event = "executor"
      /\ pending_actions \in Seq(Actions) /\ settling = <<>>
  BY PartsOfTypeOK DEF HandleExecutorFinished, CallsInv, CallTypes, StartTypes
<1>2. /\ effects' = Tail(effects) /\ ToSet(effects) = {Head(effects)} \cup ToSet(effects')
      /\ Head(effects) \in Effects
  BY <1>1, HeadAndTail DEF HandleExecutorFinished
<1>3. result \in Finishings /\ result.reason \in Reasons
  BY <1>1, <1>2, EventTypes DEF Finishings
<1>4. dropped \in Seq(Actions) /\ ToSet(dropped) \subseteq ToSet(pending_actions)
  BY <1>1, KeepElements, Empty
<1>5. /\ pending_actions' = Keep(pending_actions, Actions \ ToSet(dropped))
      /\ settling' = Append(first, result)
      /\ running_actions' = running_actions \ {result.id}
      /\ UNCHANGED <<async_executing_actions, finished_action_results, status,
                     pending_preprocessed_actions>>
  BY DEF HandleExecutorFinished
<1> HIDE DEF dropped, result
<1>6. ToSet(pending_actions') \subseteq ToSet(pending_actions)
  BY <1>1, <1>5, KeepElements
<1>7. first \in Seq(Finishings)
  BY <1>3, <1>4, FinishingTypes DEF Outcomes
<1>8. ToSet(first) = {Finishing(a, "cancelled", result.reason) : a \in ToSet(dropped)}
  BY <1>4, ListedResults
<1> HIDE DEF first
<1>9. ToSet(settling') = ToSet(first) \cup {result}
  BY <1>3, <1>5, <1>7, AppendedElements
<1>10. \A a : LET f == Finishing(a, "cancelled", result.reason)
              IN  f.out = "cancelled" /\ f.reason = result.reason /\ f.id = a
  BY DEF Finishing
<1>11. \A f \in ToSet(settling') :
        \/ f = result
        \/ f.out = "cancelled" /\ f.reason = result.reason /\ f.id \in ToSet(pending_actions)
  BY <1>4, <1>8, <1>9, <1>10
<1>12. QED BY <1>1, <1>2, <1>3, <1>5, <1>6, <1>9, <1>11 DEF result

LEMMA ReportedCalls ==
    \A events : Reported(events) = {r.id : r \in ReportsIn(ToSet(events))}
BY DEF Reported, ReportsIn, ToSet

\* A callback that starts or cancels calls among those of Q.
ActsOn(Q) ==
    /\ settling = <<>> /\ effects = <<>>
    /\ UNCHANGED <<controller_vars, finished_action_results>>
    /\ Waiting' \subseteq Q
    /\ running_actions \subseteq running_actions'
    /\ running_actions' \subseteq running_actions \cup async_executing_actions'
    /\ async_executing_actions \subseteq async_executing_actions' \cup Reported(effects')
    /\ async_executing_actions' \subseteq async_executing_actions \cup running_actions'
    /\ \A e \in ToSet(effects') :
        /\ e.event = "executor" /\ e.result.reason # "followup"
        /\ e.result.out # "cancelled" => e.result.id \in Q
        /\ e.result.out = "cancelled" => e.result.id \in running_actions'
    /\ status' \in {status, "InProgress", "Blocked"}
    /\ \A f \in ToSet(settling') : f.out = "cancelled" /\ f.reason # "followup"

\* The callback leaves nothing to be awaited or recorded that was not there.
NothingNew ==
    /\ async_executing_actions' = {} /\ ToSet(effects') = {} /\ ToSet(settling') = {}

LEMMA StartedActsOn ==
    ASSUME NEW queue \in Seq(Actions), IsInjective(queue), NEW start, Started(queue, start),
           StartActions(queue, start), settling = <<>>, effects = <<>>,
           effects' = ResultsOf(start, queue), NEW Q,
           ToSet(queue) \cup async_executing_actions \subseteq Q,
           UNCHANGED <<controller_vars, finished_action_results, settling>>
    PROVE  /\ ActsOn(Q)
           /\ status' = "InProgress" /\ NothingNew =>
                status = "InProgress" /\ (queue = <<>> \/ running_actions # {})
<1> DEFINE now == ToSet(AtOnce(queue, start))
<1>1. /\ ToSet(effects') = {ExecutorFinished(a, "ok", "none") : a \in now}
      /\ now \subseteq ToSet(queue) /\ start.async \subseteq ToSet(queue)
      /\ ToSet(pending_actions') \subseteq ToSet(queue)
      /\ async_executing_actions' = async_executing_actions \cup start.async
      /\ running_actions' = running_actions \cup start.async
      /\ status' \in {status, "InProgress", "Blocked"}
      /\ status' = "InProgress" /\ start.async = {} /\ now = {} =>
            status = "InProgress" /\ (queue = <<>> \/ running_actions # {})
  <2>1. <<>> \in Seq(Effects)
    OBVIOUS
  <2>2. QED BY <2>1, StartChanges
<1> HIDE DEF now
<1>2. \A a : LET e == ExecutorFinished(a, "ok", "none")
             IN  /\ e.event = "executor" /\ e.result.reason = "none" /\ e.result.id = a
                 /\ e.result.out # "cancelled"
  BY DEF ExecutorFinished, Finishing
<1>3. \A e \in ToSet(effects') :
        /\ e.event = "executor" /\ e.result.reason # "followup" /\ e.result.id \in Q
        /\ e.result.out # "cancelled"
  BY <1>1, <1>2
<1>4. ToSet(settling') = {}
  BY Empty
<1>5. ActsOn(Q)
  BY <1>1, <1>3, <1>4 DEF ActsOn, Waiting
<1>6. ASSUME NothingNew PROVE start.async = {} /\ now = {}
  BY <1>1, <1>6 DEF NothingNew
<1>7. QED BY <1>1, <1>5, <1>6

LEMMA ActionCallbackChanges ==
    ASSUME CallsInv, NEW a \in Actions, ActionCallback(a)
    PROVE  /\ ActsOn(Waiting)
           /\ UNCHANGED pending_preprocessed_actions
           /\ status' = "InProgress" /\ NothingNew =>
                status = "InProgress" /\ UNCHANGED async_executing_actions
<1> DEFINE Q == Waiting
<1>1. /\ settling = <<>> /\ effects = <<>> /\ UNCHANGED controller_vars
      /\ pending_actions \in Seq(Actions) /\ IsInjective(pending_actions)
  BY PartsOfTypeOK DEF ActionCallback, Quiescent, CallsInv, CallTypes, StartTypes, Once
<1>2. /\ ToSet(<<>>) = {} /\ \A e : ToSet(<<e>>) = {e}
      /\ \A e : Append(<<>>, e) = <<e>>
  BY DEF ToSet
<1>3. \A out, why : LET e == ExecutorFinished(a, out, why)
                    IN  /\ e.event = "executor" /\ e.result.out = out
                        /\ e.result.reason = why /\ e.result.id = a
                        /\ Reported(<<e>>) = {a}
  BY DEF ExecutorFinished, Finishing, Reported
<1>4. ASSUME NEW out \in {"ok", "snapshot"}, ExecutionDone(a, out)
      PROVE  /\ ActsOn(Q) /\ UNCHANGED pending_preprocessed_actions
             /\ NothingNew => UNCHANGED <<status, async_executing_actions>>
  <2>1. /\ async_executing_actions' = async_executing_actions \ {a}
        /\ UNCHANGED <<pending_preprocessed_actions, pending_actions, running_actions,
                       finished_action_results, settling, status>>
    BY <1>4 DEF ExecutionDone
  <2>2. CASE a \in async_executing_actions
    <3>1. effects' = <<ExecutorFinished(a, out, "none")>>
      BY <1>1, <1>2, <1>4, <2>2 DEF ExecutionDone, Awaited
    <3>2. /\ ToSet(effects') = {ExecutorFinished(a, out, "none")} /\ Reported(effects') = {a}
          /\ ToSet(settling') = {}
      BY <1>1, <1>2, <1>3, <2>1, <3>1
    <3>3. \A e \in ToSet(effects') :
            /\ e.event = "executor" /\ e.result.reason # "followup" /\ e.result.id = a
            /\ e.result.out # "cancelled"
      BY <1>3, <3>2
    <3>4. ActsOn(Q)
      BY <1>1, <2>1, <2>2, <3>2, <3>3 DEF ActsOn, Waiting
    <3>5. ~NothingNew
      BY <3>2 DEF NothingNew
    <3>6. QED BY <2>1, <3>4, <3>5
  <2>3. CASE a \notin async_executing_actions
    <3>1. UNCHANGED <<effects, async_executing_actions>>
      BY <1>4, <2>1, <2>3 DEF ExecutionDone, Awaited
    <3>2. ToSet(effects') = {} /\ ToSet(settling') = {}
      BY <1>1, <1>2, <2>1, <3>1
    <3>3. ActsOn(Q)
      BY <1>1, <2>1, <3>1, <3>2 DEF ActsOn, Waiting
    <3>4. QED BY <2>1, <3>1, <3>3
  <2>4. QED BY <2>2, <2>3
<1>5. CASE CancelRunning(a)
  <2>1. /\ a \in running_actions /\ a \in async_executing_actions
        /\ async_executing_actions' = async_executing_actions \ {a}
        /\ effects' = <<ExecutorFinished(a, "cancelled", "manual")>>
        /\ UNCHANGED <<pending_preprocessed_actions, pending_actions, running_actions,
                       finished_action_results, settling, status>>
    BY <1>1, <1>2, <1>5 DEF CancelRunning
  <2>2. /\ ToSet(effects') = {ExecutorFinished(a, "cancelled", "manual")}
        /\ Reported(effects') = {a} /\ ToSet(settling') = {}
    BY <1>1, <1>2, <1>3, <2>1
  <2>3. \A e \in ToSet(effects') :
          /\ e.event = "executor" /\ e.result.reason # "followup"
          /\ e.result.out = "cancelled" /\ e.result.id = a
    BY <1>3, <2>2
  <2>4. ActsOn(Q)
    BY <1>1, <2>1, <2>2, <2>3 DEF ActsOn, Waiting
  <2>5. ~NothingNew
    BY <2>2 DEF NothingNew
  <2>6. QED BY <2>1, <2>4, <2>5
<1>6. CASE CancelPending(a)
  <2>1. /\ pending_actions' = Keep(pending_actions, Actions \ {a})
        /\ settling' = <<Finishing(a, "cancelled", "manual")>>
        /\ UNCHANGED <<pending_preprocessed_actions, running_actions, async_executing_actions,
                       finished_action_results, effects, status>>
    BY <1>6 DEF CancelPending
  <2>2. ToSet(pending_actions') \subseteq ToSet(pending_actions)
    BY <1>1, <2>1, KeepElements
  <2>3. /\ ToSet(settling') = {Finishing(a, "cancelled", "manual")} /\ ToSet(effects') = {}
        /\ Finishing(a, "cancelled", "manual").out = "cancelled"
        /\ Finishing(a, "cancelled", "manual").reason = "manual"
    BY <1>1, <1>2, <2>1 DEF Finishing
  <2>4. ActsOn(Q)
    BY <1>1, <2>1, <2>2, <2>3 DEF ActsOn, Waiting
  <2>5. ~NothingNew
    BY <2>3 DEF NothingNew
  <2>6. QED BY <2>1, <2>4, <2>5
<1>7. CASE ExecuteAction(a)
  <2>1. /\ pending_actions # <<>> /\ a = Head(pending_actions) /\ running_actions = {}
        /\ UNCHANGED <<pending_preprocessed_actions, finished_action_results, settling>>
    BY <1>7 DEF ExecuteAction
  <2>2. CASE StartActions(pending_actions, [count |-> 1, async |-> {a}]) /\ UNCHANGED effects
    <3> DEFINE start == [count |-> 1, async |-> {a}]
    <3>1. Started(pending_actions, start) /\ start.async = {a}
      BY <1>1, <2>1 DEF Started, FirstOf
    <3>2. /\ a \in ToSet(pending_actions)
          /\ ToSet(pending_actions') \subseteq ToSet(pending_actions)
          /\ async_executing_actions' = async_executing_actions \cup {a}
          /\ running_actions' = running_actions \cup {a}
          /\ status' \in {status, "InProgress", "Blocked"}
      <4>1. <<>> \in Seq(Effects) /\ StartActions(pending_actions, start)
        BY <2>2
      <4> HIDE DEF start
      <4>2. QED BY <1>1, <3>1, <4>1, StartChanges
    <3>3. ToSet(effects') = {} /\ ToSet(settling') = {}
      BY <1>1, <1>2, <2>1, <2>2
    <3>4. ActsOn(Q)
      BY <1>1, <2>1, <3>2, <3>3 DEF ActsOn, Waiting
    <3>5. ~NothingNew
      BY <3>2 DEF NothingNew
    <3>6. QED BY <2>1, <3>4, <3>5
  <2>3. ASSUME NEW start \in Starts(pending_actions, {a}), StartActions(pending_actions, start),
               effects' = ResultsOf(start, pending_actions)
        PROVE  /\ ActsOn(Q)
               /\ status' = "InProgress" /\ NothingNew => pending_actions = <<>> \/ running_actions # {}
    <3>1. ToSet(pending_actions) \cup async_executing_actions \subseteq Q
      BY DEF Waiting
    <3> HIDE DEF Q
    <3>2. QED BY <1>1, <2>1, <2>3, <3>1, StartsStarted, StartedActsOn
  <2>4. QED BY <1>7, <2>1, <2>2, <2>3 DEF ExecuteAction
<1>8. QED BY <1>4, <1>5, <1>6, <1>7 DEF ActionCallback

LEMMA PreprocessedChanges ==
    ASSUME CallsInv, NEW i \in DOMAIN pending_preprocessed_actions, BatchPreprocessed(i)
    PROVE  LET released == ToSet(Released(Batches(i)))
           IN  /\ ActsOn(Waiting \cup released)
               /\ pending_preprocessed_actions' = StillToCome(Batches(i))
               /\ released \subseteq CallsOf(pending_preprocessed_actions)
               /\ status' = "InProgress" /\ NothingNew =>
                    status = "InProgress" /\ (released = {} \/ running_actions # {})
<1> DEFINE batches == Batches(i)
           released == Released(batches)
           kept == Keep(released, Actions \ Ids(finished_action_results))
           queue == Queued(batches)
<1>1. PICK start \in Starts(queue, {}) :
        StartActions(queue, start) /\ effects' = ResultsOf(start, queue)
  BY PreprocessedStarts DEF BatchPreprocessed
<1>2. /\ pending_preprocessed_actions' = StillToCome(batches)
      /\ effects = <<>> /\ settling = <<>>
      /\ UNCHANGED <<controller_vars, settling, finished_action_results>>
  BY PreprocessedStarts DEF BatchPreprocessed, Preprocessed, Quiescent
<1>3. IsInjective(released) /\ ToSet(released) \subseteq CallsOf(pending_preprocessed_actions)
  BY ReleasedOnce
<1>4. /\ released \in Seq(Actions) /\ queue \in Seq(Actions)
      /\ pending_actions \in Seq(Actions) /\ IsInjective(pending_actions)
  BY BatchesType, QueuedType, PartsOfTypeOK DEF CallsInv, CallTypes, StartTypes, Once
<1> HIDE DEF released, batches
<1>5. /\ kept \in Seq(Actions) /\ IsInjective(kept)
      /\ ToSet(kept) = ToSet(released) \cap (Actions \ Ids(finished_action_results))
  BY <1>3, <1>4, KeepElements
<1>6. ToSet(kept) = ToSet(released)
  <2>1. ToSet(released) \subseteq Actions
    BY <1>4 DEF ToSet
  <2>2. ToSet(released) \cap Ids(finished_action_results) = {}
    BY <1>3 DEF CallsInv, InOnePlace, Apart8
  <2>3. QED BY <1>5, <2>1, <2>2
<1>7. queue = pending_actions \o kept
  BY DEF Queued, released
<1> HIDE DEF kept, queue
<1>8. IsInjective(queue) /\ ToSet(queue) = ToSet(pending_actions) \cup ToSet(released)
  <2>1. ToSet(pending_actions) \cap ToSet(kept) = {}
    BY <1>3, <1>6 DEF CallsInv, InOnePlace, Apart8
  <2>2. QED BY <1>4, <1>5, <1>6, <1>7, <2>1, ConcatInjective, ConcatElements
<1> DEFINE Q == Waiting \cup ToSet(released)
<1>9. /\ ActsOn(Q)
      /\ status' = "InProgress" /\ NothingNew =>
            status = "InProgress" /\ (queue = <<>> \/ running_actions # {})
  <2>1. ToSet(queue) \cup async_executing_actions \subseteq Q
    BY <1>8 DEF Waiting
  <2> HIDE DEF Q
  <2>2. QED BY <1>1, <1>2, <1>4, <1>8, <2>1, StartsStarted, StartedActsOn
<1> HIDE DEF Q
<1>10. queue = <<>> => ToSet(released) = {}
  BY <1>8, Empty
<1>11. QED BY <1>2, <1>3, <1>9, <1>10 DEF Q, released, batches

LEMMA CancelAllChanges ==
    ASSUME CallsInv, NEW why \in Reasons, NEW emitted \in Seq(Effects), CancelAll(why, emitted)
    PROVE  /\ ToSet(effects') = ToSet(emitted)
                \cup {ExecutorFinished(a, "cancelled", why) : a \in async_executing_actions}
           /\ ToSet(settling') = {Finishing(a, "cancelled", why) : a \in ToSet(pending_actions)}
           /\ pending_actions' = <<>> /\ async_executing_actions' = {}
<1>1. /\ async_executing_actions \subseteq Actions /\ IsFiniteSet(async_executing_actions)
      /\ pending_actions \in Seq(Actions)
  BY ActionAssumption, FS_Subset, PartsOfTypeOK DEF CallsInv, CallTypes, StartTypes
<1>2. PICK order \in SetToSeqs(async_executing_actions) :
        effects' = emitted \o [i \in DOMAIN order |-> ExecutorFinished(order[i], "cancelled", why)]
  BY DEF CancelAll
<1>3. order \in Seq(Actions) /\ ToSet(order) = async_executing_actions
  BY <1>1, SequencesOfASet, SeqMonotonic
<1> DEFINE es == [i \in DOMAIN order |-> ExecutorFinished(order[i], "cancelled", why)]
<1>4. es \in Seq(Effects)
  BY <1>3, FinishingTypes DEF Outcomes
<1>5. ToSet(es) = {ExecutorFinished(a, "cancelled", why) : a \in async_executing_actions}
  BY <1>3, ListedResults
<1> HIDE DEF es
<1>6. ToSet(emitted \o es) = ToSet(emitted) \cup ToSet(es)
  BY <1>4, ConcatElements
<1>7. ToSet(settling') = {Finishing(a, "cancelled", why) : a \in ToSet(pending_actions)}
  BY <1>1, ListedResults DEF CancelAll
<1>8. QED BY <1>2, <1>5, <1>6, <1>7 DEF CancelAll, es

\* What the user cancels: all that is in motion is recorded or reported as
\* cancelled, or stays while only a stream is stopped.
LEMMA UserChanges ==
    ASSUME CallsInv, User
    PROVE  /\ Quiescent /\ UNCHANGED <<running_actions, finished_action_results, delivered,
                                       pending_preprocessed_actions, used, stale_resume>>
           /\ \A e \in ToSet(effects') :
                \/ /\ e.event = "stream" /\ stream # None /\ ~StopActions
                   /\ e.reason = IF SendQuery THEN "followup" ELSE "manual"
                   /\ e.resume = stream.should_resume
                \/ /\ e.event = "executor" /\ e.result.out = "cancelled"
                   /\ e.result.reason = IF SendQuery THEN "followup" ELSE "manual"
           /\ \A f \in ToSet(settling') :
                f.out = "cancelled" /\ f.reason = IF SendQuery THEN "followup" ELSE "manual"
           /\ StopStream =>
                /\ UNCHANGED <<pending_actions, async_executing_actions, settling, stopped>>
                /\ ToSet(effects') = {StreamCancelled("manual", stream.should_resume)}
           /\ ~StopStream =>
                /\ pending_actions' = <<>> /\ async_executing_actions' = {}
                /\ async_executing_actions = Reported(effects')
                /\ pending_actions # <<>> => ToSet(settling') # {}
                /\ pending_actions = <<>> => settling' = <<>>
<1>1. /\ Quiescent
      /\ UNCHANGED <<running_actions, finished_action_results, delivered,
                     pending_preprocessed_actions, used, stale_resume>>
  BY DEF User, SendQuery, StopStream, StopActions
<1>2. ~(SendQuery /\ StopStream) /\ ~(SendQuery /\ StopActions) /\ ~(StopStream /\ StopActions)
  BY <1>1 DEF SendQuery, StopStream, StopActions, Quiescent
<1> DEFINE why == IF SendQuery THEN "followup" ELSE "manual"
           e0 == StreamCancelled(why, stream.should_resume)
           stops0 == IF StopActions THEN <<>> ELSE CancelledStream(why)
<1>3. why \in Reasons
  BY DEF Reasons
<1>4. /\ stream = None => CancelledStream(why) = <<>>
      /\ stream # None => CancelledStream(why) = <<e0>>
  BY DEF CancelledStream
<1>5. stops0 \in Seq(Effects)
  <2>1. stream # None => stream.should_resume \in BOOLEAN
    BY PartsOfTypeOK DEF CallsInv, RecoveryTypes, StreamTypeOK, Streams
  <2>2. stream # None => e0 \in Effects
    BY <1>3, <2>1, ResultTypes DEF StreamCancelled, Effects
  <2> HIDE DEF e0
  <2>3. stream # None => <<e0>> \in Seq(Effects)
    BY <2>2
  <2>4. <<>> \in Seq(Effects)
    OBVIOUS
  <2>5. QED BY <1>4, <2>3, <2>4
<1>6. /\ e0.event = "stream" /\ e0.reason = why /\ e0.resume = stream.should_resume
      /\ ToSet(<<>>) = {} /\ ToSet(<<e0>>) = {e0}
  BY DEF StreamCancelled, ToSet
<1> HIDE DEF e0
<1>7. \A e \in ToSet(stops0) : e = e0 /\ stream # None /\ ~StopActions
  BY <1>4, <1>6
<1>8. \A a : /\ ExecutorFinished(a, "cancelled", why).event = "executor"
             /\ ExecutorFinished(a, "cancelled", why).result = Finishing(a, "cancelled", why)
             /\ Finishing(a, "cancelled", why).out = "cancelled"
             /\ Finishing(a, "cancelled", why).reason = why
             /\ Finishing(a, "cancelled", why).id = a
  BY DEF ExecutorFinished, Finishing
<1>9. CASE StopStream
  <2>1. /\ UNCHANGED <<pending_actions, async_executing_actions, settling, stopped>>
        /\ effects' = CancelledStream("manual") /\ stream # None /\ why = "manual"
        /\ ~StopActions
    BY <1>2, <1>9 DEF StopStream
  <2>2. effects' = <<e0>> /\ ToSet(settling') = {}
    BY <1>1, <1>4, <1>6, <2>1 DEF Quiescent
  <2>3. e0 = StreamCancelled("manual", stream.should_resume)
    BY <2>1 DEF e0
  <2>4. QED BY <1>1, <1>6, <1>9, <2>1, <2>2, <2>3
<1>10. CASE ~StopStream
  <2>1. CancelAll(why, stops0)
    BY <1>2, <1>10 DEF User, SendQuery, StopActions
  <2> HIDE DEF why, stops0
  <2>2. /\ ToSet(effects') = ToSet(stops0)
              \cup {ExecutorFinished(a, "cancelled", why) : a \in async_executing_actions}
        /\ ToSet(settling') = {Finishing(a, "cancelled", why) : a \in ToSet(pending_actions)}
        /\ pending_actions' = <<>> /\ async_executing_actions' = {}
    BY <1>3, <1>5, <2>1, CancelAllChanges
  <2>3. \A e \in ToSet(effects') :
          \/ e = e0 /\ stream # None /\ ~StopActions
          \/ e.event = "executor" /\ e.result.out = "cancelled" /\ e.result.reason = why
    BY <1>7, <1>8, <2>2
  <2>4. \A f \in ToSet(settling') : f.out = "cancelled" /\ f.reason = why
    BY <1>8, <2>2
  <2>5. Reported(effects') = async_executing_actions
    <3>1. \A e \in ToSet(stops0) : e.event # "executor"
      BY <1>6, <1>7
    <3>2. Reported(effects') = {e.result.id : e \in {e \in ToSet(effects') : e.event = "executor"}}
      BY DEF Reported, ToSet
    <3>3. {e \in ToSet(effects') : e.event = "executor"}
            = {ExecutorFinished(a, "cancelled", why) : a \in async_executing_actions}
      BY <1>8, <2>2, <3>1
    <3>4. QED BY <1>8, <3>2, <3>3
  <2>6. pending_actions # <<>> => ToSet(settling') # {}
    <3>1. pending_actions \in Seq(Actions)
      BY PartsOfTypeOK DEF CallsInv, CallTypes, StartTypes
    <3>2. pending_actions # <<>> => ToSet(pending_actions) # {}
      BY <3>1, HeadAndTail
    <3>3. QED BY <2>2, <3>2
  <2>7. pending_actions = <<>> => settling' = <<>>
    BY <2>1 DEF CancelAll
  <2>8. QED BY <1>1, <1>6, <1>10, <2>2, <2>3, <2>4, <2>5, <2>6, <2>7 DEF why
<1>11. QED BY <1>9, <1>10

-----------------------------------------------------------------------------
(* What is awaited, and what is announced *)

ReasonOf(e) == IF e.event = "executor" THEN e.result.reason ELSE e.reason

\* The running phase is what the executor waits for and what it has reported;
\* a cancellation that announces a follow-up has one coming; and an action
\* that has finished has a result, until a request has taken it.
Underway ==
    /\ async_executing_actions \subseteq running_actions
    /\ running_actions \subseteq async_executing_actions \cup Reported(effects)
    /\ \/ \E f \in ToSet(settling) : f.reason = "followup"
       \/ \E e \in ToSet(effects) : ReasonOf(e) = "followup"
       => submitting \/ (stream # None /\ stream.stage = "open")
    /\ stream = None /\ (\E e \in ToSet(effects) : e.event = "action") =>
        ToSet(finished_action_results) # {}

\* The handlers of events that are not of the executor.
LEMMA HandledChanges ==
    ASSUME CallsInv, SendFollowUp \/ IgnoreActionFinished \/ HandleStreamCancelled
    PROVE  /\ settling = <<>> /\ ~submitting
           /\ UNCHANGED <<pending_preprocessed_actions, pending_actions, running_actions,
                          async_executing_actions, settling, submitting, used, stopped>>
           /\ Head(effects).event # "executor"
           /\ ToSet(effects) = {Head(effects)} \cup ToSet(effects')
           /\ Reported(effects') = Reported(effects)
<1>1. /\ effects # <<>> /\ effects \in Seq(Effects) /\ Head(effects).event # "executor"
      /\ effects' = Tail(effects)
  BY PartsOfTypeOK
  DEF CallsInv, CallTypes, SendFollowUp, IgnoreActionFinished, HandleStreamCancelled, Handles
<1>2. ToSet(effects) = {Head(effects)} \cup ToSet(effects')
  BY <1>1, HeadAndTail
<1>3. Reported(effects') = Reported(effects)
  BY <1>1, TailReports DEF CallsInv, Once
<1>4. QED BY <1>1, <1>2, <1>3
          DEF SendFollowUp, IgnoreActionFinished, HandleStreamCancelled, Handles, controller_vars

LEMMA SendOpens ==
    ASSUME NEW results, NEW can_resume \in BOOLEAN, Send(results, can_resume)
    PROVE  /\ stream' # None /\ stream'.stage = "open" /\ ~stream'.should_resume
           /\ stream'.calls = <<>> /\ status' = "InProgress"
BY NewStreamType, NoneIsNoStream DEF Send, NewStream

LEMMA UnderwayStep ==
    ASSUME CallsInv, Underway, [Next]_vars
    PROVE  Underway'
<1>1. ASSUME Record, UNCHANGED controller_vars PROVE Underway'
  <2> DEFINE r == Head(settling)
  <2>1. /\ r \in Finishings /\ ToSet(settling) = {r} \cup ToSet(settling')
        /\ ToSet(finished_action_results')
             = ToSet(finished_action_results) \cup {Result(r.id, r.out)}
        /\ \E now \in SUBSET ToSet(pending_actions), later \in SUBSET ToSet(pending_actions) :
             /\ ToSet(effects') = ToSet(effects) \cup {ActionFinished(r.reason)}
                  \cup {ExecutorFinished(a, "ok", "none") : a \in now}
             /\ async_executing_actions' = async_executing_actions \cup later
             /\ running_actions' = running_actions \cup later
    BY <1>1, RecordChanges
  <2> HIDE DEF r
  <2>2. PICK now \in SUBSET ToSet(pending_actions), later \in SUBSET ToSet(pending_actions) :
             /\ ToSet(effects') = ToSet(effects) \cup {ActionFinished(r.reason)}
                  \cup {ExecutorFinished(a, "ok", "none") : a \in now}
             /\ async_executing_actions' = async_executing_actions \cup later
             /\ running_actions' = running_actions \cup later
    BY <2>1
  <2>3. UNCHANGED <<stream, submitting>>
    BY <1>1 DEF controller_vars
  <2>4. Reported(effects) \subseteq Reported(effects')
    <3>1. ReportsIn(ToSet(effects)) \subseteq ReportsIn(ToSet(effects'))
      BY <2>2, ReportsOf
    <3>2. QED BY <3>1, ReportedCalls
  <2>5. /\ \A a : ReasonOf(ExecutorFinished(a, "ok", "none")) = "none"
        /\ ReasonOf(ActionFinished(r.reason)) = r.reason
    BY DEF ReasonOf, ExecutorFinished, Finishing, ActionFinished
  <2>6. /\ \A f \in ToSet(settling') : f \in ToSet(settling)
        /\ \A e \in ToSet(effects') : e \in ToSet(effects) \/ ReasonOf(e) \in {r.reason, "none"}
        /\ r \in ToSet(settling)
    BY <2>1, <2>2, <2>5
  <2>7. ToSet(finished_action_results') # {}
    BY <2>1
  <2>8. QED BY <2>2, <2>3, <2>4, <2>6, <2>7 DEF Underway
<1>2. ASSUME HandleExecutorFinished, UNCHANGED controller_vars PROVE Underway'
  <2> DEFINE e0 == Head(effects)
             r == e0.result
  <2>1. /\ e0.event = "executor" /\ r \in Finishings
        /\ ToSet(effects) = {e0} \cup ToSet(effects')
        /\ \A f \in ToSet(settling') : f.reason = r.reason
        /\ running_actions' = running_actions \ {r.id}
        /\ UNCHANGED <<async_executing_actions, finished_action_results>>
    BY <1>2, ExecutorFinishedChanges
  <2>2. /\ r.id \in Reported(effects) /\ Reported(effects') = Reported(effects) \ {r.id}
    BY <1>2, <2>1, TailReports, PartsOfTypeOK
    DEF HandleExecutorFinished, CallsInv, CallTypes, Once
  <2>3. r.id \notin async_executing_actions
    BY <2>2 DEF CallsInv, InOnePlace, Apart8
  <2>4. ReasonOf(e0) = r.reason
    BY <2>1 DEF ReasonOf
  <2> HIDE DEF e0, r
  <2>5. UNCHANGED <<stream, submitting>>
    BY <1>2 DEF controller_vars
  <2>6. QED BY <2>1, <2>2, <2>3, <2>4, <2>5 DEF Underway
<1>3. ASSUME NEW Q, ActsOn(Q) PROVE Underway'
  <2>1. UNCHANGED <<stream, submitting>> /\ effects = <<>>
    BY <1>3 DEF ActsOn, controller_vars
  <2>2. Reported(effects) = {}
    BY <2>1, Empty
  <2>3. \A e \in ToSet(effects') : e.event = "executor" /\ ReasonOf(e) # "followup"
    BY <1>3 DEF ActsOn, ReasonOf
  <2>4. /\ async_executing_actions' \subseteq running_actions'
        /\ running_actions' \subseteq async_executing_actions' \cup Reported(effects')
    BY <1>3, <2>2 DEF ActsOn, Underway
  <2>5. \A f \in ToSet(settling') : f.reason # "followup"
    BY <1>3 DEF ActsOn, Waiting
  <2>6. QED BY <2>3, <2>4, <2>5 DEF Underway
<1>4. CASE SubmitQuery
  <2>1. /\ stream' # None /\ stream'.stage = "open"
        /\ UNCHANGED <<running_actions, async_executing_actions, effects>>
    BY <1>4, SendOpens DEF SubmitQuery
  <2>2. QED BY <2>1 DEF Underway
<1>5. CASE SendFollowUp
  <2>1. stream' # None /\ stream'.stage = "open"
    BY <1>5, SendOpens DEF SendFollowUp
  <2>2. /\ UNCHANGED <<running_actions, async_executing_actions>>
        /\ Reported(effects') = Reported(effects)
    BY <1>5, HandledChanges
  <2>3. QED BY <2>1, <2>2 DEF Underway
<1>6. CASE IgnoreActionFinished \/ HandleStreamCancelled
  <2>1. /\ UNCHANGED <<running_actions, async_executing_actions, settling, submitting>>
        /\ Reported(effects') = Reported(effects) /\ ToSet(effects') \subseteq ToSet(effects)
    BY <1>6, HandledChanges
  <2>2. UNCHANGED <<stream, finished_action_results>>
    BY <1>6 DEF IgnoreActionFinished, HandleStreamCancelled, controller_vars
  <2>3. QED BY <2>1, <2>2 DEF Underway
<1>7. CASE StreamEvent \/ RetryWhenOnline \/ StreamComplete \/ ResumeFires
  <2>1. Quiescent /\ UNCHANGED <<running_actions, async_executing_actions, settling, effects>>
    BY <1>7 DEF StreamEvent, ReceiveClientActions, FinishDone, FinishError, Retry, ReceiveError,
                Truncated, Streaming, RetryWhenOnline, StreamComplete, ResumeFires,
                UnchangedByStream
  <2>2. ToSet(settling') = {} /\ ToSet(effects') = {}
    BY <2>1, Empty DEF Quiescent
  <2>3. QED BY <2>1, <2>2 DEF Underway
<1>8. CASE User
  <2>1. /\ Quiescent /\ UNCHANGED running_actions
        /\ \A e \in ToSet(effects') :
              \/ e.event = "stream" /\ e.reason = IF SendQuery THEN "followup" ELSE "manual"
              \/ /\ e.event = "executor"
                 /\ e.result.reason = IF SendQuery THEN "followup" ELSE "manual"
        /\ \A f \in ToSet(settling') : f.reason = IF SendQuery THEN "followup" ELSE "manual"
        /\ StopStream => UNCHANGED <<async_executing_actions>>
        /\ ~StopStream => async_executing_actions' = {} /\ async_executing_actions = Reported(effects')
    BY <1>8, UserChanges
  <2>2. Reported(effects) = {}
    BY <2>1, Empty DEF Quiescent
  <2>3. SendQuery => submitting'
    BY DEF SendQuery
  <2>4. \A e \in ToSet(effects') :
          e.event # "action" /\ ReasonOf(e) = IF SendQuery THEN "followup" ELSE "manual"
    BY <2>1 DEF ReasonOf
  <2>5. QED BY <2>1, <2>2, <2>3, <2>4 DEF Underway
<1>9. CASE UNCHANGED vars
  <2>1. UNCHANGED <<running_actions, async_executing_actions, settling, effects, submitting,
                    stream, finished_action_results>>
    BY <1>9 DEF vars, action_vars, controller_vars
  <2>2. QED BY <2>1 DEF Underway
<1>10. ASSUME NEW a \in Actions, ActionCallback(a) PROVE Underway'
  BY <1>3, <1>10, ActionCallbackChanges
<1>11. ASSUME NEW i \in DOMAIN pending_preprocessed_actions, BatchPreprocessed(i)
       PROVE  Underway'
  BY <1>3, <1>11, PreprocessedChanges
<1>12. QED BY <1>1, <1>2, <1>4, <1>5, <1>6, <1>7, <1>8, <1>9, <1>10, <1>11 DEF Next, HandleEvent

\* Only a response that is done has calls, and only a failed one is resumed;
\* so no batch is empty.
StreamShape ==
    stream # None =>
        /\ stream.stage # "done" => stream.calls = <<>>
        /\ stream.stage # "failed" => ~stream.should_resume

BatchesHaveCalls ==
    \A i \in DOMAIN pending_preprocessed_actions :
        ToSet(pending_preprocessed_actions[i].calls) # {}

LEMMA StreamShapeStep ==
    ASSUME RecoveryInv, StreamShape, [Next]_vars
    PROVE  StreamShape'
<1>1. stream # None => stream \in Streams
  BY DEF RecoveryInv, RecoveryTypes, StreamTypeOK
<1>2. CASE stream' = stream \/ stream' = None
  BY <1>2 DEF StreamShape
<1>3. ASSUME NEW results, NEW can_resume \in BOOLEAN, Send(results, can_resume)
      PROVE  StreamShape'
  BY <1>3, SendOpens DEF StreamShape
<1>4. CASE StreamEvent
  <2>1. stream # None /\ stream \in Streams /\ stream.stage = "open"
        /\ stream.calls = <<>> /\ ~stream.should_resume
    BY <1>1, <1>4 DEF StreamEvent, ReceiveClientActions, FinishDone, FinishError, Retry,
                      ReceiveError, Truncated, Streaming, StreamShape
  <2>2. CASE ReceiveClientActions \/ FinishError
    BY <2>1, <2>2 DEF ReceiveClientActions, FinishError, Streams, StreamShape
  <2>3. ASSUME NEW calls \in Calls, FinishDone(calls) PROVE StreamShape'
    BY <2>1, <2>3 DEF FinishDone, Streams, StreamShape
  <2>4. ASSUME NEW recoverable \in BOOLEAN, NEW online \in BOOLEAN,
               Retry(recoverable, online) \/ ReceiveError(recoverable, online) \/ Truncated(online)
        PROVE  StreamShape'
    BY <2>1, <2>4 DEF Retry, Retried, ReceiveError, Truncated, Streams, StreamShape
  <2>5. QED BY <1>4, <2>2, <2>3, <2>4 DEF StreamEvent
<1>5. CASE RetryWhenOnline
  <2>1. /\ stream # None /\ stream.stage = "open" /\ stream.calls = <<>> /\ ~stream.should_resume
        /\ stream' = Retried
    BY <1>5 DEF RetryWhenOnline, RecoveryInv, Recovering, StreamShape
  <2>2. QED BY <1>1, <2>1 DEF Retried, Streams, StreamShape
<1>6. CASE HandleEvent
  <2>1. CASE SubmitQuery \/ SendFollowUp
    BY <1>3, <2>1 DEF SubmitQuery, SendFollowUp
  <2>2. CASE ~(SubmitQuery \/ SendFollowUp)
    BY <1>2, <1>6, <2>2 DEF HandleEvent, IgnoreActionFinished, HandleStreamCancelled, controller_vars
  <2>3. QED BY <2>1, <2>2
<1>7. CASE ResumeFires
  BY <1>2, <1>3, <1>7 DEF ResumeFires
<1>8. CASE \/ \E a \in Actions : ActionCallback(a)
           \/ \E i \in DOMAIN pending_preprocessed_actions : BatchPreprocessed(i)
           \/ StreamComplete \/ User \/ UNCHANGED vars
  BY <1>2, <1>8 DEF ActionCallback, BatchPreprocessed, StreamComplete, User, SendQuery,
                    StopStream, StopActions, controller_vars, vars
<1>9. QED BY <1>4, <1>5, <1>6, <1>7, <1>8 DEF Next

LEMMA BatchesHaveCallsStep ==
    ASSUME CallsInv, BatchesHaveCalls, [Next]_vars
    PROVE  BatchesHaveCalls'
<1>1. CASE UNCHANGED pending_preprocessed_actions
  BY <1>1 DEF BatchesHaveCalls
<1>2. ASSUME NEW i \in DOMAIN pending_preprocessed_actions, BatchPreprocessed(i)
      PROVE  BatchesHaveCalls'
  <2> DEFINE old == pending_preprocessed_actions
             n == DoneBefore(Batches(i))
             rest == StillToCome(Batches(i))
  <2>1. /\ n \in 0..Len(old) /\ Len(old) \in Nat /\ DOMAIN old = 1..Len(old)
        /\ DOMAIN rest = 1..(Len(old) - n)
        /\ \A j \in 1..(Len(old) - n) : rest[j].calls = old[n + j].calls
    BY ReleasedParts, PartsOfTypeOK DEF CallsInv
  <2>2. pending_preprocessed_actions' = rest
    BY <1>2, PreprocessedChanges
  <2> HIDE DEF n, rest
  <2>3. \A j \in 1..(Len(old) - n) : n + j \in DOMAIN old
    BY <2>1
  <2>4. QED BY <2>1, <2>2, <2>3 DEF BatchesHaveCalls
<1>3. CASE StreamComplete /\ stream.calls # <<>>
  <2> DEFINE old == pending_preprocessed_actions
             new == [calls |-> stream.calls, done |-> FALSE]
  <2>1. pending_preprocessed_actions' = Append(old, new)
    BY <1>3 DEF StreamComplete, QueueActions
  <2>2. stream.calls \in Seq(Actions)
    BY <1>3, PartsOfTypeOK DEF CallsInv, RecoveryTypes, StreamTypeOK, Streams, StreamComplete
  <2>3. ToSet(new.calls) # {}
    BY <1>3, <2>2, HeadAndTail
  <2>4. \E S : old \in Seq(S) /\ new \in S
    <3>1. old \in Seq([calls : Seq(Actions), done : BOOLEAN])
      BY PartsOfTypeOK DEF CallsInv, CallTypes
    <3>2. new \in [calls : Seq(Actions), done : BOOLEAN]
      BY <2>2
    <3>3. QED BY <3>1, <3>2
  <2> HIDE DEF new
  <2>5. \A i \in DOMAIN Append(old, new) : (i \in DOMAIN old /\ Append(old, new)[i] = old[i])
                                            \/ Append(old, new)[i] = new
    BY <2>4
  <2>6. QED BY <2>1, <2>3, <2>5 DEF BatchesHaveCalls
<1>4. CASE StreamComplete /\ stream.calls = <<>>
  BY <1>1, <1>4 DEF StreamComplete
<1>5. CASE \/ HandleEvent \/ \E a \in Actions : ActionCallback(a)
           \/ StreamEvent \/ RetryWhenOnline \/ ResumeFires \/ User \/ UNCHANGED vars
  <2> SUFFICES UNCHANGED pending_preprocessed_actions
    BY <1>1
  <2>1. CASE HandleEvent
    BY <2>1 DEF HandleEvent, Record, RecordAndWait, RecordLast, RecordAndContinue,
                HandleExecutorFinished, SubmitQuery, SendFollowUp, IgnoreActionFinished,
                HandleStreamCancelled
  <2>2. CASE \E a \in Actions : ActionCallback(a)
    BY <2>2 DEF ActionCallback, ExecutionDone, ExecuteAction, CancelRunning, CancelPending
  <2>3. CASE StreamEvent \/ RetryWhenOnline \/ ResumeFires
    BY <2>3 DEF StreamEvent, ReceiveClientActions, FinishDone, FinishError, Retry, ReceiveError,
                Truncated, RetryWhenOnline, ResumeFires
  <2>4. CASE User \/ UNCHANGED vars
    BY <2>4 DEF User, SendQuery, StopStream, StopActions, vars, action_vars
  <2>5. QED BY <1>5, <2>1, <2>2, <2>3, <2>4
<1>6. QED BY <1>2, <1>3, <1>4, <1>5 DEF Next

-----------------------------------------------------------------------------
(* The calls in hand *)

\* The released calls that wait, that are in motion and that are in hand are
\* those that were, and those of C.
HandGrowsBy(C) ==
    /\ Waiting' \subseteq Waiting \cup C
    /\ InMotion' \subseteq InMotion \cup C
    /\ InHand' \subseteq InHand \cup C

LEMMA UncancelledParts ==
    /\ Uncancelled({}) = {} /\ ReportsIn({}) = {}
    /\ \A S : (\A r \in S : r.out = "cancelled") => Uncancelled(S) = {}
BY DEF Uncancelled, ReportsIn

LEMMA RecordMotion ==
    ASSUME CallsInv, Record, UNCHANGED controller_vars
    PROVE  HandGrowsBy({})
<1> DEFINE r == Head(settling)
<1>1. /\ r \in Finishings /\ ToSet(settling) = {r} \cup ToSet(settling')
      /\ ToSet(finished_action_results')
            = ToSet(finished_action_results) \cup {Result(r.id, r.out)}
      /\ \E now \in SUBSET ToSet(pending_actions), later \in SUBSET ToSet(pending_actions) :
            /\ ToSet(effects') = ToSet(effects) \cup {ActionFinished(r.reason)}
                 \cup {ExecutorFinished(a, "ok", "none") : a \in now}
            /\ ToSet(pending_actions') \subseteq ToSet(pending_actions)
            /\ async_executing_actions' = async_executing_actions \cup later
  BY RecordChanges
<1> HIDE DEF r
<1>2. PICK now \in SUBSET ToSet(pending_actions), later \in SUBSET ToSet(pending_actions) :
            /\ ToSet(effects') = ToSet(effects) \cup {ActionFinished(r.reason)}
                 \cup {ExecutorFinished(a, "ok", "none") : a \in now}
            /\ ToSet(pending_actions') \subseteq ToSet(pending_actions)
            /\ async_executing_actions' = async_executing_actions \cup later
  BY <1>1
<1>3. Waiting' \subseteq Waiting
  BY <1>2 DEF Waiting
<1>4. ReportsIn({ActionFinished(r.reason)}) = {}
  BY DEF ReportsIn, ActionFinished
<1>5. Uncancelled(ReportsIn(ToSet(effects'))) \subseteq
        Uncancelled(ReportsIn(ToSet(effects))) \cup ToSet(pending_actions)
  <2> DEFINE news == {ExecutorFinished(a, "ok", "none") : a \in now}
  <2>1. Uncancelled(ReportsIn(news)) \subseteq now
    <3>1. \A a : ExecutorFinished(a, "ok", "none").result.id = a
      BY DEF ExecutorFinished, Finishing
    <3>2. \A e \in news : e.result.id \in now
      BY <3>1
    <3> HIDE DEF news
    <3>3. QED BY <3>2 DEF Uncancelled, ReportsIn
  <2>2. ToSet(effects') = (ToSet(effects) \cup {ActionFinished(r.reason)}) \cup news
    BY <1>2
  <2> HIDE DEF news
  <2>3. ReportsIn(ToSet(effects')) = ReportsIn(ToSet(effects)) \cup ReportsIn(news)
    BY <1>4, <2>2, ReportsOf
  <2>4. Uncancelled(ReportsIn(ToSet(effects')))
          = Uncancelled(ReportsIn(ToSet(effects))) \cup Uncancelled(ReportsIn(news))
    BY <2>3, UncancelledOf
  <2>5. QED BY <2>1, <2>4
<1>6. Uncancelled(ToSet(settling')) \subseteq Uncancelled(ToSet(settling))
  BY <1>1, UncancelledOf
<1>7. Uncancelled(ToSet(finished_action_results'))
        \subseteq Uncancelled(ToSet(finished_action_results)) \cup Uncancelled(ToSet(settling))
  <2>1. Result(r.id, r.out).id = r.id /\ Result(r.id, r.out).out = r.out
    BY DEF Result
  <2>2. Uncancelled({Result(r.id, r.out)}) \subseteq Uncancelled(ToSet(settling))
    <3>1. SUFFICES ASSUME NEW a \in Uncancelled({Result(r.id, r.out)})
                   PROVE  a \in Uncancelled(ToSet(settling))
      OBVIOUS
    <3>2. r.out # "cancelled" /\ r.id = a
      BY <2>1, <3>1 DEF Uncancelled
    <3>3. r \in ToSet(settling)
      BY <1>1
    <3>4. QED BY <3>2, <3>3 DEF Uncancelled
  <2>3. Uncancelled(ToSet(finished_action_results'))
          = Uncancelled(ToSet(finished_action_results)) \cup Uncancelled({Result(r.id, r.out)})
    BY <1>1, UncancelledOf
  <2>4. QED BY <2>2, <2>3
<1>8. QED BY <1>3, <1>5, <1>6, <1>7 DEF HandGrowsBy, InMotion, InHand, Waiting

LEMMA ExecutorFinishedMotion ==
    ASSUME CallsInv, HandleExecutorFinished, UNCHANGED controller_vars
    PROVE  HandGrowsBy({})
<1> DEFINE e == Head(effects)
           r == e.result
<1>1. /\ e.event = "executor" /\ ToSet(effects) = {e} \cup ToSet(effects')
      /\ \A f \in ToSet(settling') : f = r \/ f.out = "cancelled"
      /\ ToSet(pending_actions') \subseteq ToSet(pending_actions)
      /\ UNCHANGED <<async_executing_actions, finished_action_results>>
  BY ExecutorFinishedChanges
<1> HIDE DEF e
<1>2. ReportsIn(ToSet(effects')) \subseteq ReportsIn(ToSet(effects)) /\ r \in ReportsIn(ToSet(effects))
  BY <1>1, ReportsOf
<1> HIDE DEF r
<1>3. Uncancelled(ReportsIn(ToSet(effects'))) \subseteq Uncancelled(ReportsIn(ToSet(effects)))
  BY <1>2, UncancelledOf
<1>4. Uncancelled(ToSet(settling')) \subseteq Uncancelled(ReportsIn(ToSet(effects)))
  <2>1. SUFFICES ASSUME NEW a \in Uncancelled(ToSet(settling'))
                 PROVE  a \in Uncancelled(ReportsIn(ToSet(effects)))
    OBVIOUS
  <2>2. PICK f \in ToSet(settling') : f.out # "cancelled" /\ f.id = a
    BY <2>1 DEF Uncancelled
  <2>3. f = r
    BY <1>1, <2>2
  <2>4. QED BY <1>2, <2>2, <2>3 DEF Uncancelled
<1>5. QED BY <1>1, <1>3, <1>4 DEF HandGrowsBy, InMotion, InHand, Waiting

LEMMA ActsOnMotion ==
    ASSUME NEW C, ActsOn(Waiting \cup C)
    PROVE  HandGrowsBy(C)
<1>1. Waiting' \subseteq Waiting \cup C /\ UNCHANGED finished_action_results
  BY DEF ActsOn
<1>2. Uncancelled(ToSet(settling')) = {}
  BY UncancelledParts DEF ActsOn
<1>3. Uncancelled(ReportsIn(ToSet(effects'))) \subseteq Waiting \cup C
  BY UncancelledOf, ReportsOf DEF ActsOn
<1>4. QED BY <1>1, <1>2, <1>3 DEF HandGrowsBy, InMotion, InHand

LEMMA UserMotion ==
    ASSUME CallsInv, User
    PROVE  HandGrowsBy({}) /\ (~StopStream => Waiting' = {} /\ InMotion' = {})
<1>1. /\ Quiescent /\ UNCHANGED finished_action_results
      /\ \A e \in ToSet(effects') : e.event = "executor" => e.result.out = "cancelled"
      /\ \A f \in ToSet(settling') : f.out = "cancelled"
      /\ StopStream => UNCHANGED <<pending_actions, async_executing_actions>>
      /\ ~StopStream => pending_actions' = <<>> /\ async_executing_actions' = {}
  BY UserChanges
<1>2. Uncancelled(ToSet(settling')) = {}
  BY <1>1, UncancelledParts
<1>3. Uncancelled(ReportsIn(ToSet(effects'))) = {}
  BY <1>1, UncancelledOf, ReportsOf
<1>4. Waiting' \subseteq Waiting /\ (~StopStream => Waiting' = {})
  BY <1>1, Empty DEF Waiting
<1>5. QED BY <1>1, <1>2, <1>3, <1>4 DEF HandGrowsBy, InMotion, InHand

\* But for the batches, no step puts a call in hand that was not.
LEMMA HandStep ==
    ASSUME CallsInv, [Next]_vars
    PROVE  \/ HandGrowsBy({})
           \/ \E i \in DOMAIN pending_preprocessed_actions :
                BatchPreprocessed(i) /\ HandGrowsBy(ToSet(Released(Batches(i))))
<1>1. CASE UNCHANGED <<pending_actions, async_executing_actions, settling, effects,
                       finished_action_results>>
  BY <1>1 DEF HandGrowsBy, InMotion, InHand, Waiting
<1>2. ASSUME NEW a \in Actions, ActionCallback(a) PROVE HandGrowsBy({})
  <2>1. ActsOn(Waiting)
    BY <1>2, ActionCallbackChanges
  <2>2. Waiting \cup {} = Waiting
    OBVIOUS
  <2>3. QED BY <2>1, <2>2, ActsOnMotion
<1>3. ASSUME NEW i \in DOMAIN pending_preprocessed_actions, BatchPreprocessed(i)
      PROVE  HandGrowsBy(ToSet(Released(Batches(i))))
  BY <1>3, PreprocessedChanges, ActsOnMotion
<1>4. CASE SendFollowUp \/ IgnoreActionFinished \/ HandleStreamCancelled
  <2>1. /\ UNCHANGED <<pending_actions, async_executing_actions, settling>>
        /\ ToSet(effects') \subseteq ToSet(effects)
    BY <1>4, HandledChanges
  <2>2. ToSet(finished_action_results') \subseteq ToSet(finished_action_results)
    BY <1>4, Empty DEF SendFollowUp, DrainResults, IgnoreActionFinished, HandleStreamCancelled
  <2>3. /\ Uncancelled(ReportsIn(ToSet(effects'))) \subseteq Uncancelled(ReportsIn(ToSet(effects)))
        /\ Uncancelled(ToSet(finished_action_results'))
             \subseteq Uncancelled(ToSet(finished_action_results))
    BY <2>1, <2>2, UncancelledOf, ReportsOf
  <2>4. QED BY <2>1, <2>3 DEF HandGrowsBy, InMotion, InHand, Waiting
<1>5. CASE SubmitQuery
  <2>1. /\ UNCHANGED <<pending_actions, async_executing_actions, settling, effects>>
        /\ ToSet(finished_action_results') = {}
    BY <1>5, Empty DEF SubmitQuery, DrainResults
  <2>2. QED BY <2>1, UncancelledParts DEF HandGrowsBy, InMotion, InHand, Waiting
<1>6. CASE StreamEvent \/ RetryWhenOnline \/ StreamComplete \/ ResumeFires
  BY <1>1, <1>6 DEF StreamEvent, ReceiveClientActions, FinishDone, FinishError, Retry,
                    ReceiveError, Truncated, RetryWhenOnline, StreamComplete, ResumeFires,
                    UnchangedByStream
<1>7. CASE UNCHANGED vars
  BY <1>1, <1>7 DEF vars, action_vars
<1>8. QED BY <1>2, <1>3, <1>4, <1>5, <1>6, <1>7, RecordMotion, ExecutorFinishedMotion, UserMotion
          DEF Next, HandleEvent

-----------------------------------------------------------------------------
(* What InProgressMovesOn excuses *)

Excused == StoppedCallRan \/ stale_resume

Given == delivered \cup ToSet(finished_action_results)

\* What excuses a conversation once excuses it for good.
LEMMA ExcusedStays ==
    ASSUME CallsInv, [Next]_vars
    PROVE  /\ stopped \subseteq stopped' /\ (stale_resume => stale_resume')
           /\ Excused => Excused'
<1>1. Given \subseteq Given'
  <2>1. CASE UNCHANGED <<delivered, finished_action_results>>
    BY <2>1 DEF Given
  <2>2. CASE Record /\ UNCHANGED controller_vars
    BY <2>2, RecordChanges DEF Given, controller_vars
  <2>3. CASE SubmitQuery \/ SendFollowUp
    BY <2>3 DEF SubmitQuery, SendFollowUp, Send, Given
  <2>4. CASE ResumeFires
    BY <2>4 DEF ResumeFires, Send, Given
  <2>5. CASE \/ HandleExecutorFinished /\ UNCHANGED controller_vars
             \/ IgnoreActionFinished \/ HandleStreamCancelled
    BY <2>1, <2>5 DEF HandleExecutorFinished, IgnoreActionFinished, HandleStreamCancelled,
                      controller_vars
  <2>6. CASE \/ \E a \in Actions : ActionCallback(a)
             \/ \E i \in DOMAIN pending_preprocessed_actions : BatchPreprocessed(i)
    BY <2>1, <2>6 DEF ActionCallback, ExecutionDone, ExecuteAction, CancelRunning, CancelPending,
                      BatchPreprocessed, Preprocessed, controller_vars
  <2>7. CASE StreamEvent \/ RetryWhenOnline \/ StreamComplete
    BY <2>1, <2>7 DEF StreamEvent, ReceiveClientActions, FinishDone, FinishError, Retry,
                      ReceiveError, Truncated, RetryWhenOnline, StreamComplete, UnchangedByStream
  <2>8. CASE User \/ UNCHANGED vars
    BY <2>1, <2>8 DEF User, SendQuery, StopStream, StopActions, vars, action_vars, controller_vars
  <2>9. QED BY <2>2, <2>3, <2>4, <2>5, <2>6, <2>7, <2>8 DEF Next, HandleEvent
<1>2. stopped \subseteq stopped' /\ (stale_resume => stale_resume')
  <2>1. CASE UNCHANGED <<stopped, stale_resume>>
    BY <2>1
  <2>2. CASE HandleStreamCancelled
    <3>1. UNCHANGED stopped /\ stale_resume' = (stale_resume \/ Head(effects).resume)
      BY <2>2 DEF HandleStreamCancelled
    <3>2. QED BY <3>1
  <2>3. CASE HandleEvent /\ ~HandleStreamCancelled
    BY <2>1, <2>3 DEF HandleEvent, SubmitQuery, SendFollowUp, IgnoreActionFinished, controller_vars
  <2>4. CASE \/ \E a \in Actions : ActionCallback(a)
             \/ \E i \in DOMAIN pending_preprocessed_actions : BatchPreprocessed(i)
    BY <2>1, <2>4 DEF ActionCallback, BatchPreprocessed, controller_vars
  <2>5. CASE StreamEvent \/ RetryWhenOnline \/ StreamComplete \/ ResumeFires
    <3>1. UNCHANGED <<stopped, stale_resume>>
      BY <2>5 DEF StreamEvent, ReceiveClientActions, FinishDone, FinishError, Retry, ReceiveError,
                  Truncated, RetryWhenOnline, StreamComplete, ResumeFires, UnchangedByStream
    <3>2. QED BY <2>1, <3>1
  <2>6. CASE User \/ UNCHANGED vars
    <3>1. stopped \subseteq stopped' /\ UNCHANGED stale_resume
      BY <2>6 DEF User, SendQuery, StopStream, StopActions, vars, controller_vars
    <3>2. QED BY <3>1
  <2>7. QED BY <2>2, <2>3, <2>4, <2>5, <2>6 DEF Next
<1>3. QED BY <1>1, <1>2 DEF Excused, StoppedCallRan, Given

-----------------------------------------------------------------------------
(* One turn at a time *)

NothingLeft == settling = <<>> /\ effects = <<>>

Idle == Waiting = {}

\* A query goes out with nothing else under way.
SubmitsAlone ==
    submitting =>
        stream = None /\ InMotion = {} /\ CallsOf(pending_preprocessed_actions) \subseteq stopped

\* No resume is scheduled beside a stream, and none beside another.
OneRecovery ==
    /\ stream # None \/ submitting => pending_auto_resumes = 0
    /\ pending_auto_resumes > 0 => has_resume_handle /\ pending_auto_resumes = 1

\* With a stream in flight or a resume to come, the calls in hand are ones the
\* user has stopped, or there are none.
StreamsAlone ==
    stream # None \/ pending_auto_resumes > 0 =>
        \/ CallsOf(pending_preprocessed_actions) \cup InHand \subseteq stopped
        \/ /\ pending_preprocessed_actions = <<>> /\ Idle
           /\ stream # None /\ stream.stage # "open" => NothingLeft

\* While the last response's calls are preprocessed, the calls in hand and the
\* older batches are ones the user has stopped.
BatchesAlone ==
    /\ pending_preprocessed_actions # <<>> /\ ~submitting =>
        \/ InHand \subseteq stopped
        \/ Len(pending_preprocessed_actions) = 1 /\ Idle /\ NothingLeft
    /\ \A i \in DOMAIN pending_preprocessed_actions :
        i < Len(pending_preprocessed_actions) =>
            ToSet(pending_preprocessed_actions[i].calls) \subseteq stopped

Alone == SubmitsAlone /\ OneRecovery /\ StreamsAlone /\ BatchesAlone

\* A step that leaves the turn's stream, resumes and batches as they are.
LEMMA QuietKeepsAlone ==
    ASSUME Alone, HandGrowsBy({}), Idle /\ NothingLeft => NothingLeft',
           UNCHANGED <<pending_preprocessed_actions, stream, submitting, pending_auto_resumes,
                       has_resume_handle, stopped>>
    PROVE  Alone'
<1>1. /\ InMotion' \subseteq InMotion /\ InHand' \subseteq InHand /\ Waiting' \subseteq Waiting
  BY DEF HandGrowsBy
<1>2. Idle => Idle'
  BY <1>1 DEF Idle
<1>3. CallsOf(pending_preprocessed_actions)' = CallsOf(pending_preprocessed_actions)
  OBVIOUS
<1> HIDE DEF CallsOf
<1>4. SubmitsAlone' /\ OneRecovery'
  BY <1>1, <1>3 DEF Alone, SubmitsAlone, OneRecovery
<1>5. StreamsAlone'
  BY <1>1, <1>2, <1>3 DEF Alone, StreamsAlone
<1>6. BatchesAlone'
  BY <1>1, <1>2 DEF Alone, BatchesAlone
<1>7. QED BY <1>4, <1>5, <1>6 DEF Alone

\* A step of the stream that leaves the calls as they are.
LEMMA StreamKeepsAlone ==
    ASSUME CallsInv, Alone, Quiescent, stream # None,
           UNCHANGED <<pending_preprocessed_actions, pending_actions, async_executing_actions,
                       settling, effects, finished_action_results, submitting, stopped>>,
           \/ UNCHANGED <<pending_auto_resumes, has_resume_handle>>
           \/ stream' = None /\ ScheduleResume
    PROVE  Alone'
<1>1. /\ InMotion' = InMotion /\ InHand' = InHand /\ Waiting' = Waiting
      /\ NothingLeft /\ NothingLeft' /\ ~submitting /\ (Idle => Idle')
  BY DEF InMotion, InHand, Waiting, NothingLeft, Quiescent, Idle
<1>2. pending_auto_resumes = 0
  BY DEF Alone, OneRecovery
<1>3. CallsOf(pending_preprocessed_actions)' = CallsOf(pending_preprocessed_actions)
  OBVIOUS
<1>4. SubmitsAlone'
  BY <1>1 DEF SubmitsAlone
<1>5. OneRecovery'
  BY <1>1, <1>2 DEF OneRecovery, ScheduleResume
<1>6. StreamsAlone'
  BY <1>1, <1>3 DEF Alone, StreamsAlone
<1>7. BatchesAlone'
  BY <1>1 DEF Alone, BatchesAlone
<1>8. QED BY <1>4, <1>5, <1>6, <1>7 DEF Alone

LEMMA DropLeavesNone ==
    ASSUME ResumesTypeOK, OneRecovery, DropTrackedResume
    PROVE  pending_auto_resumes' = 0
BY DEF ResumesTypeOK, OneRecovery, DropTrackedResume

\* A batch: what it releases of older batches the user has stopped, and a batch
\* that is the only one leaves none behind.
LEMMA PreprocessedKeepsAlone ==
    ASSUME CallsInv, Alone, NEW i \in DOMAIN pending_preprocessed_actions, BatchPreprocessed(i)
    PROVE  Alone'
<1> DEFINE old == pending_preprocessed_actions
           n == DoneBefore(Batches(i))
           rest == StillToCome(Batches(i))
           released == ToSet(Released(Batches(i)))
<1>1. /\ n \in 0..Len(old) /\ Len(old) \in Nat /\ DOMAIN old = 1..Len(old)
      /\ \A a \in released : \E j \in 1..n : a \in ToSet(old[j].calls)
      /\ Len(rest) = Len(old) - n /\ DOMAIN rest = 1..(Len(old) - n)
      /\ \A j \in 1..(Len(old) - n) : rest[j].calls = old[n + j].calls
      /\ i = 1 => n # 0
  BY ReleasedParts, PartsOfTypeOK DEF CallsInv
<1>2. n = Len(old) => rest = <<>>
  BY ReleasedParts, PartsOfTypeOK DEF CallsInv
<1>3. /\ pending_preprocessed_actions' = rest /\ UNCHANGED controller_vars
      /\ released \subseteq CallsOf(old) /\ ~submitting
  BY PreprocessedChanges DEF BatchPreprocessed, Quiescent
<1>4. CallsOf(rest) \subseteq CallsOf(old)
  BY ReleasedOnce
<1>5. /\ Waiting' \subseteq Waiting \cup released /\ InMotion' \subseteq InMotion \cup released
      /\ InHand' \subseteq InHand \cup released
  BY PreprocessedChanges, ActsOnMotion DEF HandGrowsBy
<1>6. /\ UNCHANGED <<stream, submitting, pending_auto_resumes, has_resume_handle, stopped>>
      /\ CallsOf(pending_preprocessed_actions)' = CallsOf(rest) /\ old # <<>>
  BY <1>3 DEF controller_vars
<1> HIDE DEF n, rest, released, CallsOf
<1>7. SubmitsAlone' /\ OneRecovery'
  BY <1>3, <1>6 DEF Alone, SubmitsAlone, OneRecovery
<1>8. StreamsAlone'
  BY <1>3, <1>4, <1>5, <1>6 DEF Alone, StreamsAlone
<1>9. \A j \in DOMAIN rest : j < Len(rest) => ToSet(rest[j].calls) \subseteq stopped
  <2>1. ASSUME NEW j \in DOMAIN rest, j < Len(rest)
        PROVE  n + j \in DOMAIN old /\ n + j < Len(old) /\ rest[j].calls = old[n + j].calls
    BY <1>1, <2>1
  <2>2. QED BY <2>1 DEF Alone, BatchesAlone
<1>10. ASSUME rest # <<>>
      PROVE  InHand' \subseteq stopped
  <2>1. n < Len(old)
    <3>1. n # Len(old)
      BY <1>10, <1>2
    <3>2. n \in 0..Len(old) /\ Len(old) \in Nat
      BY <1>1
    <3>3. QED BY <3>1, <3>2
  <2>2. \A j \in 1..n : ToSet(old[j].calls) \subseteq stopped
    BY <1>1, <2>1 DEF Alone, BatchesAlone
  <2>3. released \subseteq stopped
    BY <1>1, <2>2
  <2>4. ~(Len(old) = 1)
    BY <1>1, <2>1
  <2>5. InHand \subseteq stopped
    BY <1>3, <1>6, <2>4 DEF Alone, BatchesAlone
  <2>6. QED BY <1>5, <2>3, <2>5
<1>11. BatchesAlone'
  BY <1>3, <1>6, <1>9, <1>10 DEF BatchesAlone
<1>12. QED BY <1>7, <1>8, <1>11 DEF Alone

\* A response with calls ends.
LEMMA CallsKeepAlone ==
    ASSUME CallsInv, StreamShape, Alone, StreamComplete, stream.calls # <<>>
    PROVE  Alone'
<1> DEFINE old == pending_preprocessed_actions
           new == [calls |-> stream.calls, done |-> FALSE]
<1>1. /\ Quiescent /\ stream # None /\ stream' = None /\ ~stream.should_resume
      /\ pending_preprocessed_actions' = Append(old, new)
      /\ UNCHANGED <<pending_auto_resumes, has_resume_handle>>
      /\ UNCHANGED <<pending_actions, async_executing_actions, settling, effects,
                     finished_action_results, submitting, stopped>>
  BY DEF StreamComplete, QueueActions, UnchangedByStream, StreamShape
<1>2. /\ InHand' = InHand /\ NothingLeft' /\ ~submitting' /\ (Idle => Idle')
  BY <1>1 DEF InMotion, InHand, Waiting, NothingLeft, Quiescent, Idle
<1>3. pending_auto_resumes = 0
  BY <1>1 DEF Alone, OneRecovery
<1>4. \/ CallsOf(old) \cup InHand \subseteq stopped
      \/ old = <<>> /\ Idle
  BY <1>1 DEF Alone, StreamsAlone
<1>5. /\ Len(Append(old, new)) = Len(old) + 1 /\ Len(old) \in Nat
      /\ DOMAIN Append(old, new) = 1..(Len(old) + 1) /\ DOMAIN old = 1..Len(old)
      /\ \A i \in 1..Len(old) : Append(old, new)[i] = old[i]
  <2>1. old \in Seq([calls : Seq(Actions), done : BOOLEAN])
    BY PartsOfTypeOK DEF CallsInv, CallTypes
  <2>2. new \in [calls : Seq(Actions), done : BOOLEAN]
    BY <1>1, PartsOfTypeOK DEF CallsInv, RecoveryTypes, StreamTypeOK, Streams
  <2>3. QED BY <2>1, <2>2
<1>6. SubmitsAlone' /\ OneRecovery' /\ StreamsAlone'
  BY <1>1, <1>2, <1>3 DEF SubmitsAlone, OneRecovery, StreamsAlone
<1>7. InHand' \subseteq stopped' \/ (Len(Append(old, new)) = 1 /\ Idle' /\ NothingLeft')
  <2>1. CASE CallsOf(old) \cup InHand \subseteq stopped
    BY <1>1, <1>2, <2>1
  <2>2. CASE old = <<>> /\ Idle
    BY <1>2, <1>5, <2>2
  <2>3. QED BY <1>4, <2>1, <2>2
<1>8. ASSUME NEW i \in 1..Len(old) PROVE ToSet(old[i].calls) \subseteq stopped
  <2>1. CASE CallsOf(old) \cup InHand \subseteq stopped
    BY <1>5, <2>1 DEF CallsOf
  <2>2. CASE old = <<>>
    BY <2>2
  <2>3. QED BY <1>4, <2>1, <2>2
<1> HIDE DEF new
<1>9. \A i \in DOMAIN Append(old, new) :
        i < Len(Append(old, new)) => ToSet(Append(old, new)[i].calls) \subseteq stopped
  <2>1. ASSUME NEW i \in DOMAIN Append(old, new), i < Len(Append(old, new))
        PROVE  i \in 1..Len(old)
    BY <1>5, <2>1
  <2>2. QED BY <1>5, <1>8, <2>1
<1>10. BatchesAlone'
  BY <1>1, <1>7, <1>9 DEF BatchesAlone
<1>11. QED BY <1>6, <1>10 DEF Alone

\* A follow-up reports a call that the user has not stopped, so no batch waits.
LEMMA FollowUpKeepsAlone ==
    ASSUME CallsInv, Underway, Alone, SendFollowUp, ~Excused'
    PROVE  Alone'
<1>1. /\ settling = <<>> /\ effects # <<>> /\ ~submitting /\ stream = None
      /\ pending_actions = <<>> /\ running_actions = {}
      /\ ~AllCancelled(finished_action_results)
      /\ DropTrackedResume /\ Send(finished_action_results, TRUE)
      /\ UNCHANGED <<pending_preprocessed_actions, submitting, stopped,
                     pending_actions, async_executing_actions>>
  BY DEF SendFollowUp, Handles, HasUnfinishedActions
<1>2. PICK q \in ToSet(finished_action_results) : q.out # "cancelled"
  BY <1>1 DEF AllCancelled, ToSet
<1>3. q.id \in InHand
  BY <1>2, UncancelledOf DEF InHand
<1>4. q.id \notin stopped
  BY <1>1, <1>2 DEF Excused, StoppedCallRan, Send
<1>5. pending_preprocessed_actions = <<>>
  BY <1>1, <1>3, <1>4 DEF Alone, BatchesAlone, NothingLeft
<1>6. Idle'
  <2>1. async_executing_actions = {}
    BY <1>1 DEF Underway
  <2>2. QED BY <1>1, <2>1, Empty DEF Idle, Waiting
<1>7. pending_auto_resumes' = 0
  BY <1>1, DropLeavesNone, PartsOfTypeOK DEF CallsInv, RecoveryTypes, Alone
<1>8. stream' # None /\ stream'.stage = "open"
  BY <1>1, SendOpens
<1>9. SubmitsAlone' /\ OneRecovery' /\ StreamsAlone'
  BY <1>1, <1>5, <1>6, <1>7, <1>8 DEF SubmitsAlone, OneRecovery, StreamsAlone
<1>10. BatchesAlone'
  BY <1>1, <1>5 DEF BatchesAlone
<1>11. QED BY <1>9, <1>10 DEF Alone

\* A query goes out.
LEMMA QueryKeepsAlone ==
    ASSUME CallsInv, Alone, SubmitQuery
    PROVE  Alone'
<1>1. /\ submitting /\ ~submitting' /\ ToSet(finished_action_results') = {}
      /\ Send(finished_action_results, TRUE)
      /\ UNCHANGED <<pending_preprocessed_actions, pending_actions, async_executing_actions,
                     settling, effects, pending_auto_resumes, has_resume_handle, stopped>>
  BY Empty DEF SubmitQuery, DrainResults
<1>2. InMotion = {} /\ CallsOf(pending_preprocessed_actions) \subseteq stopped
  BY <1>1 DEF Alone, SubmitsAlone
<1>3. InHand' = {}
  BY <1>1, <1>2, UncancelledParts DEF InHand, InMotion, Waiting
<1>4. CallsOf(pending_preprocessed_actions)' = CallsOf(pending_preprocessed_actions)
  BY <1>1
<1> HIDE DEF CallsOf
<1>5. pending_auto_resumes = 0
  BY <1>1 DEF Alone, OneRecovery
<1>6. SubmitsAlone' /\ OneRecovery' /\ StreamsAlone'
  BY <1>1, <1>2, <1>3, <1>4, <1>5 DEF SubmitsAlone, OneRecovery, StreamsAlone
<1>7. BatchesAlone'
  BY <1>1, <1>3 DEF Alone, BatchesAlone
<1>8. QED BY <1>6, <1>7 DEF Alone

LEMMA ResumeKeepsAlone ==
    ASSUME CallsInv, Alone, ResumeFires
    PROVE  Alone'
<1>1. /\ Quiescent /\ pending_auto_resumes > 0
      /\ pending_auto_resumes' = pending_auto_resumes - 1
      /\ UNCHANGED <<pending_preprocessed_actions, pending_actions, async_executing_actions,
                     settling, effects, finished_action_results, submitting, stopped>>
  BY DEF ResumeFires
<1>2. pending_auto_resumes = 1 /\ stream = None
  BY <1>1 DEF Alone, OneRecovery
<1>3. stream' # None /\ stream'.stage = "open"
  BY <1>2, SendOpens DEF ResumeFires
<1>4. /\ InMotion' = InMotion /\ InHand' = InHand
      /\ NothingLeft /\ NothingLeft' /\ ~submitting /\ (Idle => Idle')
  BY <1>1 DEF InMotion, InHand, Waiting, NothingLeft, Quiescent, Idle
<1>5. CallsOf(pending_preprocessed_actions)' = CallsOf(pending_preprocessed_actions)
  BY <1>1
<1> HIDE DEF CallsOf
<1>6. pending_auto_resumes' = 0
  BY <1>1, <1>2
<1>7. SubmitsAlone' /\ OneRecovery'
  <2>1. ~submitting'
    BY <1>1, <1>4
  <2>2. QED BY <1>6, <2>1 DEF SubmitsAlone, OneRecovery
<1>8. StreamsAlone'
  BY <1>1, <1>3, <1>4, <1>5 DEF Alone, StreamsAlone
<1>9. BatchesAlone'
  BY <1>1, <1>4 DEF Alone, BatchesAlone
<1>10. QED BY <1>7, <1>8, <1>9 DEF Alone

\* A query, or a stop, cancels what is in motion; the calls it does not cancel
\* are from then on ones the user has stopped.
LEMMA UserKeepsAlone ==
    ASSUME CallsInv, CallsInv', Alone, User
    PROVE  Alone'
<1>1. /\ Quiescent /\ UNCHANGED pending_preprocessed_actions /\ DropTrackedResume
      /\ stream' = None /\ stopped \subseteq stopped'
      /\ stream = None => used \ Answered \subseteq stopped'
      /\ submitting' <=> SendQuery
  <2>1. CASE SendQuery
    BY <2>1 DEF SendQuery
  <2>2. CASE StopStream
    BY <2>2 DEF StopStream, SendQuery, Quiescent
  <2>3. CASE StopActions
    BY <2>3 DEF StopActions, SendQuery, Quiescent
  <2>4. QED BY <2>1, <2>2, <2>3 DEF User
<1>2. pending_auto_resumes' = 0
  BY <1>1, DropLeavesNone, PartsOfTypeOK DEF CallsInv, RecoveryTypes, Alone
<1>3. InHand' \subseteq InHand /\ (~StopStream => InMotion' = {} /\ Idle')
  BY UserMotion DEF HandGrowsBy, Idle
<1>4. CallsOf(pending_preprocessed_actions)' = CallsOf(pending_preprocessed_actions)
  BY <1>1
<1>5. ASSUME SendQuery PROVE CallsOf(pending_preprocessed_actions) \subseteq stopped'
  <2>1. CASE stream = None
    <3>1. Answered = Taken \cup Ids(finished_action_results)
      BY DEF Answered, Taken, Ids, ToSet
    <3>2. CallsOf(pending_preprocessed_actions) \subseteq used \ Answered
      BY <3>1 DEF CallsInv, InOnePlace, Apart8
    <3>3. QED BY <1>1, <2>1, <3>2
  <2>2. CASE stream # None
    <3>1. pending_preprocessed_actions = <<>> => CallsOf(pending_preprocessed_actions) = {}
      BY DEF CallsOf
    <3>2. QED BY <1>1, <2>2, <3>1 DEF Alone, StreamsAlone
  <2>3. QED BY <2>1, <2>2
<1> HIDE DEF CallsOf
<1>6. SubmitsAlone'
  <2>1. SendQuery => ~StopStream
    <3>1. StopStream => ~submitting'
      BY DEF StopStream, Quiescent
    <3>2. QED BY <1>1, <3>1
  <2>2. QED BY <1>1, <1>3, <1>4, <1>5, <2>1 DEF SubmitsAlone
<1>7. OneRecovery' /\ StreamsAlone'
  BY <1>1, <1>2 DEF OneRecovery, StreamsAlone
<1>8. ASSUME pending_preprocessed_actions # <<>>, ~SendQuery
      PROVE  \/ InHand' \subseteq stopped'
             \/ Len(pending_preprocessed_actions) = 1 /\ Idle' /\ NothingLeft'
  <2>1. CASE StopStream
    BY <1>1, <1>3, <1>8, <2>1 DEF Alone, StreamsAlone, StopStream
  <2>2. CASE StopActions /\ InHand \subseteq stopped
    BY <1>1, <1>3, <2>2
  <2>3. CASE StopActions /\ Len(pending_preprocessed_actions) = 1 /\ Idle
    <3>1. pending_actions = <<>> /\ async_executing_actions = {} /\ ~StopStream
      <4>1. pending_actions \in Seq(Actions)
        BY PartsOfTypeOK DEF CallsInv, CallTypes, StartTypes
      <4>2. ToSet(pending_actions) = {} /\ async_executing_actions = {}
        BY <2>3 DEF Idle, Waiting
      <4>3. QED BY <2>3, <4>1, <4>2, HeadAndTail DEF StopActions, StopStream
    <3>2. /\ settling' = <<>> /\ async_executing_actions = Reported(effects')
          /\ \A e \in ToSet(effects') : e.event = "executor"
      BY <2>3, <3>1, UserChanges
    <3>3. ToSet(effects') = {}
      BY <3>1, <3>2, ReportedCalls DEF ReportsIn
    <3>4. effects' = <<>>
      <4>1. effects' \in Seq(Effects)
        BY PartsOfTypeOK DEF CallsInv, CallTypes
      <4>2. QED BY <3>3, <4>1, HeadAndTail
    <3>5. QED BY <1>3, <2>3, <3>1, <3>2, <3>4 DEF NothingLeft
  <2>4. QED BY <1>1, <1>8, <2>1, <2>2, <2>3 DEF User, Alone, BatchesAlone, Quiescent
<1>9. BatchesAlone'
  BY <1>1, <1>8 DEF Alone, BatchesAlone
<1>10. QED BY <1>6, <1>7, <1>9 DEF Alone

LEMMA AloneStep ==
    ASSUME CallsInv, CallsInv', Underway, StreamShape, Alone, [Next]_vars, ~Excused'
    PROVE  Alone'
<1>1. HandGrowsBy({}) \/ \E i \in DOMAIN pending_preprocessed_actions : BatchPreprocessed(i)
  BY HandStep
<1>2. ASSUME HandGrowsBy({}), effects # <<>> \/ settling # <<>>,
             UNCHANGED pending_preprocessed_actions, UNCHANGED controller_vars
      PROVE  Alone'
  BY <1>2, QuietKeepsAlone DEF NothingLeft, controller_vars
<1>3. CASE Record /\ UNCHANGED controller_vars
  BY <1>2, <1>3, RecordMotion DEF Record, RecordAndWait, RecordLast, RecordAndContinue
<1>4. CASE HandleExecutorFinished /\ UNCHANGED controller_vars
  BY <1>2, <1>4, ExecutorFinishedMotion DEF HandleExecutorFinished
<1>5. CASE IgnoreActionFinished \/ HandleStreamCancelled
  <2>1. HandGrowsBy({})
    <3>1. \A i \in DOMAIN pending_preprocessed_actions : ~BatchPreprocessed(i)
      BY <1>5 DEF IgnoreActionFinished, HandleStreamCancelled, Handles, BatchPreprocessed, Quiescent
    <3>2. QED BY <1>1, <3>1
  <2>2. UNCHANGED <<pending_preprocessed_actions, stream, submitting, pending_auto_resumes,
                    has_resume_handle, stopped>>
    <3>1. CASE IgnoreActionFinished
      BY <3>1 DEF IgnoreActionFinished, controller_vars
    <3>2. CASE HandleStreamCancelled
      <4>1. stale_resume' = (stale_resume \/ Head(effects).resume)
        BY <3>2 DEF HandleStreamCancelled
      <4>2. ~Head(effects).resume
        BY <4>1 DEF Excused
      <4>3. QED BY <3>2, <4>2 DEF HandleStreamCancelled
    <3>3. QED BY <1>5, <3>1, <3>2
  <2>3. ~NothingLeft
    BY <1>5 DEF IgnoreActionFinished, HandleStreamCancelled, Handles, NothingLeft
  <2>4. QED BY <2>1, <2>2, <2>3, QuietKeepsAlone
<1>6. ASSUME NEW a \in Actions, ActionCallback(a) PROVE Alone'
  <2>1. HandGrowsBy({}) /\ UNCHANGED <<pending_preprocessed_actions, controller_vars>>
    <3>1. ActsOn(Waiting) /\ UNCHANGED pending_preprocessed_actions
      BY <1>6, ActionCallbackChanges
    <3>2. Waiting \cup {} = Waiting
      OBVIOUS
    <3>3. QED BY <1>6, <3>1, <3>2, ActsOnMotion DEF ActionCallback
  <2>2. Idle /\ NothingLeft => NothingLeft'
    <3>1. ASSUME Idle PROVE UNCHANGED <<settling, effects>>
      <4>1. pending_actions = <<>> /\ async_executing_actions = {}
        <5>1. pending_actions \in Seq(Actions)
          BY PartsOfTypeOK DEF CallsInv, CallTypes, StartTypes
        <5>2. ToSet(pending_actions) = {} /\ async_executing_actions = {}
          BY <3>1 DEF Idle, Waiting
        <5>3. QED BY <5>1, <5>2, HeadAndTail
      <4>2. \E out \in {"ok", "snapshot"} : ExecutionDone(a, out)
        BY <1>6, <4>1, Empty DEF ActionCallback, ExecuteAction, CancelRunning, CancelPending
      <4>3. QED BY <4>1, <4>2 DEF ExecutionDone, Awaited
    <3>2. QED BY <3>1 DEF NothingLeft
  <2>3. QED BY <2>1, <2>2, QuietKeepsAlone DEF controller_vars
<1>7. CASE StreamEvent \/ RetryWhenOnline \/ (StreamComplete /\ stream.calls = <<>>)
  <2>1. /\ Quiescent /\ stream # None
        /\ UNCHANGED <<pending_preprocessed_actions, pending_actions, async_executing_actions,
                       settling, effects, finished_action_results, submitting, stopped>>
    BY <1>7 DEF StreamEvent, ReceiveClientActions, FinishDone, FinishError, Retry, ReceiveError,
                Truncated, Streaming, RetryWhenOnline, StreamComplete, UnchangedByStream
  <2>2. \/ UNCHANGED <<pending_auto_resumes, has_resume_handle>>
        \/ stream' = None /\ ScheduleResume
    BY <1>7 DEF StreamEvent, ReceiveClientActions, FinishDone, FinishError, Retry, ReceiveError,
                Truncated, Streaming, RetryWhenOnline, StreamComplete
  <2>3. QED BY <2>1, <2>2, StreamKeepsAlone
<1>8. CASE UNCHANGED vars
  <2>1. HandGrowsBy({})
    BY <1>8 DEF HandGrowsBy, InMotion, InHand, Waiting, vars, action_vars
  <2>2. UNCHANGED <<settling, effects, pending_preprocessed_actions, stream, submitting,
                    pending_auto_resumes, has_resume_handle, stopped>>
    BY <1>8 DEF vars, action_vars, controller_vars
  <2>3. QED BY <2>1, <2>2, QuietKeepsAlone DEF NothingLeft
<1>9. QED
  BY <1>3, <1>4, <1>5, <1>6, <1>7, <1>8, QueryKeepsAlone, FollowUpKeepsAlone,
     PreprocessedKeepsAlone, CallsKeepAlone, ResumeKeepsAlone, UserKeepsAlone
  DEF Next, HandleEvent

-----------------------------------------------------------------------------
(* What moves a conversation on *)

\* Events whose handler shows another status or records a result.
Stirring(e) == e.event = "executor" \/ (e.event = "stream" /\ e.reason # "followup")

\* A request goes out or is answered, calls are preprocessed, run or settle,
\* or the handler of a finished action will send a follow-up or show an end.
Moves ==
    \/ submitting
    \/ stream # None /\ (stream.stage = "open" \/ stream.calls # <<>>)
    \/ pending_preprocessed_actions # <<>>
    \/ async_executing_actions # {}
    \/ ToSet(settling) # {}
    \/ \E e \in ToSet(effects) : Stirring(e)
    \/ /\ stream = None /\ pending_actions = <<>> /\ running_actions = {}
       /\ \E e \in ToSet(effects) : e.event = "action"

Moving == status = "InProgress" => Moves

\* The running phase keeps the conversation moving.
LEMMA RunningMoves ==
    ASSUME Underway, running_actions # {}
    PROVE  async_executing_actions # {} \/ \E e \in ToSet(effects) : e.event = "executor"
BY DEF Underway, Reported, ToSet

LEMMA RecordKeepsMoving ==
    ASSUME CallsInv, Underway, Alone, Record, UNCHANGED controller_vars, ~Excused'
    PROVE  Moving'
<1> DEFINE r == Head(settling)
<1>1. /\ ToSet(settling) = {r} \cup ToSet(settling')
      /\ \E now \in SUBSET ToSet(pending_actions), later \in SUBSET ToSet(pending_actions) :
           /\ ToSet(effects') = ToSet(effects) \cup {ActionFinished(r.reason)}
                \cup {ExecutorFinished(a, "ok", "none") : a \in now}
           /\ async_executing_actions' = async_executing_actions \cup later
           /\ \/ now # {} \/ later # {} \/ status' # "InProgress"
              \/ running_actions # {}
              \/ /\ running_actions' = {} /\ pending_actions' = <<>>
                 /\ \/ PreservesInProgress(r.reason)
                    \/ \E q \in ToSet(finished_action_results') : q.out # "cancelled"
  BY RecordChanges
<1> HIDE DEF r
<1>2. PICK now \in SUBSET ToSet(pending_actions), later \in SUBSET ToSet(pending_actions) :
           /\ ToSet(effects') = ToSet(effects) \cup {ActionFinished(r.reason)}
                \cup {ExecutorFinished(a, "ok", "none") : a \in now}
           /\ async_executing_actions' = async_executing_actions \cup later
           /\ \/ now # {} \/ later # {} \/ status' # "InProgress"
              \/ running_actions # {}
              \/ /\ running_actions' = {} /\ pending_actions' = <<>>
                 /\ \/ PreservesInProgress(r.reason)
                    \/ \E q \in ToSet(finished_action_results') : q.out # "cancelled"
  BY <1>1
<1>3. UNCHANGED <<stream, submitting, stopped>>
  BY DEF controller_vars
<1>4. CASE now # {}
  <2>1. PICK a \in now : TRUE
    BY <1>4
  <2>2. ExecutorFinished(a, "ok", "none") \in ToSet(effects')
    BY <1>2, <2>1
  <2>3. Stirring(ExecutorFinished(a, "ok", "none"))
    BY DEF Stirring, ExecutorFinished
  <2>4. QED BY <2>2, <2>3 DEF Moving, Moves
<1>5. CASE later # {} \/ status' # "InProgress"
  BY <1>2, <1>5 DEF Moving, Moves
<1>6. CASE running_actions # {}
  <2>1. async_executing_actions # {} \/ \E e \in ToSet(effects) : Stirring(e)
    BY <1>6, RunningMoves DEF Stirring
  <2>2. QED BY <1>2, <2>1 DEF Moving, Moves
<1>7. ASSUME running_actions' = {}, pending_actions' = <<>>,
             \/ PreservesInProgress(r.reason)
             \/ \E q \in ToSet(finished_action_results') : q.out # "cancelled"
      PROVE  Moves'
  <2>1. CASE stream = None
    <3>1. ActionFinished(r.reason) \in ToSet(effects') /\ ActionFinished(r.reason).event = "action"
      BY <1>2 DEF ActionFinished
    <3>2. QED BY <1>3, <1>7, <2>1, <3>1 DEF Moves
  <2>2. CASE PreservesInProgress(r.reason)
    <3>1. r \in ToSet(settling) /\ r.reason = "followup"
      BY <1>1, <2>2 DEF PreservesInProgress
    <3>2. QED BY <1>3, <3>1 DEF Underway, Moves
  <2>3. CASE stream # None /\ \E q \in ToSet(finished_action_results') : q.out # "cancelled"
    <3>1. PICK q \in ToSet(finished_action_results') : q.out # "cancelled"
      BY <2>3
    <3>2. q.id \in InHand
      <4>1. q.id \in InHand'
        BY <3>1, UncancelledOf DEF InHand
      <4>2. QED BY <4>1, RecordMotion DEF HandGrowsBy
    <3>3. q.id \notin stopped
      BY <1>3, <3>1 DEF Excused, StoppedCallRan
    <3>4. ~NothingLeft
      BY DEF NothingLeft, Record, RecordAndWait, RecordLast, RecordAndContinue
    <3>5. stream.stage = "open"
      BY <2>3, <3>2, <3>3, <3>4 DEF Alone, StreamsAlone
    <3>6. QED BY <1>3, <2>3, <3>5 DEF Moves
  <2>4. QED BY <1>7, <2>1, <2>2, <2>3
<1>8. QED BY <1>2, <1>4, <1>5, <1>6, <1>7 DEF Moving

LEMMA HandlersKeepMoving ==
    ASSUME CallsInv, Underway, Moving, IgnoreActionFinished \/ HandleStreamCancelled
    PROVE  Moving'
<1> SUFFICES ASSUME status' = "InProgress" PROVE Moves'
  BY DEF Moving
<1>1. /\ settling = <<>> /\ ~submitting
      /\ UNCHANGED <<pending_preprocessed_actions, pending_actions, running_actions,
                     async_executing_actions, settling, submitting>>
      /\ Head(effects).event # "executor"
      /\ ToSet(effects) = {Head(effects)} \cup ToSet(effects')
  BY HandledChanges
<1>2. UNCHANGED stream
  BY DEF IgnoreActionFinished, HandleStreamCancelled, controller_vars
<1>3. \A e \in ToSet(effects) : e.event = "executor" => e \in ToSet(effects')
  BY <1>1
<1>4. CASE HandleStreamCancelled
  <2>1. PreservesInProgress(Head(effects).reason) /\ Head(effects).event = "stream"
    BY <1>4 DEF HandleStreamCancelled, Handles
  <2>2. Head(effects) \in ToSet(effects) /\ ReasonOf(Head(effects)) = "followup"
    BY <1>1, <2>1 DEF ReasonOf, PreservesInProgress
  <2>3. QED BY <1>1, <1>2, <2>2 DEF Underway, Moves
<1>5. CASE IgnoreActionFinished /\ running_actions # {}
  BY <1>1, <1>3, <1>5, RunningMoves DEF Moves, Stirring
<1>6. CASE IgnoreActionFinished /\ status = "InProgress"
           /\ (pending_actions # <<>> \/ running_actions # {} \/ stream # None)
  <2>1. Head(effects).event = "action"
    BY <1>6 DEF IgnoreActionFinished, Handles
  <2>2. \A e \in ToSet(effects) : Stirring(e) => e \in ToSet(effects')
    BY <1>1, <2>1 DEF Stirring
  <2>3. Moves
    BY <1>6 DEF Moving
  <2>4. QED BY <1>1, <1>2, <1>6, <2>2, <2>3, Empty DEF Moves
<1>7. CASE IgnoreActionFinished /\ pending_actions = <<>> /\ running_actions = {} /\ stream = None
  <2>1. /\ Head(effects) \in ToSet(effects) /\ Head(effects).event = "action"
        /\ ~HasUnfinishedActions
    BY <1>1, <1>7 DEF IgnoreActionFinished, Handles, HasUnfinishedActions
  <2>2. finished_action_results # <<>>
    BY <1>7, <2>1, Empty DEF Underway
  <2>3. ReasonOf(Head(effects)) # "followup"
    BY <1>1, <1>7, <2>1 DEF Underway
  <2>4. status' = "Cancelled"
    BY <1>7, <2>1, <2>2, <2>3 DEF IgnoreActionFinished, PreservesInProgress, ReasonOf
  <2>5. QED BY <2>4
<1>8. CASE IgnoreActionFinished /\ (pending_actions # <<>> \/ stream # None)
  <2>1. status' = status
    BY <1>8 DEF IgnoreActionFinished, HasUnfinishedActions
  <2>2. QED BY <1>6, <1>8, <2>1
<1>9. QED BY <1>4, <1>5, <1>7, <1>8

LEMMA CallbackKeepsMoving ==
    ASSUME CallsInv, Underway, BatchesHaveCalls, Moving,
           \/ \E a \in Actions : ActionCallback(a)
           \/ \E i \in DOMAIN pending_preprocessed_actions : BatchPreprocessed(i)
    PROVE  Moving'
<1>1. ASSUME NEW Q, ActsOn(Q), ~NothingNew PROVE Moves'
  BY <1>1 DEF ActsOn, NothingNew, Moves, Stirring
<1>2. ASSUME NEW a \in Actions, ActionCallback(a) PROVE Moving'
  <2>1. /\ ActsOn(Waiting) /\ UNCHANGED pending_preprocessed_actions
        /\ status' = "InProgress" /\ NothingNew =>
             status = "InProgress" /\ UNCHANGED async_executing_actions
    BY <1>2, ActionCallbackChanges
  <2>2. CASE ~NothingNew
    BY <1>1, <2>1, <2>2 DEF Moving
  <2>3. CASE NothingNew
    <3>1. /\ UNCHANGED <<stream, submitting>> /\ settling = <<>> /\ effects = <<>>
      BY <1>2 DEF ActionCallback, Quiescent, controller_vars
    <3>2. ToSet(settling) = {} /\ ToSet(effects) = {}
      BY <3>1, Empty
    <3>3. QED BY <2>1, <2>3, <3>1, <3>2 DEF Moving, Moves
  <2>4. QED BY <2>2, <2>3
<1>3. ASSUME NEW i \in DOMAIN pending_preprocessed_actions, BatchPreprocessed(i) PROVE Moving'
  <2> DEFINE released == ToSet(Released(Batches(i)))
             old == pending_preprocessed_actions
             n == DoneBefore(Batches(i))
             rest == StillToCome(Batches(i))
  <2>1. /\ ActsOn(Waiting \cup released) /\ pending_preprocessed_actions' = rest
        /\ status' = "InProgress" /\ NothingNew =>
             status = "InProgress" /\ (released = {} \/ running_actions # {})
    BY <1>3, PreprocessedChanges
  <2>2. CASE ~NothingNew
    BY <1>1, <2>1, <2>2 DEF Moving
  <2>3. ASSUME NothingNew PROVE running_actions = {}
    <3>1. Reported(effects) = {} /\ Reported(effects') = {}
      BY <2>1, <2>3, Empty, ReportedCalls, UncancelledParts DEF ActsOn, NothingNew
    <3>2. async_executing_actions = {}
      BY <2>1, <2>3, <3>1 DEF ActsOn, NothingNew
    <3>3. QED BY <3>1, <3>2 DEF Underway
  <2>4. released = {} => rest # <<>>
    <3>1. /\ n \in 0..Len(old) /\ Len(old) \in Nat /\ DOMAIN old = 1..Len(old)
          /\ \A j \in 1..n : ToSet(old[j].calls) \subseteq released
          /\ Len(rest) = Len(old) - n /\ DOMAIN rest = 1..(Len(old) - n)
      BY ReleasedParts, PartsOfTypeOK DEF CallsInv
    <3> HIDE DEF n, rest, released
    <3>2. released = {} => n = 0
      BY <3>1 DEF BatchesHaveCalls
    <3>3. Len(old) # 0
      BY <1>3, <3>1
    <3>4. released = {} => 1 \in DOMAIN rest
      BY <3>1, <3>2, <3>3
    <3>5. QED BY <3>4
  <2>5. CASE NothingNew
    BY <2>1, <2>3, <2>4, <2>5 DEF Moving, Moves
  <2>6. QED BY <2>2, <2>5
<1>4. QED BY <1>2, <1>3

LEMMA RetriedIsOpen ==
    ASSUME stream \in Streams, stream.stage = "open", stream.retry_count < MAX_RETRIES,
           stream' = Retried
    PROVE  stream' # None /\ stream'.stage = "open"
<1>1. stream.retry_count + 1 \in 0..MAX_RETRIES
  BY Bounds DEF Streams
<1>2. stream' \in Streams /\ stream'.stage = "open"
  BY <1>1 DEF Retried, Streams
<1>3. QED BY <1>2, NoneIsNoStream

LEMMA StreamsKeepMoving ==
    ASSUME RecoveryInv, Moving, StreamEvent \/ RetryWhenOnline \/ StreamComplete \/ ResumeFires
    PROVE  Moving'
<1>1. stream # None => stream \in Streams
  BY DEF RecoveryInv, RecoveryTypes, StreamTypeOK
<1>2. CASE StreamEvent
  <2>1. stream # None /\ stream \in Streams /\ stream.stage = "open"
    BY <1>1, <1>2 DEF StreamEvent, ReceiveClientActions, FinishDone, FinishError, Retry,
                      ReceiveError, Truncated, Streaming
  <2>2. \/ status' # "InProgress"
        \/ stream' # None /\ (stream'.stage = "open" \/ stream'.calls # <<>>)
    <3>1. CASE ReceiveClientActions
      BY <2>1, <3>1, NoneIsNoStream DEF ReceiveClientActions, Streams
    <3>2. ASSUME NEW calls \in Calls, FinishDone(calls)
          PROVE  \/ status' # "InProgress"
                 \/ stream' # None /\ stream'.calls # <<>>
      <4>1. stream' \in Streams /\ stream'.calls = calls
        BY <2>1, <3>2, CallsType DEF FinishDone, Streams
      <4>2. QED BY <3>2, <4>1, NoneIsNoStream DEF FinishDone
    <3>3. CASE FinishError
      BY <3>3 DEF FinishError
    <3>4. ASSUME NEW recoverable \in BOOLEAN, NEW online \in BOOLEAN, Retry(recoverable, online)
          PROVE  \/ status' # "InProgress"
                 \/ stream' # None /\ stream'.stage = "open"
      <4>1. CASE stream' = Retried
        <5>1. stream.retry_count < MAX_RETRIES
          BY <2>1, <3>4, TurnAssumption DEF Retry, recovery_action, Streams, TurnAssumption
        <5>2. QED BY <2>1, <4>1, <5>1, RetriedIsOpen
      <4>2. QED BY <3>4, <4>1 DEF Retry
    <3>5. ASSUME NEW recoverable \in BOOLEAN, NEW online \in BOOLEAN,
                 ReceiveError(recoverable, online) \/ Truncated(online)
          PROVE  status' # "InProgress"
      BY <3>5 DEF ReceiveError, Truncated, FailedStatus
    <3>6. QED BY <1>2, <3>1, <3>2, <3>3, <3>4, <3>5 DEF StreamEvent
  <2>3. QED BY <2>2 DEF Moving, Moves
<1>3. CASE RetryWhenOnline
  <2>1. /\ stream \in Streams /\ stream.stage = "open" /\ stream' = Retried
        /\ stream.retry_count < MAX_RETRIES
    BY <1>1, <1>3 DEF RetryWhenOnline, RecoveryInv, Recovering, RecoveryTypes, StreamTypeOK
  <2>2. QED BY <2>1, RetriedIsOpen DEF Moving, Moves
<1>4. CASE StreamComplete
  <2>1. /\ Quiescent /\ stream # None /\ stream.stage # "open" /\ UNCHANGED status
        /\ UNCHANGED async_executing_actions
    BY <1>4 DEF StreamComplete, UnchangedByStream
  <2>2. CASE stream.calls # <<>>
    <3>1. pending_preprocessed_actions' # <<>>
      BY <1>4, <2>2 DEF StreamComplete, QueueActions
    <3>2. QED BY <3>1 DEF Moving, Moves
  <2>3. CASE stream.calls = <<>>
    <3>1. UNCHANGED pending_preprocessed_actions
      BY <1>4, <2>3 DEF StreamComplete
    <3>2. QED BY <2>1, <2>3, <3>1, Empty DEF Moving, Moves, Quiescent
  <2>4. QED BY <2>2, <2>3
<1>5. CASE ResumeFires
  <2>1. CASE stream = None
    <3>1. stream' # None /\ stream'.stage = "open"
      BY <1>5, <2>1, SendOpens DEF ResumeFires
    <3>2. QED BY <3>1 DEF Moving, Moves
  <2>2. CASE stream # None
    <3>1. UNCHANGED <<status, stream, submitting, pending_preprocessed_actions, pending_actions,
                      running_actions, async_executing_actions, settling, effects>>
      BY <1>5, <2>2 DEF ResumeFires
    <3>2. QED BY <3>1 DEF Moving, Moves
  <2>3. QED BY <2>1, <2>2
<1>6. QED BY <1>2, <1>3, <1>4, <1>5

LEMMA UserKeepsMoving ==
    ASSUME CallsInv, Moving, User
    PROVE  Moving'
<1>1. CASE SendQuery
  BY <1>1 DEF SendQuery, Moving, Moves
<1>2. CASE StopStream
  <2>1. StreamCancelled("manual", stream.should_resume) \in ToSet(effects')
    BY <1>2, UserChanges
  <2>2. Stirring(StreamCancelled("manual", stream.should_resume))
    BY DEF Stirring, StreamCancelled
  <2>3. QED BY <2>1, <2>2 DEF Moving, Moves
<1>3. CASE StopActions
  <2>1. /\ Quiescent /\ stream = None /\ UNCHANGED pending_preprocessed_actions
        /\ status' = StoppedStatus
    BY <1>3 DEF StopActions
  <2>2. CASE async_executing_actions = {}
    BY <2>1, <2>2, Empty DEF Moving, Moves, Quiescent, StoppedStatus
  <2>3. CASE async_executing_actions # {}
    <3>1. async_executing_actions = Reported(effects')
      BY <1>3, <2>1, UserChanges DEF StopStream
    <3>2. \E e \in ToSet(effects') : e.event = "executor"
      BY <2>3, <3>1 DEF Reported, ToSet
    <3>3. QED BY <3>2 DEF Moving, Moves, Stirring
  <2>4. QED BY <2>2, <2>3
<1>4. QED BY <1>1, <1>2, <1>3 DEF User

LEMMA MovingStep ==
    ASSUME CallsInv, RecoveryInv, Underway, BatchesHaveCalls, Alone, Moving, [Next]_vars,
           ~Excused'
    PROVE  Moving'
<1>1. CASE Record /\ UNCHANGED controller_vars
  BY <1>1, RecordKeepsMoving
<1>2. CASE HandleExecutorFinished /\ UNCHANGED controller_vars
  <2>1. ToSet(settling') # {}
    BY <1>2, ExecutorFinishedChanges
  <2>2. QED BY <2>1 DEF Moving, Moves
<1>3. CASE SubmitQuery \/ SendFollowUp
  <2>1. stream' # None /\ stream'.stage = "open"
    BY <1>3, SendOpens DEF SubmitQuery, SendFollowUp
  <2>2. QED BY <2>1 DEF Moving, Moves
<1>4. CASE UNCHANGED vars
  BY <1>4 DEF vars, action_vars, controller_vars, Moving, Moves
<1>5. QED BY <1>1, <1>2, <1>3, <1>4, HandlersKeepMoving, CallbackKeepsMoving, StreamsKeepMoving,
             UserKeepsMoving DEF Next, HandleEvent

\* What the calls, the recoveries and the turns of a conversation look like.
TurnInv ==
    /\ CallsInv /\ RecoveryInv
    /\ Underway /\ StreamShape /\ BatchesHaveCalls
    /\ ~Excused => Alone /\ Moving

LEMMA TurnInvInit == Init => TurnInv
<1> SUFFICES ASSUME Init PROVE TurnInv
  OBVIOUS
<1>1. CallsInv /\ RecoveryInv
  BY CallsInvInit, RecoveryTypesInit DEF RecoveryInv, Recovering, Init, ActionInit
<1>2. Underway
  BY Empty DEF Init, ActionInit, Underway
<1>3. StreamShape /\ BatchesHaveCalls
  BY DEF Init, ActionInit, StreamShape, BatchesHaveCalls
<1>4. SubmitsAlone /\ OneRecovery /\ StreamsAlone
  BY DEF Init, SubmitsAlone, OneRecovery, StreamsAlone
<1>5. BatchesAlone /\ Moving
  BY DEF Init, ActionInit, BatchesAlone, Moving
<1>6. QED BY <1>1, <1>2, <1>3, <1>4, <1>5 DEF TurnInv, Alone

LEMMA TurnInvStep == TurnInv /\ [Next]_vars => TurnInv'
<1> SUFFICES ASSUME TurnInv, [Next]_vars PROVE TurnInv'
  OBVIOUS
<1>1. /\ CallsInv /\ RecoveryInv /\ Underway /\ StreamShape /\ BatchesHaveCalls
      /\ ~Excused => Alone /\ Moving
  BY DEF TurnInv
<1>2. CallsInv'
  BY <1>1, CallsInvStep
<1>3. RecoveryInv'
  BY <1>1, RecoveryTypesStep, RecoveringStep DEF RecoveryInv
<1>4. Underway' /\ StreamShape' /\ BatchesHaveCalls'
  BY <1>1, UnderwayStep, StreamShapeStep, BatchesHaveCallsStep
<1>5. ~Excused' => Alone' /\ Moving'
  <2>1. ~Excused' => ~Excused
    BY <1>1, ExcusedStays
  <2>2. QED BY <1>1, <1>2, <2>1, AloneStep, MovingStep
<1>6. QED BY <1>2, <1>3, <1>4, <1>5 DEF TurnInv

\* A conversation shown as in progress is never stuck.  Unless a call that the
\* user had stopped has run, or a cancelled stream has been resumed, one turn
\* goes on at a time: a request goes out with no older call, batch or resume
\* beside it, so each event that ends a stream, a batch or a phase finds either
\* more to come or the conversation's status to change.
THEOREM TurnsMoveOn == Spec => []InProgressMovesOn
<1>1. Init => TurnInv
  BY TurnInvInit
<1>2. TurnInv /\ [Next]_vars => TurnInv'
  BY TurnInvStep
<1>3. TurnInv => InProgressMovesOn
  BY Empty DEF TurnInv, Excused, Moving, Moves, Quiescent, InProgressMovesOn
<1>4. QED BY <1>1, <1>2, <1>3, PTL DEF Spec
=============================================================================
