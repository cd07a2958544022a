------------------------------ MODULE AgentTurn ------------------------------
(***************************************************************************)
(* A conversation's turns: BlocklistAIController (app/src/ai/blocklist/    *)
(* controller.rs) and its ResponseStream, over the ActionModel.  A request *)
(* (a query, a follow-up with tool results, or a resume) streams a         *)
(* response; a response with calls is acted on and answered with a         *)
(* follow-up; a failed one is retried, parked until online, or resumed     *)
(* once; the user may stop the turn or send another query at any time.     *)
(***************************************************************************)
EXTENDS ActionModel

CONSTANTS
    MAX_RETRIES,
    MaxCalls,     \* bound: calls of one response
    MaxQueries,   \* bound: queries the user sends
    MaxStops      \* bound: times the user stops the turn

Streams ==
    [stage : {"open", "done", "failed"}, has_received_client_actions : BOOLEAN,
     retry_count : 0..MAX_RETRIES, deferred_retry_pending : BOOLEAN,
     can_attempt_resume_on_error : BOOLEAN, should_resume : BOOLEAN, calls : Seq(Actions)]

ASSUME TurnAssumption ==
    /\ {MAX_RETRIES, MaxCalls, MaxQueries, MaxStops} \subseteq Nat
    /\ None \notin Streams

VARIABLES
    stream,               \* the stream in flight, or None
    pending_auto_resumes, \* scheduled resumes still alive
    has_resume_handle,    \* pending_auto_resume_handles has an entry
    submitting,           \* send_query has yet to send
    used,                 \* calls some response has made
    delivered,            \* results a request has taken
    stopped,              \* calls without a result when the user stopped the turn
    stale_resume,         \* a cancelled stream has scheduled a resume
    queries, stops        \* counters of the bounds

controller_vars == <<stream, pending_auto_resumes, has_resume_handle, submitting, used,
                     delivered, stopped, stale_resume, queries, stops>>
vars == <<action_vars, controller_vars>>

Quiescent == settling = <<>> /\ ~submitting /\ effects = <<>>

NewStream(can_resume) ==
    [stage |-> "open", has_received_client_actions |-> FALSE, retry_count |-> 0,
     deferred_retry_pending |-> FALSE, can_attempt_resume_on_error |-> can_resume,
     should_resume |-> FALSE, calls |-> <<>>]

-----------------------------------------------------------------------------
(* Requests *)

\* send_request_input, with no stream in flight: it drops a tracked resume.
Send(results, can_resume) ==
    /\ delivered' = delivered \cup ToSet(results)
    /\ stream' = NewStream(can_resume)
    /\ status' = "InProgress"

DropTrackedResume ==
    /\ pending_auto_resumes' = IF has_resume_handle THEN pending_auto_resumes - 1
                               ELSE pending_auto_resumes
    /\ has_resume_handle' = FALSE

\* drain_finished_action_results
DrainResults == finished_action_results' = <<>> /\ action_order' = <<>>

\* The in-flight stream is cancelled: its end is emitted with the reason.
CancelledStream(why) ==
    IF stream = None THEN <<>> ELSE <<StreamCancelled(why, stream.should_resume)>>

Answered == {r.id : r \in delivered \cup ToSet(finished_action_results)}

\* send_query, up to the recording of what it cancels ...
SendQuery ==
    /\ Quiescent /\ queries < MaxQueries
    /\ queries' = queries + 1
    /\ DropTrackedResume
    /\ stream' = None
    /\ CancelAll("followup", CancelledStream("followup"))
    /\ submitting' = TRUE
    /\ stopped' = IF stream = None THEN stopped \cup (used \ Answered) ELSE stopped
    /\ UNCHANGED <<pending_preprocessed_actions, running_actions, futures, needs_confirmation,
                   finished_action_results, action_order, status,
                   used, delivered, stale_resume, stops>>

\* ... and from there: the results drained go with the query.
SubmitQuery ==
    /\ submitting /\ settling = <<>>
    /\ submitting' = FALSE
    /\ Send(finished_action_results, TRUE)
    /\ DrainResults
    /\ UNCHANGED <<pending_preprocessed_actions, pending_actions, running_actions,
                   async_executing_actions, futures, needs_confirmation, settling, effects,
                   pending_auto_resumes, has_resume_handle, used, stopped, stale_resume,
                   queries, stops>>

\* Mutant: a conversation that was reconnecting is still shown so.
StoppedStatus_Unchanged == status

StoppedStatus == IF status = "TransientError" THEN "Cancelled" ELSE status

\* cancel_conversation_progress: a stream in flight, else the calls.
StopStream ==
    /\ Quiescent /\ stops < MaxStops /\ stream # None
    /\ stops' = stops + 1
    /\ DropTrackedResume
    /\ stream' = None
    /\ effects' = CancelledStream("manual")
    /\ UNCHANGED <<pending_preprocessed_actions, pending_actions, running_actions,
                   async_executing_actions, futures, needs_confirmation, finished_action_results,
                   action_order, settling, status, submitting, used, delivered, stopped,
                   stale_resume, queries>>

StopActions ==
    /\ Quiescent /\ stops < MaxStops /\ stream = None
    /\ stops' = stops + 1
    /\ DropTrackedResume
    /\ CancelAll("manual", <<>>)
    /\ status' = StoppedStatus
    /\ stopped' = stopped \cup (used \ Answered)
    /\ UNCHANGED <<pending_preprocessed_actions, running_actions, futures, needs_confirmation,
                   finished_action_results, action_order, stream, submitting, used,
                   delivered, stale_resume, queries>>

-----------------------------------------------------------------------------
(* The controller's handlers of emitted events *)

Handles(event) == settling = <<>> /\ ~submitting /\ effects # <<>> /\ Head(effects).event = event

HasUnfinishedActions == pending_actions # <<>> \/ running_actions # {}

\* FinishedAction, with nothing left to do and a result to report: one
\* follow-up takes every result.
SendFollowUp ==
    /\ Handles("action")
    /\ ~HasUnfinishedActions /\ ~AllCancelled(finished_action_results) /\ stream = None
    /\ effects' = Tail(effects)
    /\ Send(finished_action_results, TRUE)
    /\ DrainResults
    /\ DropTrackedResume
    /\ UNCHANGED <<pending_preprocessed_actions, pending_actions, running_actions,
                   async_executing_actions, futures, needs_confirmation, settling, submitting, used,
                   stopped, stale_resume, queries, stops>>

\* FinishedAction that sends nothing.
IgnoreActionFinished ==
    /\ Handles("action")
    /\ HasUnfinishedActions \/ AllCancelled(finished_action_results) \/ stream # None
    /\ effects' = Tail(effects)
    /\ status' = IF /\ ~HasUnfinishedActions /\ stream = None
                    /\ finished_action_results # <<>>
                    /\ ~PreservesInProgress(Head(effects).reason)
                 THEN "Cancelled" ELSE status
    /\ UNCHANGED <<pending_preprocessed_actions, pending_actions, running_actions,
                   async_executing_actions, futures, needs_confirmation, finished_action_results,
                   action_order, settling, controller_vars>>

\* schedule_auto_resume_after_error: an earlier handle is overwritten, not aborted.
ScheduleResume ==
    /\ pending_auto_resumes' = pending_auto_resumes + 1
    /\ has_resume_handle' = TRUE

\* AfterStreamFinished of a cancelled stream.
HandleStreamCancelled ==
    /\ Handles("stream")
    /\ effects' = Tail(effects)
    /\ status' = IF PreservesInProgress(Head(effects).reason) THEN status ELSE "Cancelled"
    /\ stale_resume' = (stale_resume \/ Head(effects).resume)
    /\ IF Head(effects).resume THEN ScheduleResume
       ELSE UNCHANGED <<pending_auto_resumes, has_resume_handle>>
    /\ UNCHANGED <<pending_preprocessed_actions, pending_actions, running_actions,
                   async_executing_actions, futures, needs_confirmation, finished_action_results,
                   action_order, settling, stream, submitting, used, delivered, stopped,
                   queries, stops>>

-----------------------------------------------------------------------------
(* The response stream *)

Streaming ==
    /\ Quiescent /\ stream # None
    /\ stream.stage = "open" /\ ~stream.deferred_retry_pending

UnchangedByStream ==
    UNCHANGED <<pending_actions, running_actions, async_executing_actions, futures,
                needs_confirmation, finished_action_results, settling, effects, submitting, delivered,
                stopped, stale_resume, queries, stops>>

ReceiveClientActions ==
    /\ Streaming /\ ~stream.has_received_client_actions
    /\ stream' = [stream EXCEPT !.has_received_client_actions = TRUE]
    /\ UnchangedByStream
    /\ UNCHANGED <<pending_preprocessed_actions, action_order, status, used,
                   pending_auto_resumes, has_resume_handle>>

\* StreamFinished with reason Done: a response without calls ends the turn.
FinishDone(calls) ==
    /\ Streaming
    /\ calls # <<>> => stream.has_received_client_actions
    /\ stream' = [stream EXCEPT !.stage = "done", !.calls = calls]
    /\ used' = used \cup ToSet(calls)
    /\ status' = IF calls = <<>> THEN "Success" ELSE status
    /\ UnchangedByStream
    /\ UNCHANGED <<pending_preprocessed_actions, action_order,
                   pending_auto_resumes, has_resume_handle>>

\* StreamFinished with any other reason.
FinishError ==
    /\ Streaming
    /\ stream' = [stream EXCEPT !.stage = "failed"]
    /\ status' = "Error"
    /\ UnchangedByStream
    /\ UNCHANGED <<pending_preprocessed_actions, action_order, used,
                   pending_auto_resumes, has_resume_handle>>

\* Mutant: one retry more than MAX_RETRIES.
recovery_action_OneMore(recoverable, online) ==
    IF ~recoverable THEN "fail"
    ELSE IF ~stream.has_received_client_actions
         THEN IF stream.retry_count > MAX_RETRIES THEN "fail"
              ELSE IF online THEN "retry" ELSE "park"
         ELSE IF stream.can_attempt_resume_on_error THEN "resume" ELSE "fail"

recovery_action(recoverable, online) ==
    IF ~recoverable THEN "fail"
    ELSE IF ~stream.has_received_client_actions
         THEN IF stream.retry_count >= MAX_RETRIES THEN "fail"
              ELSE IF online THEN "retry" ELSE "park"
         ELSE IF stream.can_attempt_resume_on_error THEN "resume" ELSE "fail"

Retried == [stream EXCEPT !.retry_count = @ + 1, !.has_received_client_actions = FALSE,
                          !.deferred_retry_pending = FALSE]

\* The attempt is repeated now, or parked until the client is online.
Retry(recoverable, online) ==
    /\ Streaming
    /\ \/ recovery_action(recoverable, online) = "retry" /\ stream' = Retried /\ UNCHANGED status
       \/ /\ recovery_action(recoverable, online) = "park"
          /\ stream' = [stream EXCEPT !.deferred_retry_pending = TRUE]
          /\ status' = "TransientError"
    /\ UnchangedByStream
    /\ UNCHANGED <<pending_preprocessed_actions, action_order, used,
                   pending_auto_resumes, has_resume_handle>>

RetryWhenOnline ==
    /\ Quiescent /\ stream # None /\ stream.deferred_retry_pending
    /\ stream' = Retried
    /\ status' = "InProgress"
    /\ UnchangedByStream
    /\ UNCHANGED <<pending_preprocessed_actions, action_order, used,
                   pending_auto_resumes, has_resume_handle>>

\* The attempt has failed: the error is shown, or hidden for a resume.
FailedStatus(action) == IF action = "resume" THEN "TransientError" ELSE "Error"

\* An error event, with the end of the stream still to come.
ReceiveError(recoverable, online) ==
    /\ Streaming
    /\ recovery_action(recoverable, online) \in {"resume", "fail"}
    /\ stream' = [stream EXCEPT !.stage = "failed",
                    !.should_resume = recovery_action(recoverable, online) = "resume"]
    /\ status' = FailedStatus(recovery_action(recoverable, online))
    /\ UnchangedByStream
    /\ UNCHANGED <<pending_preprocessed_actions, action_order, used,
                   pending_auto_resumes, has_resume_handle>>

\* The stream ends without a StreamFinished: the error is synthesized and
\* handled with the end of the stream, in one callback.
Truncated(online) ==
    /\ Streaming
    /\ recovery_action(TRUE, online) \in {"resume", "fail"}
    /\ stream' = None
    /\ status' = FailedStatus(recovery_action(TRUE, online))
    /\ IF recovery_action(TRUE, online) = "resume" THEN ScheduleResume
       ELSE UNCHANGED <<pending_auto_resumes, has_resume_handle>>
    /\ UnchangedByStream
    /\ UNCHANGED <<pending_preprocessed_actions, action_order, used>>

\* The stream ends after a StreamFinished or an error event.
StreamComplete ==
    /\ Quiescent /\ stream # None /\ stream.stage # "open"
    /\ IF stream.calls # <<>> THEN QueueActions(stream.calls)
       ELSE UNCHANGED <<pending_preprocessed_actions, action_order>>
    /\ IF stream.should_resume THEN ScheduleResume
       ELSE UNCHANGED <<pending_auto_resumes, has_resume_handle>>
    /\ stream' = None
    /\ UnchangedByStream
    /\ UNCHANGED <<status, used>>

\* The client is online and a scheduled resume fires: with a stream in flight
\* send_request_input refuses it.
ResumeFires ==
    /\ Quiescent /\ pending_auto_resumes > 0
    /\ pending_auto_resumes' = pending_auto_resumes - 1
    /\ has_resume_handle' = FALSE
    /\ IF stream = None THEN Send(<<>>, FALSE)
       ELSE UNCHANGED <<stream, status, delivered>>
    /\ UNCHANGED <<pending_preprocessed_actions, pending_actions, running_actions,
                   async_executing_actions, futures, needs_confirmation, finished_action_results,
                   action_order, settling, effects, submitting, used, stopped,
                   stale_resume, queries, stops>>

-----------------------------------------------------------------------------
Record ==
    \/ RecordAndWait
    \/ RecordLast
    \/ RecordAndContinue

\* What the main thread does next, without waiting for anyone.
HandleEvent ==
    \/ Record /\ UNCHANGED controller_vars
    \/ ~submitting /\ HandleExecutorFinished /\ UNCHANGED controller_vars
    \/ SubmitQuery
    \/ SendFollowUp
    \/ IgnoreActionFinished
    \/ HandleStreamCancelled

ActionCallback(a) ==
    /\ Quiescent
    /\ \/ \E out \in {"ok", "snapshot"} : ExecutionDone(a, out)
       \/ ExecuteAction(a)
       \/ CancelRunning(a)
       \/ CancelPending(a)
    /\ UNCHANGED controller_vars

BatchPreprocessed(i) == Quiescent /\ Preprocessed(i) /\ UNCHANGED controller_vars

\* The calls of a response: the unused ones, in any order.
Calls ==
    {<<>>} \cup UNION {{q \in [1..n -> Actions \ used] : IsInjective(q)} : n \in 1..MaxCalls}

StreamEvent ==
    \/ ReceiveClientActions
    \/ \E calls \in Calls : FinishDone(calls)
    \/ FinishError
    \/ \E recoverable, online \in BOOLEAN :
         Retry(recoverable, online) \/ ReceiveError(recoverable, online)
    \/ \E online \in BOOLEAN : Truncated(online)

User == SendQuery \/ StopStream \/ StopActions

Next ==
    \/ HandleEvent
    \/ \E a \in Actions : ActionCallback(a)
    \/ \E i \in DOMAIN pending_preprocessed_actions : BatchPreprocessed(i)
    \/ StreamEvent
    \/ RetryWhenOnline
    \/ StreamComplete
    \/ ResumeFires
    \/ User

Init ==
    /\ ActionInit
    /\ stream = None
    /\ pending_auto_resumes = 0 /\ has_resume_handle = FALSE
    /\ submitting = FALSE
    /\ used = {} /\ delivered = {} /\ stopped = {}
    /\ stale_resume = FALSE
    /\ queries = 0 /\ stops = 0

Spec == Init /\ [][Next]_vars

-----------------------------------------------------------------------------
(* Properties *)

Results == [id : Actions, out : Outcomes]
Finishings == [id : Actions, out : Outcomes, reason : Reasons]

Effects ==
    [event : {"executor"}, result : Finishings]
        \cup [event : {"action"}, reason : Reasons]
        \cup [event : {"stream"}, reason : Reasons, resume : BOOLEAN]

StreamTypeOK ==
    /\ stream \in Streams \cup {None}
    /\ stream # None /\ stream.deferred_retry_pending => stream.retry_count < MAX_RETRIES

ResumesTypeOK ==
    /\ pending_auto_resumes \in Nat
    /\ has_resume_handle \in BOOLEAN
    /\ has_resume_handle => pending_auto_resumes > 0

\* Every variable has its type, and a parked retry still has one to spend.
TypeOK ==
    /\ pending_preprocessed_actions \in Seq([calls : Seq(Actions), done : BOOLEAN])
    /\ pending_actions \in Seq(Actions)
    /\ running_actions \subseteq Actions
    /\ async_executing_actions \subseteq Actions
    /\ futures \subseteq Actions
    /\ needs_confirmation \in Actions \cup {None}
    /\ finished_action_results \in Seq(Results)
    /\ action_order \in Seq(Actions)
    /\ settling \in Seq(Finishings)
    /\ effects \in Seq(Effects)
    /\ status \in Statuses
    /\ StreamTypeOK
    /\ ResumesTypeOK
    /\ submitting \in BOOLEAN
    /\ used \subseteq Actions /\ stopped \subseteq Actions
    /\ delivered \subseteq Results
    /\ stale_resume \in BOOLEAN
    /\ queries \in 0..MaxQueries /\ stops \in 0..MaxStops

\* No call is answered twice: not by a late future after a cancellation, not
\* by two batches or a retry, and never after a request took its result.
OneResultPerCall ==
    /\ \A i, j \in DOMAIN finished_action_results :
        finished_action_results[i].id = finished_action_results[j].id => i = j
    /\ Ids(finished_action_results) \cap {r.id : r \in delivered} = {}
    /\ \A r, s \in delivered : r.id = s.id => r = s

\* A command or an unclassified call never runs beside another call, whichever
\* of the user, a result or a batch started it.
PhaseBarrier ==
    \A a, b \in running_actions : a # b => Kind[a] = "read" /\ Kind[b] = "read"

\* A call the user had stopped ran all the same: cancel_all_pending_actions
\* leaves a batch that is still being preprocessed alone.
StoppedCallRan ==
    \E r \in delivered \cup ToSet(finished_action_results) :
        r.id \in stopped /\ r.out # "cancelled"

\* A conversation shown as in progress has something that will move it on; if
\* not, it is stuck with no request, no call and no prompt for the user.
InProgressMovesOn ==
    Quiescent /\ status = "InProgress" =>
        \/ stream # None
        \/ pending_preprocessed_actions # <<>>
        \/ async_executing_actions # {}
        \/ StoppedCallRan \/ stale_resume

\* A conversation shown as reconnecting has a recovery on its way: a parked
\* retry, a stream that will schedule a resume, or a scheduled resume.
ReconnectingHasARecovery ==
    Quiescent /\ status = "TransientError" =>
        \/ stream # None /\ (stream.deferred_retry_pending \/ stream.should_resume)
        \/ pending_auto_resumes > 0

\* A follow-up lists the results of a response in the order of its calls,
\* however its calls ran.
FollowUpInCallOrder ==
    [][SendFollowUp =>
        \A i, j \in DOMAIN finished_action_results, m, n \in DOMAIN action_order :
            /\ finished_action_results[i].id = action_order[m]
            /\ finished_action_results[j].id = action_order[n]
            /\ m < n
            => i < j]_vars

\* A follow-up answers every call of the response it follows.
FollowUpAnswersEveryCall ==
    [][SendFollowUp => ToSet(action_order) \subseteq Ids(finished_action_results)]_vars
=============================================================================
