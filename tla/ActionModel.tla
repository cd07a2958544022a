----------------------------- MODULE ActionModel -----------------------------
(***************************************************************************)
(* The tool calls of one Agent Mode conversation: BlocklistAIActionModel   *)
(* (app/src/ai/blocklist/action_model.rs), its executor and its            *)
(* preprocessing queue.  A response's calls are preprocessed in a batch,   *)
(* queued in order, started in phases (reads in parallel, anything else    *)
(* alone), and their results kept until a request takes them.              *)
(*                                                                         *)
(* All of it runs on one thread.  A callback runs to its end and then the  *)
(* events it emitted are handled first in, first out, before the next      *)
(* callback; so a callback is an action that needs Quiescent, and an       *)
(* emitted event waits in `effects'.  handle_action_result calls itself    *)
(* and the start loop: what it still has to record waits in `settling'.    *)
(***************************************************************************)
EXTENDS SequenceHelpers

CONSTANTS
    Actions,  \* the tool calls the conversation will ever see
    Kind,     \* [Actions -> Kinds]
    None

\* A read joins other reads in a parallel phase; a command and any other
\* call run alone; only a command can return a long-running snapshot.
Kinds == {"read", "command", "other"}

ASSUME ActionAssumption ==
    /\ IsFiniteSet(Actions)
    /\ Kind \in [Actions -> Kinds]
    /\ None \notin Actions

Reasons == {"none", "manual", "followup"}  \* Option<CancellationReason>
Outcomes == {"ok", "snapshot", "cancelled"}

\* ConversationStatus; a conversation with no turn yet counts as Success.
Statuses == {"Success", "InProgress", "Blocked", "TransientError", "Error", "Cancelled"}

VARIABLES
    pending_preprocessed_actions,  \* batches, oldest first
    pending_actions,               \* queue of calls to start
    running_actions,               \* the calls of the running phase
    async_executing_actions,       \* calls the executor waits for
    futures,                       \* spawned futures not yet resolved
    needs_confirmation,            \* the call refused until the user accepts it, or None
    finished_action_results,       \* results no request has taken
    action_order,                  \* the last response's calls, in order
    settling,                      \* results handle_action_result has yet to record
    effects,                       \* emitted events not yet handled
    status                         \* the conversation's status

action_vars == <<pending_preprocessed_actions, pending_actions, running_actions,
                 async_executing_actions, futures, needs_confirmation,
                 finished_action_results, action_order, settling, effects, status>>

Result(a, out) == [id |-> a, out |-> out]
Finishing(a, out, why) == [id |-> a, out |-> out, reason |-> why]

\* BlocklistAIActionExecutorEvent::FinishedAction, BlocklistAIActionEvent::
\* FinishedAction and ResponseStreamEvent::AfterStreamFinished.
ExecutorFinished(a, out, why) == [event |-> "executor", result |-> Finishing(a, out, why)]
ActionFinished(why) == [event |-> "action", reason |-> why]
StreamCancelled(why, resume) == [event |-> "stream", reason |-> why, resume |-> resume]

Ids(results) == {results[i].id : i \in DOMAIN results}

AllCancelled(results) == \A i \in DOMAIN results : results[i].out = "cancelled"

\* Mutant: any cancellation is taken for one that a follow-up will follow.
PreservesInProgress_AnyReason(why) == why # "none"

\* should_preserve_in_progress_status
PreservesInProgress(why) == why = "followup"

\* Mutant: the results stay in the order the calls finished in.
InCallOrder_AsFinished(results) == results

\* sort_by_key with unknown ids last; the sort is stable.
InCallOrder(results) ==
    LET of(ids) == Keep(results, {r \in ToSet(results) : r.id \in ids})
    IN  FlattenSeq([i \in DOMAIN action_order |-> of({action_order[i]})])
        \o of(Actions \ ToSet(action_order))

-----------------------------------------------------------------------------
(* Starting calls *)

\* Mutant: only the call to start is looked at, not those that run.
MayJoin_IfRead(a, running) == running = {} \/ Kind[a] = "read"

MayJoin(a, running) ==
    running = {} \/ \A b \in running \cup {a} : Kind[b] = "read"

FirstOf(queue, n) == {queue[i] : i \in 1..n}

\* What one run of try_to_execute_available_actions over `queue' may do: start
\* the first `count' calls, those in `async' as futures, and stop before one
\* that may not join the running phase or may not start without the user.
\* Permission is asked for as the loop comes to a call; once refused, a call
\* stays so until the user accepts it.
Starts(queue, accepted) ==
    {start \in [count : 0..Len(queue), async : SUBSET ToSet(queue)] :
        /\ start.async \subseteq FirstOf(queue, start.count)
        /\ needs_confirmation \in FirstOf(queue, start.count) => needs_confirmation \in accepted
        /\ \A i \in 1..start.count :
            MayJoin(queue[i], running_actions \cup (start.async \cap FirstOf(queue, i - 1)))}

\* A call that ran at once has its result emitted, not recorded.
ResultsOf(start, queue) ==
    LET at_once == Keep(SubSeq(queue, 1, start.count), Actions \ start.async)
    IN  [i \in DOMAIN at_once |-> ExecutorFinished(at_once[i], "ok", "none")]

\* With no phase running, the call the loop stopped at waits for the user.
Refused(start, queue) ==
    IF start.count < Len(queue) /\ running_actions \cup start.async = {}
    THEN queue[start.count + 1] ELSE None

StartActions(queue, start) ==
    /\ pending_actions' = SubSeq(queue, start.count + 1, Len(queue))
    /\ running_actions' = running_actions \cup start.async
    /\ async_executing_actions' = async_executing_actions \cup start.async
    /\ futures' = futures \cup start.async
    /\ needs_confirmation' = Refused(start, queue)
    /\ status' = IF Refused(start, queue) # None THEN "Blocked"
                 ELSE IF start.count > 0 THEN "InProgress" ELSE status

-----------------------------------------------------------------------------
(* handle_action_result *)

\* It takes the call out of the running phase; a snapshot first cancels every
\* pending command, and their results are recorded before its own.
HandleExecutorFinished ==
    /\ settling = <<>> /\ effects # <<>> /\ Head(effects).event = "executor"
    /\ LET result == Head(effects).result
           dropped == IF result.out = "snapshot"
                      THEN Keep(pending_actions, {a \in Actions : Kind[a] = "command"})
                      ELSE <<>>
       IN  /\ running_actions' = running_actions \ {result.id}
           /\ pending_actions' = Keep(pending_actions, Actions \ ToSet(dropped))
           /\ settling' = Append([i \in DOMAIN dropped |->
                                    Finishing(dropped[i], "cancelled", result.reason)], result)
    /\ effects' = Tail(effects)
    /\ UNCHANGED <<pending_preprocessed_actions, async_executing_actions, futures,
                   needs_confirmation, finished_action_results, action_order, status>>

Recorded == Append(finished_action_results, Result(Head(settling).id, Head(settling).out))

\* The rest of its phase is still running.
RecordAndWait ==
    /\ settling # <<>> /\ running_actions # {}
    /\ finished_action_results' = Recorded
    /\ effects' = Append(effects, ActionFinished(Head(settling).reason))
    /\ settling' = Tail(settling)
    /\ UNCHANGED <<pending_preprocessed_actions, pending_actions, running_actions,
                   async_executing_actions, futures, needs_confirmation, action_order, status>>

\* The phase has drained and nothing is queued.
RecordLast ==
    /\ settling # <<>> /\ running_actions = {} /\ pending_actions = <<>>
    /\ finished_action_results' = InCallOrder(Recorded)
    /\ status' = IF PreservesInProgress(Head(settling).reason) THEN status
                 ELSE IF AllCancelled(Recorded) THEN "Cancelled" ELSE "InProgress"
    /\ effects' = Append(effects, ActionFinished(Head(settling).reason))
    /\ settling' = Tail(settling)
    /\ UNCHANGED <<pending_preprocessed_actions, pending_actions, running_actions,
                   async_executing_actions, futures, needs_confirmation, action_order>>

\* The phase has drained: start the next calls.
RecordAndContinue ==
    /\ settling # <<>> /\ running_actions = {} /\ pending_actions # <<>>
    /\ finished_action_results' = InCallOrder(Recorded)
    /\ settling' = Tail(settling)
    /\ \E start \in Starts(pending_actions, {}) :
        /\ StartActions(pending_actions, start)
        /\ effects' = Append(effects, ActionFinished(Head(settling).reason))
                        \o ResultsOf(start, pending_actions)
    /\ UNCHANGED <<pending_preprocessed_actions, action_order>>

-----------------------------------------------------------------------------
(* Callbacks *)

\* queue_actions: what follows a response with calls.
QueueActions(calls) ==
    /\ action_order' = calls
    /\ pending_preprocessed_actions' =
        Append(pending_preprocessed_actions, [calls |-> calls, done |-> FALSE])

\* The batches before the first that is still being preprocessed.
DoneBefore(batches) ==
    CHOOSE n \in 0..Len(batches) :
        /\ \A i \in 1..n : batches[i].done
        /\ n < Len(batches) => ~batches[n + 1].done

\* handle_preprocess_actions_results: batch i is done.
Preprocessed(i) ==
    /\ i \in DOMAIN pending_preprocessed_actions
    /\ ~pending_preprocessed_actions[i].done
    /\ LET batches  == [pending_preprocessed_actions EXCEPT ![i].done = TRUE]
           n        == DoneBefore(batches)
           released == FlattenSeq([j \in 1..n |-> batches[j].calls])
           queued   == pending_actions
                        \o Keep(released, Actions \ Ids(finished_action_results))
       IN  /\ pending_preprocessed_actions' = SubSeq(batches, n + 1, Len(batches))
           /\ \E queue \in {queued} : \E start \in Starts(queue, {}) :
                /\ StartActions(queue, start)
                /\ effects' = ResultsOf(start, queue)
    /\ UNCHANGED <<finished_action_results, action_order, settling>>

\* Mutant: the result of a call cancelled meanwhile is reported too.
Awaited_Always(a) == a \in Actions

Awaited(a) == a \in async_executing_actions

\* The future of an async call resolves.  A call cancelled meanwhile is no
\* longer in async_executing_actions and its result is dropped.
ExecutionDone(a, out) ==
    /\ a \in futures
    /\ out = "snapshot" => Kind[a] = "command"
    /\ futures' = futures \ {a}
    /\ async_executing_actions' = async_executing_actions \ {a}
    /\ effects' = IF Awaited(a)
                  THEN Append(effects, ExecutorFinished(a, out, "none")) ELSE effects
    /\ UNCHANGED <<pending_preprocessed_actions, pending_actions, running_actions,
                   needs_confirmation, finished_action_results, action_order, settling, status>>

\* The user accepts the blocked call; a phase that runs keeps it waiting.
\* Only a call that ran at once is followed by the start loop.
ExecuteAction(a) ==
    /\ pending_actions # <<>> /\ a = Head(pending_actions)
    /\ running_actions = {}
    /\ \/ /\ StartActions(pending_actions, [count |-> 1, async |-> {a}])
          /\ UNCHANGED effects
       \/ \E start \in {s \in Starts(pending_actions, {a}) : s.count > 0 /\ a \notin s.async} :
            /\ StartActions(pending_actions, start)
            /\ effects' = ResultsOf(start, pending_actions)
    /\ UNCHANGED <<pending_preprocessed_actions, finished_action_results, action_order, settling>>

\* cancel_action_with_id, for a running call and for a pending one.
CancelRunning(a) ==
    /\ a \in running_actions \cap async_executing_actions
    /\ async_executing_actions' = async_executing_actions \ {a}
    /\ effects' = Append(effects, ExecutorFinished(a, "cancelled", "manual"))
    /\ UNCHANGED <<pending_preprocessed_actions, pending_actions, running_actions, futures,
                   needs_confirmation, finished_action_results, action_order, settling, status>>

CancelPending(a) ==
    /\ a \in ToSet(pending_actions) \ running_actions
    /\ pending_actions' = Keep(pending_actions, Actions \ {a})
    /\ settling' = <<Finishing(a, "cancelled", "manual")>>
    /\ UNCHANGED <<pending_preprocessed_actions, running_actions, async_executing_actions,
                   futures, needs_confirmation, finished_action_results, action_order,
                   effects, status>>

\* cancel_all_pending_actions: the executor emits a result for each call it
\* waits for, in any order, and each pending call's result is recorded.
CancelAll(why, emitted) ==
    /\ \E order \in SetToSeqs(async_executing_actions) :
        effects' = emitted \o [i \in DOMAIN order |-> ExecutorFinished(order[i], "cancelled", why)]
    /\ async_executing_actions' = {}
    /\ settling' = [i \in DOMAIN pending_actions |->
                        Finishing(pending_actions[i], "cancelled", why)]
    /\ pending_actions' = <<>>

ActionInit ==
    /\ pending_preprocessed_actions = <<>> /\ pending_actions = <<>>
    /\ running_actions = {} /\ async_executing_actions = {} /\ futures = {}
    /\ needs_confirmation = None
    /\ finished_action_results = <<>> /\ action_order = <<>>
    /\ settling = <<>> /\ effects = <<>>
    /\ status = "Success"
=============================================================================
