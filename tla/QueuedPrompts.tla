---------------------------- MODULE QueuedPrompts ----------------------------
(***************************************************************************)
(* The queue of prompts and shell commands of a conversation               *)
(* (QueuedQueryModel, app/src/ai/blocklist/queued_query.rs), as the input  *)
(* (terminal/input.rs) fills it and the terminal view (terminal/view.rs)   *)
(* drains it, over the turns of AgentTurn.  The end of a stream drains one *)
(* row by the reason the newest AI block finished with, the end of a       *)
(* queued command drains the next; neither knows what the other has        *)
(* started.                                                                *)
(***************************************************************************)
EXTENDS AgentTurn

CONSTANTS Prompts, ShellCommands  \* the rows the user will ever queue

Rows == Prompts \cup ShellCommands

FinishReasons == {"Complete", "Error", "Cancelled"}

ASSUME RowAssumption ==
    /\ IsFiniteSet(Rows)
    /\ Prompts \cap ShellCommands = {}
    /\ None \notin Rows \cup FinishReasons

VARIABLES
    queue,          \* QueuedQueryModel's rows, oldest first
    editing,        \* the row in edit mode, or None
    terminal,       \* whose command runs: none, a queued row's or the user's
    draft,          \* the input is not empty
    finish_reason,  \* of the newest AI block, while FinishedReceivingOutput is
                    \* on its way; None if there is no such event or no reason
    added,          \* rows queued so far
    held,           \* a drain, or a stop, has left the queue to the user
    jumped,         \* a turn and the queued command were started side by side
    strayed         \* a call the user had stopped was queued all the same

queue_vars == <<queue, editing, terminal, draft, finish_reason, added, held, jumped, strayed>>
all_vars == <<vars, queue_vars>>

\* ConversationQueueState::command_in_flight: armed when the row's command
\* has started, cleared when its block completes.
CommandInFlight == terminal = "queued"

\* The main thread has handled everything, the events to the views included.
Settled == Quiescent /\ finish_reason = None

InTurn == stream # None \/ status \in {"InProgress", "Blocked", "TransientError"}

-----------------------------------------------------------------------------
(* The rows *)

\* Mutant: the row in edit mode is not forgotten with the row.
RemoveRow_KeepEditing(row) ==
    \E i \in DOMAIN queue :
        /\ queue[i] = row
        /\ queue' = RemoveAt(queue, i)
        /\ UNCHANGED editing

\* remove_fired_row, remove_by_id, pop_front
RemoveRow(row) ==
    \E i \in DOMAIN queue :
        /\ queue[i] = row
        /\ queue' = RemoveAt(queue, i)
        /\ editing' = IF editing = row THEN None ELSE editing

\* The input is submitted while the conversation is busy: it is queued.
QueueInput(row) ==
    /\ Settled
    /\ row \notin added
    /\ status \in {"InProgress", "Blocked"} \/ CommandInFlight
    /\ queue' = Append(queue, row)
    /\ added' = added \cup {row}
    /\ draft' = FALSE
    /\ UNCHANGED <<vars, editing, terminal, finish_reason, held, jumped, strayed>>

EnterEditMode(row) ==
    /\ Settled
    /\ row \in ToSet(queue) /\ editing # row
    /\ editing' = row
    /\ UNCHANGED <<vars, queue, terminal, draft, finish_reason, added, held, jumped, strayed>>

LeaveEditMode ==
    /\ Settled
    /\ editing # None
    /\ editing' = None
    /\ UNCHANGED <<vars, queue, terminal, draft, finish_reason, added, held, jumped, strayed>>

DeleteRow(row) ==
    /\ Settled
    /\ row \in ToSet(queue)
    /\ RemoveRow(row)
    /\ UNCHANGED <<vars, terminal, draft, finish_reason, added, held, jumped, strayed>>

Reorder(from, to) ==
    /\ Settled
    /\ queue' = InsertAt(RemoveAt(queue, from), to, queue[from])
    /\ UNCHANGED <<vars, editing, terminal, draft, finish_reason, added, held, jumped, strayed>>

\* The user writes into the empty input, or empties it.
EditInput ==
    /\ Settled
    /\ terminal # "user"
    /\ draft' = ~draft
    /\ UNCHANGED <<vars, queue, editing, terminal, finish_reason, added, held, jumped, strayed>>

-----------------------------------------------------------------------------
(* Draining *)

\* execute_queued_command, where the terminal takes the command.
StartCommand(row) ==
    /\ RemoveRow(row)
    /\ terminal' = "queued"
    /\ held' = FALSE
    /\ jumped' = InTurn
    /\ UNCHANGED <<vars, draft>>

\* submit_queued_prompt: what the conversation is doing is cancelled.
SubmitRow(row, free) ==
    /\ SendQuery
    /\ RemoveRow(row)
    /\ terminal' = free
    /\ jumped' = (jumped /\ free = "queued")
    /\ UNCHANGED <<draft, held>>

\* The row leaves the queue for the empty input.
RestoreToInput(row) ==
    /\ ~draft
    /\ RemoveRow(row)
    /\ draft' = TRUE
    /\ held' = TRUE

LeaveQueue == UNCHANGED <<queue, editing, draft>> /\ held' = (queue # <<>>)

\* drain_queued_prompts with FinishReason::Complete, in the terminal state
\* `after'.
DrainComplete(after) ==
    \/ /\ queue # <<>> /\ Head(queue) # editing
       /\ \/ Head(queue) \in Prompts /\ SubmitRow(Head(queue), after)
          \/ Head(queue) \in ShellCommands /\ after = "idle" /\ StartCommand(Head(queue))
    \/ /\ \/ queue = <<>> /\ LeaveQueue
          \/ /\ queue # <<>>
             /\ \/ Head(queue) = editing
                \/ Head(queue) \in ShellCommands /\ after # "idle"
             /\ \/ RestoreToInput(Head(queue))
                \/ draft /\ LeaveQueue
       /\ terminal' = after
       /\ jumped' = (jumped /\ after = "queued")
       /\ UNCHANGED vars

\* drain_queued_prompts with any other reason: the head is for the user, if
\* the conversation is the one shown.
DrainStopped ==
    /\ \/ LeaveQueue
       \/ queue # <<>> /\ RestoreToInput(Head(queue))
    /\ UNCHANGED <<vars, terminal, jumped>>

\* The terminal view handles FinishedReceivingOutput.
FinishedReceivingOutput ==
    /\ Quiescent
    /\ finish_reason # None
    /\ IF finish_reason = "Complete" THEN DrainComplete(terminal) ELSE DrainStopped
    /\ finish_reason' = None
    /\ UNCHANGED <<added, strayed>>

\* on_queued_command_finished
QueuedCommandFinished ==
    /\ Settled
    /\ terminal = "queued"
    /\ DrainComplete("idle")
    /\ UNCHANGED <<finish_reason, added, strayed>>

\* The row's send-now button, or Enter in the empty input.
SendNow(row) ==
    /\ Settled
    /\ row \in ToSet(queue)
    /\ \/ row \in ShellCommands /\ terminal = "idle" /\ StartCommand(row)
       \/ /\ row \in Prompts
          /\ SendQuery
          /\ RemoveRow(row)
          /\ jumped' = (jumped \/ CommandInFlight)
          /\ UNCHANGED <<terminal, draft, held>>
    /\ UNCHANGED <<finish_reason, added, strayed>>

-----------------------------------------------------------------------------
(* The turn, and what the view learns of it *)

\* Mutant: a response with calls finishes its block.
BlockReason_CallsToo(s) ==
    IF s.stage = "failed" THEN "Error" ELSE "Complete"

\* Mutant: a failed response leaves its block unfinished.
BlockReason_NoError(s) ==
    IF s.stage = "done" /\ s.calls = <<>> THEN "Complete" ELSE None

\* The reason of the newest block once its stream has ended: a block with
\* calls is not finished.
BlockReason(s) ==
    IF s.stage = "failed" THEN "Error"
    ELSE IF s.stage = "done" /\ s.calls = <<>> THEN "Complete"
    ELSE None

\* The calls of the batches that are still being preprocessed.
BatchCalls == UNION {ToSet(batch.calls) : batch \in ToSet(pending_preprocessed_actions)}

\* A step of the turn, with the reason the views will find.
Turn(step, reason) ==
    /\ step
    /\ finish_reason' = reason
    /\ strayed' = (strayed \/ stopped \cap (BatchCalls \ BatchCalls') # {})
    /\ held' = (held /\ (stream # None \/ stream' = None))
    /\ UNCHANGED <<queue, editing, terminal, draft, added>>

HandleTurnEvent == Turn(HandleEvent, finish_reason) /\ UNCHANGED jumped

CallStep(a) == Settled /\ Turn(ActionCallback(a), None) /\ UNCHANGED jumped
BatchStep(i) == Settled /\ Turn(BatchPreprocessed(i), None) /\ UNCHANGED jumped
RetryStep == Settled /\ Turn(RetryWhenOnline, None) /\ UNCHANGED jumped

ResponseStep ==
    Settled /\ Turn(StreamEvent, IF stream' = None THEN "Error" ELSE None) /\ UNCHANGED jumped

EndOfResponse == Settled /\ Turn(StreamComplete, BlockReason(stream)) /\ UNCHANGED jumped

ResumeStep ==
    /\ Settled
    /\ Turn(ResumeFires, None)
    /\ jumped' = (jumped \/ (CommandInFlight /\ stream = None))

\* The reason of a block whose stream the user stops.
StoppedReason ==
    IF stream = None THEN None
    ELSE IF stream.stage = "open" THEN "Cancelled"
    ELSE BlockReason(stream)

\* cancel_conversation_progress, for the user.
StopTurn ==
    /\ StopStream \/ StopActions
    /\ finish_reason' = StoppedReason
    /\ held' = TRUE
    /\ UNCHANGED <<queue, editing, added, jumped, strayed>>

Stop == Settled /\ StopTurn /\ UNCHANGED <<terminal, draft>>

\* A prompt submitted and not queued: queueing is off, or nothing was going on.
\* The rows keep their share of the bound on queries.
SubmitInput ==
    /\ Settled
    /\ queries + Cardinality(Prompts \ (added \ ToSet(queue))) < MaxQueries
    /\ SendQuery
    /\ draft' = FALSE
    /\ jumped' = (jumped \/ CommandInFlight)
    /\ UNCHANGED <<queue, editing, terminal, finish_reason, added, held, strayed>>

\* A command submitted and not queued stops a turn in progress; its text
\* stays in the input until it has run.
RunOwnCommand ==
    /\ Settled
    /\ terminal = "idle"
    /\ terminal' = "user"
    /\ draft' = TRUE
    /\ IF status = "InProgress" THEN StopTurn
       ELSE UNCHANGED <<vars, queue, editing, finish_reason, added, held, jumped, strayed>>

OwnCommandFinished ==
    /\ Settled
    /\ terminal = "user"
    /\ terminal' = "idle"
    /\ draft' = FALSE
    /\ UNCHANGED <<vars, queue, editing, finish_reason, added, held, jumped, strayed>>

-----------------------------------------------------------------------------
UserStep ==
    \/ \E row \in Rows :
         QueueInput(row) \/ EnterEditMode(row) \/ DeleteRow(row) \/ SendNow(row)
    \/ \E from, to \in DOMAIN queue : from # to /\ Reorder(from, to)
    \/ LeaveEditMode
    \/ EditInput
    \/ Stop
    \/ SubmitInput
    \/ RunOwnCommand

QueueInit ==
    /\ Init
    /\ queue = <<>> /\ editing = None
    /\ terminal = "idle"
    /\ draft = FALSE
    /\ finish_reason = None
    /\ added = {}
    /\ held = FALSE /\ jumped = FALSE /\ strayed = FALSE

QueueNext ==
    \/ HandleTurnEvent
    \/ FinishedReceivingOutput
    \/ QueuedCommandFinished
    \/ OwnCommandFinished
    \/ \E a \in Actions : CallStep(a)
    \/ \E i \in DOMAIN pending_preprocessed_actions : BatchStep(i)
    \/ ResponseStep
    \/ RetryStep
    \/ EndOfResponse
    \/ ResumeStep
    \/ UserStep

QueueSpec == QueueInit /\ [][QueueNext]_all_vars

\* The main thread and the views handle what is queued; commands, calls and
\* batches end; a response goes on to its end; a scheduled resume fires.
QueueFairness ==
    /\ WF_all_vars(HandleTurnEvent \/ FinishedReceivingOutput)
    /\ WF_all_vars(QueuedCommandFinished)
    /\ \A a \in Actions : WF_all_vars(\E out \in {"ok", "snapshot"} :
            Settled /\ Turn(ExecutionDone(a, out) /\ UNCHANGED controller_vars, None)
                    /\ UNCHANGED jumped)
    /\ WF_all_vars(\E i \in DOMAIN pending_preprocessed_actions : BatchStep(i))
    /\ WF_all_vars(ResponseStep \/ RetryStep \/ EndOfResponse)
    /\ WF_all_vars(ResumeStep)

FairQueueSpec == QueueSpec /\ QueueFairness

-----------------------------------------------------------------------------
(* Properties *)

\* Every row is queued once, and the one in edit mode is there.
QueueTypeOK ==
    /\ queue \in Seq(Rows) /\ IsInjective(queue)
    /\ ToSet(queue) \subseteq added /\ added \subseteq Rows
    /\ editing \in ToSet(queue) \cup {None}
    /\ terminal \in {"idle", "queued", "user"}
    /\ finish_reason \in FinishReasons \cup {None}
    /\ draft \in BOOLEAN /\ held \in BOOLEAN /\ jumped \in BOOLEAN /\ strayed \in BOOLEAN

\* A call the user had stopped is back, or the resume of a cancelled stream
\* has: see StoppedCallRan and InProgressMovesOn.
Astray == strayed \/ stale_resume

\* No queued row is forgotten: it fires, or is put into the input, unless an
\* error, a stop, an edit or a command that could not start has left the queue
\* to the user, or the turn waits for the user or was called off.
QueueDrains ==
    queue # <<>> ~>
        queue = <<>> \/ held \/ Astray \/ status \in {"Blocked", "Cancelled"}

Fires == queries' # queries \/ (terminal' = "queued" /\ queue' # queue)

\* A row that fires by itself interrupts no turn and runs beside no command,
\* unless the user or a resume has started a turn and the command side by side.
FiresAlone ==
    [][(FinishedReceivingOutput \/ QueuedCommandFinished) /\ Fires =>
        \/ jumped \/ Astray
        \/ ~InTurn /\ (finish_reason = None \/ ~CommandInFlight)]_all_vars
=============================================================================
