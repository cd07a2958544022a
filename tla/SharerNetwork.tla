--------------------------- MODULE SharerNetwork ---------------------------
(***************************************************************************)
(* The sharer's end of a shared terminal session: `struct Network' of      *)
(* app/src/terminal/shared_session/sharer/network.rs.                      *)
(*                                                                         *)
(* Every callback of the code runs to completion on the main thread, so    *)
(* each one is an action.  The websocket connections are numbered: the     *)
(* number of a startup connection is its startup attempt, the connections  *)
(* opened for a reconnect are numbered after them.  What the server does   *)
(* is left open here (Next lets every message arrive on every open         *)
(* socket); module SharerSession plugs a server in.                        *)
(***************************************************************************)
EXTENDS Integers, Sequences

CONSTANTS
    MaxAttempts,     \* startup_retry.max_attempts: 3 for an ambient agent, else 1
    MaxRetries,      \* retries of RECONNECT_RETRY_STRATEGY (18 in the code)
    MaxSessionSize,  \* max_session_size, counted in ordered terminal events
    MaxReconnects,   \* bound: connections opened by reconnecting
    MaxBlocks,       \* bound: blocks whose input is shared
    MaxOps,          \* bound: input updates of one block
    MaxPrompts       \* bound: changes of the prompt

ASSUME SharerAssumption ==
    /\ MaxAttempts \in Nat \ {0}
    /\ MaxRetries \in Nat
    /\ MaxSessionSize \in Nat
    /\ MaxReconnects \in Nat
    /\ MaxBlocks \in Nat
    /\ MaxOps \in Nat
    /\ MaxPrompts \in Nat

Attempt   == 1..MaxAttempts
Reconnect == (MaxAttempts + 1)..(MaxAttempts + MaxReconnects)
Conn      == 1..(MaxAttempts + MaxReconnects)
None      == 0

Stages == {"BeforeStarted", "StartedSuccessfully", "Reconnecting", "Finished"}

VARIABLES
    alive,            \* the view still holds the ModelHandle<Network>
    stage,
    current_attempt,  \* startup_retry.current_attempt
    startup_attempt,  \* StartedSuccessfully { startup_attempt }, None is 0
                      \* (read in that stage only)
    dialing,          \* startup attempts whose connect future has not called back
    timers,           \* startup attempts whose timeout has not called back
    retry,            \* the reconnect future: its phase, retries left, and
                      \* whether the stage's abort_handle still names it
    session_id,       \* Some(..) once a session is created: the attempt that made it
    event_no,
    num_bytes_shared,
    unacked,          \* the keys of unacked_terminal_events
    next_buffer_seq_no,
    pending_input_updates,
    prompt,           \* cached_latest_state.prompt
    ws_proxy_tx,      \* the connection ws_proxy_tx feeds
    tx_open,          \* that channel has not been closed
    proxy,            \* what each connection's channel holds, oldest first
    sock              \* the websocket stream of each connection

startupVars == <<current_attempt, dialing, timers>>
inputVars   == <<next_buffer_seq_no, pending_input_updates>>
eventVars   == <<event_no, num_bytes_shared>>
txVars      == <<ws_proxy_tx, tx_open>>
vars == <<alive, stage, startupVars, startup_attempt, retry, session_id,
          eventVars, unacked, inputVars, prompt, txVars, proxy, sock>>

-----------------------------------------------------------------------------
\* Upstream messages the properties tell apart.

Event(n)  == [type |-> "OrderedTerminalEvent", no |-> n]
Input(id) == [type |-> "UpdateInput", block |-> id.block, op |-> id.op]
Prompt(p) == [type |-> "UpdateActivePrompt", prompt |-> p]
Initialize == [type |-> "Initialize"]
Resume     == [type |-> "Reconnect"]
EndSession == [type |-> "EndSession"]

EventNo   == 0..(MaxSessionSize - 1)
InputId   == [block : 0..MaxBlocks, op : 0..MaxOps]
Upstream  == {Event(n) : n \in EventNo} \cup {Input(id) : id \in InputId}
             \cup {Prompt(p) : p \in 0..MaxPrompts}
             \cup {Initialize, Resume, EndSession}

Started == stage = "StartedSuccessfully"

\* ws_proxy_tx.try_send for a list of messages: an error is only logged.
Queued(msgs) ==
    IF tx_open THEN [proxy EXCEPT ![ws_proxy_tx] = @ \o msgs] ELSE proxy

\* send_message_to_server for a message that is not an ordered terminal
\* event: it is dropped unless the server is ready.
SendNow(msgs) == proxy' = IF Started THEN Queued(msgs) ELSE proxy

\* Mutant: flushing resumes after the event the server is missing.
Stored_SkipsFirst(start) ==
    [i \in 1..(event_no - start - 1) |-> Event(start + i)]

\* flush_terminal_events_to_server: the stored events from `start' up to
\* the first one that is missing.
FirstMissing(start) ==
    CHOOSE n \in start..MaxSessionSize :
        n \notin unacked /\ start..(n - 1) \subseteq unacked
Stored(start) == [i \in 1..(FirstMissing(start) - start) |-> Event(start + i - 1)]

\* The reconnect future. Only its first attempt is tied to the abort handle
\* that spawn_with_retry_on_error returns; the later ones are spawned by the
\* callback of the one before.
RetryState == [phase : {"idle", "dialing", "backoff"}, left : 0..MaxRetries, first : BOOLEAN]
Idle      == [phase |-> "idle", left |-> 0, first |-> FALSE]
Detached  == [phase |-> retry.phase, left |-> retry.left, first |-> FALSE]
Abortable == retry.phase = "dialing" /\ retry.first

\* close(): aborts the reconnect future of stage Reconnecting and closes the
\* channel. A future that has completed already keeps its callback.
Close ==
    /\ tx_open' = FALSE
    /\ UNCHANGED ws_proxy_tx
    /\ IF stage = "Reconnecting" /\ Abortable
         THEN retry' \in {Idle, Detached}
         ELSE UNCHANGED retry

CloseWithoutReconnection ==
    /\ Close
    /\ stage' = "Finished"
    /\ UNCHANGED <<startup_attempt>>

-----------------------------------------------------------------------------
\* Starting the session.

Init ==
    /\ alive = TRUE
    /\ stage = "BeforeStarted"
    /\ current_attempt = 1
    /\ startup_attempt = None
    /\ dialing = {1}
    /\ timers = IF MaxAttempts > 1 THEN {1} ELSE {}
    /\ retry = Idle
    /\ session_id = None
    /\ event_no = 0
    /\ num_bytes_shared = 0
    /\ unacked = {}
    /\ next_buffer_seq_no = [block |-> 0, op |-> 0]
    /\ pending_input_updates = <<>>
    /\ prompt = 0
    /\ ws_proxy_tx = 1
    /\ tx_open = TRUE
    /\ proxy = [c \in Conn |-> <<>>]
    /\ sock = [c \in Conn |-> "none"]

IsActiveStartupAttempt(a) == stage = "BeforeStarted" /\ current_attempt = a

\* Mutant: only the winner of a started session is told apart.
ShouldIgnore_WhenStarted(c) ==
    /\ c \in Attempt
    /\ Started /\ startup_attempt # None /\ startup_attempt # c

\* should_ignore_startup_attempt_websocket_callback, for the connections a
\* startup attempt made.
ShouldIgnore(c) ==
    /\ c \in Attempt
    /\ \/ stage = "BeforeStarted" /\ current_attempt # c
       \/ Started /\ startup_attempt # None /\ startup_attempt # c

\* abort_startup_handles: the callback of a future that has completed
\* already still comes.
Aborted(set) == {set, {}}

\* handle_startup_failure_with_cause. `busy' and `armed' are the attempts
\* left dialing and timed once the failing callback is gone.
StartupFailure(retryable, busy, armed) ==
    LET a == current_attempt + 1 IN
    \/ /\ retryable /\ current_attempt < MaxAttempts
       /\ current_attempt' = a
       /\ \E d \in Aborted(busy), t \in Aborted(armed) :
             /\ dialing' = d \cup {a}
             /\ timers' = t \cup {a}
       /\ ws_proxy_tx' = a
       /\ tx_open' = TRUE
       /\ UNCHANGED <<alive, stage, retry>>
    \/ /\ ~(retryable /\ current_attempt < MaxAttempts)
       /\ stage' = "Finished"
       /\ tx_open' = FALSE
       /\ alive' = FALSE       \* FailedToCreateSharedSession: the view drops the network
       /\ dialing' = busy /\ timers' = armed
       /\ UNCHANGED <<current_attempt, ws_proxy_tx, retry>>

sessionVars == <<startup_attempt, session_id, eventVars, unacked, inputVars, prompt>>

\* The connect future of attempt `a' resolves.
ConnectOk(a) ==
    /\ alive /\ a \in dialing
    /\ dialing' = dialing \ {a}
    /\ IF IsActiveStartupAttempt(a)
         THEN /\ proxy' = Queued(<<Initialize>>)
              /\ sock' = [sock EXCEPT ![a] = "open"]
         ELSE UNCHANGED <<proxy, sock>>
    /\ UNCHANGED <<alive, stage, current_attempt, timers, retry, txVars, sessionVars>>

ConnectErr(a) ==
    /\ alive /\ a \in dialing
    /\ IF IsActiveStartupAttempt(a)
         THEN StartupFailure(TRUE, dialing \ {a}, timers)
         ELSE /\ dialing' = dialing \ {a}
              /\ UNCHANGED <<alive, stage, current_attempt, timers, retry, txVars>>
    /\ UNCHANGED <<proxy, sock, sessionVars>>

\* handle_startup_attempt_timeout
StartupTimeout(a) ==
    /\ alive /\ a \in timers
    /\ IF IsActiveStartupAttempt(a)
         THEN StartupFailure(TRUE, dialing, timers \ {a})
         ELSE /\ timers' = timers \ {a}
              /\ UNCHANGED <<alive, stage, current_attempt, dialing, retry, txVars>>
    /\ UNCHANGED <<proxy, sock, sessionVars>>

-----------------------------------------------------------------------------
\* The websocket callbacks of on_websocket_connected.

Delivers(c) == alive /\ sock[c] = "open" /\ ~ShouldIgnore(c)

\* An error item of the stream, or the failure to send Initialize, of a
\* connection while the session is still starting.
StartupSocketError(c) ==
    /\ Delivers(c) /\ c \in Attempt /\ stage = "BeforeStarted"
    /\ StartupFailure(TRUE, dialing, timers)
    /\ UNCHANGED <<proxy, sock, sessionVars>>

\* Mutant: the old connection is closed after the reconnect has begun, which
\* aborts it.
ReconnectWebsocket_ThenClose ==
    /\ stage' = "Reconnecting"
    /\ retry' = Idle

\* reconnect_websocket, called while the session is started.
ReconnectWebsocket ==
    /\ stage' = "Reconnecting"
    /\ retry' = [phase |-> "dialing", left |-> MaxRetries, first |-> TRUE]

\* The stream of connection c ends.
StreamDone(c) ==
    /\ alive /\ sock[c] = "open"
    /\ sock' = [sock EXCEPT ![c] = "done"]
    /\ \/ /\ ShouldIgnore(c)
          /\ UNCHANGED <<alive, stage, startupVars, retry, txVars>>
       \/ /\ ~ShouldIgnore(c) /\ Started
          /\ tx_open' = FALSE
          /\ ReconnectWebsocket
          /\ UNCHANGED <<alive, startupVars, ws_proxy_tx>>
       \/ /\ ~ShouldIgnore(c) /\ stage = "BeforeStarted"
          /\ StartupFailure(TRUE, dialing, timers)
       \/ /\ ~ShouldIgnore(c) /\ stage \in {"Reconnecting", "Finished"}
          /\ Close
          /\ UNCHANGED <<alive, stage, startupVars>>
    /\ UNCHANGED <<proxy, sessionVars>>

-----------------------------------------------------------------------------
\* The reconnect future.

ReconnectOk(c) ==
    /\ alive /\ retry.phase = "dialing"
    /\ c \in Reconnect /\ sock[c] = "none"
    /\ \A d \in Reconnect : d < c => sock[d] # "none"
    /\ retry' = Idle
    /\ ws_proxy_tx' = c
    /\ tx_open' = TRUE
    /\ proxy' = [proxy EXCEPT ![c] = <<Resume>>]
    /\ sock' = [sock EXCEPT ![c] = "open"]
    /\ UNCHANGED <<alive, stage, startupVars, sessionVars>>

\* Mutant: one retry more than the strategy allows.
Exhausted_Late == retry.left < 0

Exhausted == retry.left = 0

ReconnectErr ==
    /\ alive /\ retry.phase = "dialing"
    /\ IF Exhausted
         THEN /\ retry' = Idle
              /\ stage' = "Finished"
              /\ tx_open' = FALSE
              /\ alive' = FALSE     \* FailedToReconnect: the view drops the network
         ELSE /\ retry' = [phase |-> "backoff", left |-> retry.left, first |-> FALSE]
              /\ UNCHANGED <<alive, stage, tx_open>>
    /\ UNCHANGED <<startupVars, ws_proxy_tx, proxy, sock, sessionVars>>

ReconnectTimer ==
    /\ alive /\ retry.phase = "backoff"
    /\ retry' = [phase |-> "dialing", left |-> retry.left - 1, first |-> FALSE]
    /\ UNCHANGED <<alive, stage, startupVars, txVars, proxy, sock, sessionVars>>

-----------------------------------------------------------------------------
\* process_websocket_message: one action per downstream message that changes
\* the sharer's state.

\* send_latest_state_to_server, cut down to the prompt.
LatestState == <<Prompt(prompt)>>

RecvSessionInitialized(c, s) ==
    /\ Delivers(c) /\ stage = "BeforeStarted"
    /\ session_id' = s
    /\ \E d \in Aborted(dialing), t \in Aborted(timers) :
          dialing' = d /\ timers' = t
    /\ stage' = "StartedSuccessfully"
    /\ startup_attempt' = current_attempt
    /\ proxy' = Queued(Stored(0) \o LatestState)
    /\ UNCHANGED <<alive, current_attempt, retry, eventVars, unacked, inputVars,
                   prompt, txVars, sock>>

RecvFailedToInitialize(c, retryable) ==
    /\ Delivers(c) /\ stage = "BeforeStarted"
    /\ StartupFailure(retryable, dialing, timers)
    /\ UNCHANGED <<proxy, sock, sessionVars>>

\* Mutant: only a session that runs already refuses to be resumed.
AwaitsResume_NotStarted == ~Started

AwaitsResume == stage = "Reconnecting"

\* Mutant: the buffered input updates are copied to the server, not moved.
LeftAfterFlush_All == pending_input_updates

\* What flush_pending_input_updates_to_server leaves in the buffer.
LeftAfterFlush == <<>>

\* last_received_event_no + 1, or 0 when the server has none, is `next'.
RecvSessionReconnected(c, next) ==
    /\ Delivers(c) /\ AwaitsResume
    /\ stage' = "StartedSuccessfully"
    /\ startup_attempt' = None
    /\ proxy' = Queued(Stored(next) \o pending_input_updates \o LatestState)
    /\ pending_input_updates' = LeftAfterFlush
    /\ UNCHANGED <<alive, startupVars, retry, session_id, eventVars, unacked,
                   next_buffer_seq_no, prompt, txVars, sock>>

\* FailedToReconnect and SessionTerminated: the view drops the network.
RecvTerminated(c) ==
    /\ Delivers(c)
    /\ CloseWithoutReconnection
    /\ alive' = FALSE
    /\ UNCHANGED <<startupVars, session_id, eventVars, unacked, inputVars, prompt,
                   proxy, sock>>

\* Mutant: only the acknowledged event itself is forgotten.
Acked_One(n) == {n}

\* Mutant: one event too many is forgotten.
Acked_NextToo(n) == {k \in unacked : k <= n + 1}

\* What EventsProcessedAck removes: from n downwards until an event is missing.
Acked(n) == {k \in unacked : k <= n /\ k..n \subseteq unacked}

RecvAck(c, n) ==
    /\ Delivers(c)
    /\ unacked' = unacked \ Acked(n)
    /\ UNCHANGED <<alive, stage, startupVars, startup_attempt, retry, session_id,
                   eventVars, inputVars, prompt, txVars, proxy, sock>>

-----------------------------------------------------------------------------
\* What the terminal and the view ask of the network.

\* send_ordered_terminal_event_message
SendEvent ==
    /\ alive
    /\ num_bytes_shared' = IF num_bytes_shared > MaxSessionSize
                             THEN num_bytes_shared ELSE num_bytes_shared + 1
    /\ \/ /\ num_bytes_shared' <= MaxSessionSize
          /\ event_no' = event_no + 1
          /\ unacked' = unacked \cup {event_no}
          /\ SendNow(<<Event(event_no)>>)
          /\ UNCHANGED <<stage, startup_attempt, retry, txVars>>
       \/ /\ num_bytes_shared' > MaxSessionSize     \* end_session(ExceededSizeLimit)
          /\ SendNow(<<EndSession>>)
          /\ CloseWithoutReconnection
          /\ UNCHANGED <<event_no, unacked>>
    /\ UNCHANGED <<alive, startupVars, session_id, inputVars, prompt, sock>>

\* The user stops sharing: end_session, and the handle is dropped.
StopSharing ==
    /\ alive
    /\ SendNow(<<EndSession>>)
    /\ CloseWithoutReconnection
    /\ alive' = FALSE
    /\ UNCHANGED <<startupVars, session_id, eventVars, unacked, inputVars, prompt, sock>>

\* The buffered updates that still matter once block b is edited.
HeldInput(b) ==
    IF b # next_buffer_seq_no.block THEN <<>> ELSE pending_input_updates

\* send_input_update for block b.
SendInputUpdate(b) ==
    /\ alive /\ session_id # None
    /\ b >= next_buffer_seq_no.block
    /\ LET op  == IF b # next_buffer_seq_no.block THEN 0 ELSE next_buffer_seq_no.op
           msg == Input([block |-> b, op |-> op])
       IN  /\ op < MaxOps
           /\ next_buffer_seq_no' = [block |-> b, op |-> op + 1]
           /\ pending_input_updates' =
                 IF Started THEN HeldInput(b) ELSE Append(HeldInput(b), msg)
           /\ SendNow(<<msg>>)
    /\ UNCHANGED <<alive, stage, startupVars, startup_attempt, retry, session_id,
                   eventVars, unacked, prompt, txVars, sock>>

\* send_active_prompt_update_if_changed
ChangePrompt ==
    /\ alive /\ prompt < MaxPrompts
    /\ prompt' = prompt + 1
    /\ SendNow(<<Prompt(prompt + 1)>>)
    /\ UNCHANGED <<alive, stage, startupVars, startup_attempt, retry, session_id,
                   eventVars, unacked, inputVars, txVars, sock>>

\* The send task takes the oldest message of a channel to the websocket.
Drain(c) ==
    /\ proxy[c] # <<>>
    /\ proxy' = [proxy EXCEPT ![c] = Tail(@)]

-----------------------------------------------------------------------------
\* The callbacks the server has no part in.
Client ==
    \/ \E a \in Attempt : ConnectOk(a) \/ ConnectErr(a) \/ StartupTimeout(a)
    \/ \E c \in Conn : ReconnectOk(c)
    \/ ReconnectErr \/ ReconnectTimer
    \/ SendEvent \/ StopSharing \/ ChangePrompt
    \/ \E b \in 0..MaxBlocks : SendInputUpdate(b)

\* A network whose server may say anything at any time.
Next ==
    \/ Client
    \/ \E c \in Conn :
         \/ StartupSocketError(c)
         \/ StreamDone(c)
         \/ \E s \in Attempt : RecvSessionInitialized(c, s)
         \/ \E r \in BOOLEAN : RecvFailedToInitialize(c, r)
         \/ \E n \in 0..MaxSessionSize : RecvSessionReconnected(c, n)
         \/ RecvTerminated(c)
         \/ \E n \in EventNo : RecvAck(c, n)
         \/ Drain(c) /\ UNCHANGED <<alive, stage, startupVars, retry, txVars, sock,
                                    sessionVars>>

Spec == Init /\ [][Next]_vars

-----------------------------------------------------------------------------
\* Properties.

TypeOK ==
    /\ alive \in BOOLEAN
    /\ stage \in Stages
    /\ current_attempt \in Attempt
    /\ startup_attempt \in Attempt \cup {None}
    /\ dialing \subseteq Attempt /\ timers \subseteq Attempt
    /\ retry \in RetryState
    /\ session_id \in Attempt \cup {None}
    /\ event_no \in 0..MaxSessionSize
    /\ num_bytes_shared \in 0..(MaxSessionSize + 1)
    /\ unacked \subseteq 0..(event_no - 1)
    /\ next_buffer_seq_no \in InputId
    /\ pending_input_updates \in Seq({Input(id) : id \in InputId})
    /\ prompt \in 0..MaxPrompts
    /\ ws_proxy_tx \in Conn
    /\ tx_open \in BOOLEAN
    /\ proxy \in [Conn -> Seq(Upstream)]
    /\ sock \in [Conn -> {"none", "open", "done"}]

\* Whatever the server acknowledges and in whatever order, the events kept
\* for a reconnect are the newest ones without a hole: the flush after
\* SessionReconnected stops at the first missing event, so a hole would cut
\* off everything behind it.
UnackedContiguous ==
    \A k \in unacked : k..(event_no - 1) \subseteq unacked

\* A session that is over never comes back: no late timeout, message or
\* reconnect of any connection leaves stage Finished.
FinishedForGood == [][stage = "Finished" => stage' = "Finished"]_vars
=============================================================================
