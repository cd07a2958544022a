--------------------------- MODULE ViewerNetwork ---------------------------
(***************************************************************************)
(* A viewer's end of a shared terminal session: `struct Network' of        *)
(* app/src/terminal/shared_session/viewer/network.rs, with the event loop  *)
(* it feeds and what the terminal manager does on its events.              *)
(*                                                                         *)
(* Every callback runs to completion on the main thread and is an action.  *)
(* Connection 1 is the one that joins; the ones opened by reconnecting     *)
(* follow.  Module ViewerSession plugs the server in.                      *)
(***************************************************************************)
EXTENDS ViewerEventLoop

CONSTANTS
    MaxRetries,     \* retries of RECONNECT_RETRY_STRATEGY (18 in the code)
    MaxReconnects,  \* bound: connections opened by reconnecting
    MaxReauth,      \* bound: reauthentications
    MaxBlocks,      \* bound: blocks the viewer edits
    MaxOps          \* bound: input updates of one block

ASSUME ViewerAssumption ==
    /\ MaxRetries \in Nat
    /\ MaxReconnects \in Nat
    /\ MaxReauth \in Nat
    /\ MaxBlocks \in Nat
    /\ MaxOps \in Nat

Conn == 1..(1 + MaxReconnects)
Stages == {"BeforeJoined", "JoinedSuccessfully", "Reconnecting", "Finished"}

VARIABLES
    alive,       \* the pane is open: the terminal manager holds the network
    stage,
    id,          \* Some(..): the server has given this viewer an id
    joining,     \* the connect future of start_websocket has not called back
    retry,       \* the reconnect future (see SharerNetwork)
    reauths,     \* reauthentications started, and
    reauthing,   \* how many of their futures have not called back
    next_buffer_seq_no,
    pending_input_updates,
    ws_proxy_tx, \* the connection ws_proxy_tx feeds
    tx_open,     \* that channel has not been closed
    proxy,       \* what each connection's channel holds, oldest first
    sock,        \* the websocket stream of each connection
    join_failed  \* FailedToJoin has been emitted

reauthVars == <<reauths, reauthing>>
inputVars  == <<next_buffer_seq_no, pending_input_updates>>
txVars     == <<ws_proxy_tx, tx_open>>
vars == <<loopVars, alive, stage, id, joining, retry, reauthVars, inputVars, txVars,
          proxy, sock, join_failed>>

-----------------------------------------------------------------------------
\* Upstream messages the properties tell apart.  Initialize asks for the
\* events from number `from' on: last_received_event_no + 1, or 0.

Initialize(known, from) == [type |-> "Initialize", known |-> known, from |-> from]
Input(b, n)     == [type |-> "UpdateInput", block |-> b, op |-> n]
Reauthenticated == [type |-> "Reauthenticated"]

Joined == stage = "JoinedSuccessfully"

\* ws_proxy_tx.try_send for a list of messages: an error is only logged.
Queued(msgs) ==
    IF tx_open THEN [proxy EXCEPT ![ws_proxy_tx] = @ \o msgs] ELSE proxy

\* send_message_to_server
SendNow(msgs) == proxy' = IF Joined THEN Queued(msgs) ELSE proxy

RetryState == [phase : {"idle", "dialing", "backoff"}, left : 0..MaxRetries, first : BOOLEAN]
Idle       == [phase |-> "idle", left |-> 0, first |-> FALSE]
Detached   == [phase |-> retry.phase, left |-> retry.left, first |-> FALSE]
Abortable  == retry.phase = "dialing" /\ retry.first

\* close(): as in the sharer, only the first attempt can be aborted, and one
\* that has completed keeps its callback.
Close ==
    /\ tx_open' = FALSE
    /\ UNCHANGED ws_proxy_tx
    /\ IF stage = "Reconnecting" /\ Abortable
         THEN retry' \in {Idle, Detached}
         ELSE UNCHANGED retry

CloseWithoutReconnection == Close /\ stage' = "Finished"

\* shared_session_ended of the terminal manager: the view drops its shared
\* session, and the presence manager with it.
SharedSessionEnded ==
    /\ status' = Ended
    /\ role' = NoRole
    /\ UNCHANGED <<event_loop, next_event_no, buffer, catching_up_to_event_no, applied>>

MayReconnect == stage \notin {"Finished", "Reconnecting"}

\* Mutant: the old connection is closed after the reconnect has begun, which
\* aborts it.
ReconnectWebsocket_ThenClose ==
    /\ stage' = "Reconnecting"
    /\ retry' = Idle
    /\ tx_open' = FALSE
    /\ UNCHANGED ws_proxy_tx

\* reconnect_websocket
ReconnectWebsocket ==
    IF MayReconnect
      THEN /\ tx_open' = FALSE
           /\ UNCHANGED ws_proxy_tx
           /\ IF event_loop
                THEN /\ stage' = "Reconnecting"
                     /\ retry' = [phase |-> "dialing", left |-> MaxRetries, first |-> TRUE]
                ELSE UNCHANGED <<stage, retry>>
      ELSE UNCHANGED <<stage, retry, txVars>>

-----------------------------------------------------------------------------
Init ==
    /\ LoopInit
    /\ alive = TRUE
    /\ stage = "BeforeJoined"
    /\ id = FALSE
    /\ joining = TRUE
    /\ retry = Idle
    /\ reauths = 0 /\ reauthing = 0
    /\ next_buffer_seq_no = [block |-> 0, op |-> 0]
    /\ pending_input_updates = <<>>
    /\ ws_proxy_tx = 1
    /\ tx_open = TRUE
    /\ proxy = [c \in Conn |-> <<>>]
    /\ sock = [c \in Conn |-> "none"]
    /\ join_failed = FALSE

\* The connect future of start_websocket resolves. When the channel has been
\* closed the connection is dropped.
JoinConnected ==
    /\ alive /\ joining
    /\ joining' = FALSE
    /\ proxy' = Queued(<<Initialize(id, 0)>>)
    /\ sock' = [sock EXCEPT ![1] = IF tx_open THEN "open" ELSE "done"]
    /\ UNCHANGED <<loopVars, alive, stage, id, retry, reauthVars, inputVars, txVars, join_failed>>

JoinNotConnected ==
    /\ alive /\ joining
    /\ joining' = FALSE
    /\ join_failed' = TRUE
    /\ UNCHANGED <<loopVars, alive, stage, id, retry, reauthVars, inputVars, txVars,
                   proxy, sock>>

\* Mutant: a reconnect asks for one event too few.
ResumeFrom_SkipsOne == IF next_event_no = 0 THEN 0 ELSE next_event_no + 1

\* The first event a reconnect asks for: the one after last_received_event_no.
ResumeFrom == next_event_no

\* The reconnect future succeeds, fails, and its backoff ends.
ReconnectOk(c) ==
    /\ alive /\ retry.phase = "dialing"
    /\ c \in Conn \ {1} /\ sock[c] = "none"
    /\ \A d \in Conn \ {1} : d < c => sock[d] # "none"
    /\ retry' = Idle
    /\ ws_proxy_tx' = c
    /\ tx_open' = TRUE
    /\ proxy' = [proxy EXCEPT ![c] = <<Initialize(id, ResumeFrom)>>]
    /\ sock' = [sock EXCEPT ![c] = "open"]
    /\ UNCHANGED <<loopVars, alive, stage, id, joining, reauthVars, inputVars, join_failed>>

\* Mutant: one retry more than the strategy allows.
Exhausted_Late == retry.left < 0

Exhausted == retry.left = 0

ReconnectErr ==
    /\ alive /\ retry.phase = "dialing"
    /\ \/ /\ ~Exhausted
          /\ retry' = [phase |-> "backoff", left |-> retry.left, first |-> FALSE]
          /\ UNCHANGED <<stage, tx_open, loopVars>>
       \/ /\ Exhausted
          /\ retry' = Idle
          /\ stage' = "Finished"
          /\ tx_open' = FALSE
          /\ SharedSessionEnded
    /\ UNCHANGED <<alive, id, joining, reauthVars, inputVars, ws_proxy_tx, proxy, sock,
                   join_failed>>

ReconnectTimer ==
    /\ alive /\ retry.phase = "backoff"
    /\ retry' = [phase |-> "dialing", left |-> retry.left - 1, first |-> FALSE]
    /\ UNCHANGED <<loopVars, alive, stage, id, joining, reauthVars, inputVars, txVars,
                   proxy, sock, join_failed>>

-----------------------------------------------------------------------------
\* The websocket callbacks: no stream is ever told apart from another.

Delivers(c) == alive /\ sock[c] = "open"

\* The stream of connection c ends.
StreamDone(c) ==
    /\ Delivers(c)
    /\ sock' = [sock EXCEPT ![c] = "done"]
    /\ \/ Joined /\ ReconnectWebsocket
       \/ /\ stage \in {"BeforeJoined", "Finished"}
          /\ Close
          /\ UNCHANGED stage
       \/ /\ stage = "Reconnecting"
          /\ UNCHANGED <<stage, retry, txVars>>
    /\ UNCHANGED <<loopVars, alive, id, joining, reauthVars, inputVars, proxy, join_failed>>

RecvJoinedSuccessfully(c, latest, r) ==
    /\ Delivers(c)
    /\ ~Joined
    /\ id' = TRUE
    /\ stage' = "JoinedSuccessfully"
    /\ NewEventLoop(latest, r)
    /\ UNCHANGED <<alive, joining, retry, reauthVars, inputVars, txVars, proxy, sock, join_failed>>

\* Mutant: a resumed viewer starts over with a new event loop.
ListedRole_NewLoop(r) == NewEventLoop(NoEvent, r)

\* Mutant: the participant list of a rejoin is not looked at.
ListedRole_Ignored(r) == UNCHANGED loopVars

\* on_self_role_maybe_changed and update_participants.
ListedRole(r) == ChangeRole(r)

\* The participant list that comes with it has this viewer's role r.
RecvRejoinedSuccessfully(c, r) ==
    /\ Delivers(c)
    /\ ~Joined
    /\ stage' = "JoinedSuccessfully"
    /\ proxy' = Queued(pending_input_updates)
    /\ pending_input_updates' = <<>>
    /\ ListedRole(r)
    /\ UNCHANGED <<alive, id, joining, retry, reauthVars, next_buffer_seq_no, txVars,
                   sock, join_failed>>

RecvOrderedTerminalEvent(c, n) ==
    /\ Delivers(c)
    /\ IF event_loop THEN ProcessOrderedTerminalEvent(n) ELSE UNCHANGED loopVars
    /\ UNCHANGED <<alive, stage, id, joining, retry, reauthVars, inputVars, txVars,
                   proxy, sock, join_failed>>

\* SessionEnded and ViewerRemoved.
RecvEnded(c) ==
    /\ Delivers(c)
    /\ CloseWithoutReconnection
    /\ SharedSessionEnded
    /\ UNCHANGED <<alive, id, joining, reauthVars, inputVars, proxy, sock, join_failed>>

RecvFailedToJoin(c) ==
    /\ Delivers(c)
    /\ IF stage = "Reconnecting"
         THEN /\ CloseWithoutReconnection
              /\ SharedSessionEnded
              /\ UNCHANGED join_failed
         ELSE /\ join_failed' = TRUE
              /\ UNCHANGED <<loopVars, stage, retry, txVars>>
    /\ UNCHANGED <<alive, id, joining, reauthVars, inputVars, proxy, sock>>

RecvRoleChanged(c, r) ==
    /\ Delivers(c)
    /\ IF event_loop THEN ChangeRole(r) ELSE UNCHANGED loopVars
    /\ UNCHANGED <<alive, stage, id, joining, retry, reauthVars, inputVars, txVars,
                   proxy, sock, join_failed>>

-----------------------------------------------------------------------------
\* What the view asks of the network.

\* reauthenticate_viewer, and the callback of its future when it has an id.
Reauthenticate ==
    /\ alive /\ reauths < MaxReauth
    /\ reauths' = reauths + 1
    /\ reauthing' = reauthing + 1
    /\ UNCHANGED <<loopVars, alive, stage, id, joining, retry, inputVars, txVars,
                   proxy, sock, join_failed>>

ReauthDone ==
    /\ alive /\ reauthing > 0
    /\ reauthing' = reauthing - 1
    /\ \/ SendNow(<<Reauthenticated>>) /\ ReconnectWebsocket
       \/ UNCHANGED <<stage, retry, txVars, proxy>>      \* the user id was not obtained
    /\ UNCHANGED <<loopVars, alive, id, joining, reauths, inputVars, sock, join_failed>>

\* The buffered updates that still matter once block b is edited.
HeldInput(b) ==
    IF b # next_buffer_seq_no.block THEN <<>> ELSE pending_input_updates

\* send_input_update for block b.
SendInputUpdate(b) ==
    /\ alive /\ id
    /\ b >= next_buffer_seq_no.block
    /\ LET op == IF b # next_buffer_seq_no.block THEN 0 ELSE next_buffer_seq_no.op
       IN  /\ op < MaxOps
           /\ next_buffer_seq_no' = [block |-> b, op |-> op + 1]
           /\ pending_input_updates' =
                 IF Joined THEN HeldInput(b) ELSE Append(HeldInput(b), Input(b, op))
           /\ SendNow(<<Input(b, op)>>)
    /\ UNCHANGED <<loopVars, alive, stage, id, joining, retry, reauthVars, txVars, sock, join_failed>>

\* The pane is closed for good: on_view_detached, and the handle is dropped.
ClosePane ==
    /\ alive
    /\ CloseWithoutReconnection
    /\ alive' = FALSE
    /\ SharedSessionEnded
    /\ UNCHANGED <<id, joining, reauthVars, inputVars, proxy, sock, join_failed>>

-----------------------------------------------------------------------------
\* The callbacks the server has no part in.
Client ==
    \/ JoinConnected \/ JoinNotConnected
    \/ \E c \in Conn : ReconnectOk(c)
    \/ ReconnectErr \/ ReconnectTimer
    \/ Reauthenticate \/ ReauthDone
    \/ \E b \in 0..MaxBlocks : SendInputUpdate(b)
    \/ ClosePane

NetworkTypeOK ==
    /\ LoopTypeOK
    /\ alive \in BOOLEAN /\ id \in BOOLEAN /\ joining \in BOOLEAN /\ join_failed \in BOOLEAN
    /\ stage \in Stages
    /\ retry \in RetryState
    /\ reauths \in 0..MaxReauth /\ reauthing \in 0..reauths
    /\ next_buffer_seq_no \in [block : 0..MaxBlocks, op : 0..MaxOps]
    /\ \A i \in DOMAIN pending_input_updates :
          pending_input_updates[i].block = next_buffer_seq_no.block
    /\ ws_proxy_tx \in Conn
    /\ tx_open \in BOOLEAN
    /\ sock \in [Conn -> {"none", "open", "done"}]
=============================================================================
