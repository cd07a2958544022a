---------------------------- MODULE SharerProofs -----------------------------
(***************************************************************************)
(* Proofs about the sharer: its network against a server that may say      *)
(* anything keeps its types and the contiguity of the unacked events       *)
(* (module SharerNetwork); with the server and the websockets plugged in   *)
(* (module SharerSession) it keeps to one session, loses no event, and what*)
(* the server has is the ordered log.                                      *)
(***************************************************************************)
EXTENDS SharerSession, SequenceTheorems, TLAPS

(* The network *)

\* TypeOK needs the byte limit to bound the event numbers, and the backoff of
\* the reconnect future to have a retry left; the channel's type needs the
\* unacked events to be contiguous, for the flush to stop.
IInv ==
    /\ TypeOK
    /\ event_no <= num_bytes_shared
    /\ retry.phase = "backoff" => retry.left > 0
    /\ UnackedContiguous

\* The flush from any event number stops within the session's events.
LEMMA FirstMissingExists ==
    ASSUME TypeOK, UnackedContiguous, NEW start \in 0..MaxSessionSize
    PROVE  /\ FirstMissing(start) \in start..MaxSessionSize
           /\ start..(FirstMissing(start) - 1) \subseteq unacked
<1>1. CASE start \in unacked
  <2>1. /\ event_no \in start..MaxSessionSize /\ event_no \notin unacked
        /\ start..(event_no - 1) \subseteq unacked
    BY <1>1, SharerAssumption DEF TypeOK, UnackedContiguous, SharerAssumption
  <2>2. QED BY <2>1 DEF FirstMissing
<1>2. CASE start \notin unacked
  <2>1. start \in start..MaxSessionSize /\ start..(start - 1) \subseteq unacked
    BY SharerAssumption DEF SharerAssumption
  <2>2. QED BY <1>2, <2>1 DEF FirstMissing
<1>3. QED BY <1>1, <1>2

LEMMA StoredType ==
    ASSUME TypeOK, UnackedContiguous, NEW start \in 0..MaxSessionSize
    PROVE  Stored(start) \in Seq(Upstream)
<1>1. /\ FirstMissing(start) \in start..MaxSessionSize
      /\ start..(FirstMissing(start) - 1) \subseteq unacked
  BY FirstMissingExists
<1> DEFINE len == FirstMissing(start) - start
<1>2. len \in Nat
  BY <1>1, SharerAssumption DEF SharerAssumption
<1>3. ASSUME NEW i \in 1..len PROVE Event(start + i - 1) \in Upstream
  BY <1>1, <1>2, SharerAssumption DEF SharerAssumption, Upstream, EventNo
<1>4. Stored(start) \in [1..len -> Upstream]
  BY <1>3 DEF Stored
<1>5. QED BY <1>2, <1>4, SeqDef

LEMMA QueuedType ==
    ASSUME TypeOK, NEW msgs \in Seq(Upstream)
    PROVE  Queued(msgs) \in [Conn -> Seq(Upstream)]
<1>1. proxy[ws_proxy_tx] \o msgs \in Seq(Upstream)
  BY DEF TypeOK
<1>2. QED BY <1>1 DEF TypeOK, Queued

LEMMA UpstreamTypes ==
    /\ Initialize \in Upstream /\ Resume \in Upstream /\ EndSession \in Upstream
    /\ \A p \in 0..MaxPrompts : Prompt(p) \in Upstream
    /\ \A id \in InputId : Input(id) \in Upstream
BY DEF Upstream

\* Init ----------------------------------------------------------------------
LEMMA InitIInv == Init => IInv
<1> SUFFICES ASSUME Init PROVE IInv OBVIOUS
<1>1. TypeOK
  BY SharerAssumption DEF SharerAssumption, Init, TypeOK, Stages, Attempt, Conn, None, Idle,
     InputId, RetryState
<1>2. QED BY <1>1 DEF IInv, Init, Idle, UnackedContiguous

\* The reconnect future.
BackoffOK == retry \in RetryState /\ (retry.phase = "backoff" => retry.left > 0)

LEMMA RetryStates ==
    ASSUME BackoffOK
    PROVE  /\ Idle \in RetryState /\ Idle.phase # "backoff"
           /\ [phase |-> "dialing", left |-> MaxRetries, first |-> TRUE] \in RetryState
           /\ Detached \in RetryState
           /\ Detached.phase = retry.phase /\ Detached.left = retry.left
           /\ retry.left # 0 => retry.left > 0
           /\ [phase |-> "backoff", left |-> retry.left, first |-> FALSE] \in RetryState
           /\ retry.phase = "backoff" =>
                 [phase |-> "dialing", left |-> retry.left - 1, first |-> FALSE] \in RetryState
<1>1. /\ retry.phase \in {"idle", "dialing", "backoff"} /\ retry.first \in BOOLEAN
      /\ retry.left \in 0..MaxRetries
  BY DEF BackoffOK, RetryState
<1>2. retry.phase = "backoff" => retry.left - 1 \in 0..MaxRetries
  BY <1>1, SharerAssumption DEF SharerAssumption, BackoffOK
<1>3. 0 \in 0..MaxRetries /\ MaxRetries \in 0..MaxRetries
  BY SharerAssumption DEF SharerAssumption
<1>4. retry.left # 0 => retry.left > 0
  BY <1>1
<1>5. QED BY <1>1, <1>2, <1>3, <1>4 DEF RetryState, Idle, Detached

LEMMA CloseBackoff ==
    ASSUME IInv, Close
    PROVE  BackoffOK'
BY RetryStates DEF IInv, TypeOK, BackoffOK, Close

\* Startup -------------------------------------------------------------------
\* A failed attempt is followed by the next one or ends the session.
LEMMA StartupFailureIInv ==
    ASSUME IInv, NEW r \in BOOLEAN, NEW busy \in SUBSET Attempt, NEW armed \in SUBSET Attempt,
           StartupFailure(r, busy, armed), UNCHANGED <<proxy, sessionVars>>,
           sock' \in [Conn -> {"none", "open", "done"}]
    PROVE  IInv'
<1> USE SharerAssumption
    DEF SharerAssumption, IInv, TypeOK, StartupFailure, sessionVars, eventVars, inputVars,
        Stages, Attempt, Conn, None, UnackedContiguous
<1>1. CASE r /\ current_attempt < MaxAttempts
  <2>1. current_attempt + 1 \in Attempt /\ current_attempt + 1 \in Conn
    BY <1>1
  <2>2. /\ current_attempt' = current_attempt + 1 /\ ws_proxy_tx' = current_attempt + 1
        /\ tx_open' = TRUE /\ UNCHANGED <<alive, stage, retry>>
    BY <1>1
  <2>3. PICK d \in Aborted(busy), t \in Aborted(armed) :
           dialing' = d \cup {current_attempt + 1} /\ timers' = t \cup {current_attempt + 1}
    BY <1>1
  <2>4. d \subseteq Attempt /\ t \subseteq Attempt
    BY DEF Aborted
  <2>5. dialing' \subseteq Attempt /\ timers' \subseteq Attempt
    BY <2>1, <2>3, <2>4
  <2>6. QED BY <2>1, <2>2, <2>5
<1>2. CASE ~(r /\ current_attempt < MaxAttempts)
  BY <1>2
<1>3. QED BY <1>1, <1>2

LEMMA StartupIInv ==
    ASSUME IInv, NEW a \in Attempt, ConnectOk(a) \/ ConnectErr(a) \/ StartupTimeout(a)
    PROVE  IInv'
<1>0. dialing \subseteq Attempt /\ timers \subseteq Attempt /\ sock \in [Conn -> {"none", "open", "done"}]
  BY DEF IInv, TypeOK
<1>1. CASE ConnectOk(a)
  <2>1. <<Initialize>> \in Seq(Upstream)
    BY UpstreamTypes
  <2>2. Queued(<<Initialize>>) \in [Conn -> Seq(Upstream)]
    BY <2>1, QueuedType DEF IInv
  <2>3. QED
    BY <1>1, <2>2, SharerAssumption
    DEF SharerAssumption, IInv, TypeOK, ConnectOk, txVars, sessionVars, eventVars, inputVars, UnackedContiguous, Attempt, Conn
<1>2. CASE ConnectErr(a)
  <2>1. CASE IsActiveStartupAttempt(a)
    BY <1>0, <1>2, <2>1, StartupFailureIInv DEF ConnectErr
  <2>2. CASE ~IsActiveStartupAttempt(a)
    BY <1>2, <2>2 DEF IInv, TypeOK, ConnectErr, txVars, sessionVars, eventVars, inputVars, UnackedContiguous
  <2>3. QED BY <2>1, <2>2
<1>3. CASE StartupTimeout(a)
  <2>1. CASE IsActiveStartupAttempt(a)
    BY <1>0, <1>3, <2>1, StartupFailureIInv DEF StartupTimeout
  <2>2. CASE ~IsActiveStartupAttempt(a)
    BY <1>3, <2>2 DEF IInv, TypeOK, StartupTimeout, txVars, sessionVars, eventVars, inputVars, UnackedContiguous
  <2>3. QED BY <2>1, <2>2
<1>4. QED BY <1>1, <1>2, <1>3

\* Websocket callbacks -------------------------------------------------------
LEMMA SocketIInv ==
    ASSUME IInv, NEW c \in Conn, StartupSocketError(c) \/ StreamDone(c)
    PROVE  IInv'
<1>0. /\ dialing \in SUBSET Attempt /\ timers \in SUBSET Attempt
      /\ sock \in [Conn -> {"none", "open", "done"}]
  BY DEF IInv, TypeOK
<1>1. CASE StartupSocketError(c)
  <2>1. StartupFailure(TRUE, dialing, timers) /\ UNCHANGED <<proxy, sessionVars>> /\ sock' = sock
    BY <1>1 DEF StartupSocketError
  <2>2. QED BY <1>0, <2>1, StartupFailureIInv
<1>2. CASE StreamDone(c)
  <2>0. /\ sock' \in [Conn -> {"none", "open", "done"}]
        /\ UNCHANGED <<proxy, sessionVars>>
    BY <1>0, <1>2 DEF StreamDone
  <2>1. CASE StartupFailure(TRUE, dialing, timers)
    BY <1>0, <2>0, <2>1, StartupFailureIInv
  <2>2. CASE UNCHANGED <<alive, stage, startupVars, retry, txVars>>
    BY <2>0, <2>2 DEF IInv, TypeOK, startupVars, txVars, sessionVars, eventVars, inputVars,
       UnackedContiguous
  <2>3. CASE tx_open' = FALSE /\ ReconnectWebsocket
             /\ UNCHANGED <<alive, startupVars, ws_proxy_tx>>
    <3>1. BackoffOK'
      BY <2>3, RetryStates DEF ReconnectWebsocket, IInv, TypeOK, BackoffOK
    <3>2. QED
      BY <2>0, <2>3, <3>1
      DEF IInv, TypeOK, BackoffOK, ReconnectWebsocket, startupVars, sessionVars,
          eventVars, inputVars, UnackedContiguous, Stages
  <2>4. CASE Close /\ UNCHANGED <<alive, stage, startupVars>>
    BY <2>0, <2>4, CloseBackoff
    DEF IInv, TypeOK, BackoffOK, Close, startupVars, sessionVars,
        eventVars, inputVars, UnackedContiguous
  <2>5. QED BY <1>2, <2>1, <2>2, <2>3, <2>4 DEF StreamDone
<1>3. QED BY <1>1, <1>2

\* The reconnect future ------------------------------------------------------
LEMMA ReconnectIInv ==
    ASSUME IInv, (\E c \in Conn : ReconnectOk(c)) \/ ReconnectErr \/ ReconnectTimer
    PROVE  IInv'
<1>0. BackoffOK
  BY DEF IInv, TypeOK, BackoffOK
<1> USE DEF IInv, TypeOK, startupVars, txVars, sessionVars, eventVars, inputVars,
        UnackedContiguous, Stages
<1>1. ASSUME NEW c \in Conn, ReconnectOk(c) PROVE IInv'
  <2>1. <<Resume>> \in Seq(Upstream)
    BY UpstreamTypes
  <2>2. BackoffOK'
    BY <1>0, <1>1, RetryStates DEF ReconnectOk, BackoffOK
  <2>3. QED BY <1>1, <2>1, <2>2 DEF ReconnectOk, BackoffOK
<1>2. CASE ReconnectErr
  <2>1. CASE retry.left = 0
    <3>1. BackoffOK'
      BY <1>0, <1>2, <2>1, RetryStates DEF ReconnectErr, Exhausted, BackoffOK
    <3>2. QED BY <1>2, <2>1, <3>1 DEF ReconnectErr, Exhausted, BackoffOK
  <2>2. CASE retry.left # 0
    <3>1. retry' = [phase |-> "backoff", left |-> retry.left, first |-> FALSE]
      BY <1>2, <2>2 DEF ReconnectErr, Exhausted
    <3>2. retry' \in RetryState /\ retry'.left > 0
      BY <1>0, <2>2, <3>1, RetryStates
    <3>3. QED BY <1>2, <2>2, <3>2 DEF ReconnectErr, Exhausted
  <2>3. QED BY <2>1, <2>2
<1>3. CASE ReconnectTimer
  <2>1. BackoffOK'
    BY <1>0, <1>3, RetryStates DEF ReconnectTimer, BackoffOK
  <2>2. QED BY <1>3, <2>1 DEF ReconnectTimer, BackoffOK
<1>4. QED BY <1>1, <1>2, <1>3

\* Downstream messages -------------------------------------------------------
LEMMA LatestStateType == ASSUME IInv PROVE LatestState \in Seq(Upstream)
<1>1. Prompt(prompt) \in Upstream
  BY UpstreamTypes DEF IInv, TypeOK
<1>2. QED BY <1>1 DEF LatestState

LEMMA AckIInv ==
    ASSUME IInv, NEW c \in Conn, NEW n \in Int, RecvAck(c, n)
    PROVE  IInv'
<1>1. UnackedContiguous'
  BY DEF RecvAck, Acked, eventVars, IInv, TypeOK, UnackedContiguous
<1>2. TypeOK'
  BY DEF RecvAck, startupVars, txVars, eventVars, inputVars, IInv, TypeOK
<1>3. QED BY <1>1, <1>2 DEF RecvAck, eventVars, IInv

LEMMA MessageIInv ==
    ASSUME IInv, NEW c \in Conn,
           \/ \E s \in Attempt : RecvSessionInitialized(c, s)
           \/ \E r \in BOOLEAN : RecvFailedToInitialize(c, r)
           \/ \E n \in 0..MaxSessionSize : RecvSessionReconnected(c, n)
           \/ RecvTerminated(c)
           \/ \E n \in EventNo : RecvAck(c, n)
    PROVE  IInv'
<1> USE DEF startupVars, txVars, eventVars, inputVars
<1>1. ASSUME NEW s \in Attempt, RecvSessionInitialized(c, s) PROVE IInv'
  <2>1. Stored(0) \o LatestState \in Seq(Upstream)
    <3>1. Stored(0) \in Seq(Upstream)
      BY StoredType, SharerAssumption DEF SharerAssumption, IInv
    <3>2. QED BY <3>1, LatestStateType
  <2>2. proxy' \in [Conn -> Seq(Upstream)]
    BY <1>1, <2>1, QueuedType DEF RecvSessionInitialized, IInv
  <2>3. dialing' \subseteq Attempt /\ timers' \subseteq Attempt
    BY <1>1 DEF RecvSessionInitialized, Aborted, IInv, TypeOK
  <2>4. QED
    BY <1>1, <2>2, <2>3 DEF RecvSessionInitialized, IInv, TypeOK, Stages, UnackedContiguous
<1>2. ASSUME NEW r \in BOOLEAN, RecvFailedToInitialize(c, r) PROVE IInv'
  <2>1. /\ StartupFailure(r, dialing, timers) /\ UNCHANGED <<proxy, sessionVars>>
        /\ sock' \in [Conn -> {"none", "open", "done"}]
        /\ dialing \in SUBSET Attempt /\ timers \in SUBSET Attempt
    BY <1>2 DEF RecvFailedToInitialize, IInv, TypeOK
  <2>2. QED BY <2>1, StartupFailureIInv
<1>3. ASSUME NEW n \in 0..MaxSessionSize, RecvSessionReconnected(c, n) PROVE IInv'
  <2>1. Stored(n) \o pending_input_updates \o LatestState \in Seq(Upstream)
    <3>1. Stored(n) \in Seq(Upstream)
      BY StoredType DEF IInv
    <3>2. pending_input_updates \in Seq(Upstream)
      <4>1. {Input(id) : id \in InputId} \subseteq Upstream
        BY DEF Upstream
      <4>2. QED BY <4>1 DEF IInv, TypeOK
    <3>3. QED BY <3>1, <3>2, LatestStateType
  <2>2. proxy' \in [Conn -> Seq(Upstream)]
    BY <1>3, <2>1, QueuedType DEF RecvSessionReconnected, IInv
  <2>3. pending_input_updates' \in Seq({Input(id) : id \in InputId})
    BY <1>3 DEF RecvSessionReconnected, LeftAfterFlush
  <2>4. QED
    BY <1>3, <2>2, <2>3 DEF RecvSessionReconnected, IInv, TypeOK, Stages, UnackedContiguous, None
<1>4. CASE RecvTerminated(c)
  <2>1. BackoffOK'
    BY <1>4, CloseBackoff DEF RecvTerminated, CloseWithoutReconnection
  <2>2. QED
    BY <1>4, <2>1
    DEF RecvTerminated, CloseWithoutReconnection, Close, BackoffOK, IInv, TypeOK, Stages, UnackedContiguous
<1>5. ASSUME NEW n \in EventNo, RecvAck(c, n) PROVE IInv'
  BY <1>5, AckIInv DEF EventNo
<1>6. QED BY <1>1, <1>2, <1>3, <1>4, <1>5

\* The terminal and the view -------------------------------------------------
LEMMA SendNowType ==
    ASSUME IInv, NEW m \in Upstream, SendNow(<<m>>)
    PROVE  proxy' \in [Conn -> Seq(Upstream)]
<1>1. <<m>> \in Seq(Upstream)
  OBVIOUS
<1>2. Queued(<<m>>) \in [Conn -> Seq(Upstream)]
  BY <1>1, QueuedType DEF IInv
<1>3. QED BY <1>2 DEF SendNow, IInv, TypeOK

LEMMA ViewIInv ==
    ASSUME IInv,
           \/ SendEvent \/ StopSharing \/ ChangePrompt
           \/ \E b \in 0..MaxBlocks : SendInputUpdate(b)
    PROVE  IInv'
<1> USE DEF startupVars, txVars, eventVars, inputVars
<1>1. CASE SendEvent
  <2>1. CASE num_bytes_shared' <= MaxSessionSize
    <3>1. /\ event_no' = event_no + 1 /\ unacked' = unacked \cup {event_no}
          /\ SendNow(<<Event(event_no)>>) /\ num_bytes_shared' = num_bytes_shared + 1
          /\ UNCHANGED <<stage, startup_attempt, retry, txVars>>
      BY <1>1, <2>1, SharerAssumption DEF SharerAssumption, SendEvent, IInv, TypeOK
    <3>2. event_no \in EventNo /\ event_no + 1 \in 0..MaxSessionSize
      BY <2>1, <3>1, SharerAssumption DEF SharerAssumption, IInv, TypeOK, EventNo
    <3>3. proxy' \in [Conn -> Seq(Upstream)]
      BY <3>1, <3>2, SendNowType DEF Upstream
    <3>4. UnackedContiguous'
      BY <3>1 DEF IInv, TypeOK, UnackedContiguous
    <3>5. num_bytes_shared' \in 0..(MaxSessionSize + 1) /\ event_no' <= num_bytes_shared'
      BY <2>1, <3>1, SharerAssumption DEF SharerAssumption, IInv, TypeOK
    <3>6. unacked' \subseteq 0..(event_no' - 1)
      BY <3>1 DEF IInv, TypeOK
    <3>7. QED
      BY <1>1, <3>1, <3>2, <3>3, <3>4, <3>5, <3>6 DEF SendEvent, IInv, TypeOK
  <2>2. CASE num_bytes_shared' > MaxSessionSize
    <3>1. /\ SendNow(<<EndSession>>) /\ CloseWithoutReconnection
          /\ UNCHANGED <<event_no, unacked>>
      BY <1>1, <2>2, SharerAssumption DEF SharerAssumption, SendEvent, IInv, TypeOK
    <3>2. proxy' \in [Conn -> Seq(Upstream)]
      BY <3>1, SendNowType, UpstreamTypes
    <3>3. BackoffOK'
      BY <3>1, CloseBackoff DEF CloseWithoutReconnection
    <3>4. num_bytes_shared' \in 0..(MaxSessionSize + 1) /\ event_no' <= num_bytes_shared'
      BY <1>1, <3>1, SharerAssumption DEF SharerAssumption, SendEvent, IInv, TypeOK
    <3>5. QED
      BY <1>1, <3>1, <3>2, <3>3, <3>4
      DEF SendEvent, CloseWithoutReconnection, Close, BackoffOK, IInv, TypeOK, Stages,
          UnackedContiguous
  <2>3. QED BY <1>1, <2>1, <2>2 DEF SendEvent
<1>2. CASE StopSharing
  <2>1. proxy' \in [Conn -> Seq(Upstream)]
    BY <1>2, SendNowType, UpstreamTypes DEF StopSharing
  <2>2. BackoffOK'
    BY <1>2, CloseBackoff DEF StopSharing, CloseWithoutReconnection
  <2>3. QED
    BY <1>2, <2>1, <2>2
    DEF StopSharing, CloseWithoutReconnection, Close, BackoffOK, IInv, TypeOK, Stages,
        UnackedContiguous
<1>3. CASE ChangePrompt
  <2>1. prompt + 1 \in 0..MaxPrompts
    BY <1>3, SharerAssumption DEF SharerAssumption, ChangePrompt, IInv, TypeOK
  <2>2. proxy' \in [Conn -> Seq(Upstream)]
    BY <1>3, <2>1, SendNowType, UpstreamTypes DEF ChangePrompt
  <2>3. QED BY <1>3, <2>1, <2>2 DEF ChangePrompt, IInv, TypeOK, UnackedContiguous
<1>4. ASSUME NEW b \in 0..MaxBlocks, SendInputUpdate(b) PROVE IInv'
  <2> DEFINE op == IF b # next_buffer_seq_no.block THEN 0 ELSE next_buffer_seq_no.op
             msg == Input([block |-> b, op |-> op])
  <2>1. /\ op < MaxOps
        /\ next_buffer_seq_no' = [block |-> b, op |-> op + 1]
        /\ pending_input_updates' = IF Started THEN HeldInput(b) ELSE Append(HeldInput(b), msg)
        /\ SendNow(<<msg>>)
    BY <1>4 DEF SendInputUpdate
  <2>2. op \in 0..MaxOps /\ op + 1 \in 0..MaxOps
    BY <2>1, SharerAssumption DEF SharerAssumption, IInv, TypeOK, InputId
  <2> HIDE DEF op
  <2>3. [block |-> b, op |-> op] \in InputId /\ next_buffer_seq_no' \in InputId
    BY <2>1, <2>2 DEF InputId
  <2>4. msg \in {Input(id) : id \in InputId} /\ msg \in Upstream
    BY <2>3, UpstreamTypes
  <2> HIDE DEF msg
  <2>5. proxy' \in [Conn -> Seq(Upstream)]
    BY <2>1, <2>4, SendNowType
  <2>6. HeldInput(b) \in Seq({Input(id) : id \in InputId})
    BY DEF HeldInput, IInv, TypeOK
  <2>7. pending_input_updates' \in Seq({Input(id) : id \in InputId})
    BY <2>1, <2>4, <2>6
  <2>8. QED
    BY <1>4, <2>3, <2>5, <2>7 DEF SendInputUpdate, IInv, TypeOK, UnackedContiguous
<1>5. QED BY <1>1, <1>2, <1>3, <1>4

\* The send task only shortens a channel.
LEMMA DrainIInv ==
    ASSUME IInv, NEW c \in Conn, Drain(c),
           UNCHANGED <<alive, stage, startupVars, retry, txVars, sock, sessionVars>>
    PROVE  IInv'
<1>1. proxy' \in [Conn -> Seq(Upstream)]
  BY DEF Drain, IInv, TypeOK
<1>2. QED
  BY <1>1 DEF startupVars, txVars, sessionVars, eventVars, inputVars, IInv, TypeOK,
     UnackedContiguous

\* Next ----------------------------------------------------------------------
LEMMA StutterIInv == ASSUME IInv, UNCHANGED vars PROVE IInv'
BY DEF vars, startupVars, txVars, eventVars, inputVars, IInv, TypeOK, UnackedContiguous

LEMMA ClientIInv == ASSUME IInv, Client PROVE IInv'
BY StartupIInv, ReconnectIInv, ViewIInv DEF Client

LEMMA NextIInv == IInv /\ [Next]_vars => IInv'
<1> SUFFICES ASSUME IInv, [Next]_vars PROVE IInv'
  OBVIOUS
<1>1. CASE Client
  BY <1>1, ClientIInv
<1>2. ASSUME NEW c \in Conn,
             \/ StartupSocketError(c) \/ StreamDone(c)
      PROVE  IInv'
  BY <1>2, SocketIInv
<1>3. ASSUME NEW c \in Conn, Drain(c),
             UNCHANGED <<alive, stage, startupVars, retry, txVars, sock, sessionVars>>
      PROVE  IInv'
  BY <1>3, DrainIInv
<1>4. CASE UNCHANGED vars
  BY <1>4, StutterIInv
<1>5. QED BY <1>1, <1>2, <1>3, <1>4, MessageIInv DEF Next

LEMMA InvariantHolds == Spec => []IInv
<1>1. QED BY InitIInv, NextIInv, PTL DEF Spec

\* The sharer's state stays within its types, whatever the server sends.
THEOREM TypeCorrect == Spec => []TypeOK
<1>1. IInv => TypeOK
  BY DEF IInv
<1>2. QED BY <1>1, InvariantHolds, PTL

\* The events kept for a reconnect never have a hole, whatever the server
\* acknowledges.
THEOREM UnackedStayContiguous == Spec => []UnackedContiguous
<1>1. IInv => UnackedContiguous
  BY DEF IInv
<1>2. QED BY <1>1, InvariantHolds, PTL

\* A step that leaves stage Finished would have to be one of the callbacks
\* that set the stage; each of them checks it or ends in Finished.
LEMMA FinishedStep ==
    ASSUME stage = "Finished", [Next]_vars
    PROVE  stage' = "Finished"
<1> USE DEF startupVars
<1>1. ASSUME NEW a \in Attempt, ConnectOk(a) \/ ConnectErr(a) \/ StartupTimeout(a)
      PROVE  stage' = "Finished"
  BY <1>1 DEF ConnectOk, ConnectErr, StartupTimeout, IsActiveStartupAttempt
<1>2. CASE (\E c \in Conn : ReconnectOk(c)) \/ ReconnectErr \/ ReconnectTimer
  BY <1>2 DEF ReconnectOk, ReconnectErr, ReconnectTimer
<1>3. CASE \/ SendEvent \/ StopSharing \/ ChangePrompt
           \/ \E b \in 0..MaxBlocks : SendInputUpdate(b)
  BY <1>3 DEF SendEvent, StopSharing, ChangePrompt, SendInputUpdate, CloseWithoutReconnection
<1>4. ASSUME NEW c \in Conn, StartupSocketError(c) \/ StreamDone(c) PROVE stage' = "Finished"
  BY <1>4 DEF StartupSocketError, StreamDone, Started
<1>5. ASSUME NEW c \in Conn,
             \/ \E s \in Attempt : RecvSessionInitialized(c, s)
             \/ \E r \in BOOLEAN : RecvFailedToInitialize(c, r)
             \/ \E n \in 0..MaxSessionSize : RecvSessionReconnected(c, n)
             \/ RecvTerminated(c)
             \/ \E n \in EventNo : RecvAck(c, n)
      PROVE  stage' = "Finished"
  BY <1>5 DEF RecvSessionInitialized, RecvFailedToInitialize, RecvSessionReconnected,
     RecvTerminated, RecvAck, CloseWithoutReconnection, AwaitsResume
<1>6. CASE UNCHANGED vars
  BY <1>6 DEF vars
<1>7. QED BY <1>1, <1>2, <1>3, <1>4, <1>5, <1>6 DEF Next, Client

\* Stage Finished is final, whatever the server sends and whichever futures
\* are still out.
THEOREM FinishedIsFinal == Spec => FinishedForGood
<1>1. [Next]_vars => [stage = "Finished" => stage' = "Finished"]_vars
  BY FinishedStep
<1>2. QED BY <1>1, PTL DEF Spec, FinishedForGood

-----------------------------------------------------------------------------
(* The network and the server *)

\* What the server says.
Answer ==
    {[type |-> "SessionInitialized", session |-> s] : s \in Attempt}
    \cup {[type |-> "FailedToInitializeSession", retryable |-> r] : r \in BOOLEAN}
    \cup {[type |-> "SessionReconnected", next |-> n] : n \in Nat}
    \cup {[type |-> "FailedToReconnect"]}
Ack == {[type |-> "EventsProcessedAck", no |-> n] : n \in Nat}
Downstream == Answer \cup Ack

InputMessage == {Input(id) : id \in InputId}

SessionRecord ==
    [status : {"none", "active", "ended"}, log : Seq(Int), acked : Nat,
     prompt : 0..MaxPrompts, inputs : Seq(InputMessage)]

SessionTypeOK ==
    /\ wire \in [Conn -> {"none", "up", "down"}]
    /\ down \in [Conn -> Seq(Downstream)]
    /\ serves \in [Conn -> Attempt \cup {None}]
    /\ sessions \in [Attempt -> SessionRecord]

\* The log of a session is 0, 1, 2, ...; only the session the sharer was
\* told has got anything.
Logs ==
    \A s \in Attempt :
       /\ \A i \in DOMAIN sessions[s].log : sessions[s].log[i] = i - 1
       /\ s # session_id => sessions[s].log = <<>> /\ sessions[s].inputs = <<>>

\* What each stage says of the rest.
Phases ==
    /\ stage = "BeforeStarted" =>
         /\ session_id = None /\ retry.phase = "idle" /\ ws_proxy_tx = current_attempt
         /\ \A c \in Reconnect : sock[c] = "none"
    /\ stage \in {"StartedSuccessfully", "Reconnecting"} => session_id # None
    /\ Started => retry.phase = "idle"
    /\ retry.phase # "idle" => session_id # None
    /\ \A c \in Reconnect : sock[c] # "none" => session_id # None
    /\ Started /\ ws_proxy_tx \in Attempt => ws_proxy_tx = session_id
    /\ Started => sock[ws_proxy_tx] # "none"

\* The two ends of a connection.
Sockets ==
    /\ \A c \in Conn : sock[c] = "none" <=> wire[c] = "none"
    /\ \A c \in Conn : wire[c] = "none" => proxy[c] = <<>> /\ down[c] = <<>>
    /\ \A c \in Conn : wire[c] # "up" => serves[c] = None
    /\ \A a \in dialing : sock[a] = "none" /\ a <= current_attempt
    /\ \A a \in Attempt : a > current_attempt => sock[a] = "none"

\* Connection c has asked to resume the session and has not been told.
Resuming(c) ==
    /\ c = ws_proxy_tx /\ c \in Reconnect
    /\ stage \in {"Reconnecting", "Finished"} /\ retry.phase = "idle"

\* The request that opens a connection is alone in its channel.
Asking ==
    \A c \in Conn : \A i \in DOMAIN proxy[c] :
       /\ proxy[c][i].type = "Initialize" =>
            /\ c \in Attempt /\ c # session_id
            /\ proxy[c] = <<Initialize>> /\ down[c] = <<>> /\ serves[c] = None
       /\ proxy[c][i].type = "Reconnect" =>
            /\ Resuming(c)
            /\ proxy[c] = <<Resume>> /\ down[c] = <<>> /\ serves[c] = None

\* The answer to it comes first, and the sharer has sent nothing meanwhile;
\* what it says of the server's log is still true.
Answered ==
    \A c \in Conn : \A i \in DOMAIN down[c] :
       /\ i > 1 => down[c][i].type = "EventsProcessedAck"
       /\ down[c][i].type = "SessionInitialized" =>
            /\ down[c][i].session = c /\ c \in Attempt /\ c # session_id
            /\ proxy[c] = <<>>
       /\ down[c][i].type = "SessionReconnected" =>
            /\ Resuming(c) /\ proxy[c] = <<>>
            /\ down[c][i].next = Len(ServerLog)
            /\ \A d \in Conn : serves[d] = session_id => d = c
       /\ down[c][i].type = "EventsProcessedAck" =>
            session_id # None /\ down[c][i].no < Len(ServerLog)

\* One connection speaks for the session, and a startup connection only for
\* its own.
Serves(c) == session_id # None /\ serves[c] = session_id

Serving ==
    /\ \A c \in Attempt : serves[c] # None => serves[c] = c
    /\ \A c \in Reconnect : serves[c] # None => serves[c] = session_id
    /\ \A c \in Attempt : c # session_id => proxy[c] \in {<<>>, <<Initialize>>}
    /\ \A c, d \in Conn : Serves(c) /\ Serves(d) => c = d

IsEvent(m)  == m.type = "OrderedTerminalEvent"
IsPrompt(m) == m.type = "UpdateActivePrompt"
IsInput(m)  == m.type = "UpdateInput"

\* Connection c is the one the sharer sends on.
Sending(c) == Started /\ tx_open /\ c = ws_proxy_tx

\* The events of a serving channel continue the server's log without a gap,
\* and reach up to the newest event while the sharer sends on it.
NoGap ==
    /\ Len(ServerLog) <= event_no
    /\ \A c \in Conn : \A i \in DOMAIN proxy[c] : IsEvent(proxy[c][i]) => proxy[c][i].no < event_no
    /\ \A c \in Conn : Serves(c) =>
         \A i \in DOMAIN proxy[c] : IsEvent(proxy[c][i]) =>
            \/ proxy[c][i].no <= Len(ServerLog)
            \/ \E j \in 1..(i - 1) : proxy[c][j] = Event(proxy[c][i].no - 1)
    /\ \A c \in Conn : Serves(c) /\ Sending(c) =>
            \/ event_no <= Len(ServerLog)
            \/ \E j \in DOMAIN proxy[c] : proxy[c][j] = Event(event_no - 1)

\* NothingLost, before the session has started too.
Kept == Len(ServerLog)..(event_no - 1) \subseteq unacked

\* The last prompt that was sent is the sharer's.
PromptSent ==
    \A c \in Conn : Serves(c) /\ Sending(c) =>
       \/ \E i \in DOMAIN proxy[c] :
            /\ proxy[c][i] = Prompt(prompt)
            /\ \A j \in DOMAIN proxy[c] : j > i => ~IsPrompt(proxy[c][j])
       \/ /\ \A j \in DOMAIN proxy[c] : ~IsPrompt(proxy[c][j])
          /\ sessions[session_id].prompt = prompt

Earlier(x, y) == x.block < y.block \/ (x.block = y.block /\ x.op < y.op)
InOrder(q) ==
    \A i, j \in DOMAIN q : i < j /\ IsInput(q[i]) /\ IsInput(q[j]) => Earlier(q[i], q[j])
AllEarlier(q, r) ==
    \A i \in DOMAIN q, j \in DOMAIN r : IsInput(q[i]) /\ IsInput(r[j]) => Earlier(q[i], r[j])
AllBefore(q, id) == \A i \in DOMAIN q : IsInput(q[i]) => Earlier(q[i], id)

ServerInputs == IF session_id = None THEN <<>> ELSE sessions[session_id].inputs

\* The server's inputs, then those of the serving channel, then the buffered
\* ones, then the next.
InputsSorted ==
    /\ AllBefore(ServerInputs, next_buffer_seq_no)
    /\ \A c \in Conn : AllBefore(proxy[c], next_buffer_seq_no)
    /\ AllBefore(pending_input_updates, next_buffer_seq_no)
    /\ InOrder(ServerInputs) /\ InOrder(pending_input_updates)
    /\ \A c \in Conn : Serves(c) => InOrder(proxy[c]) /\ AllEarlier(ServerInputs, proxy[c])
    /\ Started => pending_input_updates = <<>>
    /\ session_id = None => pending_input_updates = <<>>
    /\ stage = "Reconnecting" =>
          /\ AllEarlier(ServerInputs, pending_input_updates)
          /\ \A c \in Conn : AllEarlier(proxy[c], pending_input_updates)

SInv ==
    /\ IInv /\ SessionTypeOK /\ Logs
    /\ Phases /\ Sockets /\ Asking /\ Answered /\ Serving
    /\ NoGap /\ Kept /\ PromptSent /\ InputsSorted

-----------------------------------------------------------------------------
\* Reading the state.

LEMMA UpstreamKinds ==
    ASSUME NEW m \in Upstream
    PROVE  /\ IsEvent(m) => m.no \in EventNo /\ m = Event(m.no)
           /\ IsPrompt(m) => m.prompt \in 0..MaxPrompts /\ m = Prompt(m.prompt)
           /\ IsInput(m) => m \in InputMessage
           /\ m.type = "Initialize" => m = Initialize
           /\ m.type = "Reconnect" => m = Resume
BY DEF Upstream, IsEvent, IsPrompt, IsInput, InputMessage, Event, Prompt, Input, Initialize,
   Resume, EndSession

\* The kinds of message do not overlap.
LEMMA OneKind ==
    /\ \A n \in Int : Event(n).type = "OrderedTerminalEvent" /\ Event(n).no = n
    /\ \A p \in 0..MaxPrompts : Prompt(p).type = "UpdateActivePrompt" /\ Prompt(p).prompt = p
    /\ \A id \in InputId : /\ Input(id).type = "UpdateInput"
                           /\ Input(id).block = id.block /\ Input(id).op = id.op
    /\ Initialize.type = "Initialize" /\ Resume.type = "Reconnect" /\ EndSession.type = "EndSession"
BY DEF Event, Prompt, Input, Initialize, Resume, EndSession

LEMMA Attempts ==
    /\ Attempt \subseteq Conn /\ Reconnect \subseteq Conn
    /\ Conn = Attempt \cup Reconnect /\ Attempt \cap Reconnect = {}
    /\ None \notin Conn /\ Conn \subseteq Nat
BY SharerAssumption DEF SharerAssumption, Attempt, Reconnect, Conn, None

\* The next event the server expects is as many as it has.
LEMMA NextIsLength ==
    ASSUME SessionTypeOK, Logs, NEW s \in Attempt
    PROVE  NextExpected(s) = Len(sessions[s].log)
<1>1. sessions[s].log \in Seq(Int)
  BY DEF SessionTypeOK, SessionRecord
<1>2. CASE sessions[s].log = <<>>
  BY <1>2 DEF NextExpected
<1>3. CASE sessions[s].log # <<>>
  <2>1. Len(sessions[s].log) \in DOMAIN sessions[s].log
    BY <1>1, <1>3
  <2>2. Last(sessions[s].log) = Len(sessions[s].log) - 1
    BY <2>1 DEF Last, Logs
  <2>3. QED BY <1>1, <1>3, <2>2 DEF NextExpected
<1>4. QED BY <1>2, <1>3

\* What the server has of the session.
LEMMA ServerSide ==
    ASSUME TypeOK, SessionTypeOK
    PROVE  /\ ServerLog \in Seq(Int) /\ Len(ServerLog) \in Nat
           /\ ServerInputs \in Seq(InputMessage)
           /\ session_id # None => /\ session_id \in Attempt
                                   /\ ServerLog = sessions[session_id].log
                                   /\ ServerInputs = sessions[session_id].inputs
<1>1. session_id # None => session_id \in Attempt
  BY DEF TypeOK
<1>2. session_id # None => /\ sessions[session_id].log \in Seq(Int)
                           /\ sessions[session_id].inputs \in Seq(InputMessage)
  BY <1>1 DEF SessionTypeOK, SessionRecord
<1>3. ServerLog \in Seq(Int) /\ ServerInputs \in Seq(InputMessage)
  BY <1>2 DEF ServerLog, ServerInputs
<1>4. QED BY <1>1, <1>3 DEF ServerLog, ServerInputs

LEMMA InitSInv == SessionInit => SInv
<1> SUFFICES ASSUME SessionInit PROVE SInv
  OBVIOUS
<1>1. IInv
  BY InitIInv DEF SessionInit
<1>2. /\ stage = "BeforeStarted" /\ session_id = None /\ retry.phase = "idle"
      /\ ws_proxy_tx = 1 /\ current_attempt = 1 /\ dialing = {1} /\ event_no = 0
      /\ pending_input_updates = <<>>
      /\ \A c \in Conn : /\ sock[c] = "none" /\ wire[c] = "none" /\ serves[c] = None
                         /\ proxy[c] = <<>> /\ down[c] = <<>>
      /\ \A s \in Attempt : sessions[s] = NoSession
  BY Attempts DEF SessionInit, Init, Idle
<1>3. SessionTypeOK
  <2>1. NoSession \in SessionRecord
    BY SharerAssumption DEF SharerAssumption, NoSession, SessionRecord
  <2>2. QED BY <2>1, Attempts DEF SessionInit, SessionTypeOK
<1>4. ServerLog = <<>> /\ ServerInputs = <<>>
  BY <1>2 DEF ServerLog, ServerInputs
<1>5. Logs /\ Phases
  BY <1>2, Attempts DEF Logs, Phases, NoSession, Started
<1>6. Sockets
  <2>1. 1 \in Conn
    BY SharerAssumption DEF SharerAssumption, Conn
  <2>2. /\ \A c \in Conn : sock[c] = "none" <=> wire[c] = "none"
        /\ \A c \in Conn : wire[c] = "none" => proxy[c] = <<>> /\ down[c] = <<>>
        /\ \A c \in Conn : wire[c] # "up" => serves[c] = None
    BY <1>2
  <2>3. \A a \in dialing : sock[a] = "none" /\ a <= current_attempt
    <3> SUFFICES ASSUME NEW a \in dialing
                 PROVE  sock[a] = "none" /\ a <= current_attempt
      OBVIOUS
    <3>1. a = 1
      BY <1>2
    <3>2. QED BY <1>2, <2>1, <3>1
  <2>4. \A a \in Attempt : a > current_attempt => sock[a] = "none"
    BY <1>2, Attempts
  <2>5. QED BY <2>2, <2>3, <2>4 DEF Sockets
<1>11. Serving
  BY <1>2, Attempts DEF Serving, Serves
<1>10. Asking /\ Answered
  BY <1>2 DEF Asking, Answered
<1>7. NoGap /\ Kept /\ PromptSent
  BY <1>2, <1>4 DEF NoGap, Kept, PromptSent, Serves
<1>8. InputsSorted
  BY <1>2, <1>4 DEF InputsSorted, AllBefore, InOrder, AllEarlier, Serves, Started
<1>9. QED BY <1>1, <1>3, <1>5, <1>6, <1>7, <1>8, <1>10, <1>11 DEF SInv

-----------------------------------------------------------------------------
\* Steps that send nothing and record nothing.

\* What connection c has been sent is now part of what it had been sent.
DownShorter ==
    \A c \in Conn : \A i \in DOMAIN down[c]' :
       \E k \in DOMAIN down[c] : k >= i /\ down[c]'[i] = down[c][k]

LEMMA TailIsShorter ==
    ASSUME NEW S, NEW q \in Seq(S), q # <<>>
    PROVE  /\ Head(q) = q[1] /\ 1 \in DOMAIN q /\ Tail(q) \in Seq(S)
           /\ \A i \in DOMAIN Tail(q) : i + 1 \in DOMAIN q /\ Tail(q)[i] = q[i + 1]
           /\ \A i \in DOMAIN q : i # 1 => i - 1 \in DOMAIN Tail(q)
           /\ DOMAIN q = 1..Len(q) /\ Len(q) \in Nat
           /\ DOMAIN Tail(q) = 1..(Len(q) - 1)
OBVIOUS

LEMMA TailAt ==
    ASSUME NEW S, NEW q \in Seq(S), q # <<>>, NEW i \in DOMAIN Tail(q)
    PROVE  i \in Nat /\ i + 1 > 1 /\ i + 1 \in DOMAIN q /\ Tail(q)[i] = q[i + 1]
<1>1. DOMAIN Tail(q) = 1..(Len(q) - 1) /\ DOMAIN q = 1..Len(q) /\ Len(q) \in Nat
  OBVIOUS
<1>2. i \in 1..(Len(q) - 1)
  BY <1>1
<1>3. QED BY <1>1, <1>2

LEMMA AppendAt ==
    ASSUME NEW S, NEW q \in Seq(S), NEW m \in S
    PROVE  /\ Append(q, m) \in Seq(S)
           /\ DOMAIN q = 1..Len(q) /\ Len(q) \in Nat
           /\ DOMAIN Append(q, m) = 1..(Len(q) + 1)
           /\ \A i \in DOMAIN q : Append(q, m)[i] = q[i]
           /\ Append(q, m)[Len(q) + 1] = m
           /\ Append(q, m) # <<>>
OBVIOUS

LEMMA AppendIs ==
    ASSUME NEW S, NEW r \in Seq(S), NEW m \in S, NEW q, q = Append(r, m)
    PROVE  /\ q \in Seq(S) /\ DOMAIN q = 1..(Len(r) + 1)
           /\ \A i \in 1..Len(r) : q[i] = r[i]
           /\ q[Len(r) + 1] = m
BY AppendAt

Quiet ==
    /\ UNCHANGED <<session_id, event_no, next_buffer_seq_no, pending_input_updates, prompt,
                   sessions, proxy>>
    /\ \A c \in Conn : serves[c]' \in {serves[c], None}
    /\ \A c \in Conn : Sending(c)' => Sending(c)
    /\ Started' => Started
    /\ stage' = "Reconnecting" => stage = "Reconnecting" \/ Started

LEMMA QuietLog ==
    ASSUME SInv, Quiet
    PROVE  Logs' /\ NoGap' /\ PromptSent' /\ InputsSorted'
<1>1. ServerLog' = ServerLog /\ ServerInputs' = ServerInputs
  BY DEF Quiet, ServerLog, ServerInputs
<1>2. \A c \in Conn : Serves(c)' => Serves(c)
  BY DEF Quiet, Serves, None
<1>3. Logs'
  BY DEF Quiet, SInv, Logs
<1>4. NoGap'
  BY <1>1, <1>2 DEF Quiet, SInv, NoGap
<1>5. PromptSent'
  BY <1>2 DEF Quiet, SInv, PromptSent
<1>6. InputsSorted'
  <2>1. Started /\ stage' = "Reconnecting" => pending_input_updates' = <<>>
    BY DEF Quiet, SInv, InputsSorted
  <2>2. stage' = "Reconnecting" =>
          /\ AllEarlier(ServerInputs, pending_input_updates)
          /\ \A c \in Conn : AllEarlier(proxy[c], pending_input_updates)
    <3>1. Started => pending_input_updates = <<>>
      BY DEF SInv, InputsSorted
    <3>2. QED BY <3>1 DEF Quiet, SInv, InputsSorted, AllEarlier
  <2>3. QED
    BY <1>1, <1>2, <2>2
    DEF Quiet, SInv, InputsSorted, AllEarlier, AllBefore, InOrder
<1>7. QED BY <1>3, <1>4, <1>5, <1>6

\* The handshakes survive it, if a connection that waits to be resumed goes
\* on waiting.
LEMMA QuietHandshakes ==
    ASSUME SInv, Quiet, SessionTypeOK', DownShorter,
           \A c \in Conn : Resuming(c) => Resuming(c)'
    PROVE  Asking' /\ Answered' /\ Serving'
<1>1. ServerLog' = ServerLog
  BY DEF Quiet, ServerLog
<1>2. \A c \in Conn : serves[c]' # None => serves[c]' = serves[c]
  BY DEF Quiet
<1>3. \A c \in Conn : down[c] = <<>> => down[c]' = <<>>
  <2>1. SUFFICES ASSUME NEW c \in Conn, down[c] = <<>>, down[c]' # <<>> PROVE FALSE
    OBVIOUS
  <2>2. down[c]' \in Seq(Downstream)
    BY DEF SessionTypeOK
  <2>3. 1 \in DOMAIN down[c]'
    BY <2>1, <2>2
  <2>4. QED BY <2>1, <2>3 DEF DownShorter
<1>4. Asking'
  BY <1>2, <1>3 DEF Quiet, SInv, Asking
<1>5. Serving'
  <2>1. \A c \in Conn : Serves(c)' => Serves(c)
    BY DEF Quiet, Serves, None
  <2>2. /\ \A c \in Attempt : serves[c]' # None => serves[c]' = c
        /\ \A c \in Reconnect : serves[c]' # None => serves[c]' = session_id
    BY <1>2, Attempts DEF SInv, Serving
  <2>3. QED BY <2>1, <2>2 DEF Quiet, SInv, Serving
<1>6. Answered'
  <2>1. SUFFICES ASSUME NEW c \in Conn, NEW i \in DOMAIN down[c]'
                 PROVE  /\ i > 1 => down[c]'[i].type = "EventsProcessedAck"
                        /\ down[c]'[i].type = "SessionInitialized" =>
                             /\ down[c]'[i].session = c /\ c \in Attempt /\ c # session_id
                             /\ proxy[c] = <<>>
                        /\ down[c]'[i].type = "SessionReconnected" =>
                             /\ Resuming(c)' /\ proxy[c] = <<>>
                             /\ down[c]'[i].next = Len(ServerLog)
                             /\ \A d \in Conn : serves[d]' = session_id => d = c
                        /\ down[c]'[i].type = "EventsProcessedAck" =>
                             session_id # None /\ down[c]'[i].no < Len(ServerLog)
    BY <1>1 DEF Answered, Quiet
  <2>2. PICK k \in DOMAIN down[c] : k >= i /\ down[c]'[i] = down[c][k]
    BY DEF DownShorter
  <2>3. i \in Int /\ k \in Int
    <3>1. down[c] \in Seq(Downstream) /\ down[c]' \in Seq(Downstream)
      BY DEF SInv, SessionTypeOK
    <3>2. QED BY <3>1
  <2>4. i > 1 => k > 1
    BY <2>2, <2>3
  <2>5. down[c][k].type = "SessionReconnected" => session_id # None
    <3>1. ASSUME down[c][k].type = "SessionReconnected" PROVE c \in Reconnect
      BY <3>1 DEF SInv, Answered, Resuming
    <3>2. sock[c] # "none"
      BY DEF SInv, Sockets
    <3>3. QED BY <3>1, <3>2 DEF SInv, Phases
  <2>6. ASSUME down[c][k].type = "SessionReconnected", NEW d \in Conn, serves[d]' = session_id
        PROVE  d = c
    <3>1. serves[d] = session_id
      BY <1>2, <2>5, <2>6
    <3>2. QED BY <2>6, <3>1 DEF SInv, Answered
  <2>7. QED BY <2>2, <2>4, <2>6 DEF SInv, Answered
<1>7. QED BY <1>4, <1>5, <1>6

\* The connections are where they were.
SocketsKept ==
    /\ \A c \in Conn : /\ sock[c]' = "none" <=> sock[c] = "none"
                       /\ wire[c]' = "none" <=> wire[c] = "none"
                       /\ wire[c]' # "up" => serves[c]' = None
    /\ \A a \in dialing' : sock[a]' = "none" /\ a <= current_attempt'
    /\ current_attempt' \in Attempt /\ current_attempt' >= current_attempt

LEMMA QuietSInv ==
    ASSUME SInv, Quiet, IInv', SessionTypeOK', DownShorter, SocketsKept, Phases', Kept',
           \A c \in Conn : Resuming(c) => Resuming(c)'
    PROVE  SInv'
<1>1. \A c \in Conn : down[c] = <<>> => down[c]' = <<>>
  <2>1. SUFFICES ASSUME NEW c \in Conn, down[c] = <<>>, down[c]' # <<>> PROVE FALSE
    OBVIOUS
  <2>2. down[c]' \in Seq(Downstream)
    BY DEF SessionTypeOK
  <2>3. 1 \in DOMAIN down[c]'
    BY <2>1, <2>2
  <2>4. QED BY <2>1, <2>3 DEF DownShorter
<1>2. Sockets'
  <2>1. \A a \in Attempt : a > current_attempt' => sock[a]' = "none"
    BY Attempts DEF SInv, Sockets, SocketsKept, IInv, TypeOK, Attempt
  <2>2. QED BY <1>1, <2>1 DEF SInv, Sockets, SocketsKept, Quiet
<1>3. QED BY <1>2, QuietLog, QuietHandshakes DEF SInv

\* A step that starts no attempt, and opens and closes nothing.
LEMMA SocketsStay ==
    ASSUME SInv, current_attempt' = current_attempt, dialing' \subseteq dialing,
           \A c \in Conn : /\ sock[c]' = "none" <=> sock[c] = "none"
                           /\ wire[c]' = "none" <=> wire[c] = "none"
                           /\ wire[c]' # "up" => serves[c]' = None
    PROVE  SocketsKept
<1>1. current_attempt \in Attempt /\ dialing \subseteq Attempt
  BY DEF SInv, IInv, TypeOK
<1>2. current_attempt >= current_attempt
  BY <1>1 DEF Attempt
<1>3. \A a \in dialing' : sock[a]' = "none" /\ a <= current_attempt'
  <2>1. \A a \in dialing : sock[a] = "none" /\ a <= current_attempt
    BY DEF SInv, Sockets
  <2>2. QED BY <1>1, <2>1, Attempts
<1>4. QED BY <1>1, <1>2, <1>3 DEF SocketsKept

LEMMA ServedSockets == ASSUME SInv, NEW c \in Conn, wire[c] # "up" PROVE serves[c] = None
BY DEF SInv, Sockets

LEMMA StartupFailureSInv ==
    ASSUME SInv, stage = "BeforeStarted", IInv', SessionTypeOK', DownShorter,
           NEW r \in BOOLEAN, NEW busy \in SUBSET dialing, NEW armed \in SUBSET Attempt,
           StartupFailure(r, busy, armed),
           UNCHANGED <<proxy, sessionVars, wire, serves, sessions>>,
           \A c \in Conn : sock[c]' = "none" <=> sock[c] = "none"
    PROVE  SInv'
<1>0. /\ UNCHANGED <<session_id, event_no, unacked, next_buffer_seq_no, pending_input_updates, prompt>>
  BY DEF sessionVars, eventVars, inputVars
<1>1. /\ stage' \in {"BeforeStarted", "Finished"} /\ retry' = retry
      /\ stage' = "BeforeStarted" => ws_proxy_tx' = current_attempt'
  BY DEF StartupFailure, SInv, Phases
<1>2. Quiet
  BY <1>0, <1>1 DEF Quiet, Sending, Started
<1>3. Phases'
  BY <1>0, <1>1, Attempts DEF SInv, Phases, Started
<1>4. \A c \in Conn : Resuming(c) => Resuming(c)'
  BY DEF Resuming
<1>5. current_attempt \in Attempt /\ current_attempt' \in Attempt /\ dialing \subseteq Attempt
  BY DEF SInv, IInv, TypeOK
<1>6. SocketsKept
  <2>1. CASE r /\ current_attempt < MaxAttempts
    <3>1. current_attempt' = current_attempt + 1
      BY <2>1 DEF StartupFailure
    <3>2. dialing' \subseteq dialing \cup {current_attempt'}
      BY <2>1 DEF StartupFailure, Aborted
    <3>3. \A a \in dialing : sock[a] = "none" /\ a <= current_attempt
      BY DEF SInv, Sockets
    <3>4. sock[current_attempt'] = "none"
      BY <1>5, <3>1 DEF SInv, Sockets, Attempt
    <3>5. current_attempt < current_attempt' /\ \A a \in Attempt : a <= current_attempt => a <= current_attempt'
      BY <1>5, <3>1 DEF Attempt
    <3>6. ASSUME NEW a \in dialing' PROVE sock[a]' = "none" /\ a <= current_attempt'
      <4>1. CASE a \in dialing
        BY <1>5, <3>3, <3>5, <4>1, Attempts
      <4>2. CASE a = current_attempt'
        BY <1>5, <3>4, <4>2, Attempts DEF Attempt
      <4>3. QED BY <3>2, <4>1, <4>2
    <3>7. QED
      BY <1>5, <3>5, <3>6, Attempts DEF SInv, Sockets, SocketsKept, Attempt
  <2>2. CASE ~(r /\ current_attempt < MaxAttempts)
    <3>1. current_attempt' = current_attempt /\ dialing' \subseteq dialing
      BY <2>2 DEF StartupFailure
    <3>2. QED
      BY <1>5, <3>1, Attempts DEF SInv, Sockets, SocketsKept, Attempt
  <2>3. QED BY <2>1, <2>2
<1>7. ServerLog' = ServerLog
  BY <1>0 DEF ServerLog
<1>8. Kept'
  BY <1>0, <1>7 DEF SInv, Kept
<1>9. QED BY <1>2, <1>3, <1>4, <1>6, <1>8, QuietSInv

\* The server's side of a step of the sharer alone.
LEMMA ServerStays ==
    ASSUME SInv, UNCHANGED <<down, serves, sessions>>, wire' \in [Conn -> {"none", "up", "down"}]
    PROVE  SessionTypeOK' /\ DownShorter
<1>1. SessionTypeOK'
  BY DEF SInv, SessionTypeOK
<1>2. ASSUME NEW c \in Conn, NEW i \in DOMAIN down[c]
      PROVE  \E k \in DOMAIN down[c] : k >= i /\ down[c]'[i] = down[c][k]
  <2>1. down[c] \in Seq(Downstream)
    BY DEF SInv, SessionTypeOK
  <2>2. i >= i
    BY <2>1
  <2>3. QED BY <2>2
<1>3. QED BY <1>1, <1>2 DEF DownShorter

\* No socket opens.
LEMMA NoNewWire ==
    ASSUME SInv, WireUp, sock' = sock
    PROVE  wire' = wire
BY DEF SInv, SessionTypeOK, WireUp

\* Nothing but a future or a message to the sharer goes.
LEMMA IdleSInv ==
    ASSUME SInv, IInv', SessionTypeOK', DownShorter,
           UNCHANGED <<alive, stage, current_attempt, retry, txVars, proxy, sock, sessionVars,
                       sessions>>,
           dialing' \subseteq dialing,
           \A c \in Conn : /\ wire[c]' = "none" <=> wire[c] = "none"
                           /\ serves[c]' \in {serves[c], None}
                           /\ wire[c]' # "up" => serves[c]' = None
    PROVE  SInv'
<1>1. /\ UNCHANGED <<session_id, event_no, unacked, next_buffer_seq_no, pending_input_updates, prompt>>
      /\ UNCHANGED <<ws_proxy_tx, tx_open>>
  BY DEF sessionVars, eventVars, inputVars, txVars
<1>2. Quiet
  BY <1>1 DEF Quiet, Sending, Started
<1>3. Phases' /\ \A c \in Conn : Resuming(c) => Resuming(c)'
  BY <1>1 DEF SInv, Phases, Started, Resuming
<1>4. SocketsKept
  BY SocketsStay
<1>5. Kept'
  BY <1>1 DEF SInv, Kept, ServerLog
<1>6. QED BY <1>2, <1>3, <1>4, <1>5, QuietSInv

LEMMA ConnectFailsSInv ==
    ASSUME SInv, IInv', NEW a \in Attempt, ConnectErr(a) \/ StartupTimeout(a),
           WireUp, UNCHANGED <<down, serves, sessions>>
    PROVE  SInv'
<1>1. sock' = sock /\ UNCHANGED <<proxy, sessionVars>>
  BY DEF ConnectErr, StartupTimeout
<1>2. wire' = wire /\ SessionTypeOK' /\ DownShorter
  BY <1>1, NoNewWire, ServerStays DEF SInv, SessionTypeOK
<1>3. dialing \subseteq Attempt /\ timers \subseteq Attempt
  BY DEF SInv, IInv, TypeOK
<1>4. CASE IsActiveStartupAttempt(a)
  <2>1. /\ stage = "BeforeStarted"
        /\ \/ StartupFailure(TRUE, dialing \ {a}, timers)
           \/ StartupFailure(TRUE, dialing, timers \ {a})
    BY <1>4 DEF ConnectErr, StartupTimeout, IsActiveStartupAttempt
  <2>2. /\ dialing \ {a} \in SUBSET dialing /\ dialing \in SUBSET dialing
        /\ timers \in SUBSET Attempt /\ timers \ {a} \in SUBSET Attempt
    BY <1>3
  <2>3. QED BY <1>1, <1>2, <2>1, <2>2, StartupFailureSInv
<1>5. CASE ~IsActiveStartupAttempt(a)
  <2>1. /\ UNCHANGED <<alive, stage, current_attempt, retry, txVars>> /\ dialing' \subseteq dialing
    BY <1>5 DEF ConnectErr, StartupTimeout
  <2>2. QED BY <1>1, <1>2, <2>1, IdleSInv DEF SInv, Sockets
<1>6. QED BY <1>4, <1>5

LEMMA RetrySInv ==
    ASSUME SInv, IInv', ReconnectErr \/ ReconnectTimer,
           WireUp, UNCHANGED <<down, serves, sessions>>
    PROVE  SInv'
<1>1. /\ sock' = sock /\ UNCHANGED <<proxy, ws_proxy_tx, current_attempt, dialing, sessionVars>>
  BY DEF ReconnectErr, ReconnectTimer, startupVars, txVars
<1>2. /\ UNCHANGED <<session_id, event_no, unacked, next_buffer_seq_no, pending_input_updates, prompt>>
  BY <1>1 DEF sessionVars, eventVars, inputVars
<1>3. wire' = wire /\ SessionTypeOK' /\ DownShorter
  BY <1>1, NoNewWire, ServerStays DEF SInv, SessionTypeOK
<1>4. /\ retry.phase # "idle" /\ session_id # None
      /\ stage' \in {stage, "Finished"} /\ (tx_open' => tx_open)
  BY DEF SInv, Phases, ReconnectErr, ReconnectTimer, txVars
<1>5. Quiet
  BY <1>1, <1>2, <1>3, <1>4 DEF Quiet, Sending, Started
<1>6. Phases' /\ \A c \in Conn : Resuming(c) => Resuming(c)'
  BY <1>1, <1>2, <1>4 DEF SInv, Phases, Started, Resuming
<1>7. SocketsKept
  BY <1>1, <1>3, SocketsStay, ServedSockets
<1>8. Kept'
  BY <1>2 DEF SInv, Kept, ServerLog
<1>9. QED BY <1>3, <1>5, <1>6, <1>7, <1>8, QuietSInv

\* The oldest message to the sharer goes.
LEMMA HeadGoes ==
    ASSUME SInv, NEW c \in Conn, down[c] # <<>>, down' = [down EXCEPT ![c] = Tail(@)],
           UNCHANGED <<wire, serves, sessions>>
    PROVE  SessionTypeOK' /\ DownShorter
<1>1. down[c] \in Seq(Downstream)
  BY DEF SInv, SessionTypeOK
<1>5. /\ Tail(down[c]) \in Seq(Downstream) /\ DOMAIN Tail(down[c]) \subseteq Int
      /\ \A i \in DOMAIN Tail(down[c]) :
            i + 1 \in DOMAIN down[c] /\ Tail(down[c])[i] = down[c][i + 1]
  <2>1. DOMAIN Tail(down[c]) = 1..(Len(down[c]) - 1)
    BY <1>1
  <2>2. QED BY <1>1, <2>1
<1>2. down' \in [Conn -> Seq(Downstream)]
  BY <1>5 DEF SInv, SessionTypeOK
<1>3. ASSUME NEW d \in Conn, NEW i \in DOMAIN down[d]'
      PROVE  \E k \in DOMAIN down[d] : k >= i /\ down[d]'[i] = down[d][k]
  <2>1. CASE d = c
    <3>1. down[d]' = Tail(down[c])
      BY <2>1 DEF SInv, SessionTypeOK
    <3>2. i \in Int
      BY <1>5, <3>1
    <3>3. i + 1 \in DOMAIN down[c] /\ Tail(down[c])[i] = down[c][i + 1]
      BY <1>5, <3>1
    <3>4. i + 1 >= i
      BY <3>2
    <3>5. QED BY <2>1, <3>1, <3>3, <3>4
  <2>2. CASE d # c
    <3>1. down[d]' = down[d] /\ down[d] \in Seq(Downstream)
      BY <2>2 DEF SInv, SessionTypeOK
    <3>2. i >= i
      BY <3>1
    <3>3. QED BY <3>1, <3>2
  <2>3. QED BY <2>1, <2>2
<1>4. QED BY <1>2, <1>3 DEF SInv, SessionTypeOK, DownShorter

LEMMA DiscardSInv ==
    ASSUME SInv, IInv', NEW c \in Conn, Discard(c)
    PROVE  SInv'
<1>1. /\ UNCHANGED <<vars, wire, serves, sessions>>
      /\ down[c] # <<>> /\ down' = [down EXCEPT ![c] = Tail(@)]
  BY DEF Discard
<1>2. SessionTypeOK' /\ DownShorter
  BY <1>1, HeadGoes
<1>3. /\ UNCHANGED <<alive, stage, current_attempt, retry, txVars>> /\ dialing' \subseteq dialing
      /\ sock' = sock /\ UNCHANGED <<proxy, sessionVars>>
  BY <1>1 DEF vars, startupVars, sessionVars
<1>4. QED BY <1>1, <1>2, <1>3, IdleSInv DEF SInv, Sockets

LEMMA ServerStaysNoWire ==
    ASSUME SInv, UNCHANGED serverVars
    PROVE  /\ SessionTypeOK' /\ DownShorter /\ UNCHANGED <<wire, down, serves, sessions>>
<1>1. UNCHANGED <<wire, down, serves, sessions>>
  BY DEF serverVars
<1>2. wire' \in [Conn -> {"none", "up", "down"}]
  BY <1>1 DEF SInv, SessionTypeOK
<1>3. QED BY <1>1, <1>2, ServerStays

\* What close() leaves of the reconnect future.
LEMMA CloseKeeps ==
    ASSUME Close
    PROVE  /\ tx_open' = FALSE /\ ws_proxy_tx' = ws_proxy_tx
           /\ retry.phase = "idle" => retry'.phase = "idle"
           /\ retry'.phase # "idle" => retry.phase # "idle"
BY DEF Close, Idle, Detached, Abortable

LEMMA SocketGoneSInv ==
    ASSUME SInv, IInv', NEW c \in Conn, SocketGone(c)
    PROVE  SInv'
<1>1. /\ wire[c] = "down" /\ UNCHANGED <<wire, down, serves, sessions>>
      /\ SessionTypeOK' /\ DownShorter
  BY ServerStaysNoWire DEF SocketGone
<1>2. dialing \in SUBSET dialing /\ timers \in SUBSET Attempt
  BY DEF SInv, IInv, TypeOK
<1>3. CASE StartupSocketError(c)
  <2>1. /\ stage = "BeforeStarted" /\ StartupFailure(TRUE, dialing, timers)
        /\ UNCHANGED <<proxy, sock, sessionVars>>
    BY <1>3 DEF StartupSocketError
  <2>2. QED BY <1>1, <1>2, <2>1, StartupFailureSInv
<1>4. CASE StreamDone(c)
  <2>1. /\ sock[c] = "open" /\ sock' = [sock EXCEPT ![c] = "done"]
        /\ UNCHANGED <<proxy, sessionVars>>
    BY <1>4 DEF StreamDone
  <2>2. \A d \in Conn : sock[d]' = "none" <=> sock[d] = "none"
    BY <2>1 DEF SInv, IInv, TypeOK
  <2>3. CASE stage = "BeforeStarted" /\ StartupFailure(TRUE, dialing, timers)
    BY <1>1, <1>2, <2>1, <2>2, <2>3, StartupFailureSInv
  <2>4. CASE UNCHANGED startupVars /\ ~(stage = "BeforeStarted" /\ StartupFailure(TRUE, dialing, timers))
    <3>1. /\ UNCHANGED <<session_id, event_no, unacked, next_buffer_seq_no,
                         pending_input_updates, prompt, current_attempt, dialing>>
      BY <2>1, <2>4 DEF sessionVars, eventVars, inputVars, startupVars
    <3>2. /\ stage' = stage \/ (Started /\ stage' = "Reconnecting" /\ session_id # None)
          /\ ws_proxy_tx' = ws_proxy_tx /\ (tx_open' => tx_open)
          /\ stage' = stage => (retry.phase = "idle" => retry'.phase = "idle")
          /\ stage' = stage => (retry'.phase # "idle" => retry.phase # "idle")
      <4>1. CASE UNCHANGED <<alive, stage, startupVars, retry, txVars>>
        BY <4>1 DEF txVars
      <4>2. CASE Started /\ tx_open' = FALSE /\ ReconnectWebsocket
                 /\ UNCHANGED <<alive, startupVars, ws_proxy_tx>>
        BY <4>2 DEF ReconnectWebsocket, Started, SInv, Phases
      <4>3. CASE Close /\ UNCHANGED <<alive, stage, startupVars>>
        BY <4>3, CloseKeeps
      <4>4. QED BY <1>4, <2>4, <4>1, <4>2, <4>3 DEF StreamDone
    <3>3. Quiet
      BY <1>1, <2>1, <3>1, <3>2 DEF Quiet, Sending, Started
    <3>4. Phases'
      <4>1. ws_proxy_tx \in Conn
        BY DEF SInv, IInv, TypeOK
      <4>2. QED BY <2>2, <3>1, <3>2, <4>1, Attempts DEF SInv, Phases, Started
    <3>5. \A d \in Conn : Resuming(d) => Resuming(d)'
      BY <3>2 DEF Resuming, Started
    <3>6. SocketsKept
      BY <1>1, <2>2, <3>1, SocketsStay, ServedSockets
    <3>7. Kept'
      BY <1>1, <3>1 DEF SInv, Kept, ServerLog
    <3>8. QED BY <1>1, <3>3, <3>4, <3>5, <3>6, <3>7, QuietSInv
  <2>5. QED BY <1>4, <2>3, <2>4 DEF StreamDone
<1>5. QED BY <1>3, <1>4 DEF SocketGone

LEMMA TerminatedSInv ==
    ASSUME SInv, IInv', SessionTypeOK', DownShorter, NEW c \in Conn, RecvTerminated(c),
           UNCHANGED <<wire, serves, sessions>>
    PROVE  SInv'
<1>1. /\ Close /\ stage' = "Finished"
      /\ UNCHANGED <<session_id, event_no, unacked, next_buffer_seq_no,
                     pending_input_updates, prompt, current_attempt, dialing, proxy, sock>>
  BY DEF RecvTerminated, CloseWithoutReconnection, eventVars, inputVars, startupVars
<1>2. Quiet
  BY <1>1 DEF Quiet, Sending, Started
<1>3. Phases' /\ \A d \in Conn : Resuming(d) => Resuming(d)'
  BY <1>1, CloseKeeps, Attempts DEF SInv, Phases, Started, Resuming
<1>4. SocketsKept
  BY <1>1, SocketsStay, ServedSockets
<1>5. Kept'
  BY <1>1 DEF SInv, Kept, ServerLog
<1>6. QED BY <1>2, <1>3, <1>4, <1>5, QuietSInv

\* An acknowledgement frees only what the server has.
LEMMA AckSInv ==
    ASSUME SInv, IInv', SessionTypeOK', DownShorter, NEW c \in Conn, NEW n \in Int,
           RecvAck(c, n), n < Len(ServerLog), UNCHANGED <<wire, serves, sessions>>
    PROVE  SInv'
<1>1. /\ UNCHANGED <<session_id, event_no, next_buffer_seq_no, stage, retry, ws_proxy_tx, tx_open,
                     pending_input_updates, prompt, current_attempt, dialing, proxy, sock>>
      /\ unacked' = unacked \ Acked(n)
  BY DEF RecvAck, eventVars, inputVars, startupVars, txVars
<1>2. Quiet
  BY <1>1 DEF Quiet, Sending, Started
<1>3. Phases' /\ \A d \in Conn : Resuming(d) => Resuming(d)'
  BY <1>1 DEF SInv, Phases, Started, Resuming
<1>4. SocketsKept
  BY <1>1, SocketsStay, ServedSockets
<1>5. Kept'
  <2>1. ServerLog' = ServerLog
    BY <1>1 DEF ServerLog
  <2>2. Len(ServerLog) \in Nat
    BY ServerSide DEF SInv, IInv
  <2>3. Acked(n) \cap (Len(ServerLog)..(event_no - 1)) = {}
    BY <2>2 DEF Acked, SInv, IInv, TypeOK
  <2>4. QED BY <1>1, <2>1, <2>3 DEF SInv, Kept
<1>6. QED BY <1>2, <1>3, <1>4, <1>5, QuietSInv

\* The transport.
LEMMA TransportSInv ==
    ASSUME SInv, IInv', NEW c \in Conn, Hangup(c) \/ Break(c)
    PROVE  SInv'
<1>1. /\ wire[c] = "up" /\ wire' = [wire EXCEPT ![c] = "down"]
      /\ serves' = [serves EXCEPT ![c] = None] /\ UNCHANGED <<vars, sessions>>
      /\ \E kept \in {<<>>, down[c]} : down' = [down EXCEPT ![c] = kept]
  <2>1. down = [down EXCEPT ![c] = down[c]]
    BY DEF SInv, SessionTypeOK
  <2>2. QED BY <2>1 DEF Hangup, Break
<1>2. SessionTypeOK'
  <2>1. PICK kept \in {<<>>, down[c]} : down' = [down EXCEPT ![c] = kept]
    BY <1>1
  <2>2. down' \in [Conn -> Seq(Downstream)]
    <3>1. down[c] \in Seq(Downstream) /\ <<>> \in Seq(Downstream)
      BY DEF SInv, SessionTypeOK
    <3>3. kept \in Seq(Downstream)
      BY <3>1
    <3>2. QED BY <2>1, <3>3 DEF SInv, SessionTypeOK
  <2>3. wire' \in [Conn -> {"none", "up", "down"}] /\ serves' \in [Conn -> Attempt \cup {None}]
    BY <1>1 DEF SInv, SessionTypeOK
  <2>4. QED BY <1>1, <2>2, <2>3 DEF SInv, SessionTypeOK
<1>3. DownShorter
  <2>1. SUFFICES ASSUME NEW d \in Conn, NEW i \in DOMAIN down[d]'
                 PROVE  \E k \in DOMAIN down[d] : k >= i /\ down[d]'[i] = down[d][k]
    BY DEF DownShorter
  <2>2. down[d]' \in {<<>>, down[d]} /\ down[d] \in Seq(Downstream)
    BY <1>1 DEF SInv, SessionTypeOK
  <2>3. down[d]' = down[d] /\ i >= i
    BY <2>2
  <2>4. QED BY <2>3
<1>4. /\ UNCHANGED <<alive, stage, current_attempt, retry, txVars, proxy, sock, sessionVars, sessions>>
      /\ dialing' \subseteq dialing
  BY <1>1 DEF vars, startupVars, sessionVars
<1>5. \A d \in Conn : /\ wire[d]' = "none" <=> wire[d] = "none"
                      /\ serves[d]' \in {serves[d], None}
                      /\ wire[d]' # "up" => serves[d]' = None
  BY <1>1 DEF SInv, SessionTypeOK, Sockets
<1>6. QED BY <1>2, <1>3, <1>4, <1>5, IdleSInv

-----------------------------------------------------------------------------
\* A connection opens with its request.

LEMMA OpensSInv ==
    ASSUME SInv, IInv', ~Started, NEW c \in Conn, NEW m \in {Initialize, Resume},
           sock[c] = "none", sock' = [sock EXCEPT ![c] = "open"], WireUp,
           \A d \in Conn : proxy[d]' \in (IF d = c THEN {<<>>, <<m>>} ELSE {proxy[d]}),
           UNCHANGED <<stage, session_id, event_no, unacked, next_buffer_seq_no,
                       pending_input_updates, prompt, current_attempt, down, serves, sessions>>,
           dialing' \subseteq dialing \ {c},
           m = Initialize => c \in Attempt /\ c # session_id /\ c <= current_attempt,
           m = Resume => Resuming(c)' /\ c \in Reconnect,
           \A d \in Conn : Resuming(d) => Resuming(d)',
           Phases'
    PROVE  SInv'
<1>1. /\ wire' = [wire EXCEPT ![c] = "up"] /\ wire[c] = "none"
      /\ proxy[c] = <<>> /\ down[c] = <<>> /\ serves[c] = None
  BY DEF SInv, Sockets, SessionTypeOK, WireUp, IInv, TypeOK
<1>2. SessionTypeOK' /\ Logs'
  BY <1>1 DEF SInv, SessionTypeOK, Logs
<1>3. ServerLog' = ServerLog /\ ServerInputs' = ServerInputs /\ ~Started'
  BY DEF ServerLog, ServerInputs, Started
<1>4. /\ proxy[c]' \in {<<>>, <<m>>} /\ \A d \in Conn : d # c => proxy[d]' = proxy[d]
  OBVIOUS
<1>5. \A i \in DOMAIN proxy[c]' : proxy[c]' = <<m>> /\ proxy[c]'[i] = m
  BY <1>4
<1>6. /\ ~IsEvent(m) /\ ~IsInput(m)
      /\ m.type = "Initialize" => m = Initialize /\ m # Resume
      /\ m.type = "Reconnect" => m = Resume
  BY DEF IsEvent, IsInput, Initialize, Resume
<1>7. Sockets'
  <2>1. \A d \in Conn : /\ sock[d]' = IF d = c THEN "open" ELSE sock[d]
                        /\ wire[d]' = IF d = c THEN "up" ELSE wire[d]
    BY <1>1 DEF SInv, SessionTypeOK, IInv, TypeOK
  <2>2. \A a \in dialing : a \in Conn
    BY Attempts DEF SInv, IInv, TypeOK
  <2>3. \A a \in dialing' : sock[a]' = "none" /\ a <= current_attempt
    BY <2>1, <2>2 DEF SInv, Sockets
  <2>4. c \in Attempt => c <= current_attempt
    BY Attempts
  <2>5. \A a \in Attempt : a > current_attempt => sock[a]' = "none"
    <3>1. SUFFICES ASSUME NEW a \in Attempt, a > current_attempt PROVE sock[a]' = "none"
      OBVIOUS
    <3>2. current_attempt \in Int /\ a \in Int /\ a \in Conn
      BY Attempts DEF SInv, IInv, TypeOK, Attempt
    <3>3. a # c
      BY <2>4, <3>1, <3>2
    <3>4. sock[a] = "none"
      BY <3>1 DEF SInv, Sockets
    <3>5. QED BY <2>1, <3>2, <3>3, <3>4
  <2>6. QED BY <1>1, <1>4, <2>1, <2>3, <2>5 DEF SInv, Sockets
<1>8. Asking'
  <2>1. ASSUME NEW d \in Conn, NEW i \in DOMAIN proxy[d]'
        PROVE  /\ proxy[d]'[i].type = "Initialize" =>
                    /\ d \in Attempt /\ d # session_id
                    /\ proxy[d]' = <<Initialize>> /\ down[d] = <<>> /\ serves[d] = None
               /\ proxy[d]'[i].type = "Reconnect" =>
                    /\ Resuming(d)'
                    /\ proxy[d]' = <<Resume>> /\ down[d] = <<>> /\ serves[d] = None
    <3>1. CASE d = c
      BY <1>1, <1>5, <1>6, <3>1
    <3>2. CASE d # c
      BY <1>4, <3>2 DEF SInv, Asking
    <3>3. QED BY <3>1, <3>2
  <2>2. QED BY <2>1 DEF Asking
<1>9. Answered'
  BY <1>1, <1>3, <1>4 DEF SInv, Answered
<1>10. Serving'
  <2>1. ASSUME NEW a \in Attempt, a # session_id PROVE proxy[a]' \in {<<>>, <<Initialize>>}
    <3>1. CASE a = c
      BY <1>4, <2>1, <3>1, Attempts
    <3>2. CASE a # c
      BY <1>4, <2>1, <3>2, Attempts DEF SInv, Serving
    <3>3. QED BY <3>1, <3>2
  <2>2. QED BY <2>1 DEF SInv, Serving, Serves
<1>11. NoGap'
  <2>1. ASSUME NEW d \in Conn, NEW i \in DOMAIN proxy[d]', IsEvent(proxy[d]'[i])
        PROVE  d # c /\ proxy[d]' = proxy[d]
    BY <1>4, <1>5, <1>6, <2>1
  <2>2. \A d \in Conn : ~Sending(d)'
    BY <1>3 DEF Sending
  <2>3. QED BY <1>3, <2>1, <2>2 DEF SInv, NoGap, Serves
<1>12. Kept' /\ PromptSent'
  BY <1>3 DEF SInv, Kept, PromptSent, Sending
<1>13. InputsSorted'
  <2>1. ASSUME NEW d \in Conn, NEW i \in DOMAIN proxy[d]', IsInput(proxy[d]'[i])
        PROVE  d # c /\ proxy[d]' = proxy[d]
    BY <1>4, <1>5, <1>6, <2>1
  <2>2. \A d \in Conn : /\ AllBefore(proxy[d]', next_buffer_seq_no)
                        /\ Serves(d) => InOrder(proxy[d]') /\ AllEarlier(ServerInputs, proxy[d]')
                        /\ stage = "Reconnecting" => AllEarlier(proxy[d]', pending_input_updates)
    BY <2>1 DEF SInv, InputsSorted, AllBefore, InOrder, AllEarlier
  <2>3. QED BY <1>3, <2>2 DEF SInv, InputsSorted, Serves, AllEarlier, AllBefore, InOrder
<1>14. QED
  BY <1>2, <1>7, <1>8, <1>9, <1>10, <1>11, <1>12, <1>13 DEF SInv

LEMMA ConnectOkSInv ==
    ASSUME SInv, IInv', NEW a \in Attempt, ConnectOk(a), WireUp,
           UNCHANGED <<down, serves, sessions>>
    PROVE  SInv'
<1>1. /\ a \in dialing /\ dialing' = dialing \ {a}
      /\ UNCHANGED <<alive, stage, current_attempt, retry, txVars, sessionVars>>
  BY DEF ConnectOk
<1>2. CASE IsActiveStartupAttempt(a)
  <2>1. /\ stage = "BeforeStarted" /\ current_attempt = a /\ ws_proxy_tx = a /\ session_id = None
        /\ retry.phase = "idle"
    BY <1>2 DEF IsActiveStartupAttempt, SInv, Phases
  <2>2. sock[a] = "none" /\ proxy[a] = <<>> /\ a \in Conn
    BY <1>1, Attempts DEF SInv, Sockets
  <2>3. proxy' = Queued(<<Initialize>>) /\ sock' = [sock EXCEPT ![a] = "open"]
    BY <1>2 DEF ConnectOk
  <2>4. \A d \in Conn : proxy[d]' \in (IF d = a THEN {<<>>, <<Initialize>>} ELSE {proxy[d]})
    <3>1. proxy[a] \o <<Initialize>> = <<Initialize>>
      BY <2>2
    <3>2. QED BY <2>1, <2>2, <2>3, <3>1 DEF Queued, SInv, IInv, TypeOK
  <2>5. /\ UNCHANGED <<session_id, event_no, unacked, next_buffer_seq_no,
                       pending_input_updates, prompt, ws_proxy_tx>>
    BY <1>1 DEF sessionVars, eventVars, inputVars, txVars
  <2>6. Phases'
    BY <1>1, <2>1, <2>3, <2>5, Attempts DEF SInv, Phases, Started, IInv, TypeOK
  <2>7. /\ ~Started /\ a # session_id /\ a <= current_attempt /\ Initialize # Resume
        /\ \A d \in Conn : Resuming(d) => Resuming(d)'
    BY <1>1, <2>1, Attempts DEF Started, Initialize, Resume, Resuming, Attempt
  <2>8. Initialize \in {Initialize, Resume}
    OBVIOUS
  <2>9. QED
    BY <1>1, <2>1, <2>2, <2>3, <2>4, <2>5, <2>6, <2>7, <2>8, OpensSInv
<1>3. CASE ~IsActiveStartupAttempt(a)
  <2>1. UNCHANGED <<proxy, sock>> /\ dialing' \subseteq dialing
    BY <1>1, <1>3 DEF ConnectOk
  <2>2. wire' = wire /\ SessionTypeOK' /\ DownShorter
    BY <2>1, NoNewWire, ServerStays DEF SInv, SessionTypeOK
  <2>3. QED BY <1>1, <2>1, <2>2, IdleSInv DEF SInv, Sockets
<1>4. QED BY <1>2, <1>3

LEMMA ReconnectOkSInv ==
    ASSUME SInv, IInv', NEW c \in Conn, ReconnectOk(c), WireUp,
           UNCHANGED <<down, serves, sessions>>
    PROVE  SInv'
<1>1. /\ retry.phase = "dialing" /\ c \in Reconnect /\ sock[c] = "none"
      /\ retry' = Idle /\ ws_proxy_tx' = c
      /\ proxy' = [proxy EXCEPT ![c] = <<Resume>>] /\ sock' = [sock EXCEPT ![c] = "open"]
      /\ UNCHANGED <<stage, startupVars, sessionVars>>
  BY DEF ReconnectOk
<1>2. UNCHANGED <<session_id, event_no, unacked, next_buffer_seq_no, pending_input_updates, prompt,
                  current_attempt, dialing>>
  BY <1>1 DEF sessionVars, eventVars, inputVars, startupVars
<1>3. /\ stage \in {"Reconnecting", "Finished"} /\ session_id # None /\ ~Started
  BY <1>1 DEF SInv, Phases, Started, IInv, TypeOK, Stages
<1>4. \A d \in Conn : proxy[d]' \in (IF d = c THEN {<<>>, <<Resume>>} ELSE {proxy[d]})
  BY <1>1 DEF SInv, IInv, TypeOK
<1>5. Phases'
  BY <1>1, <1>2, <1>3 DEF SInv, Phases, Started, Idle
<1>6. Resuming(c)' /\ \A d \in Conn : Resuming(d) => Resuming(d)'
  BY <1>1, <1>2, <1>3 DEF Resuming, Idle
<1>7. dialing' \subseteq dialing \ {c} /\ Resume # Initialize
  BY <1>1, <1>2, Attempts DEF SInv, IInv, TypeOK, Resume, Initialize
<1>8. Resume \in {Initialize, Resume}
  OBVIOUS
<1>9. QED BY <1>1, <1>2, <1>3, <1>4, <1>5, <1>6, <1>7, <1>8, OpensSInv

-----------------------------------------------------------------------------
\* The terminal and the view send.

\* send_message_to_server puts m in the channel that is in use, if any.
Sends(m) ==
    \A c \in Conn : proxy[c]' = IF Sending(c) THEN Append(proxy[c], m) ELSE proxy[c]

LEMMA SendNowSends ==
    ASSUME TypeOK, NEW m \in Upstream, SendNow(<<m>>)
    PROVE  Sends(m)
<1>1. \A c \in Conn : proxy[c] \o <<m>> = Append(proxy[c], m)
  BY DEF TypeOK
<1>2. QED BY <1>1 DEF SendNow, Queued, Sends, Sending, TypeOK

\* A connection that is sent on is past its handshake.
LEMMA SendingIsPast ==
    ASSUME SInv, NEW c \in Conn, Sending(c)
    PROVE  /\ c \in Attempt => c = session_id
           /\ ~Resuming(c)
           /\ \A i \in DOMAIN proxy[c] : proxy[c][i].type \notin {"Initialize", "Reconnect"}
           /\ \A i \in DOMAIN down[c] : down[c][i].type \notin {"SessionInitialized", "SessionReconnected"}
           /\ wire[c] # "none"
<1>1. c \in Attempt => c = session_id
  BY DEF SInv, Phases, Sending
<1>2. ~Resuming(c)
  BY DEF Resuming, Sending, Started
<1>3. /\ \A i \in DOMAIN proxy[c] : proxy[c][i].type \notin {"Initialize", "Reconnect"}
      /\ \A i \in DOMAIN down[c] : down[c][i].type \notin {"SessionInitialized", "SessionReconnected"}
  BY <1>1, <1>2 DEF SInv, Asking, Answered
<1>4. wire[c] # "none"
  BY DEF SInv, Phases, Sockets, Sending
<1>5. QED BY <1>1, <1>2, <1>3, <1>4

\* m goes into the channel in use and nothing but the sharer's own state
\* changes.
SendStep(m) ==
    /\ Sends(m)
    /\ UNCHANGED <<session_id, current_attempt, dialing, ws_proxy_tx, sock, wire, down, serves,
                   sessions>>
    /\ stage' \in {stage, "Finished"} /\ (tx_open' => tx_open)
    /\ retry.phase = "idle" => retry'.phase = "idle"
    /\ retry'.phase # "idle" => retry.phase # "idle"

LEMMA SendHandshakes ==
    ASSUME SInv, IInv', NEW m \in Upstream, m.type \notin {"Initialize", "Reconnect"}, SendStep(m)
    PROVE  /\ SessionTypeOK' /\ Logs' /\ Phases' /\ Sockets' /\ Asking' /\ Answered' /\ Serving'
           /\ ServerLog' = ServerLog /\ ServerInputs' = ServerInputs
           /\ \A c \in Conn : Serves(c)' = Serves(c) /\ (Sending(c)' => Sending(c))
<1>1. ServerLog' = ServerLog /\ ServerInputs' = ServerInputs
  BY DEF SendStep, ServerLog, ServerInputs
<1>2. \A c \in Conn : Serves(c)' = Serves(c) /\ (Sending(c)' => Sending(c))
  BY DEF SendStep, Serves, Sending, Started
<1>3. SessionTypeOK' /\ Logs'
  BY DEF SendStep, SInv, SessionTypeOK, Logs
<1>4. Phases'
  BY DEF SendStep, SInv, Phases, Started
<1>5. \A c \in Conn : Resuming(c) => Resuming(c)'
  BY DEF SendStep, Resuming
<1>6. \A c \in Conn : ~Sending(c) => proxy[c]' = proxy[c]
  BY DEF SendStep, Sends
<1>7. Sockets'
  <2>1. \A c \in Conn : wire[c] = "none" => proxy[c]' = proxy[c]
    BY <1>6, SendingIsPast
  <2>2. QED BY <2>1 DEF SendStep, SInv, Sockets
<1>8. Asking'
  <2>1. SUFFICES ASSUME NEW c \in Conn, NEW i \in DOMAIN proxy[c]',
                        proxy[c]'[i].type \in {"Initialize", "Reconnect"}
                 PROVE  ~Sending(c) /\ proxy[c]' = proxy[c]
    BY <1>5 DEF SendStep, SInv, Asking
  <2>2. ASSUME Sending(c) PROVE FALSE
    <3>1. proxy[c]' = Append(proxy[c], m) /\ proxy[c] \in Seq(Upstream)
      BY <2>2 DEF SendStep, Sends, SInv, IInv, TypeOK
    <3>2. i \in DOMAIN proxy[c] \/ proxy[c]'[i] = m
      BY <3>1, AppendAt
    <3>3. i \in DOMAIN proxy[c] => proxy[c]'[i] = proxy[c][i]
      BY <3>1, AppendAt
    <3>4. QED BY <2>1, <2>2, <3>2, <3>3, SendingIsPast
  <2>3. QED BY <1>6, <2>2
<1>9. Answered'
  <2>1. \A c \in Conn : \A i \in DOMAIN down[c] :
           down[c][i].type \in {"SessionInitialized", "SessionReconnected"} => proxy[c]' = proxy[c]
    BY <1>6, SendingIsPast
  <2>2. QED BY <1>1, <1>5, <2>1 DEF SendStep, SInv, Answered
<1>10. Serving'
  <2>1. \A c \in Attempt : c # session_id => proxy[c]' = proxy[c]
    BY <1>6, SendingIsPast, Attempts
  <2>2. QED BY <1>2, <2>1 DEF SendStep, SInv, Serving
<1>11. QED BY <1>1, <1>2, <1>3, <1>4, <1>7, <1>8, <1>9, <1>10

\* What a channel looks like after a step that sends.
LEMMA SentChannel ==
    ASSUME SInv, NEW m \in Upstream, Sends(m), NEW c \in Conn
    PROVE  /\ proxy[c] \in Seq(Upstream) /\ DOMAIN proxy[c] = 1..Len(proxy[c]) /\ Len(proxy[c]) \in Nat
           /\ DOMAIN proxy[c]' = 1..Len(proxy[c]) \/ (Sending(c) /\ DOMAIN proxy[c]' = 1..(Len(proxy[c]) + 1))
           /\ \A i \in DOMAIN proxy[c] : i \in DOMAIN proxy[c]' /\ proxy[c]'[i] = proxy[c][i]
           /\ \A i \in DOMAIN proxy[c]' : \/ i \in DOMAIN proxy[c]
                                          \/ Sending(c) /\ i = Len(proxy[c]) + 1 /\ proxy[c]'[i] = m
           /\ Sending(c) => /\ Len(proxy[c]) + 1 \in DOMAIN proxy[c]'
                            /\ proxy[c]'[Len(proxy[c]) + 1] = m
<1>1. proxy[c] \in Seq(Upstream) /\ DOMAIN proxy[c] = 1..Len(proxy[c]) /\ Len(proxy[c]) \in Nat
  BY DEF SInv, IInv, TypeOK
<1>2. CASE Sending(c)
  <2>1. proxy[c]' = Append(proxy[c], m)
    BY <1>2 DEF Sends
  <2>2. /\ DOMAIN proxy[c]' = 1..(Len(proxy[c]) + 1)
        /\ \A i \in DOMAIN proxy[c] : proxy[c]'[i] = proxy[c][i]
        /\ proxy[c]'[Len(proxy[c]) + 1] = m
    BY <1>1, <2>1, AppendAt
  <2>3. QED BY <1>1, <1>2, <2>2
<1>3. CASE ~Sending(c)
  <2>1. proxy[c]' = proxy[c]
    BY <1>3 DEF Sends
  <2>2. QED BY <1>1, <1>3, <2>1
<1>4. QED BY <1>2, <1>3

LEMMA SendNoEvent ==
    ASSUME SInv, IInv', NEW m \in Upstream, m.type \notin {"Initialize", "Reconnect"}, SendStep(m),
           ~IsEvent(m), UNCHANGED <<event_no, unacked>>
    PROVE  NoGap' /\ Kept'
<1>1. /\ ServerLog' = ServerLog
      /\ \A c \in Conn : Serves(c)' = Serves(c) /\ (Sending(c)' => Sending(c))
  BY SendHandshakes
<1>2. Sends(m)
  BY DEF SendStep
<1>3. ASSUME NEW c \in Conn, NEW i \in DOMAIN proxy[c]', IsEvent(proxy[c]'[i])
      PROVE  i \in DOMAIN proxy[c] /\ proxy[c]'[i] = proxy[c][i]
  BY <1>2, <1>3, SentChannel
<1>4. ASSUME NEW c \in Conn, NEW i \in DOMAIN proxy[c]
      PROVE  i \in DOMAIN proxy[c]' /\ proxy[c]'[i] = proxy[c][i]
  BY <1>2, SentChannel
<1>5. ASSUME NEW c \in Conn, NEW i \in DOMAIN proxy[c], NEW j \in 1..(i - 1)
      PROVE  j \in DOMAIN proxy[c]
  BY <1>2, SentChannel
<1>6. ASSUME NEW c \in Conn, Serves(c), NEW i \in DOMAIN proxy[c]', IsEvent(proxy[c]'[i])
      PROVE  \/ proxy[c]'[i].no <= Len(ServerLog)
             \/ \E j \in 1..(i - 1) : proxy[c]'[j] = Event(proxy[c]'[i].no - 1)
  <2>1. i \in DOMAIN proxy[c] /\ proxy[c]'[i] = proxy[c][i]
    BY <1>3, <1>6
  <2>2. CASE proxy[c][i].no <= Len(ServerLog)
    BY <2>1, <2>2
  <2>3. CASE \E j \in 1..(i - 1) : proxy[c][j] = Event(proxy[c][i].no - 1)
    <3>1. PICK j \in 1..(i - 1) : proxy[c][j] = Event(proxy[c][i].no - 1)
      BY <2>3
    <3>2. proxy[c]'[j] = proxy[c][j]
      BY <1>4, <1>5, <2>1
    <3>3. QED BY <2>1, <3>1, <3>2
  <2>4. QED BY <1>6, <2>1, <2>2, <2>3 DEF SInv, NoGap
<1>7. ASSUME NEW c \in Conn, Serves(c), Sending(c)
      PROVE  \/ event_no <= Len(ServerLog)
             \/ \E j \in DOMAIN proxy[c]' : proxy[c]'[j] = Event(event_no - 1)
  BY <1>4, <1>7 DEF SInv, NoGap
<1>8. ASSUME NEW c \in Conn, NEW i \in DOMAIN proxy[c]', IsEvent(proxy[c]'[i])
      PROVE  proxy[c]'[i].no < event_no
  BY <1>3, <1>8 DEF SInv, NoGap
<1>9. NoGap'
  BY <1>1, <1>6, <1>7, <1>8 DEF SInv, NoGap
<1>10. QED BY <1>1, <1>9 DEF SInv, Kept

LEMMA SendNoPrompt ==
    ASSUME SInv, IInv', NEW m \in Upstream, m.type \notin {"Initialize", "Reconnect"}, SendStep(m),
           ~IsPrompt(m), prompt' = prompt
    PROVE  PromptSent'
<1>1. \A c \in Conn : Serves(c)' = Serves(c) /\ (Sending(c)' => Sending(c))
  BY SendHandshakes
<1>2. sessions[session_id]' = sessions[session_id] /\ Sends(m)
  BY DEF SendStep
<1>3. ASSUME NEW c \in Conn, NEW i \in DOMAIN proxy[c]', IsPrompt(proxy[c]'[i])
      PROVE  i \in DOMAIN proxy[c] /\ proxy[c]'[i] = proxy[c][i]
  BY <1>2, <1>3, SentChannel
<1>4. ASSUME NEW c \in Conn, NEW i \in DOMAIN proxy[c]
      PROVE  i \in DOMAIN proxy[c]' /\ proxy[c]'[i] = proxy[c][i]
  BY <1>2, SentChannel
<1>5. QED BY <1>1, <1>2, <1>3, <1>4 DEF SInv, PromptSent

LEMMA SendNoInput ==
    ASSUME SInv, IInv', NEW m \in Upstream, m.type \notin {"Initialize", "Reconnect"}, SendStep(m),
           ~IsInput(m), UNCHANGED <<next_buffer_seq_no, pending_input_updates>>
    PROVE  InputsSorted'
<1>1. /\ ServerInputs' = ServerInputs
      /\ \A c \in Conn : Serves(c)' = Serves(c)
  BY SendHandshakes
<1>2. Sends(m)
  BY DEF SendStep
<1>3. ASSUME NEW c \in Conn, NEW i \in DOMAIN proxy[c]', IsInput(proxy[c]'[i])
      PROVE  i \in DOMAIN proxy[c] /\ proxy[c]'[i] = proxy[c][i]
  BY <1>2, <1>3, SentChannel
<1>4. \A c \in Conn :
        /\ AllBefore(proxy[c]', next_buffer_seq_no)
        /\ Serves(c) => InOrder(proxy[c]') /\ AllEarlier(ServerInputs, proxy[c]')
        /\ stage = "Reconnecting" => AllEarlier(proxy[c]', pending_input_updates)
  BY <1>3 DEF SInv, InputsSorted, AllBefore, InOrder, AllEarlier
<1>5. stage' \in {stage, "Finished"} /\ session_id' = session_id
  BY DEF SendStep
<1>6. QED
  BY <1>1, <1>4, <1>5 DEF SInv, InputsSorted, AllBefore, InOrder, AllEarlier, Started

\* The session is ended from this side.
LEMMA EndSInv ==
    ASSUME SInv, IInv', SendNow(<<EndSession>>), CloseWithoutReconnection,
           WireUp, UNCHANGED <<down, serves, sessions>>, sock' = sock,
           UNCHANGED <<startupVars, session_id, inputVars, prompt, event_no, unacked>>
    PROVE  SInv'
<1>1. EndSession \in Upstream /\ EndSession.type = "EndSession"
  BY UpstreamTypes, OneKind
<1>2. Sends(EndSession)
  BY <1>1, SendNowSends DEF SInv, IInv
<1>3. wire' = wire
  BY NoNewWire
<1>4. SendStep(EndSession)
  BY <1>2, <1>3, CloseKeeps DEF SendStep, CloseWithoutReconnection, startupVars
<1>5. ~IsEvent(EndSession) /\ ~IsPrompt(EndSession) /\ ~IsInput(EndSession)
  BY <1>1 DEF IsEvent, IsPrompt, IsInput
<1>6. UNCHANGED <<next_buffer_seq_no, pending_input_updates>>
  BY DEF inputVars
<1>7. QED
  BY <1>1, <1>4, <1>5, <1>6, SendHandshakes, SendNoEvent, SendNoPrompt, SendNoInput DEF SInv

\* A new event follows the newest one in the channel.
LEMMA SendEventSInv ==
    ASSUME SInv, IInv', SendEvent, WireUp, UNCHANGED <<down, serves, sessions>>
    PROVE  SInv'
<1>1. /\ UNCHANGED <<alive, startupVars, session_id, inputVars, prompt, sock>>
      /\ \/ /\ event_no' = event_no + 1 /\ unacked' = unacked \cup {event_no}
            /\ SendNow(<<Event(event_no)>>)
            /\ UNCHANGED <<stage, startup_attempt, retry, txVars>>
         \/ /\ SendNow(<<EndSession>>) /\ CloseWithoutReconnection
            /\ UNCHANGED <<event_no, unacked>>
  BY DEF SendEvent
<1>2. CASE SendNow(<<EndSession>>) /\ CloseWithoutReconnection /\ UNCHANGED <<event_no, unacked>>
  BY <1>1, <1>2, EndSInv
<1>3. CASE /\ event_no' = event_no + 1 /\ unacked' = unacked \cup {event_no}
           /\ SendNow(<<Event(event_no)>>)
           /\ UNCHANGED <<stage, startup_attempt, retry, txVars>>
  <2>0. event_no \in EventNo /\ Event(event_no) \in Upstream
    <3>1. event_no \in Nat /\ event_no + 1 \in 0..MaxSessionSize
      BY <1>3 DEF SInv, IInv, TypeOK
    <3>2. event_no \in EventNo
      BY <3>1, SharerAssumption DEF SharerAssumption, EventNo
    <3>3. QED BY <3>2 DEF Upstream
  <2>1. PICK m \in Upstream : m = Event(event_no)
    BY <2>0
  <2>2. IsEvent(m) /\ m.no = event_no /\ ~IsPrompt(m) /\ ~IsInput(m) /\ event_no \in Nat
        /\ m.type \notin {"Initialize", "Reconnect"}
    BY <2>0, <2>1, OneKind DEF IsEvent, IsPrompt, IsInput, EventNo
  <2>4. Sends(m)
    BY <1>3, <2>1, SendNowSends DEF SInv, IInv
  <2>5. wire' = wire
    BY <1>1, NoNewWire
  <2>6. SendStep(m)
    BY <1>1, <1>3, <2>4, <2>5 DEF SendStep, startupVars, txVars
  <2>7. /\ SessionTypeOK' /\ Logs' /\ Phases' /\ Sockets' /\ Asking' /\ Answered' /\ Serving'
        /\ ServerLog' = ServerLog
        /\ \A c \in Conn : Serves(c)' = Serves(c) /\ (Sending(c)' => Sending(c))
    BY <2>1, <2>2, <2>6, SendHandshakes
  <2>8. PromptSent' /\ InputsSorted'
    BY <1>1, <2>1, <2>2, <2>6, SendNoPrompt, SendNoInput DEF inputVars
  <2>9. Len(ServerLog) \in Nat
    BY ServerSide DEF SInv, IInv
  <2>10. Kept'
    BY <1>3, <2>2, <2>7, <2>9 DEF SInv, Kept
  <2>11. NoGap'
    <3>1. Len(ServerLog) <= event_no'
      BY <1>3, <2>2, <2>9 DEF SInv, NoGap
    <3>2. ASSUME NEW c \in Conn, NEW i \in DOMAIN proxy[c]', IsEvent(proxy[c]'[i])
          PROVE  proxy[c]'[i].no < event_no'
      <4>1. CASE i \in DOMAIN proxy[c]
        <5>1. proxy[c]'[i] = proxy[c][i] /\ proxy[c][i] \in Upstream
          BY <2>1, <2>4, <4>1, SentChannel
        <5>2. proxy[c][i].no < event_no /\ proxy[c][i].no \in Int
          BY <3>2, <4>1, <5>1, UpstreamKinds DEF SInv, NoGap, EventNo
        <5>3. QED BY <1>3, <2>2, <5>1, <5>2
      <4>2. CASE proxy[c]'[i] = m
        BY <1>3, <2>2, <4>2
      <4>3. QED BY <2>1, <2>4, <4>1, <4>2, SentChannel
    <3>3. ASSUME NEW c \in Conn, Serves(c), NEW i \in DOMAIN proxy[c]', IsEvent(proxy[c]'[i])
          PROVE  \/ proxy[c]'[i].no <= Len(ServerLog)
                 \/ \E j \in 1..(i - 1) : proxy[c]'[j] = Event(proxy[c]'[i].no - 1)
      <4>1. CASE i \in DOMAIN proxy[c]
        <5>1. proxy[c]'[i] = proxy[c][i]
          BY <2>1, <2>4, <4>1, SentChannel
        <5>2. CASE proxy[c][i].no <= Len(ServerLog)
          BY <5>1, <5>2
        <5>3. CASE \E j \in 1..(i - 1) : proxy[c][j] = Event(proxy[c][i].no - 1)
          <6>1. PICK j \in 1..(i - 1) : proxy[c][j] = Event(proxy[c][i].no - 1)
            BY <5>3
          <6>2. j \in DOMAIN proxy[c]
            BY <2>1, <2>4, <4>1, SentChannel
          <6>3. proxy[c]'[j] = proxy[c][j]
            BY <2>1, <2>4, <6>2, SentChannel
          <6>4. QED BY <5>1, <6>1, <6>3
        <5>4. QED BY <3>3, <4>1, <5>1, <5>2, <5>3 DEF SInv, NoGap
      <4>2. CASE Sending(c) /\ i = Len(proxy[c]) + 1 /\ proxy[c]'[i] = m
        <5>1. CASE event_no <= Len(ServerLog)
          BY <2>2, <4>2, <5>1
        <5>2. CASE \E j \in DOMAIN proxy[c] : proxy[c][j] = Event(event_no - 1)
          <6>1. PICK j \in DOMAIN proxy[c] : proxy[c][j] = Event(event_no - 1)
            BY <5>2
          <6>2. j \in 1..(i - 1) /\ proxy[c]'[j] = proxy[c][j]
            BY <2>1, <2>4, <4>2, SentChannel
          <6>3. QED BY <2>2, <4>2, <6>1, <6>2
        <5>3. QED BY <3>3, <4>2, <5>1, <5>2 DEF SInv, NoGap
      <4>3. QED BY <2>1, <2>4, <4>1, <4>2, SentChannel
    <3>4. ASSUME NEW c \in Conn, Sending(c)
          PROVE  \E j \in DOMAIN proxy[c]' : proxy[c]'[j] = Event(event_no' - 1)
      <4>1. event_no' - 1 = event_no
        BY <1>3, <2>2
      <4>2. QED BY <2>1, <2>4, <3>4, <4>1, SentChannel
    <3>5. QED BY <2>7, <3>1, <3>2, <3>3, <3>4 DEF NoGap
  <2>12. QED BY <2>7, <2>8, <2>10, <2>11 DEF SInv
<1>4. QED BY <1>1, <1>2, <1>3

LEMMA ChangePromptSInv ==
    ASSUME SInv, IInv', ChangePrompt, WireUp, UNCHANGED <<down, serves, sessions>>
    PROVE  SInv'
<1>1. /\ SendNow(<<Prompt(prompt')>>) /\ prompt' \in 0..MaxPrompts
      /\ UNCHANGED <<alive, stage, startupVars, retry, session_id, eventVars, unacked, inputVars,
                     txVars, sock>>
  BY DEF ChangePrompt, IInv, TypeOK
<1>0. PICK m \in Upstream : m = Prompt(prompt')
  BY <1>1, UpstreamTypes
<1>2. m.type = "UpdateActivePrompt"
  BY <1>0, <1>1, OneKind
<1>3. Sends(m)
  BY <1>0, <1>1, SendNowSends DEF SInv, IInv
<1>4. wire' = wire
  BY <1>1, NoNewWire
<1>5. SendStep(m)
  BY <1>1, <1>3, <1>4 DEF SendStep, startupVars, txVars
<1>6. ~IsEvent(m) /\ ~IsInput(m) /\ IsPrompt(m) /\ m.type \notin {"Initialize", "Reconnect"}
  BY <1>2 DEF IsEvent, IsInput, IsPrompt
<1>7. UNCHANGED <<next_buffer_seq_no, pending_input_updates, event_no>>
  BY <1>1 DEF inputVars, eventVars
<1>8. /\ SessionTypeOK' /\ Logs' /\ Phases' /\ Sockets' /\ Asking' /\ Answered' /\ Serving'
      /\ \A c \in Conn : Serves(c)' = Serves(c) /\ (Sending(c)' => Sending(c))
  BY <1>2, <1>5, <1>6, SendHandshakes
<1>9. NoGap' /\ Kept' /\ InputsSorted'
  BY <1>1, <1>2, <1>5, <1>6, <1>7, SendNoEvent, SendNoInput
<1>10. PromptSent'
  <2>1. ASSUME NEW c \in Conn, Sending(c)
        PROVE  \E i \in DOMAIN proxy[c]' :
                 /\ proxy[c]'[i] = Prompt(prompt')
                 /\ \A j \in DOMAIN proxy[c]' : j > i => ~IsPrompt(proxy[c]'[j])
    <3>1. /\ Len(proxy[c]) + 1 \in DOMAIN proxy[c]' /\ proxy[c]'[Len(proxy[c]) + 1] = m
          /\ Len(proxy[c]) \in Nat
          /\ DOMAIN proxy[c]' = 1..Len(proxy[c]) \/ DOMAIN proxy[c]' = 1..(Len(proxy[c]) + 1)
      BY <1>2, <1>3, <2>1, SentChannel
    <3>2. \A j \in DOMAIN proxy[c]' : ~(j > Len(proxy[c]) + 1)
      BY <3>1
    <3>3. QED BY <1>0, <3>1, <3>2
  <2>2. QED BY <1>8, <2>1 DEF PromptSent
<1>11. QED BY <1>8, <1>9, <1>10 DEF SInv

\* The next input comes after everything before next_buffer_seq_no.
LEMMA InputNumbers ==
    ASSUME NEW x, IsInput(x), x \in Upstream \/ x \in InputMessage
    PROVE  x.block \in Int /\ x.op \in Int
BY DEF IsInput, Upstream, InputMessage, InputId, Event, Prompt, Input, Initialize, Resume, EndSession

LEMMA AllInputs == \A x \in InputMessage : IsInput(x) /\ x \in Upstream
BY OneKind DEF InputMessage, Upstream, IsInput

LEMMA NextInput ==
    ASSUME NEW nb \in InputId, NEW b \in 0..MaxBlocks, b >= nb.block, NEW op \in 0..MaxOps,
           op = (IF b # nb.block THEN 0 ELSE nb.op), op + 1 \in 0..MaxOps,
           NEW m \in Upstream, m = Input([block |-> b, op |-> op]),
           NEW nb2, nb2 = [block |-> b, op |-> op + 1]
    PROVE  /\ IsInput(m) /\ Earlier(m, nb2) /\ m \in InputMessage
           /\ \A x : IsInput(x) /\ (x \in Upstream \/ x \in InputMessage) /\ Earlier(x, nb) =>
                Earlier(x, m) /\ Earlier(x, nb2)
<1>1. /\ nb.block \in 0..MaxBlocks /\ nb.op \in 0..MaxOps
      /\ b \in Int /\ op \in Int /\ nb.block \in Int /\ nb.op \in Int
  BY DEF InputId
<1>2. [block |-> b, op |-> op] \in InputId
  BY DEF InputId
<1>3. IsInput(m) /\ m.block = b /\ m.op = op /\ m \in InputMessage
  BY <1>2, OneKind DEF IsInput, InputMessage
<1>4. ASSUME NEW x, IsInput(x), x \in Upstream \/ x \in InputMessage, Earlier(x, nb)
      PROVE  Earlier(x, m) /\ Earlier(x, [block |-> b, op |-> op + 1])
  <2>1. x.block \in Int /\ x.op \in Int
    BY <1>4, InputNumbers
  <2>2. QED BY <1>1, <1>3, <1>4, <2>1 DEF Earlier
<1>5. Earlier(m, [block |-> b, op |-> op + 1])
  BY <1>1, <1>3 DEF Earlier
<1>6. QED BY <1>3, <1>4, <1>5

LEMMA SendInputSInv ==
    ASSUME SInv, IInv', NEW b \in 0..MaxBlocks, SendInputUpdate(b),
           WireUp, UNCHANGED <<down, serves, sessions>>
    PROVE  SInv'
<1>0. PICK op \in 0..MaxOps : op = (IF b # next_buffer_seq_no.block THEN 0 ELSE next_buffer_seq_no.op)
  BY SharerAssumption DEF SharerAssumption, SInv, IInv, TypeOK, InputId
<1>1. /\ session_id # None /\ b >= next_buffer_seq_no.block /\ op < MaxOps
      /\ next_buffer_seq_no' = [block |-> b, op |-> op + 1]
      /\ pending_input_updates' = IF Started THEN HeldInput(b)
                                  ELSE Append(HeldInput(b), Input([block |-> b, op |-> op]))
      /\ SendNow(<<Input([block |-> b, op |-> op])>>)
      /\ UNCHANGED <<alive, stage, startupVars, retry, session_id, eventVars, unacked, prompt,
                     txVars, sock>>
  BY <1>0 DEF SendInputUpdate
<1>2. op + 1 \in 0..MaxOps /\ next_buffer_seq_no \in InputId
  BY <1>1, SharerAssumption DEF SharerAssumption, SInv, IInv, TypeOK
<1>3. PICK m \in Upstream : m = Input([block |-> b, op |-> op])
  <2>1. [block |-> b, op |-> op] \in InputId
    BY DEF InputId
  <2>2. QED BY <2>1, UpstreamTypes
<1>4. /\ IsInput(m) /\ Earlier(m, next_buffer_seq_no') /\ m \in InputMessage
      /\ \A x : IsInput(x) /\ (x \in Upstream \/ x \in InputMessage) /\ Earlier(x, next_buffer_seq_no) =>
           Earlier(x, m) /\ Earlier(x, next_buffer_seq_no')
  <2>1. PICK nb \in InputId : nb = next_buffer_seq_no
    BY <1>2
  <2>2. PICK nb2 : nb2 = next_buffer_seq_no'
    OBVIOUS
  <2>3. b >= nb.block /\ nb2 = [block |-> b, op |-> op + 1]
    BY <1>1, <2>1, <2>2
  <2>4. op = (IF b # nb.block THEN 0 ELSE nb.op)
    BY <1>0, <2>1
  <2>5. /\ IsInput(m) /\ Earlier(m, nb2) /\ m \in InputMessage
        /\ \A x : IsInput(x) /\ (x \in Upstream \/ x \in InputMessage) /\ Earlier(x, nb) =>
             Earlier(x, m) /\ Earlier(x, nb2)
    BY <1>2, <1>3, <2>3, <2>4, NextInput
  <2>6. QED BY <2>1, <2>2, <2>5
<1>5. ~IsEvent(m) /\ ~IsPrompt(m) /\ m.type \notin {"Initialize", "Reconnect"}
  BY <1>4 DEF IsEvent, IsPrompt, IsInput
<1>6. Sends(m)
  BY <1>1, <1>3, SendNowSends DEF SInv, IInv
<1>7. wire' = wire
  BY <1>1, NoNewWire
<1>8. SendStep(m)
  BY <1>1, <1>6, <1>7 DEF SendStep, startupVars, txVars
<1>9. UNCHANGED <<event_no, unacked, prompt>>
  BY <1>1 DEF eventVars
<1>10. /\ SessionTypeOK' /\ Logs' /\ Phases' /\ Sockets' /\ Asking' /\ Answered' /\ Serving'
       /\ ServerInputs' = ServerInputs
       /\ \A c \in Conn : Serves(c)' = Serves(c) /\ (Sending(c)' => Sending(c))
  BY <1>5, <1>8, SendHandshakes
<1>11. NoGap' /\ Kept' /\ PromptSent'
  BY <1>5, <1>8, <1>9, SendNoEvent, SendNoPrompt
<1>12. /\ ServerInputs \in Seq(InputMessage)
       /\ \A i \in DOMAIN ServerInputs : ServerInputs[i] \in InputMessage /\ IsInput(ServerInputs[i])
       /\ \A c \in Conn : \A i \in DOMAIN proxy[c] : proxy[c][i] \in Upstream
  <2>1. ServerInputs \in Seq(InputMessage)
    BY ServerSide DEF SInv, IInv
  <2>2. \A c \in Conn : proxy[c] \in Seq(Upstream)
    BY DEF SInv, IInv, TypeOK
  <2>3. \A i \in DOMAIN ServerInputs : ServerInputs[i] \in InputMessage
    BY <2>1
  <2>4. \A c \in Conn : \A i \in DOMAIN proxy[c] : proxy[c][i] \in Upstream
    BY <2>2
  <2>5. QED BY <2>1, <2>3, <2>4, AllInputs
<1>13. /\ pending_input_updates \in Seq(InputMessage)
       /\ HeldInput(b) \in {<<>>, pending_input_updates} /\ HeldInput(b) \in Seq(InputMessage)
  BY DEF SInv, IInv, TypeOK, HeldInput, InputMessage
<1>14. InputsSorted'
  <2>1. AllBefore(ServerInputs, next_buffer_seq_no')
    BY <1>4, <1>12 DEF SInv, InputsSorted, AllBefore
  <2>2. ASSUME NEW c \in Conn
        PROVE  /\ AllBefore(proxy[c]', next_buffer_seq_no')
               /\ Serves(c) => InOrder(proxy[c]') /\ AllEarlier(ServerInputs, proxy[c]')
    <3>1. \A i \in DOMAIN proxy[c]' :
             \/ i \in DOMAIN proxy[c] /\ proxy[c]'[i] = proxy[c][i]
             \/ i = Len(proxy[c]) + 1 /\ proxy[c]'[i] = m
      BY <1>6, SentChannel
    <3>2. DOMAIN proxy[c] = 1..Len(proxy[c]) /\ Len(proxy[c]) \in Nat
      BY <1>6, SentChannel
    <3>3. AllBefore(proxy[c], next_buffer_seq_no)
      BY DEF SInv, InputsSorted
    <3>4. AllBefore(proxy[c]', next_buffer_seq_no')
      BY <1>4, <1>12, <3>1, <3>3 DEF AllBefore
    <3>5. ASSUME Serves(c) PROVE InOrder(proxy[c]')
      <4>1. InOrder(proxy[c])
        BY <3>5 DEF SInv, InputsSorted
      <4>2. QED BY <1>4, <1>12, <3>1, <3>2, <3>3, <4>1 DEF AllBefore, InOrder
    <3>6. ASSUME Serves(c) PROVE AllEarlier(ServerInputs, proxy[c]')
      <4>1. AllEarlier(ServerInputs, proxy[c]) /\ AllBefore(ServerInputs, next_buffer_seq_no)
        BY <3>6 DEF SInv, InputsSorted
      <4>2. QED BY <1>4, <1>12, <3>1, <4>1 DEF AllBefore, AllEarlier
    <3>7. QED BY <3>4, <3>5, <3>6
  <2>3. /\ Len(HeldInput(b)) \in Nat /\ DOMAIN HeldInput(b) = 1..Len(HeldInput(b))
        /\ \A i \in DOMAIN HeldInput(b) : HeldInput(b)[i] \in InputMessage
        /\ AllBefore(HeldInput(b), next_buffer_seq_no) /\ InOrder(HeldInput(b))
        /\ stage = "Reconnecting" =>
             /\ AllEarlier(ServerInputs, HeldInput(b))
             /\ \A c \in Conn : AllEarlier(proxy[c], HeldInput(b))
    BY <1>13 DEF SInv, InputsSorted, AllBefore, InOrder, AllEarlier
  <2>4. Started' => pending_input_updates' = <<>>
    BY <1>1, <1>13 DEF SInv, InputsSorted, Started
  <2>5. \A i \in DOMAIN pending_input_updates' :
           \/ i \in DOMAIN HeldInput(b) /\ pending_input_updates'[i] = HeldInput(b)[i]
           \/ i = Len(HeldInput(b)) + 1 /\ pending_input_updates'[i] = m
    BY <1>1, <1>3, <1>4, <1>13, AppendAt
  <2>6. AllBefore(pending_input_updates', next_buffer_seq_no')
    BY <1>4, <2>3, <2>5, AllInputs DEF AllBefore
  <2>7. InOrder(pending_input_updates')
    BY <1>4, <2>3, <2>5, AllInputs DEF AllBefore, InOrder
  <2>8. ASSUME stage = "Reconnecting"
        PROVE  /\ AllEarlier(ServerInputs, pending_input_updates')
               /\ \A c \in Conn : AllEarlier(proxy[c]', pending_input_updates')
    <3>1. \A c \in Conn : proxy[c]' = proxy[c]
      BY <1>6, <2>8 DEF Sends, Sending, Started
    <3>2. AllEarlier(ServerInputs, pending_input_updates')
      BY <1>4, <1>12, <2>3, <2>5, <2>8, AllInputs DEF SInv, InputsSorted, AllBefore, AllEarlier
    <3>3. \A c \in Conn : AllEarlier(proxy[c], pending_input_updates')
      BY <1>4, <1>12, <2>3, <2>5, <2>8, AllInputs DEF SInv, InputsSorted, AllBefore, AllEarlier
    <3>4. QED BY <3>1, <3>2, <3>3
  <2>9. QED
    BY <1>1, <1>10, <2>1, <2>2, <2>4, <2>6, <2>7, <2>8 DEF SInv, InputsSorted
<1>15. QED BY <1>10, <1>11, <1>14 DEF SInv

-----------------------------------------------------------------------------
\* The session starts, or goes on: everything the server has not got is sent.

LEMMA StoredIs ==
    ASSUME TypeOK, NEW start \in Nat, start <= event_no, start..(event_no - 1) \subseteq unacked
    PROVE  /\ Stored(start) \in Seq(Upstream) /\ Len(Stored(start)) = event_no - start
           /\ \A i \in 1..(event_no - start) : Stored(start)[i] = Event(start + i - 1)
<1>1. /\ event_no \in start..MaxSessionSize /\ event_no \notin unacked /\ event_no \in Nat
      /\ \A n \in start..MaxSessionSize :
            n \notin unacked /\ start..(n - 1) \subseteq unacked => n = event_no
  BY SharerAssumption DEF SharerAssumption, TypeOK
<1>2. FirstMissing(start) = event_no
  BY <1>1 DEF FirstMissing
<1>3. Stored(start) = [i \in 1..(event_no - start) |-> Event(start + i - 1)]
  BY <1>2 DEF Stored
<1>4. ASSUME NEW i \in 1..(event_no - start) PROVE Event(start + i - 1) \in Upstream
  <2>1. start + i - 1 \in EventNo
    BY <1>1, SharerAssumption DEF SharerAssumption, EventNo
  <2>2. QED BY <2>1 DEF Upstream
<1>5. event_no - start \in Nat
  BY <1>1
<1>6. QED BY <1>3, <1>4, <1>5

\* What the channel holds then: the events, the buffered inputs, the prompt.
Flushed(q, evs, ins, p) ==
    /\ q \in Seq(Upstream) /\ DOMAIN q = 1..(Len(evs) + Len(ins) + 1)
    /\ Len(evs) \in Nat /\ Len(ins) \in Nat
    /\ \A i \in 1..Len(evs) : q[i] = evs[i]
    /\ \A i \in 1..Len(ins) : q[Len(evs) + i] = ins[i]
    /\ q[Len(evs) + Len(ins) + 1] = p

LEMMA FlushOrder ==
    ASSUME NEW evs \in Seq(Upstream), NEW ins \in Seq(InputMessage), NEW p \in Upstream
    PROVE  Flushed(evs \o ins \o <<p>>, evs, ins, p)
<1>1. ins \in Seq(Upstream)
  <2>1. InputMessage \subseteq Upstream
    BY AllInputs
  <2>2. QED BY <2>1
<1>2. evs \o ins \in Seq(Upstream) /\ Len(evs \o ins) = Len(evs) + Len(ins)
  BY <1>1
<1>3. /\ \A i \in 1..Len(evs) : (evs \o ins)[i] = evs[i]
      /\ \A i \in 1..Len(ins) : (evs \o ins)[Len(evs) + i] = ins[i]
  BY <1>1
<1> DEFINE r == evs \o ins
           q == r \o <<p>>
<1>4. q = Append(r, p)
  BY <1>2
<1> HIDE DEF r, q
<1>5. r \in Seq(Upstream) /\ Len(r) = Len(evs) + Len(ins)
  BY <1>2 DEF r
<1>6. /\ q \in Seq(Upstream) /\ DOMAIN q = 1..(Len(r) + 1)
      /\ \A i \in 1..Len(r) : q[i] = r[i]
      /\ q[Len(r) + 1] = p
  BY <1>4, <1>5, AppendIs
<1>7. Len(evs) \in Nat /\ Len(ins) \in Nat
  OBVIOUS
<1>8. \A i \in 1..Len(evs) : i \in 1..Len(r)
  BY <1>5, <1>7
<1>9. \A i \in 1..Len(ins) : Len(evs) + i \in 1..Len(r)
  BY <1>5, <1>7
<1>10. Flushed(q, evs, ins, p)
  BY <1>3, <1>5, <1>6, <1>7, <1>8, <1>9 DEF r, Flushed
<1>11. QED BY <1>10 DEF q, r

\* Connection c becomes the one the sharer sends on, with q in its channel;
\* `ins' are the inputs that were buffered.
Begins(c, ins, q) ==
    /\ c = ws_proxy_tx /\ sock[c] = "open" /\ proxy[c] = <<>> /\ retry.phase = "idle"
    /\ \/ session_id' = session_id /\ session_id # None /\ Resuming(c) /\ stage = "Reconnecting"
       \/ session_id' = c /\ session_id = None /\ stage = "BeforeStarted" /\ c \in Attempt
    /\ down[c] # <<>> /\ down' = [down EXCEPT ![c] = Tail(@)]
    /\ UNCHANGED <<current_attempt, retry, event_no, unacked, next_buffer_seq_no, prompt, sock,
                   ws_proxy_tx, tx_open, wire, serves, sessions>>
    /\ dialing' \subseteq dialing
    /\ stage' = "StartedSuccessfully" /\ pending_input_updates' = <<>>
    /\ proxy' = Queued(q)
    /\ \/ ins = <<>>
       \/ ins = pending_input_updates /\ stage = "Reconnecting"

LEMMA BeginsHandshakes ==
    ASSUME SInv, IInv', NEW c \in Conn, NEW ins, NEW q \in Seq(Upstream), Begins(c, ins, q),
           \A i \in DOMAIN q : q[i].type \notin {"Initialize", "Reconnect"}
    PROVE  /\ SessionTypeOK' /\ Logs' /\ Phases' /\ Sockets' /\ Asking' /\ Answered' /\ Serving'
           /\ ServerLog' = ServerLog /\ ServerInputs' = ServerInputs
           /\ proxy[c]' \in {<<>>, q} /\ (tx_open => proxy[c]' = q)
           /\ \A d \in Conn : d # c => proxy[d]' = proxy[d]
           /\ \A d \in Conn : /\ Serves(d) => Serves(d)'
                              /\ Serves(d)' => d = c \/ Serves(d)
                              /\ Sending(d)' => d = c
<1> USE DEF Begins
<1>0. /\ session_id' # None /\ session_id' \in Attempt /\ c # None
      /\ c \in Attempt => c = session_id'
      /\ \A d \in Conn : d # session_id' => d # session_id
  BY Attempts DEF SInv, IInv, TypeOK, Resuming
<1>1. ServerLog' = ServerLog /\ ServerInputs' = ServerInputs
  BY DEF SInv, Logs, ServerLog, ServerInputs
<1>2. /\ proxy[c]' \in {<<>>, q} /\ (tx_open => proxy[c]' = q)
      /\ \A d \in Conn : d # c => proxy[d]' = proxy[d]
  <2>1. <<>> \o q = q
    OBVIOUS
  <2>2. QED BY <2>1 DEF Queued, SInv, IInv, TypeOK
<1>3. SessionTypeOK' /\ DownShorter
  BY HeadGoes
<1>4. Logs'
  <2>1. \A s \in Attempt : s # session_id' => s # session_id
    BY <1>0, Attempts
  <2>2. QED BY <2>1 DEF SInv, Logs
<1>5. Phases'
  BY <1>0 DEF SInv, Phases, Started
<1>6. wire[c] # "none"
  BY DEF SInv, Sockets
<1>7. Sockets'
  <2>1. \A d \in Conn : wire[d] = "none" => d # c
    BY <1>6
  <2>2. \A d \in Conn : d # c => down[d]' = down[d]
    BY DEF SInv, SessionTypeOK
  <2>3. QED BY <1>2, <2>1, <2>2 DEF SInv, Sockets
<1>8. \A d \in Conn : d # c => ~Resuming(d)
  BY DEF Resuming
<1>9. Asking'
  <2>1. \A i \in DOMAIN proxy[c]' : proxy[c]'[i].type \notin {"Initialize", "Reconnect"}
    BY <1>2
  <2>2. \A d \in Conn : d # c => down[d]' = down[d]
    BY DEF SInv, SessionTypeOK
  <2>3. ASSUME NEW d \in Conn, NEW i \in DOMAIN proxy[d]',
               proxy[d]'[i].type \in {"Initialize", "Reconnect"}
        PROVE  /\ proxy[d]'[i].type # "Reconnect"
               /\ d \in Attempt /\ d # session_id'
               /\ proxy[d]' = <<Initialize>> /\ down[d]' = <<>> /\ serves[d] = None
    <3>1. d # c
      BY <2>1, <2>3
    <3>2. proxy[d]' = proxy[d] /\ down[d]' = down[d] /\ ~Resuming(d)
      BY <1>2, <1>8, <2>2, <3>1
    <3>3. d # session_id \/ d = session_id
      OBVIOUS
    <3>4. /\ proxy[d][i].type = "Initialize"
          /\ d \in Attempt /\ d # session_id
          /\ proxy[d] = <<Initialize>> /\ down[d] = <<>> /\ serves[d] = None
      BY <2>3, <3>2 DEF SInv, Asking
    <3>5. d # session_id'
      BY <3>1, <3>4
    <3>6. QED BY <3>2, <3>4, <3>5
  <2>4. QED BY <2>3 DEF Asking
<1>10. Answered'
  <2>1. ASSUME NEW d \in Conn, NEW i \in DOMAIN down[d]'
        PROVE  /\ i > 1 => down[d]'[i].type = "EventsProcessedAck"
               /\ down[d]'[i].type = "SessionInitialized" =>
                    /\ down[d]'[i].session = d /\ d \in Attempt /\ d # session_id'
                    /\ proxy[d]' = <<>>
               /\ down[d]'[i].type # "SessionReconnected"
               /\ down[d]'[i].type = "EventsProcessedAck" => down[d]'[i].no < Len(ServerLog)
    <3>1. CASE d = c
      <4>1. down[c] \in Seq(Downstream) /\ down[c]' = Tail(down[c])
        BY DEF SInv, SessionTypeOK
      <4>2. i + 1 \in DOMAIN down[c] /\ down[d]'[i] = down[c][i + 1] /\ i \in Nat /\ i + 1 > 1
        <5>1. i \in DOMAIN Tail(down[c]) /\ down[c] # <<>> /\ down[d]'[i] = Tail(down[c])[i]
          BY <3>1, <4>1
        <5>2. /\ i \in Nat /\ i + 1 > 1 /\ i + 1 \in DOMAIN down[c]
              /\ Tail(down[c])[i] = down[c][i + 1]
          BY <4>1, <5>1, TailAt
        <5>3. QED BY <5>1, <5>2
      <4>3. QED BY <3>1, <4>2 DEF SInv, Answered
    <3>2. CASE d # c
      <4>1. down[d]' = down[d] /\ proxy[d]' = proxy[d] /\ ~Resuming(d)
        BY <1>2, <1>8, <3>2 DEF SInv, SessionTypeOK
      <4>2. d # session_id => d # session_id'
        BY <3>2
      <4>3. QED BY <4>1, <4>2 DEF SInv, Answered
    <3>3. QED BY <3>1, <3>2
  <2>2. QED BY <1>0, <1>1, <2>1 DEF Answered
<1>11. \A d \in Conn : /\ Serves(d) => Serves(d)'
                       /\ Serves(d)' => d = c \/ Serves(d)
                       /\ Sending(d)' => d = c
  <2>1. ASSUME session_id = None, NEW d \in Conn, serves[d] = c PROVE d = c
    <3>1. stage = "BeforeStarted" /\ c # None
      BY <1>0, <2>1
    <3>2. d \in Reconnect => serves[d] = None
      BY <3>1 DEF SInv, Phases, Sockets
    <3>3. QED BY <2>1, <3>1, <3>2, Attempts DEF SInv, Serving
  <2>2. QED BY <2>1 DEF Serves, Sending
<1>12. Serving'
  <2>1. \A d \in Reconnect : serves[d] # None => serves[d] = session_id'
    <3>1. stage = "BeforeStarted" => \A d \in Reconnect : serves[d] = None
      BY Attempts DEF SInv, Phases, Sockets
    <3>2. QED BY <3>1 DEF SInv, Serving
  <2>2. \A a \in Attempt : a # session_id' => proxy[a]' = proxy[a] /\ a # session_id
    BY <1>0, <1>2, Attempts
  <2>3. \A d, e \in Conn : Serves(d)' /\ Serves(e)' => d = e
    <3>1. CASE session_id = None
      BY <1>11, <3>1 DEF Serves
    <3>2. CASE session_id # None
      <4>1. \A d \in Conn : Serves(d)' => Serves(d)
        BY <3>2 DEF Serves
      <4>2. QED BY <4>1 DEF SInv, Serving
    <3>3. QED BY <3>1, <3>2
  <2>4. QED BY <2>1, <2>2, <2>3 DEF SInv, Serving
<1>13. QED
  BY <1>1, <1>2, <1>3, <1>4, <1>5, <1>7, <1>9, <1>10, <1>11, <1>12

LEMMA BothEarlier == \A a, b \in Int : \A e : e = a + b - 1 => a + (b - 1) - 1 = e - 1
OBVIOUS

LEMMA BelowEnd == \A a, m \in Int : \A k \in 1..(m - a) : a + k - 1 < m
OBVIOUS

LEMMA BeginsSInv ==
    ASSUME SInv, IInv', NEW c \in Conn, NEW ins \in Seq(InputMessage), NEW evs \in Seq(Upstream),
           NEW start \in Nat, start = Len(ServerLog), NEW n \in Nat, n = event_no,
           Len(evs) = n - start, \A i \in 1..(n - start) : evs[i] = Event(start + i - 1),
           NEW p \in Upstream, p = Prompt(prompt),
           NEW q, Flushed(q, evs, ins, p), Begins(c, ins, q)
    PROVE  SInv'
<1> DEFINE E == Len(evs)
           I == Len(ins)
<1>1. /\ q \in Seq(Upstream) /\ DOMAIN q = 1..(E + I + 1) /\ E \in Nat /\ I \in Nat
      /\ \A i \in 1..E : q[i] = evs[i]
      /\ \A i \in 1..I : q[E + i] = ins[i]
      /\ q[E + I + 1] = p
  BY DEF Flushed
<1>2. IsPrompt(p)
  BY OneKind DEF SInv, IInv, TypeOK, IsPrompt
<1>3. \A i \in 1..E : IsEvent(q[i]) /\ q[i] = Event(start + i - 1) /\ q[i].no = start + i - 1
  <2>1. E = n - start
    OBVIOUS
  <2>2. \A i \in 1..E : q[i] = Event(start + i - 1)
    BY <1>1, <2>1
  <2>3. \A x : Event(x).type = "OrderedTerminalEvent" /\ Event(x).no = x
    BY DEF Event
  <2>4. QED BY <2>2, <2>3 DEF IsEvent
<1>4. \A i \in DOMAIN q : i > E /\ i <= E + I => i - E \in DOMAIN ins /\ q[i] = ins[i - E] /\ IsInput(q[i])
  <2>1. DOMAIN ins = 1..I /\ \A k \in 1..I : IsInput(ins[k])
    BY AllInputs
  <2>2. SUFFICES ASSUME NEW i \in DOMAIN q, i > E, i <= E + I
                 PROVE  i - E \in DOMAIN ins /\ q[i] = ins[i - E] /\ IsInput(q[i])
    OBVIOUS
  <2>3. i - E \in 1..I /\ E + (i - E) = i
    BY <1>1, <2>2
  <2>4. QED BY <1>1, <2>1, <2>3
<1> HIDE DEF E, I
<1>5. \A i \in DOMAIN q : i \in 1..E \/ (i > E /\ i <= E + I) \/ i = E + I + 1
   <2>1. \A i \in DOMAIN q : i \in 1..(E + I + 1)
    BY <1>1
  <2>2. E \in Nat /\ I \in Nat
    BY <1>1
  <2>3. \A i \in 1..(E + I + 1) : i \in 1..E \/ (i > E /\ i <= E + I) \/ i = E + I + 1
    BY <2>2
  <2>4. QED BY <2>1, <2>3
<1>15. \A i \in DOMAIN q : /\ i \in 1..E => ~(i > E) /\ i # E + I + 1
                           /\ i > E /\ i <= E + I => i # E + I + 1
                           /\ i = E + I + 1 => ~(i <= E + I)
  <2>1. \A i \in DOMAIN q : i \in Int
    BY <1>1
  <2>2. \A i \in Int : /\ i \in 1..E => ~(i > E) /\ i # E + I + 1
                       /\ i > E /\ i <= E + I => i # E + I + 1
                       /\ i = E + I + 1 => ~(i <= E + I)
    <3>1. E \in Nat /\ I \in Nat
      BY <1>1
    <3>2. QED BY <3>1
  <2>3. QED BY <2>1, <2>2
<1>6. \A i \in DOMAIN q : /\ IsEvent(q[i]) <=> i \in 1..E
                          /\ IsInput(q[i]) <=> i > E /\ i <= E + I
                          /\ IsPrompt(q[i]) <=> i = E + I + 1
  <2>1. \A m : ~(IsEvent(m) /\ IsInput(m)) /\ ~(IsEvent(m) /\ IsPrompt(m)) /\ ~(IsInput(m) /\ IsPrompt(m))
    BY DEF IsEvent, IsInput, IsPrompt
  <2>2. \A i \in DOMAIN q : /\ i \in 1..E => IsEvent(q[i])
                            /\ i > E /\ i <= E + I => IsInput(q[i])
                            /\ i = E + I + 1 => IsPrompt(q[i])
    BY <1>1, <1>2, <1>3, <1>4
  <2>3. QED BY <1>5, <1>15, <2>1, <2>2
<1>7. \A i \in DOMAIN q : q[i].type \notin {"Initialize", "Reconnect"}
  BY <1>5, <1>6, <1>1, <1>2, <1>3, <1>4 DEF IsEvent, IsInput, IsPrompt
<1>8. /\ SessionTypeOK' /\ Logs' /\ Phases' /\ Sockets' /\ Asking' /\ Answered' /\ Serving'
      /\ ServerLog' = ServerLog /\ ServerInputs' = ServerInputs
      /\ proxy[c]' \in {<<>>, q} /\ (tx_open => proxy[c]' = q)
      /\ \A d \in Conn : d # c => proxy[d]' = proxy[d]
      /\ \A d \in Conn : /\ Serves(d) => Serves(d)'
                         /\ Serves(d)' => d = c \/ Serves(d)
                         /\ Sending(d)' => d = c
  BY <1>1, <1>7, BeginsHandshakes
<1>9. /\ event_no' = n /\ unacked' = unacked /\ prompt' = prompt /\ sessions' = sessions
      /\ next_buffer_seq_no' = next_buffer_seq_no /\ Started' /\ pending_input_updates' = <<>>
      /\ \A d \in Conn : Sending(d)' => tx_open
  BY DEF Begins, Sending, Started
<1>10. Kept'
  BY <1>8, <1>9 DEF SInv, Kept
<1>11. NoGap'
  <2>1. start <= n
    BY DEF SInv, NoGap
  <2>2. E = n - start
    BY DEF E
  <2>3. ASSUME NEW i \in DOMAIN q, IsEvent(q[i])
        PROVE  /\ q[i].no < n
               /\ q[i].no <= start \/ \E j \in 1..(i - 1) : q[j] = Event(q[i].no - 1)
    <3>1. i \in 1..E /\ q[i].no = start + i - 1
      BY <1>3, <1>6, <2>3
    <3>2. CASE i = 1
      BY <1>1, <2>2, <3>1, <3>2
    <3>3. CASE i # 1
      <4>1. i - 1 \in 1..(i - 1) /\ i - 1 \in 1..E
        BY <1>1, <3>1, <3>3
      <4>5. start + (i - 1) - 1 = q[i].no - 1
        <5>1. i \in Int /\ start \in Int /\ q[i].no = start + i - 1
          BY <3>1
        <5>2. QED BY <5>1, BothEarlier
      <4>2. q[i - 1] = Event(start + (i - 1) - 1)
        BY <1>3, <4>1
      <4>3. q[i].no < n
        <5>1. i \in 1..(n - start)
          BY <2>2, <3>1
        <5>2. start + i - 1 < n
          BY <5>1, BelowEnd
        <5>3. QED BY <3>1, <5>2
      <4>4. QED BY <4>1, <4>2, <4>3, <4>5
    <3>4. QED BY <3>2, <3>3
  <2>4. n <= start \/ \E j \in DOMAIN q : q[j] = Event(n - 1)
    <3>1. CASE n = start
      BY <3>1
    <3>2. CASE n # start
      <4>1. E \in 1..E /\ E \in DOMAIN q /\ start + E - 1 = n - 1
        BY <1>1, <2>1, <2>2, <3>2
      <4>2. QED BY <1>3, <4>1
    <3>3. QED BY <3>1, <3>2
  <2>5. \A d \in Conn : \A i \in DOMAIN proxy[d]' : IsEvent(proxy[d]'[i]) => proxy[d]'[i].no < n
    <3>1. SUFFICES ASSUME NEW d \in Conn, NEW i \in DOMAIN proxy[d]', IsEvent(proxy[d]'[i])
                   PROVE  proxy[d]'[i].no < n
      OBVIOUS
    <3>2. CASE d = c
      <4>1. proxy[d]' = q
        BY <1>8, <3>1, <3>2
      <4>2. QED BY <2>3, <3>1, <4>1
    <3>3. CASE d # c
      <4>1. proxy[d]' = proxy[d]
        BY <1>8, <3>3
      <4>2. QED BY <3>1, <4>1 DEF SInv, NoGap
    <3>4. QED BY <3>2, <3>3
  <2>6. ASSUME NEW d \in Conn, Serves(d)', NEW i \in DOMAIN proxy[d]', IsEvent(proxy[d]'[i])
        PROVE  \/ proxy[d]'[i].no <= start
               \/ \E j \in 1..(i - 1) : proxy[d]'[j] = Event(proxy[d]'[i].no - 1)
    <3>1. CASE d = c
      <4>1. proxy[d]' = q
        BY <1>8, <2>6, <3>1
      <4>2. QED BY <2>3, <2>6, <4>1
    <3>2. CASE d # c
      <4>1. Serves(d) /\ proxy[d]' = proxy[d]
        BY <1>8, <2>6, <3>2
      <4>2. QED BY <2>6, <4>1 DEF SInv, NoGap
    <3>3. QED BY <3>1, <3>2
  <2>7. ASSUME NEW d \in Conn, Sending(d)'
        PROVE  n <= start \/ \E j \in DOMAIN proxy[d]' : proxy[d]'[j] = Event(n - 1)
    BY <1>8, <1>9, <2>4, <2>7
  <2>8. QED BY <1>8, <1>9, <2>1, <2>5, <2>6, <2>7 DEF NoGap
<1>12. PromptSent'
  <2>1. ASSUME NEW d \in Conn, Sending(d)'
        PROVE  \E i \in DOMAIN proxy[d]' :
                 /\ proxy[d]'[i] = Prompt(prompt')
                 /\ \A j \in DOMAIN proxy[d]' : j > i => ~IsPrompt(proxy[d]'[j])
    <3>1. proxy[d]' = q
      BY <1>8, <1>9, <2>1
    <3>2. E + I + 1 \in DOMAIN q
      BY <1>1
    <3>3. \A j \in DOMAIN q : ~(j > E + I + 1)
      BY <1>1
    <3>4. QED BY <1>1, <1>9, <3>1, <3>2, <3>3
  <2>2. QED BY <2>1 DEF PromptSent
<1>13. InputsSorted'
  <2>1. /\ AllBefore(ins, next_buffer_seq_no) /\ InOrder(ins) /\ AllEarlier(ServerInputs, ins)
    <3>1. CASE ins = <<>>
      BY <3>1 DEF AllBefore, InOrder, AllEarlier
    <3>2. CASE ins = pending_input_updates /\ stage = "Reconnecting"
      BY <3>2 DEF SInv, InputsSorted
    <3>3. QED BY <3>1, <3>2 DEF Begins
  <2>2. \A i \in DOMAIN q : IsInput(q[i]) => i - E \in DOMAIN ins /\ q[i] = ins[i - E]
    BY <1>4, <1>6
  <2>3. \A i, j \in DOMAIN q : i < j => i - E < j - E
    BY <1>1
  <2>4. AllBefore(q, next_buffer_seq_no) /\ InOrder(q) /\ AllEarlier(ServerInputs, q)
    BY <2>1, <2>2, <2>3 DEF AllBefore, InOrder, AllEarlier
  <2>5. AllBefore(<<>>, next_buffer_seq_no) /\ InOrder(<<>>) /\ AllEarlier(ServerInputs, <<>>)
    BY DEF AllBefore, InOrder, AllEarlier
  <2>6. \A d \in Conn : /\ AllBefore(proxy[d]', next_buffer_seq_no)
                        /\ Serves(d)' => InOrder(proxy[d]') /\ AllEarlier(ServerInputs, proxy[d]')
    BY <1>8, <2>4, <2>5 DEF SInv, InputsSorted
  <2>7. stage' # "Reconnecting"
    BY DEF Begins
  <2>8. QED BY <1>8, <1>9, <2>5, <2>6, <2>7 DEF SInv, InputsSorted
<1>14. QED BY <1>8, <1>10, <1>11, <1>12, <1>13 DEF SInv

\* The channel's event numbers, for the two callbacks that fill it.
LEMMA StoredFromServer ==
    ASSUME SInv
    PROVE  /\ Stored(Len(ServerLog)) \in Seq(Upstream) /\ Len(ServerLog) \in Nat /\ event_no \in Nat
           /\ Len(Stored(Len(ServerLog))) = event_no - Len(ServerLog)
           /\ \A i \in 1..(event_no - Len(ServerLog)) :
                 Stored(Len(ServerLog))[i] = Event(Len(ServerLog) + i - 1)
           /\ Prompt(prompt) \in Upstream
<1>1. Len(ServerLog) \in Nat /\ event_no \in Nat /\ Prompt(prompt) \in Upstream
  BY ServerSide, UpstreamTypes DEF SInv, IInv, TypeOK
<1>2. PICK start \in Nat : start = Len(ServerLog)
  BY <1>1
<1>3. TypeOK /\ start <= event_no /\ start..(event_no - 1) \subseteq unacked
  BY <1>2 DEF SInv, IInv, NoGap, Kept
<1>4. QED BY <1>1, <1>2, <1>3, StoredIs

LEMMA BeginsWithStored ==
    ASSUME SInv, IInv', NEW c \in Conn, NEW ins \in Seq(InputMessage),
           Begins(c, ins, Stored(Len(ServerLog)) \o ins \o <<Prompt(prompt)>>)
    PROVE  SInv'
<1>1. PICK start \in Nat : start = Len(ServerLog)
  BY StoredFromServer
<1>2. PICK n \in Nat : n = event_no
  BY StoredFromServer
<1>3. PICK evs \in Seq(Upstream) : evs = Stored(Len(ServerLog))
  BY StoredFromServer
<1>4. PICK p \in Upstream : p = Prompt(prompt)
  BY StoredFromServer
<1>5. PICK q : q = evs \o ins \o <<p>>
  OBVIOUS
<1>6. Len(evs) = n - start /\ \A i \in 1..(n - start) : evs[i] = Event(start + i - 1)
  BY <1>1, <1>2, <1>3, StoredFromServer
<1>7. Begins(c, ins, q)
  BY <1>3, <1>4, <1>5
<1>8. Flushed(q, evs, ins, p)
  BY <1>5, FlushOrder
<1>9. QED BY <1>1, <1>2, <1>4, <1>6, <1>7, <1>8, BeginsSInv

\* Whatever the server of this module sends, the open network allows it.
LEMMA DeliverIsNext ==
    ASSUME SInv, NEW c \in Conn, Deliver(c)
    PROVE  Next
<1>1. Head(down[c]) \in Downstream /\ Head(down[c]) = down[c][1] /\ 1 \in DOMAIN down[c]
  BY TailIsShorter DEF Deliver, SInv, SessionTypeOK
<1>2. Len(ServerLog) \in Nat /\ Len(ServerLog) <= event_no /\ event_no \in 0..MaxSessionSize
  BY ServerSide DEF SInv, IInv, TypeOK, NoGap
<1>3. CASE Head(down[c]).type = "SessionInitialized" /\ RecvSessionInitialized(c, Head(down[c]).session)
  <2>1. Head(down[c]).session \in Attempt
    BY <1>1, <1>3 DEF Downstream, Answer, Ack
  <2>2. QED BY <1>3, <2>1 DEF Next
<1>4. CASE Head(down[c]).type = "FailedToInitializeSession"
           /\ RecvFailedToInitialize(c, Head(down[c]).retryable)
  <2>1. Head(down[c]).retryable \in BOOLEAN
    BY <1>1, <1>4 DEF Downstream, Answer, Ack
  <2>2. QED BY <1>4, <2>1 DEF Next
<1>5. CASE Head(down[c]).type = "SessionReconnected"
           /\ RecvSessionReconnected(c, Head(down[c]).next)
  <2>1. Head(down[c]).next = Len(ServerLog)
    BY <1>1, <1>5 DEF SInv, Answered
  <2>2. Head(down[c]).next \in 0..MaxSessionSize
    BY <1>2, <2>1, SharerAssumption DEF SharerAssumption
  <2>3. QED BY <1>5, <2>2 DEF Next
<1>6. CASE RecvTerminated(c)
  BY <1>6 DEF Next
<1>7. CASE Head(down[c]).type = "EventsProcessedAck" /\ RecvAck(c, Head(down[c]).no)
  <2>1. Head(down[c]).no \in Nat
    BY <1>1, <1>7 DEF Downstream, Answer, Ack
  <2>2. Head(down[c]).no < Len(ServerLog)
    BY <1>1, <1>7 DEF SInv, Answered
  <2>3. Head(down[c]).no \in EventNo
    BY <1>2, <2>1, <2>2, SharerAssumption DEF SharerAssumption, EventNo
  <2>4. QED BY <1>7, <2>3 DEF Next
<1>8. QED BY <1>3, <1>4, <1>5, <1>6, <1>7 DEF Deliver

LEMMA DeliverSInv ==
    ASSUME SInv, NEW c \in Conn, Deliver(c)
    PROVE  SInv'
<1>0. IInv'
  BY DeliverIsNext, NextIInv DEF SInv
<1>1. Head(down[c]) = down[c][1] /\ 1 \in DOMAIN down[c] /\ Head(down[c]) \in Downstream
  BY TailIsShorter DEF Deliver, SInv, SessionTypeOK
<1>2. /\ down[c] # <<>> /\ down' = [down EXCEPT ![c] = Tail(@)]
      /\ UNCHANGED <<wire, serves, sessions>>
  BY DEF Deliver
<1>3. SessionTypeOK' /\ DownShorter
  BY <1>2, HeadGoes
<1>4. CASE Head(down[c]).type = "SessionInitialized" /\ RecvSessionInitialized(c, Head(down[c]).session)
  <2>1. Head(down[c]).session = c /\ c \in Attempt /\ proxy[c] = <<>>
    BY <1>1, <1>4 DEF SInv, Answered
  <2>2. stage = "BeforeStarted" /\ sock[c] = "open" /\ ~ShouldIgnore(c)
    BY <1>4 DEF RecvSessionInitialized, Delivers
  <2>3. session_id = None /\ ws_proxy_tx = c /\ retry.phase = "idle"
    BY <2>1, <2>2 DEF ShouldIgnore, SInv, Phases
  <2>4. pending_input_updates' = <<>>
    <3>1. pending_input_updates' = pending_input_updates
      BY <1>4 DEF RecvSessionInitialized, inputVars
    <3>2. QED BY <2>3, <3>1 DEF SInv, InputsSorted, Phases
  <2>5. ServerLog = <<>> /\ Len(ServerLog) = 0
    BY <2>3 DEF ServerLog
  <2>6. Stored(0) \o LatestState = Stored(Len(ServerLog)) \o <<>> \o <<Prompt(prompt)>>
    <3>1. Stored(0) \o <<>> = Stored(0)
      BY <2>5, StoredFromServer
    <3>2. QED BY <2>5, <3>1 DEF LatestState
  <2>7. Begins(c, <<>>, Stored(Len(ServerLog)) \o <<>> \o <<Prompt(prompt)>>)
    BY <1>2, <1>4, <2>1, <2>2, <2>3, <2>4, <2>6
    DEF Begins, RecvSessionInitialized, eventVars, inputVars, txVars, Aborted
  <2>8. <<>> \in Seq(InputMessage)
    OBVIOUS
  <2>9. QED BY <1>0, <2>7, <2>8, BeginsWithStored
<1>5. CASE Head(down[c]).type = "FailedToInitializeSession"
           /\ RecvFailedToInitialize(c, Head(down[c]).retryable)
  <2>1. PICK r \in BOOLEAN : r = Head(down[c]).retryable
    BY <1>1, <1>5 DEF Downstream, Answer, Ack
  <2>2. /\ stage = "BeforeStarted" /\ StartupFailure(r, dialing, timers)
        /\ UNCHANGED <<proxy, sock, sessionVars>>
    BY <1>5, <2>1 DEF RecvFailedToInitialize
  <2>3. dialing \in SUBSET dialing /\ timers \in SUBSET Attempt
    BY DEF SInv, IInv, TypeOK
  <2>4. QED BY <1>0, <1>2, <1>3, <2>2, <2>3, StartupFailureSInv
<1>6. CASE Head(down[c]).type = "SessionReconnected"
           /\ RecvSessionReconnected(c, Head(down[c]).next)
  <2>1. Head(down[c]).next = Len(ServerLog) /\ Resuming(c) /\ proxy[c] = <<>>
    BY <1>1, <1>6 DEF SInv, Answered
  <2>2. stage = "Reconnecting" /\ sock[c] = "open" /\ session_id # None
    BY <1>6 DEF RecvSessionReconnected, Delivers, AwaitsResume, SInv, Phases
  <2>3. PICK ins \in Seq(InputMessage) : ins = pending_input_updates
    BY DEF SInv, IInv, TypeOK, InputMessage
  <2>4. Begins(c, ins, Stored(Len(ServerLog)) \o ins \o <<Prompt(prompt)>>)
    BY <1>2, <1>6, <2>1, <2>2, <2>3
    DEF Begins, RecvSessionReconnected, eventVars, txVars, startupVars, LatestState,
        LeftAfterFlush, Resuming
  <2>5. QED BY <1>0, <2>4, BeginsWithStored
<1>7. CASE RecvTerminated(c)
  BY <1>0, <1>2, <1>3, <1>7, TerminatedSInv
<1>8. CASE Head(down[c]).type = "EventsProcessedAck" /\ RecvAck(c, Head(down[c]).no)
  <2>1. PICK n \in Nat : n = Head(down[c]).no
    BY <1>1, <1>8 DEF Downstream, Answer, Ack
  <2>2. n < Len(ServerLog)
    BY <1>1, <1>8, <2>1 DEF SInv, Answered
  <2>3. QED BY <1>0, <1>2, <1>3, <1>8, <2>1, <2>2, AckSInv
<1>9. QED BY <1>4, <1>5, <1>6, <1>7, <1>8 DEF Deliver

LEMMA ClientSInv ==
    ASSUME SInv, ClientStep
    PROVE  SInv'
<1>1. Client /\ WireUp /\ UNCHANGED <<down, serves, sessions>>
  BY DEF ClientStep
<1>2. IInv'
  BY <1>1, ClientIInv DEF SInv
<1>3. CASE \E a \in Attempt : ConnectOk(a) \/ ConnectErr(a) \/ StartupTimeout(a)
  BY <1>1, <1>2, <1>3, ConnectOkSInv, ConnectFailsSInv
<1>4. CASE (\E c \in Conn : ReconnectOk(c)) \/ ReconnectErr \/ ReconnectTimer
  BY <1>1, <1>2, <1>4, ReconnectOkSInv, RetrySInv
<1>5. CASE SendEvent
  BY <1>1, <1>2, <1>5, SendEventSInv
<1>6. CASE StopSharing
  <2>1. /\ SendNow(<<EndSession>>) /\ CloseWithoutReconnection /\ sock' = sock
        /\ UNCHANGED <<startupVars, session_id, inputVars, prompt, event_no, unacked>>
    BY <1>6 DEF StopSharing, eventVars
  <2>2. QED BY <1>1, <1>2, <2>1, EndSInv
<1>7. CASE ChangePrompt
  BY <1>1, <1>2, <1>7, ChangePromptSInv
<1>8. CASE \E b \in 0..MaxBlocks : SendInputUpdate(b)
  BY <1>1, <1>2, <1>8, SendInputSInv
<1>9. QED BY <1>1, <1>3, <1>4, <1>5, <1>6, <1>7, <1>8 DEF Client

-----------------------------------------------------------------------------
\* The server answers the request that opened connection c.

\* Nothing of a session but its status changes.
StatusOnly ==
    \A s \in Attempt : /\ sessions[s]'.log = sessions[s].log
                       /\ sessions[s]'.inputs = sessions[s].inputs
                       /\ sessions[s]'.prompt = sessions[s].prompt

LEMMA AnswerSInv ==
    ASSUME SInv, IInv', NEW c \in Conn, NEW m \in Answer,
           UNCHANGED <<stage, current_attempt, dialing, retry, session_id, event_no, unacked,
                       next_buffer_seq_no, pending_input_updates, prompt, ws_proxy_tx, tx_open,
                       sock, wire>>,
           SessionTypeOK', StatusOnly, wire[c] = "up",
           down[c]' = <<m>>, proxy[c]' = <<>>,
           \A d \in Conn : d # c => /\ down[d]' = down[d] /\ proxy[d]' = proxy[d]
                                    /\ serves[d]' \in {serves[d], None},
           serves[c]' \in Attempt \cup {None},
           \/ /\ c \in Attempt /\ c # session_id /\ serves[c]' \in {None, c}
              /\ m.type # "SessionReconnected"
              /\ m.type = "SessionInitialized" => m.session = c
           \/ /\ Resuming(c) /\ serves[c]' \in {None, session_id}
              /\ m.type # "SessionInitialized"
              /\ m.type = "SessionReconnected" =>
                    /\ m.next = Len(ServerLog)
                    /\ \A d \in Conn : serves[d]' = session_id => d = c
              /\ \A d \in Conn : d # c => serves[d]' # session_id \/ serves[c]' = None
    PROVE  SInv'
<1>1. /\ session_id # None => session_id \in Attempt
      /\ ServerLog' = ServerLog /\ ServerInputs' = ServerInputs
      /\ session_id # None => sessions[session_id]'.prompt = sessions[session_id].prompt
  BY DEF SInv, IInv, TypeOK, StatusOnly, ServerLog, ServerInputs
<1>2. m.type # "EventsProcessedAck"
  BY DEF Answer
<1>3. ~Sending(c)
  BY DEF SInv, Phases, Sending, Resuming, Started
<1>4. \A d \in Conn : (Resuming(d)' <=> Resuming(d)) /\ (Sending(d)' <=> Sending(d))
  BY DEF Resuming, Sending, Started
<1>5. \A d \in Conn : d # c => (Serves(d)' => Serves(d))
  BY DEF Serves, None
<1>6. Logs'
  BY DEF SInv, Logs, StatusOnly
<1>7. Phases'
  BY DEF SInv, Phases, Started
<1>8. Sockets'
  BY DEF SInv, Sockets
<1>9. Asking'
  <2>1. ASSUME NEW d \in Conn, NEW i \in DOMAIN proxy[d]' PROVE d # c
    BY <2>1
  <2>2. QED BY <1>4, <2>1 DEF SInv, Asking
<1>10. Answered'
  <2>1. ASSUME NEW d \in Conn, NEW i \in DOMAIN down[d]'
        PROVE  /\ i > 1 => down[d]'[i].type = "EventsProcessedAck"
               /\ down[d]'[i].type = "SessionInitialized" =>
                    /\ down[d]'[i].session = d /\ d \in Attempt /\ d # session_id
                    /\ proxy[d]' = <<>>
               /\ down[d]'[i].type = "SessionReconnected" =>
                    /\ Resuming(d) /\ proxy[d]' = <<>>
                    /\ down[d]'[i].next = Len(ServerLog)
                    /\ \A e \in Conn : serves[e]' = session_id => e = d
               /\ down[d]'[i].type = "EventsProcessedAck" =>
                    session_id # None /\ down[d]'[i].no < Len(ServerLog)
    <3>1. CASE d = c
      <4>1. i = 1 /\ down[d]'[i] = m
        BY <3>1
      <4>2. QED BY <1>2, <3>1, <4>1
    <3>2. CASE d # c
      <4>1. down[d]' = down[d] /\ proxy[d]' = proxy[d]
        BY <3>2
      <4>2. ASSUME down[d][i].type = "SessionReconnected", NEW e \in Conn, serves[e]' = session_id
            PROVE  e = d
        <5>1. Resuming(d) /\ \A f \in Conn : serves[f] = session_id => f = d
          BY <4>1, <4>2 DEF SInv, Answered
        <5>2. ~Resuming(c) /\ c \in Attempt /\ c # session_id /\ serves[c]' \in {None, c}
          BY <3>2, <5>1 DEF Resuming
        <5>3. session_id # None
          BY <5>1 DEF SInv, Phases, Sockets, Resuming
        <5>4. e # c
          BY <4>2, <5>2, <5>3
        <5>5. serves[e] = session_id
          BY <4>2, <5>3, <5>4
        <5>6. QED BY <5>1, <5>5
      <4>3. QED BY <4>1, <4>2 DEF SInv, Answered
    <3>3. QED BY <3>1, <3>2
  <2>2. QED BY <1>1, <1>4, <2>1 DEF Answered
<1>11. Serving'
  <2>1. \A a \in Attempt : serves[a]' # None => serves[a]' = a
    BY Attempts DEF SInv, Serving, Resuming
  <2>2. \A r \in Reconnect : serves[r]' # None => serves[r]' = session_id
    BY Attempts DEF SInv, Serving, Resuming
  <2>3. \A a \in Attempt : a # session_id => proxy[a]' \in {<<>>, <<Initialize>>}
    BY Attempts DEF SInv, Serving
  <2>4. ASSUME NEW d \in Conn, NEW e \in Conn, Serves(d)', Serves(e)' PROVE d = e
    <3>1. CASE d # c /\ e # c
      BY <1>5, <2>4, <3>1 DEF SInv, Serving
    <3>2. CASE d = c \/ e = c
      BY <2>4, <3>2 DEF Serves
    <3>3. QED BY <3>1, <3>2
  <2>5. QED BY <2>1, <2>2, <2>3, <2>4 DEF Serving
<1>12. NoGap'
  <2>1. ASSUME NEW d \in Conn, NEW i \in DOMAIN proxy[d]' PROVE d # c /\ proxy[d]' = proxy[d]
    BY <2>1
  <2>2. \A d \in Conn : Sending(d)' => d # c /\ proxy[d]' = proxy[d]
    BY <1>3, <1>4
  <2>3. QED BY <1>1, <1>4, <1>5, <2>1, <2>2 DEF SInv, NoGap
<1>13. Kept'
  BY <1>1 DEF SInv, Kept
<1>14. PromptSent'
  <2>1. \A d \in Conn : Sending(d)' => d # c /\ proxy[d]' = proxy[d]
    BY <1>3, <1>4
  <2>2. \A d \in Conn : Serves(d) => session_id # None
    BY DEF Serves
  <2>3. QED BY <1>1, <1>4, <1>5, <2>1, <2>2 DEF SInv, PromptSent
<1>15. InputsSorted'
  <2>1. \A d \in Conn : /\ AllBefore(proxy[d]', next_buffer_seq_no)
                        /\ Serves(d)' => InOrder(proxy[d]') /\ AllEarlier(ServerInputs, proxy[d]')
                        /\ stage = "Reconnecting" => AllEarlier(proxy[d]', pending_input_updates)
    <3>1. AllBefore(<<>>, next_buffer_seq_no) /\ InOrder(<<>>) /\ AllEarlier(ServerInputs, <<>>)
          /\ AllEarlier(<<>>, pending_input_updates)
      BY DEF AllBefore, InOrder, AllEarlier
    <3>2. \A d \in Conn : d # c => proxy[d]' = proxy[d]
      OBVIOUS
    <3>3. QED BY <1>5, <3>1, <3>2 DEF SInv, InputsSorted
  <2>2. QED BY <1>1, <2>1 DEF SInv, InputsSorted, Started
<1>16. QED
  BY <1>6, <1>7, <1>8, <1>9, <1>10, <1>11, <1>12, <1>13, <1>14, <1>15 DEF SInv

\* A step that reads connection c.
LEMMA ReadsAre ==
    ASSUME SInv, NEW c \in Conn, NEW type, Reads(c, type)
    PROVE  /\ IInv' /\ wire[c] = "up" /\ proxy[c] # <<>> /\ Head(proxy[c]).type = type
           /\ Head(proxy[c]) = proxy[c][1] /\ 1 \in DOMAIN proxy[c] /\ proxy[c][1] \in Upstream
           /\ proxy[c] \in Seq(Upstream)
           /\ proxy' = [proxy EXCEPT ![c] = Tail(@)]
           /\ UNCHANGED <<stage, current_attempt, dialing, retry, session_id, event_no, unacked,
                          next_buffer_seq_no, pending_input_updates, prompt, ws_proxy_tx, tx_open,
                          sock, wire>>
<1>1. IInv'
  BY DrainIInv DEF Reads, SInv
<1>2. proxy[c] \in Seq(Upstream)
  BY DEF SInv, IInv, TypeOK
<1>3. Head(proxy[c]) = proxy[c][1] /\ 1 \in DOMAIN proxy[c] /\ proxy[c][1] \in Upstream
  BY <1>2, TailIsShorter DEF Reads
<1>4. QED
  BY <1>1, <1>2, <1>3 DEF Reads, Drain, startupVars, txVars, sessionVars, eventVars, inputVars

\* The request is all there is.
LEMMA RequestIsRead ==
    ASSUME SInv, NEW c \in Conn, Reads(c, "Initialize") \/ Reads(c, "Reconnect")
    PROVE  /\ proxy[c]' = <<>> /\ down[c] = <<>> /\ serves[c] = None
           /\ \A d \in Conn : d # c => proxy[d]' = proxy[d]
           /\ Reads(c, "Initialize") => c \in Attempt /\ c # session_id
           /\ Reads(c, "Reconnect") => Resuming(c) /\ session_id # None /\ session_id \in Attempt
<1>1. /\ 1 \in DOMAIN proxy[c] /\ proxy' = [proxy EXCEPT ![c] = Tail(@)] /\ wire[c] = "up"
      /\ Reads(c, "Initialize") => proxy[c][1].type = "Initialize"
      /\ Reads(c, "Reconnect") => proxy[c][1].type = "Reconnect"
  BY ReadsAre
<1>2. /\ Reads(c, "Initialize") => c \in Attempt /\ c # session_id
      /\ Reads(c, "Reconnect") => Resuming(c)
      /\ proxy[c] \in {<<Initialize>>, <<Resume>>} /\ down[c] = <<>> /\ serves[c] = None
  BY <1>1 DEF SInv, Asking
<1>3. Tail(proxy[c]) = <<>>
  <2>1. proxy[c] \in Seq(Upstream) /\ proxy[c] # <<>> /\ Len(proxy[c]) = 1
    BY <1>1, <1>2, ReadsAre
  <2>2. Tail(proxy[c]) \in Seq(Upstream) /\ Len(Tail(proxy[c])) = 0
    BY <2>1
  <2>3. QED BY <2>2, EmptySeq
<1>4. Reads(c, "Reconnect") => session_id # None
  BY <1>1, <1>2 DEF SInv, Phases, Sockets, Resuming
<1>5. QED BY <1>1, <1>2, <1>3, <1>4 DEF SInv, IInv, TypeOK

LEMMA SentAnswer ==
    ASSUME SInv, NEW c \in Conn, NEW m \in Downstream, down[c] = <<>>, Send(c, m)
    PROVE  /\ down[c]' = <<m>> /\ \A d \in Conn : d # c => down[d]' = down[d]
           /\ down' \in [Conn -> Seq(Downstream)]
<1>1. Append(<<>>, m) = <<m>> /\ <<m>> \in Seq(Downstream)
  OBVIOUS
<1>2. QED BY <1>1 DEF Send, SInv, SessionTypeOK

LEMMA ServerInitializeSInv ==
    ASSUME SInv, NEW c \in Conn, ServerInitialize(c)
    PROVE  SInv'
<1>1. Reads(c, "Initialize")
  BY DEF ServerInitialize
<1>2. /\ proxy[c]' = <<>> /\ down[c] = <<>> /\ serves[c] = None
      /\ \A d \in Conn : d # c => proxy[d]' = proxy[d]
      /\ c \in Attempt /\ c # session_id
  BY <1>1, RequestIsRead
<1>3. /\ IInv' /\ wire[c] = "up"
      /\ UNCHANGED <<stage, current_attempt, dialing, retry, session_id, event_no, unacked,
                     next_buffer_seq_no, pending_input_updates, prompt, ws_proxy_tx, tx_open,
                     sock, wire>>
  BY <1>1, ReadsAre
<1>4. CASE /\ sessions' = [sessions EXCEPT ![c].status = "active"]
           /\ serves' = [serves EXCEPT ![c] = c]
           /\ Send(c, [type |-> "SessionInitialized", session |-> c])
  <2>1. PICK m \in Answer : m = [type |-> "SessionInitialized", session |-> c]
    BY <1>2 DEF Answer
  <2>2. /\ down[c]' = <<m>> /\ \A d \in Conn : d # c => down[d]' = down[d]
        /\ down' \in [Conn -> Seq(Downstream)]
    BY <1>2, <1>4, <2>1, SentAnswer DEF Downstream
  <2>3. /\ serves' \in [Conn -> Attempt \cup {None}] /\ serves[c]' = c
        /\ \A d \in Conn : d # c => serves[d]' = serves[d]
    BY <1>2, <1>4 DEF SInv, SessionTypeOK
  <2>4. sessions' \in [Attempt -> SessionRecord] /\ StatusOnly
    BY <1>2, <1>4 DEF SInv, SessionTypeOK, SessionRecord, StatusOnly
  <2>5. SessionTypeOK'
    BY <1>3, <2>2, <2>3, <2>4 DEF SInv, SessionTypeOK
  <2>6. m.type = "SessionInitialized" /\ m.session = c
    BY <2>1
  <2>7. QED BY <1>2, <1>3, <2>2, <2>3, <2>4, <2>5, <2>6, AnswerSInv
<1>5. CASE /\ \E r \in BOOLEAN :
                 Send(c, [type |-> "FailedToInitializeSession", retryable |-> r])
           /\ UNCHANGED <<sessions, serves>>
  <2>1. PICK m \in Answer : Send(c, m) /\ m.type = "FailedToInitializeSession"
    BY <1>5 DEF Answer
  <2>2. /\ down[c]' = <<m>> /\ \A d \in Conn : d # c => down[d]' = down[d]
        /\ down' \in [Conn -> Seq(Downstream)]
    BY <1>2, <2>1, SentAnswer DEF Downstream
  <2>3. SessionTypeOK' /\ StatusOnly
    BY <1>3, <1>5, <2>2 DEF SInv, SessionTypeOK, StatusOnly
  <2>4. serves[c]' = None /\ \A d \in Conn : serves[d]' = serves[d]
    BY <1>2, <1>5
  <2>5. QED BY <1>2, <1>3, <2>1, <2>2, <2>3, <2>4, AnswerSInv
<1>6. QED BY <1>4, <1>5 DEF ServerInitialize

LEMMA ServerResumeSInv ==
    ASSUME SInv, NEW c \in Conn, ServerResume(c)
    PROVE  SInv'
<1>1. Reads(c, "Reconnect") /\ UNCHANGED sessions
  BY DEF ServerResume
<1>2. /\ proxy[c]' = <<>> /\ down[c] = <<>> /\ serves[c] = None
      /\ \A d \in Conn : d # c => proxy[d]' = proxy[d]
      /\ Resuming(c) /\ session_id # None /\ session_id \in Attempt
  BY <1>1, RequestIsRead
<1>3. /\ IInv' /\ wire[c] = "up"
      /\ UNCHANGED <<stage, current_attempt, dialing, retry, session_id, event_no, unacked,
                     next_buffer_seq_no, pending_input_updates, prompt, ws_proxy_tx, tx_open,
                     sock, wire>>
  BY <1>1, ReadsAre
<1>4. StatusOnly
  BY <1>1 DEF StatusOnly
<1>5. CASE /\ serves' = [d \in Conn |-> IF d = c THEN session_id
                                        ELSE IF serves[d] = session_id THEN None ELSE serves[d]]
           /\ Send(c, [type |-> "SessionReconnected", next |-> NextExpected(session_id)])
  <2>1. NextExpected(session_id) = Len(ServerLog) /\ Len(ServerLog) \in Nat
    BY <1>2, NextIsLength, ServerSide DEF SInv, IInv
  <2>2. PICK m \in Answer : m = [type |-> "SessionReconnected", next |-> Len(ServerLog)]
    BY <2>1 DEF Answer
  <2>3. /\ down[c]' = <<m>> /\ \A d \in Conn : d # c => down[d]' = down[d]
        /\ down' \in [Conn -> Seq(Downstream)]
    BY <1>2, <1>5, <2>1, <2>2, SentAnswer DEF Downstream
  <2>4. /\ serves' \in [Conn -> Attempt \cup {None}] /\ serves[c]' = session_id
        /\ \A d \in Conn : d # c => serves[d]' \in {serves[d], None} /\ serves[d]' # session_id
    BY <1>2, <1>5 DEF SInv, SessionTypeOK
  <2>5. SessionTypeOK'
    BY <1>1, <1>3, <2>3, <2>4 DEF SInv, SessionTypeOK
  <2>6. m.type = "SessionReconnected" /\ m.next = Len(ServerLog)
    BY <2>2
  <2>7. QED BY <1>2, <1>3, <1>4, <2>3, <2>4, <2>5, <2>6, AnswerSInv
<1>6. CASE Send(c, [type |-> "FailedToReconnect"]) /\ UNCHANGED serves
  <2>1. PICK m \in Answer : m = [type |-> "FailedToReconnect"]
    BY DEF Answer
  <2>2. /\ down[c]' = <<m>> /\ \A d \in Conn : d # c => down[d]' = down[d]
        /\ down' \in [Conn -> Seq(Downstream)]
    BY <1>2, <1>6, <2>1, SentAnswer DEF Downstream
  <2>3. SessionTypeOK'
    BY <1>1, <1>3, <1>6, <2>2 DEF SInv, SessionTypeOK
  <2>4. serves[c]' = None /\ \A d \in Conn : serves[d]' = serves[d]
    BY <1>2, <1>6
  <2>5. m.type = "FailedToReconnect"
    BY <2>1
  <2>6. QED BY <1>2, <1>3, <1>4, <2>2, <2>3, <2>4, <2>5, AnswerSInv
<1>7. QED BY <1>5, <1>6 DEF ServerResume

-----------------------------------------------------------------------------
\* A message is read, or lost, that opens nothing.

\* The oldest message of channel c goes; the server may have recorded it.
Drained(c) ==
    /\ proxy[c] # <<>> /\ proxy' = [proxy EXCEPT ![c] = Tail(@)]
    /\ UNCHANGED <<stage, current_attempt, dialing, retry, session_id, event_no, unacked,
                   next_buffer_seq_no, pending_input_updates, prompt, ws_proxy_tx, tx_open,
                   sock, wire, down, serves>>

LEMMA DrainedChannel ==
    ASSUME SInv, NEW c \in Conn, Drained(c)
    PROVE  /\ proxy[c] \in Seq(Upstream) /\ 1 \in DOMAIN proxy[c] /\ Head(proxy[c]) = proxy[c][1]
           /\ proxy[c]' = Tail(proxy[c])
           /\ \A d \in Conn : d # c => proxy[d]' = proxy[d]
           /\ \A i \in DOMAIN proxy[c]' : i \in Nat /\ i > 0 /\ i + 1 > 1 /\ i + 1 \in DOMAIN proxy[c] /\ proxy[c]'[i] = proxy[c][i + 1]
           /\ \A i \in DOMAIN proxy[c] : i \in Nat /\ (i # 1 => i - 1 \in DOMAIN proxy[c]' /\ proxy[c]'[i - 1] = proxy[c][i])
<1>1. proxy[c] \in Seq(Upstream) /\ proxy[c] # <<>> /\ proxy[c]' = Tail(proxy[c])
  BY DEF Drained, SInv, IInv, TypeOK
<1>2. PICK q \in Seq(Upstream) : q = proxy[c]
  BY <1>1
<1>3. /\ Head(q) = q[1] /\ 1 \in DOMAIN q
      /\ DOMAIN q = 1..Len(q) /\ Len(q) \in Nat /\ DOMAIN Tail(q) = 1..(Len(q) - 1)
      /\ \A i \in DOMAIN Tail(q) : i + 1 \in DOMAIN q /\ Tail(q)[i] = q[i + 1]
  BY <1>1, <1>2, TailIsShorter
<1>4. /\ \A i \in DOMAIN Tail(q) : i \in Nat /\ i > 0 /\ i + 1 > 1
      /\ \A i \in DOMAIN q : i \in Nat
      /\ \A i \in DOMAIN q : i # 1 => i - 1 \in DOMAIN Tail(q) /\ (i - 1) + 1 = i
  <2>1. Len(q) \in Nat /\ DOMAIN q = 1..Len(q) /\ DOMAIN Tail(q) = 1..(Len(q) - 1)
    BY <1>3
  <2>2. QED BY <2>1
<1>5. \A i \in DOMAIN q : i # 1 => Tail(q)[i - 1] = q[i]
  <2>1. SUFFICES ASSUME NEW i \in DOMAIN q, i # 1 PROVE Tail(q)[i - 1] = q[i]
    OBVIOUS
  <2>2. i - 1 \in DOMAIN Tail(q) /\ (i - 1) + 1 = i
    BY <1>4, <2>1
  <2>3. QED BY <1>3, <2>2
<1>6. \A d \in Conn : d # c => proxy[d]' = proxy[d]
  BY DEF Drained, SInv, IInv, TypeOK
<1>7. QED BY <1>1, <1>2, <1>3, <1>4, <1>5, <1>6

LEMMA DrainedHandshakes ==
    ASSUME SInv, NEW c \in Conn, Drained(c),
           ServerLog' # ServerLog => Serves(c) /\ Len(ServerLog) <= Len(ServerLog)',
           Len(ServerLog) \in Nat, Len(ServerLog)' \in Nat
    PROVE  Phases' /\ Sockets' /\ Asking' /\ Answered' /\ Serving'
<1>1. \A d \in Conn : (Resuming(d)' <=> Resuming(d)) /\ (Serves(d)' <=> Serves(d))
  BY DEF Drained, Resuming, Serves
<1>2. proxy[c] # <<>> /\ \A d \in Conn : proxy[d] = <<>> => proxy[d]' = <<>>
  BY DrainedChannel DEF Drained
<1>3. Phases'
  BY DEF Drained, SInv, Phases, Started
<1>4. Sockets'
  BY <1>2 DEF Drained, SInv, Sockets
<1>5. ASSUME NEW d \in Conn, proxy[d] \in {<<Initialize>>, <<Resume>>}
      PROVE  proxy[d]' \in {<<>>, proxy[d]}
  <2>1. CASE d = c
    <3>1. proxy[c] \in Seq(Upstream) /\ proxy[c] # <<>> /\ Len(proxy[c]) = 1 /\ proxy[c]' = Tail(proxy[c])
      BY <1>5, <2>1, DrainedChannel
    <3>2. Tail(proxy[c]) \in Seq(Upstream) /\ Len(Tail(proxy[c])) = 0
      BY <3>1
    <3>3. QED BY <2>1, <3>1, <3>2, EmptySeq
  <2>2. CASE d # c
    BY <2>2, DrainedChannel
  <2>3. QED BY <2>1, <2>2
<1>6. Asking'
  <2>1. ASSUME NEW d \in Conn, NEW i \in DOMAIN proxy[d]',
               proxy[d]'[i].type \in {"Initialize", "Reconnect"}
        PROVE  proxy[d]' = proxy[d]
    <3>1. CASE d = c
      <4>1. i + 1 \in DOMAIN proxy[c] /\ proxy[c]'[i] = proxy[c][i + 1]
        BY <3>1, DrainedChannel
      <4>2. proxy[c] \in {<<Initialize>>, <<Resume>>}
        BY <2>1, <3>1, <4>1 DEF SInv, Asking
      <4>3. proxy[c]' # <<>>
        BY <3>1
      <4>4. QED BY <1>5, <3>1, <4>2, <4>3
    <3>2. CASE d # c
      BY <3>2, DrainedChannel
    <3>3. QED BY <3>1, <3>2
  <2>2. QED BY <1>1, <2>1 DEF Drained, SInv, Asking
<1>7. Answered'
  <2>1. ASSUME NEW d \in Conn, NEW i \in DOMAIN down[d], down[d][i].type = "SessionReconnected"
        PROVE  ServerLog' = ServerLog
    <3>1. proxy[d] = <<>> /\ \A e \in Conn : serves[e] = session_id => e = d
      BY <2>1 DEF SInv, Answered
    <3>2. Serves(c) => c = d
      BY <3>1 DEF Serves
    <3>3. QED BY <1>2, <3>1, <3>2
  <2>2. ASSUME NEW d \in Conn, NEW i \in DOMAIN down[d], down[d][i].type = "EventsProcessedAck"
        PROVE  down[d][i].no < Len(ServerLog)'
    <3>1. down[d][i] \in Downstream
      BY DEF SInv, SessionTypeOK
    <3>2. down[d][i].no \in Int
      BY <2>2, <3>1 DEF Downstream, Answer, Ack
    <3>3. down[d][i].no < Len(ServerLog) /\ Len(ServerLog) <= Len(ServerLog)'
      BY <2>2 DEF SInv, Answered
    <3>4. QED BY <3>2, <3>3
  <2>3. UNCHANGED <<down, serves, session_id>>
    BY DEF Drained
  <2>4. QED BY <1>1, <1>2, <2>1, <2>2, <2>3 DEF SInv, Answered
<1>8. Serving'
  <2>1. \A a \in Attempt : a # session_id => proxy[a]' \in {<<>>, <<Initialize>>}
    BY <1>2, <1>5, Attempts DEF SInv, Serving
  <2>2. QED BY <1>1, <2>1 DEF Drained, SInv, Serving
<1>9. QED BY <1>3, <1>4, <1>6, <1>7, <1>8

LEMMA DrainedNoGap ==
    ASSUME SInv, NEW c \in Conn, Drained(c), NEW old \in Nat, NEW new \in Nat,
           old = Len(ServerLog), new = Len(ServerLog)', old <= new, new <= event_no,
           Serves(c) /\ IsEvent(Head(proxy[c])) => Head(proxy[c]).no < new
    PROVE  NoGap' /\ Kept'
<1>1. \A d \in Conn : (Sending(d)' <=> Sending(d)) /\ (Serves(d)' <=> Serves(d))
  BY DEF Drained, Sending, Serves, Started
<1>2. event_no' = event_no /\ unacked' = unacked
  BY DEF Drained
<1>3. Kept'
  BY <1>2 DEF SInv, Kept, IInv, TypeOK
<1>4. ASSUME NEW d \in Conn, NEW i \in DOMAIN proxy[d]', IsEvent(proxy[d]'[i])
      PROVE  proxy[d]'[i].no < event_no
  <2>1. CASE d = c
    <3>1. i + 1 \in DOMAIN proxy[c] /\ proxy[c]'[i] = proxy[c][i + 1]
      BY <1>4, <2>1, DrainedChannel
    <3>2. QED BY <1>4, <2>1, <3>1 DEF SInv, NoGap
  <2>2. CASE d # c
    <3>1. proxy[d]' = proxy[d]
      BY <2>2, DrainedChannel
    <3>2. QED BY <1>4, <3>1 DEF SInv, NoGap
  <2>3. QED BY <2>1, <2>2
<1>5. ASSUME NEW d \in Conn, Serves(d), NEW i \in DOMAIN proxy[d]', IsEvent(proxy[d]'[i])
      PROVE  \/ proxy[d]'[i].no <= new
             \/ \E j \in 1..(i - 1) : proxy[d]'[j] = Event(proxy[d]'[i].no - 1)
  <2>1. CASE d = c
    <3>1. /\ i \in Nat /\ i + 1 \in DOMAIN proxy[c] /\ proxy[c]'[i] = proxy[c][i + 1]
          /\ 1 \in DOMAIN proxy[c] /\ Head(proxy[c]) = proxy[c][1] /\ proxy[c] \in Seq(Upstream)
      BY <2>1, DrainedChannel
    <3>2. proxy[c][i + 1] \in Upstream /\ proxy[c][i + 1].no \in Int
      <4>1. proxy[c][i + 1] \in Upstream
        BY <3>1
      <4>2. QED BY <1>5, <2>1, <3>1, <4>1, UpstreamKinds DEF EventNo
    <3>3. CASE proxy[c][i + 1].no <= old
      BY <2>1, <3>1, <3>2, <3>3
    <3>4. CASE \E j \in 1..((i + 1) - 1) : proxy[c][j] = Event(proxy[c][i + 1].no - 1)
      <4>1. PICK j \in 1..((i + 1) - 1) : proxy[c][j] = Event(proxy[c][i + 1].no - 1)
        BY <3>4
      <4>2. j \in 1..i /\ j \in DOMAIN proxy[c]
        BY <3>1, <4>1
      <4>3. CASE j = 1
        <5>1. Head(proxy[c]) = Event(proxy[c][i + 1].no - 1)
          BY <3>1, <4>1, <4>3
        <5>2. IsEvent(Head(proxy[c])) /\ Head(proxy[c]).no = proxy[c][i + 1].no - 1
          BY <5>1 DEF IsEvent, Event
        <5>3. proxy[c][i + 1].no - 1 < new
          BY <1>5, <2>1, <5>2
        <5>4. QED BY <2>1, <3>1, <3>2, <5>3
      <4>4. CASE j # 1
        <5>1. i \in Nat
          BY <3>1
        <5>2. j - 1 \in 1..(i - 1)
          BY <4>2, <4>4, <5>1
        <5>3. proxy[c]'[j - 1] = proxy[c][j]
          BY <4>2, <4>4, DrainedChannel
        <5>4. QED BY <2>1, <3>1, <4>1, <5>2, <5>3
      <4>5. QED BY <4>3, <4>4
    <3>5. QED
      BY <1>5, <2>1, <3>1, <3>3, <3>4 DEF SInv, NoGap
  <2>2. CASE d # c
    <3>1. proxy[d]' = proxy[d] /\ proxy[d] \in Seq(Upstream)
      BY <2>2, DrainedChannel DEF SInv, IInv, TypeOK
    <3>2. proxy[d][i] \in Upstream
      BY <3>1
    <3>3. proxy[d][i].no \in Int
      BY <1>5, <3>1, <3>2, UpstreamKinds DEF EventNo
    <3>4. QED BY <1>5, <3>1, <3>3 DEF SInv, NoGap
  <2>3. QED BY <2>1, <2>2
<1>6. ASSUME NEW d \in Conn, Serves(d), Sending(d)
      PROVE  event_no <= new \/ \E j \in DOMAIN proxy[d]' : proxy[d]'[j] = Event(event_no - 1)
  <2>0. event_no \in Nat
    BY DEF SInv, IInv, TypeOK
  <2>1. CASE event_no <= old
    BY <2>0, <2>1
  <2>2. CASE \E j \in DOMAIN proxy[d] : proxy[d][j] = Event(event_no - 1)
    <3>1. PICK j \in DOMAIN proxy[d] : proxy[d][j] = Event(event_no - 1)
      BY <2>2
    <3>2. CASE d = c /\ j = 1
      <4>1. Head(proxy[c]) = Event(event_no - 1)
        BY <3>1, <3>2, DrainedChannel
      <4>2. IsEvent(Head(proxy[c])) /\ Head(proxy[c]).no = event_no - 1
        BY <4>1 DEF IsEvent, Event
      <4>3. event_no - 1 < new
        BY <1>6, <3>2, <4>2
      <4>4. QED BY <2>0, <4>3
    <3>3. CASE d = c /\ j # 1
      <4>1. j - 1 \in DOMAIN proxy[d]' /\ proxy[d]'[j - 1] = proxy[d][j]
        BY <3>1, <3>3, DrainedChannel
      <4>2. QED BY <3>1, <4>1
    <3>4. CASE d # c
      BY <3>1, <3>4, DrainedChannel
    <3>5. QED BY <3>2, <3>3, <3>4
  <2>3. QED BY <1>6, <2>1, <2>2 DEF SInv, NoGap
<1>7. QED BY <1>1, <1>2, <1>3, <1>4, <1>5, <1>6 DEF NoGap

LEMMA DrainedPrompt ==
    ASSUME SInv, NEW c \in Conn, Drained(c),
           Serves(c) /\ IsPrompt(Head(proxy[c])) =>
              sessions'[session_id].prompt = Head(proxy[c]).prompt,
           session_id # None /\ ~(Serves(c) /\ IsPrompt(Head(proxy[c]))) =>
              sessions'[session_id].prompt = sessions[session_id].prompt
    PROVE  PromptSent'
<1>1. /\ \A d \in Conn : (Sending(d)' <=> Sending(d)) /\ (Serves(d)' <=> Serves(d))
      /\ prompt' = prompt /\ session_id' = session_id
  BY DEF Drained, Sending, Serves, Started
<1>2. ASSUME NEW d \in Conn, Serves(d), Sending(d)
      PROVE  \/ \E i \in DOMAIN proxy[d]' :
                  /\ proxy[d]'[i] = Prompt(prompt)
                  /\ \A j \in DOMAIN proxy[d]' : j > i => ~IsPrompt(proxy[d]'[j])
             \/ /\ \A j \in DOMAIN proxy[d]' : ~IsPrompt(proxy[d]'[j])
                /\ sessions'[session_id].prompt = prompt
  <2>0. session_id # None
    BY <1>2 DEF Serves
  <2>1. CASE d = c
    <3>1. CASE \E i \in DOMAIN proxy[d] :
                  /\ proxy[d][i] = Prompt(prompt)
                  /\ \A j \in DOMAIN proxy[d] : j > i => ~IsPrompt(proxy[d][j])
      <4>1. PICK i \in DOMAIN proxy[d] :
                  /\ proxy[d][i] = Prompt(prompt)
                  /\ \A j \in DOMAIN proxy[d] : j > i => ~IsPrompt(proxy[d][j])
        BY <3>1
      <4>2. CASE i = 1
        <5>1. Head(proxy[c]) = Prompt(prompt)
          BY <2>1, <4>1, <4>2, DrainedChannel
        <5>2. IsPrompt(Head(proxy[c])) /\ Head(proxy[c]).prompt = prompt
          BY <5>1 DEF IsPrompt, Prompt
        <5>3. \A j \in DOMAIN proxy[c]' : ~IsPrompt(proxy[c]'[j])
          BY <2>1, <4>1, <4>2, DrainedChannel
        <5>4. QED BY <1>2, <2>1, <5>2, <5>3
      <4>3. CASE i # 1
        <5>1. i \in Nat /\ i - 1 \in DOMAIN proxy[c]' /\ proxy[c]'[i - 1] = Prompt(prompt)
          BY <2>1, <4>1, <4>3, DrainedChannel
        <5>2. ASSUME NEW j \in DOMAIN proxy[c]', j > i - 1 PROVE ~IsPrompt(proxy[c]'[j])
          <6>1. j \in Nat /\ j + 1 \in DOMAIN proxy[c] /\ proxy[c]'[j] = proxy[c][j + 1]
            BY DrainedChannel
          <6>2. j + 1 > i
            BY <5>1, <5>2, <6>1
          <6>3. QED BY <2>1, <4>1, <6>1, <6>2
        <5>3. QED BY <2>1, <5>1, <5>2
      <4>4. QED BY <4>2, <4>3
    <3>2. CASE /\ \A j \in DOMAIN proxy[d] : ~IsPrompt(proxy[d][j])
               /\ sessions[session_id].prompt = prompt
      <4>1. ~IsPrompt(Head(proxy[c]))
        BY <2>1, <3>2, DrainedChannel
      <4>2. \A j \in DOMAIN proxy[c]' : ~IsPrompt(proxy[c]'[j])
        BY <2>1, <3>2, DrainedChannel
      <4>3. QED BY <2>0, <2>1, <3>2, <4>1, <4>2
    <3>3. QED BY <1>2, <3>1, <3>2 DEF SInv, PromptSent
  <2>2. CASE d # c
    <3>1. ~Serves(c)
      BY <1>2, <2>2 DEF SInv, Serving
    <3>2. proxy[d]' = proxy[d]
      BY <2>2, DrainedChannel
    <3>3. QED BY <1>2, <2>0, <3>1, <3>2 DEF SInv, PromptSent
  <2>3. QED BY <2>1, <2>2
<1>3. QED BY <1>1, <1>2 DEF PromptSent

LEMMA DrainedInputs ==
    ASSUME SInv, NEW c \in Conn, Drained(c),
           \/ ServerInputs' = ServerInputs
           \/ /\ Serves(c) /\ IsInput(Head(proxy[c])) /\ Head(proxy[c]) \in InputMessage
              /\ ServerInputs' = Append(ServerInputs, Head(proxy[c]))
    PROVE  InputsSorted'
<1>1. /\ \A d \in Conn : Serves(d)' <=> Serves(d)
      /\ UNCHANGED <<stage, next_buffer_seq_no, pending_input_updates, session_id>>
  BY DEF Drained, Serves
<1>2. \A d \in Conn : \A i \in DOMAIN proxy[d]' :
         \E k \in DOMAIN proxy[d] : proxy[d]'[i] = proxy[d][k] /\ (d = c => k = i + 1) /\ (d # c => k = i)
  BY DrainedChannel
<1>3. \A i \in DOMAIN proxy[c]' : i \in Nat
  BY DrainedChannel
<1>4. \A d \in Conn : /\ AllBefore(proxy[d]', next_buffer_seq_no)
                      /\ stage = "Reconnecting" => AllEarlier(proxy[d]', pending_input_updates)
  BY <1>2 DEF SInv, InputsSorted, AllBefore, AllEarlier
<1>5. \A d \in Conn : Serves(d) => InOrder(proxy[d]')
  <2>1. SUFFICES ASSUME NEW d \in Conn, Serves(d), NEW i \in DOMAIN proxy[d]', NEW j \in DOMAIN proxy[d]',
                        i < j, IsInput(proxy[d]'[i]), IsInput(proxy[d]'[j])
                 PROVE  Earlier(proxy[d]'[i], proxy[d]'[j])
    BY DEF InOrder
  <2>2. InOrder(proxy[d])
    BY <2>1 DEF SInv, InputsSorted
  <2>3. CASE d = c
    <3>1. i + 1 < j + 1 /\ i + 1 \in DOMAIN proxy[d] /\ j + 1 \in DOMAIN proxy[d]
          /\ proxy[d]'[i] = proxy[d][i + 1] /\ proxy[d]'[j] = proxy[d][j + 1]
      BY <1>3, <2>1, <2>3, DrainedChannel
    <3>2. QED BY <2>1, <2>2, <3>1 DEF InOrder
  <2>4. CASE d # c
    <3>1. proxy[d]' = proxy[d]
      BY <2>4, DrainedChannel
    <3>2. QED BY <2>1, <2>2, <3>1 DEF InOrder
  <2>5. QED BY <2>3, <2>4
<1>6. CASE ServerInputs' = ServerInputs
  <2>1. \A d \in Conn : Serves(d) => AllEarlier(ServerInputs, proxy[d]')
    BY <1>2 DEF SInv, InputsSorted, AllEarlier
  <2>2. QED BY <1>1, <1>4, <1>5, <1>6, <2>1 DEF SInv, InputsSorted, Started
<1>7. CASE /\ Serves(c) /\ IsInput(Head(proxy[c])) /\ Head(proxy[c]) \in InputMessage
           /\ ServerInputs' = Append(ServerInputs, Head(proxy[c]))
  <2>1. /\ 1 \in DOMAIN proxy[c] /\ Head(proxy[c]) = proxy[c][1]
        /\ AllBefore(proxy[c], next_buffer_seq_no) /\ InOrder(proxy[c])
        /\ AllEarlier(ServerInputs, proxy[c]) /\ AllBefore(ServerInputs, next_buffer_seq_no)
        /\ InOrder(ServerInputs)
    BY <1>7, DrainedChannel DEF SInv, InputsSorted
  <2>2. PICK h \in InputMessage : h = Head(proxy[c])
    BY <1>7
  <2>3. /\ DOMAIN ServerInputs = 1..Len(ServerInputs) /\ Len(ServerInputs) \in Nat
        /\ \A i \in DOMAIN ServerInputs' :
              \/ i \in DOMAIN ServerInputs /\ ServerInputs'[i] = ServerInputs[i]
              \/ i = Len(ServerInputs) + 1 /\ ServerInputs'[i] = h
    <3>1. PICK q \in Seq(InputMessage) : q = ServerInputs
      BY ServerSide DEF SInv, IInv
    <3>2. /\ DOMAIN q = 1..Len(q) /\ Len(q) \in Nat
          /\ \A i \in DOMAIN Append(q, h) : \/ i \in DOMAIN q /\ Append(q, h)[i] = q[i]
                                            \/ i = Len(q) + 1 /\ Append(q, h)[i] = h
      BY AppendAt
    <3>3. QED BY <1>7, <2>2, <3>1, <3>2
  <2>4. IsInput(h) /\ Earlier(h, next_buffer_seq_no)
    BY <1>7, <2>1, <2>2 DEF AllBefore
  <2>5. AllBefore(ServerInputs', next_buffer_seq_no)
    BY <2>1, <2>3, <2>4 DEF AllBefore
  <2>6. \A i \in DOMAIN ServerInputs : IsInput(ServerInputs[i]) => Earlier(ServerInputs[i], h)
    BY <2>1, <2>2, <2>4 DEF AllEarlier
  <2>7. InOrder(ServerInputs')
    BY <2>1, <2>3, <2>6 DEF InOrder
  <2>8. \A i \in DOMAIN proxy[c]' : IsInput(proxy[c]'[i]) => Earlier(h, proxy[c]'[i])
    <3>1. SUFFICES ASSUME NEW i \in DOMAIN proxy[c]', IsInput(proxy[c]'[i])
                   PROVE  Earlier(h, proxy[c]'[i])
      OBVIOUS
    <3>2. 1 < i + 1 /\ i + 1 \in DOMAIN proxy[c] /\ proxy[c]'[i] = proxy[c][i + 1]
      BY DrainedChannel
    <3>3. QED BY <2>1, <2>2, <2>4, <3>1, <3>2 DEF InOrder
  <2>9. \A d \in Conn : Serves(d) => AllEarlier(ServerInputs', proxy[d]')
    <3>1. SUFFICES ASSUME NEW d \in Conn, Serves(d) PROVE AllEarlier(ServerInputs', proxy[d]')
      OBVIOUS
    <3>2. d = c
      BY <1>7, <3>1 DEF SInv, Serving
    <3>3. AllEarlier(ServerInputs, proxy[c]')
      BY <1>2, <2>1 DEF AllEarlier
    <3>4. QED BY <2>3, <2>8, <3>2, <3>3 DEF AllEarlier
  <2>10. stage = "Reconnecting" => AllEarlier(ServerInputs', pending_input_updates)
    <3>1. SUFFICES ASSUME stage = "Reconnecting" PROVE AllEarlier(ServerInputs', pending_input_updates)
      OBVIOUS
    <3>2. AllEarlier(ServerInputs, pending_input_updates) /\ AllEarlier(proxy[c], pending_input_updates)
      BY <3>1 DEF SInv, InputsSorted
    <3>3. QED BY <2>1, <2>2, <2>3, <3>2 DEF AllEarlier
  <2>11. QED BY <1>1, <1>4, <1>5, <2>5, <2>7, <2>9, <2>10 DEF SInv, InputsSorted, Started
<1>8. QED BY <1>6, <1>7

\* What a drain leaves of the server's side when the server records nothing
\* of it but, perhaps, the prompt or the status.
LEMMA DrainedSInv ==
    ASSUME SInv, IInv', NEW c \in Conn, Drained(c), SessionTypeOK',
           \A s \in Attempt : /\ sessions[s]'.log = sessions[s].log
                              /\ sessions[s]'.inputs = sessions[s].inputs,
           ~(Serves(c) /\ IsEvent(Head(proxy[c])) /\ Head(proxy[c]).no >= Len(ServerLog)),
           Serves(c) /\ IsPrompt(Head(proxy[c])) =>
              sessions'[session_id].prompt = Head(proxy[c]).prompt,
           session_id # None /\ ~(Serves(c) /\ IsPrompt(Head(proxy[c]))) =>
              sessions'[session_id].prompt = sessions[session_id].prompt
    PROVE  SInv'
<1>1. session_id # None => session_id \in Attempt
  BY DEF SInv, IInv, TypeOK
<1>2. ServerLog' = ServerLog /\ ServerInputs' = ServerInputs
  BY <1>1 DEF Drained, ServerLog, ServerInputs
<1>3. Logs'
  BY DEF Drained, SInv, Logs
<1>4. PICK old \in Nat : old = Len(ServerLog)
  BY ServerSide DEF SInv, IInv
<1>5. old <= event_no
  BY <1>4 DEF SInv, NoGap
<1>6. Serves(c) /\ IsEvent(Head(proxy[c])) => Head(proxy[c]).no < old
  <2>1. Head(proxy[c]) \in Upstream
    <3>1. Head(proxy[c]) = proxy[c][1] /\ 1 \in DOMAIN proxy[c] /\ proxy[c] \in Seq(Upstream)
      BY DrainedChannel
    <3>2. QED BY <3>1
  <2>2. IsEvent(Head(proxy[c])) => Head(proxy[c]).no \in Int
    BY <2>1, UpstreamKinds DEF EventNo
  <2>3. QED BY <1>4, <2>2
<1>7. NoGap' /\ Kept'
  BY <1>2, <1>4, <1>5, <1>6, DrainedNoGap
<1>8. Phases' /\ Sockets' /\ Asking' /\ Answered' /\ Serving'
  BY <1>2, <1>4, DrainedHandshakes
<1>9. PromptSent'
  BY DrainedPrompt
<1>10. InputsSorted'
  BY <1>2, DrainedInputs
<1>11. QED BY <1>3, <1>7, <1>8, <1>9, <1>10 DEF SInv

\* The connection a plain message is read from speaks for the session, if
\* for any.
LEMMA PlainReads ==
    ASSUME SInv, NEW c \in Conn, NEW type, Reads(c, type), type \notin {"Initialize", "Reconnect"}
    PROVE  /\ serves[c] # None => Serves(c)
           /\ session_id # None => session_id \in Attempt
<1>1. Head(proxy[c]) = proxy[c][1] /\ Head(proxy[c]).type = type /\ proxy[c] # <<>>
  BY ReadsAre
<1>2. proxy[c] # <<Initialize>>
  <2>1. SUFFICES ASSUME proxy[c] = <<Initialize>> PROVE FALSE
    OBVIOUS
  <2>2. proxy[c][1] = Initialize
    BY <2>1
  <2>3. QED BY <1>1, <2>2 DEF Initialize
<1>3. session_id # None => session_id \in Attempt
  BY DEF SInv, IInv, TypeOK
<1>4. CASE c \in Attempt
  <2>1. c = session_id
    BY <1>1, <1>2, <1>4 DEF SInv, Serving
  <2>2. QED BY <1>3, <1>4, <2>1, Attempts DEF SInv, Serving, Serves
<1>5. CASE c \in Reconnect
  BY <1>3, <1>5 DEF SInv, Serving, Serves
<1>6. QED BY <1>3, <1>4, <1>5, Attempts

LEMMA PlainIsDrained ==
    ASSUME SInv, NEW c \in Conn, NEW type, Reads(c, type), UNCHANGED <<down, serves>>
    PROVE  Drained(c) /\ IInv' /\ wire' = wire
BY ReadsAre DEF Drained

LEMMA LoseSInv ==
    ASSUME SInv, NEW c \in Conn, Lose(c)
    PROVE  SInv'
<1>1. /\ wire[c] = "down" /\ Drain(c)
      /\ UNCHANGED <<alive, stage, startupVars, retry, txVars, sock, sessionVars, serverVars>>
  BY DEF Lose
<1>2. IInv'
  BY <1>1, DrainIInv DEF SInv
<1>3. UNCHANGED <<wire, down, serves, sessions>>
  BY <1>1 DEF serverVars
<1>4. Drained(c)
  BY <1>1, <1>3 DEF Drain, Drained, startupVars, txVars, sessionVars, eventVars, inputVars
<1>5. serves[c] = None
  BY <1>1 DEF SInv, Sockets
<1>6. ~Serves(c)
  BY <1>5 DEF Serves
<1>7. SessionTypeOK'
  BY <1>3 DEF SInv, SessionTypeOK
<1>8. QED BY <1>2, <1>3, <1>4, <1>6, <1>7, DrainedSInv

LEMMA ServerEndSInv ==
    ASSUME SInv, NEW c \in Conn, ServerEndSession(c)
    PROVE  SInv'
<1>1. /\ Reads(c, "EndSession") /\ UNCHANGED <<down, serves>>
      /\ sessions' = IF serves[c] # None THEN [sessions EXCEPT ![serves[c]].status = "ended"]
                     ELSE sessions
  BY DEF ServerEndSession
<1>2. Drained(c) /\ IInv' /\ Head(proxy[c]).type = "EndSession" /\ wire' = wire
  BY <1>1, PlainIsDrained, ReadsAre
<1>3. serves[c] # None => serves[c] \in Attempt
  BY DEF SInv, SessionTypeOK
<1>4. SessionTypeOK'
  BY <1>1, <1>2, <1>3 DEF SInv, SessionTypeOK, SessionRecord
<1>5. \A s \in Attempt : /\ sessions[s]'.log = sessions[s].log
                         /\ sessions[s]'.inputs = sessions[s].inputs
                         /\ sessions[s]'.prompt = sessions[s].prompt
  BY <1>1, <1>3 DEF SInv, SessionTypeOK, SessionRecord
<1>6. session_id # None => session_id \in Attempt
  BY DEF SInv, IInv, TypeOK
<1>7. session_id' = session_id /\ ~IsEvent(Head(proxy[c])) /\ ~IsPrompt(Head(proxy[c]))
  BY <1>2 DEF Drained, IsEvent, IsPrompt
<1>8. QED BY <1>2, <1>4, <1>5, <1>6, <1>7, DrainedSInv

LEMMA ServerPromptSInv ==
    ASSUME SInv, NEW c \in Conn, ServerPrompt(c)
    PROVE  SInv'
<1>1. /\ Reads(c, "UpdateActivePrompt") /\ UNCHANGED <<down, serves>>
      /\ sessions' = IF serves[c] # None
                     THEN [sessions EXCEPT ![serves[c]].prompt = Head(proxy[c]).prompt]
                     ELSE sessions
  BY DEF ServerPrompt
<1>2. /\ Drained(c) /\ IInv' /\ Head(proxy[c]).type = "UpdateActivePrompt"
      /\ Head(proxy[c]) \in Upstream /\ wire' = wire
  BY <1>1, PlainIsDrained, ReadsAre
<1>3. /\ serves[c] # None => serves[c] \in Attempt /\ serves[c] = session_id
      /\ session_id # None => session_id \in Attempt
  BY <1>1, PlainReads DEF SInv, SessionTypeOK, Serves
<1>4. /\ IsPrompt(Head(proxy[c])) /\ ~IsEvent(Head(proxy[c]))
      /\ Head(proxy[c]).prompt \in 0..MaxPrompts
  BY <1>2, UpstreamKinds DEF IsPrompt, IsEvent
<1>5. SessionTypeOK'
  BY <1>1, <1>2, <1>3, <1>4 DEF SInv, SessionTypeOK, SessionRecord
<1>6. /\ \A s \in Attempt : /\ sessions[s]'.log = sessions[s].log
                            /\ sessions[s]'.inputs = sessions[s].inputs
      /\ Serves(c) => sessions'[session_id].prompt = Head(proxy[c]).prompt
      /\ session_id # None /\ ~Serves(c) => sessions'[session_id].prompt = sessions[session_id].prompt
  BY <1>1, <1>3 DEF SInv, SessionTypeOK, SessionRecord, Serves
<1>7. QED BY <1>2, <1>4, <1>5, <1>6, DrainedSInv

LEMMA ServerInputSInv ==
    ASSUME SInv, NEW c \in Conn, ServerInput(c)
    PROVE  SInv'
<1>1. /\ Reads(c, "UpdateInput") /\ UNCHANGED <<down, serves>>
      /\ sessions' = IF serves[c] # None
                     THEN [sessions EXCEPT ![serves[c]].inputs = Append(@, Head(proxy[c]))]
                     ELSE sessions
  BY DEF ServerInput
<1>2. /\ Drained(c) /\ IInv' /\ Head(proxy[c]).type = "UpdateInput"
      /\ Head(proxy[c]) \in Upstream /\ wire' = wire /\ session_id' = session_id
  BY <1>1, PlainIsDrained, ReadsAre DEF Drained
<1>3. /\ serves[c] # None => serves[c] \in Attempt /\ serves[c] = session_id
      /\ session_id # None => session_id \in Attempt
      /\ Serves(c) <=> serves[c] # None
  BY <1>1, PlainReads DEF SInv, SessionTypeOK, Serves
<1>4. /\ IsInput(Head(proxy[c])) /\ ~IsEvent(Head(proxy[c])) /\ ~IsPrompt(Head(proxy[c]))
      /\ Head(proxy[c]) \in InputMessage
  BY <1>2, UpstreamKinds DEF IsPrompt, IsEvent, IsInput
<1>5. CASE serves[c] = None
  <2>1. sessions' = sessions
    BY <1>1, <1>5
  <2>2. SessionTypeOK'
    BY <1>1, <1>2, <2>1 DEF SInv, SessionTypeOK
  <2>3. QED BY <1>2, <1>3, <1>4, <1>5, <2>1, <2>2, DrainedSInv
<1>6. CASE serves[c] # None
  <2>1. PICK s \in Attempt : s = session_id /\ s = serves[c] /\ s # None
    BY <1>3, <1>6
  <2>2. PICK h \in InputMessage : h = Head(proxy[c])
    BY <1>4
  <2>3. sessions' = [sessions EXCEPT ![s].inputs = Append(@, h)]
    BY <1>1, <1>6, <2>1, <2>2
  <2>4. /\ sessions \in [Attempt -> SessionRecord] /\ sessions[s].inputs \in Seq(InputMessage)
        /\ Append(sessions[s].inputs, h) \in Seq(InputMessage)
    <3>1. sessions \in [Attempt -> SessionRecord] /\ sessions[s].inputs \in Seq(InputMessage)
      BY DEF SInv, SessionTypeOK, SessionRecord
    <3>2. QED BY <3>1, AppendAt
  <2>5. /\ sessions' \in [Attempt -> SessionRecord]
        /\ sessions'[s].inputs = Append(sessions[s].inputs, h)
        /\ \A t \in Attempt : /\ sessions[t]'.log = sessions[t].log
                              /\ sessions[t]'.prompt = sessions[t].prompt
                              /\ t # s => sessions[t]'.inputs = sessions[t].inputs
    BY <2>3, <2>4 DEF SessionRecord
  <2>6. SessionTypeOK'
    BY <1>1, <1>2, <2>5 DEF SInv, SessionTypeOK
  <2>7. ServerLog' = ServerLog /\ ServerInputs' = Append(ServerInputs, Head(proxy[c]))
    BY <1>2, <2>1, <2>2, <2>5 DEF ServerLog, ServerInputs
  <2>8. Logs'
    BY <1>2, <2>1, <2>5 DEF SInv, Logs
  <2>9. PICK old \in Nat : old = Len(ServerLog)
    BY ServerSide DEF SInv, IInv
  <2>10. old <= event_no
    BY <2>9 DEF SInv, NoGap
  <2>11. NoGap' /\ Kept'
    BY <1>2, <1>4, <2>7, <2>9, <2>10, DrainedNoGap
  <2>12. Phases' /\ Sockets' /\ Asking' /\ Answered' /\ Serving'
    BY <1>2, <2>7, <2>9, DrainedHandshakes
  <2>13. PromptSent'
    BY <1>2, <1>4, <2>1, <2>5, DrainedPrompt
  <2>14. InputsSorted'
    BY <1>2, <1>3, <1>4, <1>6, <2>7, DrainedInputs
  <2>15. QED BY <1>2, <2>6, <2>8, <2>11, <2>12, <2>13, <2>14 DEF SInv
<1>7. QED BY <1>5, <1>6

\* The server records exactly the event it expects: a serving channel leaves
\* no gap, and an older event is dropped.
LEMMA ServerEventSInv ==
    ASSUME SInv, NEW c \in Conn, ServerEvent(c)
    PROVE  /\ SInv'
           /\ ServerLog' # ServerLog => /\ ServerLog' = Append(ServerLog, Len(ServerLog))
                                        /\ Len(ServerLog) < event_no
<1>1. /\ Reads(c, "OrderedTerminalEvent") /\ UNCHANGED <<down, serves>>
      /\ sessions' = IF serves[c] # None /\ Head(proxy[c]).no >= NextExpected(serves[c])
                     THEN [sessions EXCEPT ![serves[c]].log = Append(@, Head(proxy[c]).no)]
                     ELSE sessions
  BY DEF ServerEvent
<1>2. /\ Drained(c) /\ IInv' /\ Head(proxy[c]).type = "OrderedTerminalEvent"
      /\ Head(proxy[c]) \in Upstream /\ wire' = wire /\ session_id' = session_id
      /\ Head(proxy[c]) = proxy[c][1] /\ 1 \in DOMAIN proxy[c]
  BY <1>1, PlainIsDrained, ReadsAre DEF Drained
<1>3. /\ serves[c] # None => serves[c] \in Attempt /\ serves[c] = session_id
      /\ session_id # None => session_id \in Attempt
      /\ Serves(c) <=> serves[c] # None
  BY <1>1, PlainReads DEF SInv, SessionTypeOK, Serves
<1>4. PICK n \in Nat : n = Head(proxy[c]).no /\ n < event_no
  <2>1. IsEvent(Head(proxy[c])) /\ Head(proxy[c]).no \in Nat
    BY <1>2, UpstreamKinds DEF IsEvent, EventNo
  <2>2. QED BY <1>2, <2>1 DEF SInv, NoGap
<1>5. IsEvent(Head(proxy[c])) /\ ~IsPrompt(Head(proxy[c])) /\ ~IsInput(Head(proxy[c]))
  BY <1>2 DEF IsEvent, IsPrompt, IsInput
<1>6. PICK old \in Nat : old = Len(ServerLog)
  BY ServerSide DEF SInv, IInv
<1>7. serves[c] # None => NextExpected(serves[c]) = old
  BY <1>3, <1>6, NextIsLength, ServerSide DEF SInv, IInv
<1>8. CASE ~(serves[c] # None /\ n >= old)
  <2>1. sessions' = sessions
    BY <1>1, <1>4, <1>7, <1>8
  <2>2. SessionTypeOK'
    BY <1>1, <1>2, <2>1 DEF SInv, SessionTypeOK
  <2>3. SInv'
    BY <1>2, <1>3, <1>4, <1>5, <1>6, <1>8, <2>1, <2>2, DrainedSInv
  <2>4. QED BY <1>2, <2>1, <2>3 DEF ServerLog
<1>9. CASE serves[c] # None /\ n >= old
  <2>1. PICK s \in Attempt : s = session_id /\ s = serves[c] /\ s # None
    BY <1>3, <1>9
  <2>2. n = old
    <3>1. n <= old
      <4>1. \/ n <= Len(ServerLog)
            \/ \E j \in 1..(1 - 1) : proxy[c][j] = Event(n - 1)
        BY <1>2, <1>3, <1>4, <1>5, <1>9 DEF SInv, NoGap
      <4>2. QED BY <1>6, <4>1
    <3>2. QED BY <1>9, <3>1
  <2>3. sessions' = [sessions EXCEPT ![s].log = Append(@, n)]
    BY <1>1, <1>4, <1>7, <1>9, <2>1
  <2>4. PICK log \in Seq(Int) : log = sessions[s].log /\ Len(log) = n
    BY <1>6, <2>1, <2>2, ServerSide DEF SInv, IInv
  <2>5. /\ sessions' \in [Attempt -> SessionRecord]
        /\ sessions'[s].log = Append(log, n)
        /\ \A t \in Attempt : /\ sessions[t]'.inputs = sessions[t].inputs
                              /\ sessions[t]'.prompt = sessions[t].prompt
                              /\ t # s => sessions[t]'.log = sessions[t].log
    <3>1. Append(log, n) \in Seq(Int) /\ sessions \in [Attempt -> SessionRecord]
      BY <2>4 DEF SInv, SessionTypeOK
    <3>2. QED BY <2>3, <2>4, <3>1 DEF SessionRecord
  <2>6. SessionTypeOK'
    BY <1>1, <1>2, <2>5 DEF SInv, SessionTypeOK
  <2>7. ServerLog = log /\ ServerLog' = Append(log, n) /\ ServerInputs' = ServerInputs
    BY <1>2, <2>1, <2>4, <2>5 DEF ServerLog, ServerInputs
  <2>8. PICK new \in Nat : new = Len(ServerLog)' /\ new = n + 1
    BY <2>4, <2>7
  <2>9. Logs'
    <3>1. /\ DOMAIN log = 1..n /\ DOMAIN Append(log, n) = 1..(n + 1)
          /\ \A i \in DOMAIN log : Append(log, n)[i] = log[i]
          /\ Append(log, n)[n + 1] = n
      BY <2>4, AppendAt
    <3>2. \A i \in DOMAIN Append(log, n) : i \in DOMAIN log \/ i = n + 1
      BY <3>1
    <3>3. \A i \in DOMAIN log : log[i] = i - 1
      BY <2>4 DEF SInv, Logs
    <3>4. \A i \in DOMAIN Append(log, n) : Append(log, n)[i] = i - 1
      BY <3>1, <3>2, <3>3
    <3>5. ASSUME NEW t \in Attempt
          PROVE  /\ \A i \in DOMAIN sessions[t]'.log : sessions[t]'.log[i] = i - 1
                 /\ t # session_id => sessions[t]'.log = <<>> /\ sessions[t]'.inputs = <<>>
      <4>1. CASE t = s
        BY <2>1, <2>5, <3>4, <4>1
      <4>2. CASE t # s
        <5>1. sessions[t]'.log = sessions[t].log /\ sessions[t]'.inputs = sessions[t].inputs
          BY <2>5, <4>2
        <5>2. QED BY <5>1 DEF SInv, Logs
      <4>3. QED BY <4>1, <4>2
    <3>6. QED BY <1>2, <3>5 DEF Logs
  <2>10. event_no \in Nat /\ old <= new /\ new <= event_no
    BY <1>4, <2>2, <2>8 DEF SInv, IInv, TypeOK
  <2>11. NoGap' /\ Kept'
    BY <1>2, <1>4, <1>6, <2>8, <2>10, DrainedNoGap
  <2>12. Phases' /\ Sockets' /\ Asking' /\ Answered' /\ Serving'
    BY <1>2, <1>3, <1>6, <1>9, <2>8, <2>10, DrainedHandshakes
  <2>13. PromptSent'
    BY <1>2, <1>5, <2>1, <2>5, DrainedPrompt
  <2>14. InputsSorted'
    BY <1>2, <2>7, DrainedInputs
  <2>15. SInv'
    BY <1>2, <2>6, <2>9, <2>11, <2>12, <2>13, <2>14 DEF SInv
  <2>16. QED BY <1>4, <1>6, <2>2, <2>4, <2>7, <2>15
<1>10. QED BY <1>8, <1>9

-----------------------------------------------------------------------------
\* The server acknowledges what it has of the session.
LEMMA ServerAckSInv ==
    ASSUME SInv, NEW c \in Conn, ServerAck(c)
    PROVE  SInv' /\ ServerLog' = ServerLog
<1>1. /\ wire[c] = "up" /\ serves[c] # None
      /\ sessions[serves[c]].acked < NextExpected(serves[c])
      /\ sessions' = [sessions EXCEPT ![serves[c]].acked = NextExpected(serves[c])]
      /\ Send(c, [type |-> "EventsProcessedAck", no |-> NextExpected(serves[c]) - 1])
      /\ UNCHANGED <<vars, wire, serves>>
  BY DEF ServerAck
<1>2. UNCHANGED <<alive, stage, current_attempt, dialing, retry, session_id, event_no, unacked,
                  next_buffer_seq_no, pending_input_updates, prompt, ws_proxy_tx, tx_open, proxy,
                  sock>>
  BY <1>1 DEF vars, startupVars, eventVars, inputVars, txVars
<1>3. IInv'
  BY <1>1, StutterIInv DEF SInv
<1>4. PICK s \in Attempt : s = serves[c]
  BY <1>1 DEF SInv, SessionTypeOK
<1>5. NextExpected(s) = Len(sessions[s].log) /\ sessions[s].acked \in Nat /\ sessions[s].log \in Seq(Int)
  BY NextIsLength DEF SInv, SessionTypeOK, SessionRecord
<1>6. s = session_id
  <2>1. SUFFICES ASSUME s # session_id PROVE FALSE
    OBVIOUS
  <2>2. sessions[s].log = <<>>
    BY <2>1 DEF SInv, Logs
  <2>3. QED BY <1>1, <1>4, <1>5, <2>2
<1>7. PICK n \in Nat : n = Len(sessions[s].log) /\ n = Len(ServerLog) /\ session_id # None
  BY <1>4, <1>5, <1>6, Attempts DEF ServerLog
<1>8. PICK m \in Downstream : m = [type |-> "EventsProcessedAck", no |-> n - 1]
  <2>1. n - 1 \in Nat
    BY <1>1, <1>4, <1>5, <1>7
  <2>2. QED BY <2>1 DEF Downstream, Ack
<1>9. m.type = "EventsProcessedAck" /\ m.no < n
  BY <1>8
<1>10. PICK q \in Seq(Downstream) : q = down[c]
  BY DEF SInv, SessionTypeOK
<1>11. /\ down[c]' = Append(q, m) /\ \A d \in Conn : d # c => down[d]' = down[d]
       /\ down' \in [Conn -> Seq(Downstream)]
  <2>1. Append(q, m) \in Seq(Downstream)
    BY AppendAt
  <2>2. down' = [down EXCEPT ![c] = Append(@, m)]
    BY <1>1, <1>4, <1>5, <1>7, <1>8 DEF Send
  <2>3. QED BY <1>10, <2>1, <2>2 DEF SInv, SessionTypeOK
<1>12. /\ sessions' \in [Attempt -> SessionRecord]
       /\ \A t \in Attempt : /\ sessions[t]'.log = sessions[t].log
                             /\ sessions[t]'.inputs = sessions[t].inputs
                             /\ sessions[t]'.prompt = sessions[t].prompt
  BY <1>1, <1>4, <1>5, <1>7 DEF SInv, SessionTypeOK, SessionRecord
<1>13. SessionTypeOK'
  BY <1>1, <1>11, <1>12 DEF SInv, SessionTypeOK
<1>14. /\ ServerLog' = ServerLog /\ ServerInputs' = ServerInputs
       /\ session_id # None => sessions'[session_id].prompt = sessions[session_id].prompt
  BY <1>2, <1>4, <1>6, <1>12 DEF ServerLog, ServerInputs
<1>15. \A d \in Conn : (Serves(d)' <=> Serves(d)) /\ (Sending(d)' <=> Sending(d))
                       /\ (Resuming(d)' <=> Resuming(d))
  BY <1>1, <1>2 DEF Serves, Sending, Started, Resuming
<1>16. Logs' /\ Phases' /\ Sockets' /\ Serving'
  <2>1. Logs'
    BY <1>2, <1>12 DEF SInv, Logs
  <2>2. Phases'
    BY <1>2 DEF SInv, Phases, Started
  <2>3. Sockets'
    BY <1>1, <1>2, <1>11 DEF SInv, Sockets
  <2>4. Serving'
    BY <1>1, <1>2, <1>15 DEF SInv, Serving
  <2>5. QED BY <2>1, <2>2, <2>3, <2>4
<1>17. Asking'
  BY <1>1, <1>2, <1>11, <1>15 DEF SInv, Asking
<1>18. Answered'
  <2>1. /\ DOMAIN q = 1..Len(q) /\ Len(q) \in Nat /\ DOMAIN Append(q, m) = 1..(Len(q) + 1)
        /\ \A i \in DOMAIN q : Append(q, m)[i] = q[i]
        /\ Append(q, m)[Len(q) + 1] = m
    BY AppendAt
  <2>2. ASSUME NEW i \in DOMAIN Append(q, m)
        PROVE  (i \in DOMAIN q /\ Append(q, m)[i] = q[i]) \/ Append(q, m)[i] = m
    BY <2>1
  <2>3. ASSUME NEW d \in Conn, NEW i \in DOMAIN down[d]'
        PROVE  (i \in DOMAIN down[d] /\ down[d]'[i] = down[d][i]) \/ down[d]'[i] = m
    BY <1>10, <1>11, <2>2
  <2>4. UNCHANGED <<serves, proxy, session_id>>
    BY <1>1, <1>2
  <2>5. QED BY <1>7, <1>9, <1>14, <1>15, <2>3, <2>4 DEF SInv, Answered
<1>19. NoGap' /\ Kept'
  BY <1>2, <1>14, <1>15 DEF SInv, NoGap, Kept
<1>20. PromptSent'
  <2>1. \A d \in Conn : Serves(d) => session_id # None
    BY DEF Serves
  <2>2. QED BY <1>2, <1>14, <1>15, <2>1 DEF SInv, PromptSent
<1>21. InputsSorted'
  BY <1>2, <1>14, <1>15 DEF SInv, InputsSorted, Started
<1>22. QED BY <1>3, <1>13, <1>14, <1>16, <1>17, <1>18, <1>19, <1>20, <1>21 DEF SInv

-----------------------------------------------------------------------------
\* Every step.

LEMMA SessionIsNext ==
    ASSUME SInv, [SessionNext]_allVars
    PROVE  [Next]_vars
<1>1. ASSUME NEW c \in Conn, Discard(c) \/ ServerAck(c) \/ Hangup(c) \/ Break(c)
      PROVE  UNCHANGED vars
  BY <1>1 DEF Discard, ServerAck, Hangup, Break
<1>2. ASSUME NEW c \in Conn, SocketGone(c)
      PROVE  Next
  BY <1>2 DEF SocketGone, Next
<1>3. ASSUME NEW c \in Conn, Server(c) \/ Lose(c)
      PROVE  Next
  BY <1>3 DEF Server, ServerInitialize, ServerResume, ServerEvent, ServerPrompt, ServerInput,
     ServerEndSession, Reads, Lose, Next
<1>4. CASE ClientStep
  BY <1>4 DEF ClientStep, Next
<1>5. CASE UNCHANGED allVars
  BY <1>5 DEF allVars
<1>6. QED BY <1>1, <1>2, <1>3, <1>4, <1>5, DeliverIsNext DEF SessionNext

LEMMA SessionStutters ==
    ASSUME SInv, UNCHANGED allVars
    PROVE  SInv'
<1>1. UNCHANGED <<vars, wire, down, serves, sessions>>
  BY DEF allVars, serverVars
<1>2. IInv'
  BY <1>1, StutterIInv DEF SInv
<1>3. SessionTypeOK'
  BY <1>1 DEF SInv, SessionTypeOK
<1>4. DownShorter
  <2>1. ASSUME NEW c \in Conn, NEW i \in DOMAIN down[c] PROVE i >= i
    <3>1. down[c] \in Seq(Downstream)
      BY DEF SInv, SessionTypeOK
    <3>2. QED BY <3>1
  <2>2. QED BY <1>1, <2>1 DEF DownShorter
<1>5. UNCHANGED <<alive, stage, current_attempt, retry, txVars, proxy, sock, sessionVars>>
      /\ dialing' \subseteq dialing
  BY <1>1 DEF vars, startupVars, sessionVars
<1>6. \A c \in Conn : wire[c]' # "up" => serves[c]' = None
  BY <1>1 DEF SInv, Sockets
<1>7. QED BY <1>1, <1>2, <1>3, <1>4, <1>5, <1>6, IdleSInv

LEMMA SessionNextSInv == SInv /\ [SessionNext]_allVars => SInv'
<1> SUFFICES ASSUME SInv, [SessionNext]_allVars PROVE SInv'
  OBVIOUS
<1>1. IInv'
  BY SessionIsNext, NextIInv DEF SInv
<1>2. ASSUME NEW c \in Conn, Server(c)
      PROVE  SInv'
  BY <1>2, ServerInitializeSInv, ServerResumeSInv, ServerEventSInv, ServerPromptSInv,
     ServerInputSInv, ServerEndSInv DEF Server
<1>3. ASSUME NEW c \in Conn,
             \/ Deliver(c) \/ Discard(c) \/ SocketGone(c) \/ ServerAck(c)
             \/ Hangup(c) \/ Break(c) \/ Lose(c)
      PROVE  SInv'
  BY <1>1, <1>3, DeliverSInv, DiscardSInv, SocketGoneSInv, ServerAckSInv, TransportSInv, LoseSInv
<1>4. QED BY <1>2, <1>3, ClientSInv, SessionStutters DEF SessionNext

LEMMA SessionInvariant == SessionSpec => []SInv
<1>1. QED BY InitSInv, SessionNextSInv, PTL DEF SessionSpec

-----------------------------------------------------------------------------
\* What follows.

\* Whatever this server, with its connections that break, does to the sharer
\* is something the open network of SharerNetwork allows: what is proved of
\* that network under any server holds of the composed session.
THEOREM SessionIsOpenNetwork == SessionSpec => Spec
<1>1. SessionInit => Init
  BY DEF SessionInit
<1>2. SInv /\ [SessionNext]_allVars => [Next]_vars
  BY SessionIsNext
<1>3. QED BY <1>1, <1>2, SessionInvariant, PTL DEF SessionSpec, Spec

\* The connection the sharer sends on speaks for the session it was told, or
\* for none: no late answer of an abandoned startup attempt is taken for the
\* current one's.
THEOREM NeverAnotherSession == SessionSpec => []OneSession
<1>1. SInv => OneSession
  <2>1. SUFFICES ASSUME SInv, session_id # None, Started
                 PROVE  serves[ws_proxy_tx] \in {None, session_id}
    BY DEF OneSession
  <2>2. ws_proxy_tx \in Conn
    BY <2>1 DEF SInv, IInv, TypeOK
  <2>3. QED BY <2>1, <2>2, Attempts DEF SInv, Phases, Serving
<1>2. QED BY <1>1, SessionInvariant, PTL

\* Every event the server may still ask for is kept, across acknowledgements
\* and reconnects.
THEOREM EventsAreKept == SessionSpec => []NothingLost
<1>1. SInv => NothingLost
  <2>1. SUFFICES ASSUME SInv, session_id # None
                 PROVE  NextExpected(session_id)..(event_no - 1) \subseteq unacked
    BY DEF NothingLost
  <2>2. NextExpected(session_id) = Len(ServerLog)
    BY <2>1, NextIsLength, ServerSide DEF SInv, IInv
  <2>3. QED BY <2>1, <2>2 DEF SInv, Kept
<1>2. QED BY <1>1, SessionInvariant, PTL

\* Once the connection of a started session is idle, the server shows the
\* sharer's prompt; and it gets the input updates in the order they were
\* made, across reconnects.
THEOREM StateArrives == SessionSpec => []LatestStateArrives
<1>1. SInv => PromptCaughtUp
  <2>1. SUFFICES ASSUME SInv, Started, alive, tx_open, serves[ws_proxy_tx] = session_id,
                        proxy[ws_proxy_tx] = <<>>
                 PROVE  sessions[session_id].prompt = prompt
    BY DEF PromptCaughtUp
  <2>2. ws_proxy_tx \in Conn /\ session_id # None
    BY <2>1 DEF SInv, IInv, TypeOK, Phases, Started
  <2>3. Serves(ws_proxy_tx) /\ Sending(ws_proxy_tx)
    BY <2>1, <2>2 DEF Serves, Sending
  <2>4. QED BY <2>1, <2>2, <2>3 DEF SInv, PromptSent
<1>2. SInv => InputsInOrder
  <2>1. SUFFICES ASSUME SInv, NEW s \in Attempt,
                        NEW i \in DOMAIN sessions[s].inputs, NEW j \in DOMAIN sessions[s].inputs, i < j
                 PROVE  Earlier(sessions[s].inputs[i], sessions[s].inputs[j])
    BY DEF InputsInOrder, Earlier
  <2>2. s = session_id
    BY <2>1 DEF SInv, Logs
  <2>3. ServerInputs = sessions[s].inputs
    BY <2>2, Attempts DEF ServerInputs
  <2>4. sessions[s].inputs \in Seq(InputMessage)
    BY <2>1 DEF SInv, SessionTypeOK, SessionRecord
  <2>5. sessions[s].inputs[i] \in InputMessage /\ sessions[s].inputs[j] \in InputMessage
    BY <2>4
  <2>6. IsInput(sessions[s].inputs[i]) /\ IsInput(sessions[s].inputs[j])
    BY <2>5, AllInputs
  <2>7. InOrder(sessions[s].inputs)
    BY <2>1, <2>3 DEF SInv, InputsSorted
  <2>8. QED BY <2>1, <2>6, <2>7 DEF InOrder
<1>3. SInv => LatestStateArrives
  BY <1>1, <1>2 DEF LatestStateArrives
<1>4. QED BY <1>3, SessionInvariant, PTL

-----------------------------------------------------------------------------
\* The refinement of OrderedLog.

\* The network is gone, or finished, for good.
LEMMA OverStays ==
    ASSUME [Next]_vars, Over
    PROVE  Over'
<1> USE DEF startupVars
<1>1. CASE stage = "Finished"
  BY <1>1, FinishedStep DEF Over
<1>2. CASE ~alive
  <2>1. ~Client
    BY <1>2 DEF Client, ConnectOk, ConnectErr, StartupTimeout, ReconnectOk, ReconnectErr,
       ReconnectTimer, SendEvent, StopSharing, ChangePrompt, SendInputUpdate
  <2>2. ASSUME NEW c \in Conn
        PROVE  /\ ~StartupSocketError(c) /\ ~StreamDone(c)
               /\ ~\E s \in Attempt : RecvSessionInitialized(c, s)
               /\ ~\E r \in BOOLEAN : RecvFailedToInitialize(c, r)
               /\ ~\E n \in 0..MaxSessionSize : RecvSessionReconnected(c, n)
               /\ ~RecvTerminated(c)
               /\ ~\E n \in EventNo : RecvAck(c, n)
    BY <1>2 DEF StartupSocketError, StreamDone, RecvSessionInitialized, RecvFailedToInitialize,
       RecvSessionReconnected, RecvTerminated, RecvAck, Delivers
  <2>3. alive' = alive
    BY <2>1, <2>2 DEF Next, vars
  <2>4. QED BY <1>2, <2>3 DEF Over
<1>3. QED BY <1>1, <1>2 DEF Over

\* Only the reading of an event changes the server's log.
LEMMA LogKept ==
    ASSUME SInv, [SessionNext]_allVars, \A c \in Conn : ~ServerEvent(c)
    PROVE  ServerLog' = ServerLog
<1>1. ASSUME session_id' = session_id,
             \A s \in Attempt : sessions[s]'.log = sessions[s].log
      PROVE  ServerLog' = ServerLog
  BY <1>1 DEF SInv, IInv, TypeOK, ServerLog
<1>2. CASE ClientStep
  <2>1. session_id' = session_id
    BY <1>2 DEF ClientStep, Client, ConnectOk, ConnectErr, StartupTimeout, ReconnectOk,
       ReconnectErr, ReconnectTimer, SendEvent, StopSharing, ChangePrompt, SendInputUpdate,
       sessionVars
  <2>2. QED BY <1>1, <1>2, <2>1 DEF ClientStep
<1>3. ASSUME NEW c \in Conn, Deliver(c)
      PROVE  ServerLog' = ServerLog
  <2>1. sessions' = sessions
    BY <1>3 DEF Deliver
  <2>2. CASE Head(down[c]).type = "SessionInitialized"
             /\ RecvSessionInitialized(c, Head(down[c]).session)
    <3>1. Head(down[c]) = down[c][1] /\ 1 \in DOMAIN down[c]
      BY <1>3, TailIsShorter DEF Deliver, SInv, SessionTypeOK
    <3>2. Head(down[c]).session = c /\ c \in Attempt /\ session_id' = c /\ stage = "BeforeStarted"
      BY <2>2, <3>1 DEF SInv, Answered, RecvSessionInitialized
    <3>3. session_id = None /\ c # session_id
      BY <3>2, Attempts DEF SInv, Phases
    <3>4. sessions[c].log = <<>>
      BY <3>2, <3>3 DEF SInv, Logs
    <3>5. QED BY <2>1, <3>2, <3>3, <3>4 DEF ServerLog
  <2>3. CASE session_id' = session_id
    BY <1>1, <2>1, <2>3
  <2>4. QED
    BY <1>3, <2>2, <2>3
    DEF Deliver, RecvFailedToInitialize, RecvSessionReconnected, RecvTerminated, RecvAck, sessionVars
<1>4. ASSUME NEW c \in Conn, Discard(c) \/ Hangup(c) \/ Break(c)
      PROVE  ServerLog' = ServerLog
  BY <1>1, <1>4 DEF Discard, Hangup, Break, vars
<1>5. ASSUME NEW c \in Conn, SocketGone(c) \/ Lose(c)
      PROVE  ServerLog' = ServerLog
  BY <1>1, <1>5 DEF SocketGone, Lose, StreamDone, StartupSocketError, serverVars, sessionVars
<1>6. ASSUME NEW c \in Conn, Server(c)
      PROVE  ServerLog' = ServerLog
  <2>1. session_id' = session_id /\ c \in Conn /\ serves[c] \in Attempt \cup {None}
    BY <1>6 DEF Server, ServerInitialize, ServerResume, ServerEvent, ServerPrompt, ServerInput,
       ServerEndSession, Reads, sessionVars, SInv, SessionTypeOK
  <2>2. sessions \in [Attempt -> SessionRecord]
    BY DEF SInv, SessionTypeOK
  <2>3. \A s \in Attempt : sessions[s]'.log = sessions[s].log
    <3>1. CASE ServerInitialize(c)
      <4>1. sessions' = sessions \/ sessions' = [sessions EXCEPT ![c].status = "active"]
        BY <3>1 DEF ServerInitialize
      <4>2. c \in Attempt
        BY <3>1, RequestIsRead DEF ServerInitialize
      <4>3. sessions[c] \in SessionRecord
        BY <2>2, <4>2
      <4>4. [sessions[c] EXCEPT !.status = "active"].log = sessions[c].log
        BY <4>3 DEF SessionRecord
      <4>5. CASE sessions' = sessions
        BY <4>5
      <4>6. CASE sessions' = [sessions EXCEPT ![c].status = "active"]
        <5>1. \A s \in Attempt : s # c => sessions'[s] = sessions[s]
          BY <2>2, <4>6
        <5>2. sessions'[c] = [sessions[c] EXCEPT !.status = "active"]
          BY <2>2, <4>2, <4>6
        <5>3. QED BY <4>4, <5>1, <5>2
      <4>7. QED BY <4>1, <4>5, <4>6
    <3>2. CASE ServerResume(c)
      BY <3>2 DEF ServerResume
    <3>3. CASE ServerPrompt(c)
      BY <2>1, <2>2, <3>3 DEF ServerPrompt, SessionRecord
    <3>4. CASE ServerInput(c)
      BY <2>1, <2>2, <3>4 DEF ServerInput, SessionRecord
    <3>5. CASE ServerEndSession(c)
      BY <2>1, <2>2, <3>5 DEF ServerEndSession, SessionRecord
    <3>6. QED BY <1>6, <3>1, <3>2, <3>3, <3>4, <3>5 DEF Server
  <2>4. QED BY <1>1, <2>1, <2>3
<1>7. CASE UNCHANGED allVars
  BY <1>1, <1>7 DEF allVars, vars, serverVars
<1>8. QED BY <1>2, <1>3, <1>4, <1>5, <1>6, <1>7, ServerAckSInv DEF SessionNext

\* Events are numbered one at a time, while the session goes on.
LEMMA RecordStep ==
    ASSUME [Next]_vars
    PROVE  \/ event_no' = event_no
           \/ event_no' = event_no + 1 /\ Over' = Over
<1> USE DEF sessionVars, eventVars
<1>1. ASSUME SendEvent
      PROVE  \/ event_no' = event_no
             \/ event_no' = event_no + 1 /\ Over' = Over
  BY <1>1 DEF SendEvent, Over
<1>2. ASSUME NEW c \in Conn,
             \/ StartupSocketError(c) \/ StreamDone(c)
             \/ \E s \in Attempt : RecvSessionInitialized(c, s)
             \/ \E r \in BOOLEAN : RecvFailedToInitialize(c, r)
             \/ \E n \in 0..MaxSessionSize : RecvSessionReconnected(c, n)
             \/ RecvTerminated(c)
             \/ \E n \in EventNo : RecvAck(c, n)
      PROVE  event_no' = event_no
  BY <1>2 DEF StartupSocketError, StreamDone, RecvSessionInitialized, RecvFailedToInitialize,
     RecvSessionReconnected, RecvTerminated, RecvAck
<1>3. ASSUME Client, ~SendEvent
      PROVE  event_no' = event_no
  BY <1>3 DEF Client, ConnectOk, ConnectErr, StartupTimeout, ReconnectOk, ReconnectErr,
     ReconnectTimer, StopSharing, ChangePrompt, SendInputUpdate
<1>4. QED BY <1>1, <1>2, <1>3 DEF Next, vars

LEMMA LogStep ==
    ASSUME SInv, [SessionNext]_allVars
    PROVE  [Log!Next]_(Log!vars)
<1>1. [Next]_vars
  BY SessionIsNext
<1>2. CASE \E c \in Conn : ServerEvent(c)
  <2>1. PICK c \in Conn : ServerEvent(c)
    BY <1>2
  <2>2. event_no' = event_no /\ Over' = Over
    BY <2>1 DEF ServerEvent, Reads, sessionVars, eventVars, Over
  <2>3. CASE ServerLog' = ServerLog
    BY <2>2, <2>3 DEF Log!vars
  <2>4. CASE ServerLog' # ServerLog
    <3>1. PICK log \in Seq(Int) : log = ServerLog
      BY ServerSide DEF SInv, IInv
    <3>2. ServerLog' = Append(log, Len(log)) /\ Len(log) < event_no
      BY <2>1, <2>4, <3>1, ServerEventSInv
    <3>3. Len(log) \in Nat /\ event_no \in Nat
      BY <3>1 DEF SInv, IInv, TypeOK
    <3>4. 1 \in 1..(event_no - Len(log))
      BY <3>2, <3>3
    <3>5. Append(log, Len(log)) = log \o [i \in 1..1 |-> Len(log) + i - 1]
      <4>1. [i \in 1..1 |-> Len(log) + i - 1] = <<Len(log)>>
        BY <3>3
      <4>2. QED BY <3>1, <3>3, <4>1
    <3>6. Log!Deliver
      BY <2>2, <3>1, <3>2, <3>4, <3>5 DEF Log!Deliver
    <3>7. QED BY <3>6 DEF Log!Next
  <2>5. QED BY <2>3, <2>4
<1>3. CASE \A c \in Conn : ~ServerEvent(c)
  <2>1. ServerLog' = ServerLog
    BY <1>3, LogKept
  <2>2. CASE event_no' = event_no
    <3>1. Over' = Over \/ Over' = TRUE
      BY <1>1, OverStays DEF Over
    <3>2. QED BY <2>1, <2>2, <3>1 DEF Log!Next, Log!End, Log!vars
  <2>3. CASE event_no' = event_no + 1 /\ Over' = Over
    BY <2>1, <2>3 DEF Log!Next, Log!Record
  <2>4. QED BY <1>1, <2>2, <2>3, RecordStep
<1>4. QED BY <1>2, <1>3

\* The sharer, its connections and the server implement OrderedLog: the
\* events reach the server as 0, 1, 2, ..., each once, whatever breaks, is
\* sent again or overlaps.
THEOREM SessionImplementsLog == SessionSpec => ImplementsOrderedLog
<1>1. SessionInit => Log!Init
  BY DEF SessionInit, Init, Log!Init, ServerLog, Over
<1>2. SInv /\ [SessionNext]_allVars => [Log!Next]_(Log!vars)
  BY LogStep
<1>3. QED BY <1>1, <1>2, SessionInvariant, PTL DEF SessionSpec, ImplementsOrderedLog, Log!Spec
=============================================================================
