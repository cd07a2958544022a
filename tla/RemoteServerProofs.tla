------------------------- MODULE RemoteServerProofs -------------------------
(***************************************************************************)
(* What RemoteServer promises for any number of sessions, hosts, requests  *)
(* and attempts.                                                           *)
(***************************************************************************)
EXTENDS RemoteServer, TLAPS

\* A background task is at work only for a session that waits for it, or was
\* deregistered meanwhile.
TaskFitsState ==
    \A s \in Sessions :
        /\ task[s] # "none" => sessions[s] \in {"Connecting", "Initializing", "Reconnecting",
                                               "AwaitingExitStatus", "Deregistered"}
        /\ task[s] \in {"handshake", "shaken"} => sessions[s] \in {"Initializing", "Deregistered"}

\* The host is known as long as a session is connected to it or reconnects.
HostRemembered ==
    \A s \in Sessions :
        /\ sessions[s] \in {"Connected", "Reconnecting"} => session_host[s] \in Hosts
        /\ attempt[s] > 0 /\ sessions[s] \notin {"Disconnected", "Deregistered"}
               => session_host[s] \in Hosts

\* The entry of a caller that has passed its check is dropped with the reader.
EntryDropped ==
    \A c \in Calls : \A s \in Sessions :
        call[c].session = s /\ call[c].pc \in {"checked", "waiting"}
            /\ reader[s] \in {"cleared", "ended"}
            => c \notin pending_requests[s]

IInv ==
    /\ TypeOK
    /\ TaskFitsState
    /\ NobodyForgotten
    /\ HostRemembered
    /\ IndexIsExact
    /\ HostKnownIffConnected
    /\ NoRequestWithoutHost
    /\ EntryDropped

-----------------------------------------------------------------------------
(* Types *)

LEMMA TypeInit == Init => TypeOK
BY ManagerAssumption DEF Init, ClientInit, TypeOK, ClientTypeOK, States, Tasks, NoCall, Pending

\* The client's part of the types, under what the manager does to a client.
LEMMA NewClientTypes ==
    ASSUME ClientTypeOK, NEW s \in Sessions, NewClient(s)
    PROVE  ClientTypeOK'
<1>1. call' \in [Calls -> [pc : {"idle", "inserted", "checked", "waiting", "ended"},
                           session : Sessions \cup {None}]]
    BY DEF ClientTypeOK, NewClient
<1>2. QED
    BY <1>1 DEF ClientTypeOK, NewClient

LEMMA ClientTypes ==
    ASSUME ClientTypeOK, NEW s \in Sessions, ClientStep(s)
    PROVE  ClientTypeOK'
<1>a. outbound \in [Sessions -> Seq(Messages)]
    BY DEF ClientTypeOK
<1>b. event_rx \in [Sessions -> Seq(Events)]
    BY DEF ClientTypeOK
<1>c. pending_requests \in [Sessions -> SUBSET Calls]
    BY DEF ClientTypeOK
<1>1. CASE ConnectionLost(s) \/ ReaderStops(s) \/ ReaderClears(s)
    BY <1>1 DEF ClientTypeOK, ConnectionLost, ReaderStops, ReaderClears
<1>2. CASE WriterGone(s) \/ WriterReleased(s)
    <2>1. writer' = [writer EXCEPT ![s] = "gone"]
        BY <1>2 DEF WriterGone, WriterReleased
    <2>2. outbound' = [outbound EXCEPT ![s] = <<>>] \/ outbound' = outbound
        BY <1>2 DEF WriterGone, WriterReleased
    <2>3. outbound' \in [Sessions -> Seq(Messages)]
        <3>1. <<>> \in Seq(Messages)
            OBVIOUS
        <3>2. QED
            BY <1>a, <2>2, <3>1
    <2>4. UNCHANGED <<wire, reader, pending_requests, event_rx, call, at_daemon, too_large>>
        BY <1>2 DEF WriterGone, WriterReleased
    <2>5. QED
        BY <2>1, <2>3, <2>4 DEF ClientTypeOK
<1>3. CASE WriterWrites(s)
    <2>1. outbound' = [outbound EXCEPT ![s] = Tail(@)] /\ outbound[s] # <<>>
        BY <1>3 DEF WriterWrites
    <2>2. Tail(outbound[s]) \in Seq(Messages) /\ Head(outbound[s]) \in Messages
        BY <1>a, <2>1
    <2>3. outbound' \in [Sessions -> Seq(Messages)]
        BY <1>a, <2>1, <2>2
    <2>4. at_daemon' \subseteq Calls \cup Requests
        BY <1>3, <2>2 DEF ClientTypeOK, WriterWrites, Messages
    <2>5. QED
        BY <1>3, <2>3, <2>4 DEF ClientTypeOK, WriterWrites, connVars
<1>4. CASE ReaderEnds(s)
    <2>1. Disconnected \in Events
        BY DEF Events
    <2>2. event_rx' \in [Sessions -> Seq(Events)]
        BY <1>4, <1>b, <2>1 DEF ReaderEnds
    <2>3. QED
        BY <1>4, <2>2 DEF ClientTypeOK, ReaderEnds
<1>5. CASE WriterRefuses(s) \/ WriterFails(s)
    <2>1. /\ outbound[s] # <<>>
          /\ outbound' = [outbound EXCEPT ![s] = Tail(@)]
          /\ event_rx' = [event_rx EXCEPT ![s] = @ \o FailureEvents(Head(outbound[s]))]
        BY <1>5 DEF WriterRefuses, WriterFails
    <2>2. FailureEvents(Head(outbound[s])) \in Seq(Events)
        <3>1. \A r \in Requests : WriteFailed(r) \in Events
            BY DEF Events
        <3>2. \A e \in Events : <<e>> \in Seq(Events)
            OBVIOUS
        <3>3. QED
            BY <3>1, <3>2 DEF FailureEvents
    <2>3. Tail(outbound[s]) \in Seq(Messages) /\ event_rx[s] \o FailureEvents(Head(outbound[s])) \in Seq(Events)
        BY <1>a, <1>b, <2>1, <2>2
    <2>4. outbound' \in [Sessions -> Seq(Messages)] /\ event_rx' \in [Sessions -> Seq(Events)]
        BY <1>a, <1>b, <2>1, <2>3
    <2>5. pending_requests' = [pending_requests EXCEPT ![s] = @ \ {Head(outbound[s])}]
          \/ pending_requests' = [pending_requests EXCEPT ![s] = {}]
        BY <1>5 DEF WriterRefuses, WriterFails
    <2>6. pending_requests' \in [Sessions -> SUBSET Calls]
        BY <1>c, <2>5
    <2>7. writer' = writer \/ writer' = [writer EXCEPT ![s] = "failed"]
        BY <1>5 DEF WriterRefuses, WriterFails, connVars
    <2>8. UNCHANGED <<wire, reader, call, at_daemon, too_large>>
        BY <1>5 DEF WriterRefuses, WriterFails, connVars
    <2>9. QED
        BY <2>4, <2>6, <2>7, <2>8 DEF ClientTypeOK
<1>6. QED
    BY <1>1, <1>2, <1>3, <1>4, <1>5 DEF ClientStep

LEMMA CallTypes ==
    ASSUME ClientTypeOK, NEW s \in Sessions, NEW c \in Calls, CallStep(c, s)
    PROVE  ClientTypeOK'
<1> DEFINE Records == [pc : {"idle", "inserted", "checked", "waiting", "ended"}, session : Sessions \cup {None}]
<1>a. outbound \in [Sessions -> Seq(Messages)]
    BY DEF ClientTypeOK
<1>b. call \in [Calls -> Records]
    BY DEF ClientTypeOK
<1>c. pending_requests \in [Sessions -> SUBSET Calls]
    BY DEF ClientTypeOK
<1>d. at_daemon \subseteq Calls \cup Requests
    BY DEF ClientTypeOK
<1>1. \A m \in Messages : Append(outbound[s], m) \in Seq(Messages)
    BY <1>a
<1>2. c \in Messages /\ Abort \in Messages
    BY DEF Messages
<1>3. UNCHANGED <<wire, reader, writer, event_rx, too_large>>
    BY DEF CallStep, CallInserts, CallChecks, CallSends, CallAnswered, CallEnds, CallTimesOut, connVars
<1>4. call' \in [Calls -> Records]
    <2>1. \/ call' = call
          \/ call' = [call EXCEPT ![c] = [pc |-> "inserted", session |-> s]]
          \/ call' = [call EXCEPT ![c].pc = "checked"]
          \/ call' = [call EXCEPT ![c].pc = "waiting"]
          \/ call' = [call EXCEPT ![c].pc = "ended"]
        BY DEF CallStep, CallInserts, CallChecks, CallSends, CallAnswered, CallEnds, CallTimesOut
    <2>2. QED
        BY <1>b, <2>1
<1>5. pending_requests' \in [Sessions -> SUBSET Calls]
    <2>1. \/ pending_requests' = pending_requests
          \/ pending_requests' = [pending_requests EXCEPT ![s] = @ \cup {c}]
          \/ pending_requests' = [pending_requests EXCEPT ![s] = @ \ {c}]
          \/ pending_requests' = [pending_requests EXCEPT ![s] = {}]
        BY DEF CallStep, CallInserts, CallChecks, CallSends, CallAnswered, CallEnds, CallTimesOut
    <2>2. QED
        BY <1>c, <2>1
<1>6. outbound' \in [Sessions -> Seq(Messages)]
    <2>1. \/ outbound' = outbound
          \/ outbound' = [outbound EXCEPT ![s] = Append(@, c)]
          \/ outbound' = [outbound EXCEPT ![s] = Append(@, Abort)]
          \/ outbound' = [outbound EXCEPT ![s] = @]
        BY DEF CallStep, CallInserts, CallChecks, CallSends, CallAnswered, CallEnds, CallTimesOut
    <2>2. QED
        BY <1>a, <1>1, <1>2, <2>1
<1>7. at_daemon' \subseteq Calls \cup Requests
    <2>1. at_daemon' \subseteq at_daemon
        BY DEF CallStep, CallInserts, CallChecks, CallSends, CallAnswered, CallEnds, CallTimesOut
    <2>2. QED
        BY <1>d, <2>1
<1>8. QED
    BY <1>3, <1>4, <1>5, <1>6, <1>7 DEF ClientTypeOK

LEMMA ClientUnchanged == ClientTypeOK /\ UNCHANGED clientVars => ClientTypeOK'
BY DEF ClientTypeOK, clientVars

\* A function stays in its type when one value changes.
LEMMA UpdateType ==
    ASSUME NEW S, NEW T, NEW f \in [S -> T], NEW x \in S, NEW v \in T
    PROVE  [f EXCEPT ![x] = v] \in [S -> T]
OBVIOUS

\* The steps of a session: its state, its task and its count, then the index
\* of the hosts and what waits for them.
LEMMA ManagerTypes ==
    ASSUME TypeOK, NEW s \in Sessions, SessionStep(s)
    PROVE  TypeOK'
<1>a. /\ 0 \in 0 .. MAX_RECONNECT_ATTEMPTS
      /\ 1 \in 0 .. MAX_RECONNECT_ATTEMPTS
      /\ attempt[s] \in Nat
      /\ ~Exhausted(s) => attempt[s] + 1 \in 0 .. MAX_RECONNECT_ATTEMPTS
    BY ManagerAssumption DEF TypeOK, Exhausted
<1>b. host_to_sessions \in [Hosts -> SUBSET Sessions] /\ IndexWithout(s) \in [Hosts -> SUBSET Sessions]
    BY DEF TypeOK, IndexWithout
<1>1. sessions' \in [Sessions -> States]
    <2>1. \/ sessions' = sessions
          \/ \E state \in States : sessions' = [sessions EXCEPT ![s] = state]
          \/ sessions' = [sessions EXCEPT ![s] = IF @ = "Initializing" THEN "AwaitingExitStatus" ELSE @]
          \/ sessions' = [sessions EXCEPT ![s] = IF HasEntry(s) THEN "Disconnected" ELSE @]
        BY DEF SessionStep, TaskStep, connect_session, Opened, ConnectFails, HandshakeDone,
            mark_session_connected, Connected, ConnectionFailed, ConnectionGivenUp, ReconnectDelayOver,
            ReconnectFailed, AttemptReconnect, FinalizeDisconnect, StreamEnded, deregister_session, States
    <2>2. sessions \in [Sessions -> States]
        BY DEF TypeOK
    <2>3. QED
        BY <2>1, <2>2 DEF States
<1>2. session_host' \in [Sessions -> Hosts \cup {None}]
    <2>1. session_host' = session_host \/ \E h \in Hosts \cup {None} : session_host' = [session_host EXCEPT ![s] = h]
        BY DEF SessionStep, TaskStep, connect_session, Opened, ConnectFails, HandshakeDone,
            mark_session_connected, Connected, ConnectionFailed, ConnectionGivenUp, ReconnectDelayOver,
            ReconnectFailed, AttemptReconnect, FinalizeDisconnect, StreamEnded, deregister_session
    <2>2. QED
        BY <2>1 DEF TypeOK
<1>3. task' \in [Sessions -> Tasks]
    <2>1. \/ task' = task
          \/ \E t \in Tasks : task' = [task EXCEPT ![s] = t]
          \/ task' = [task EXCEPT ![s] = IF HasEntry(s) THEN "connecting" ELSE "none"]
        BY DEF SessionStep, TaskStep, connect_session, Opened, ConnectFails, HandshakeDone,
            mark_session_connected, ConnectionFailed, ConnectionGivenUp, ReconnectDelayOver,
            ReconnectFailed, AttemptReconnect, StreamEnded, deregister_session, TaskOver, Tasks
    <2>2. QED
        BY <2>1 DEF TypeOK, Tasks
<1>4. attempt' \in [Sessions -> 0 .. MAX_RECONNECT_ATTEMPTS]
    <2>1. \/ attempt' = attempt
          \/ attempt' = [attempt EXCEPT ![s] = 0]
          \/ attempt' = [attempt EXCEPT ![s] = 1]
          \/ attempt' = [attempt EXCEPT ![s] = attempt[s] + 1] /\ ~Exhausted(s)
        BY DEF SessionStep, TaskStep, connect_session, Opened, ConnectFails, HandshakeDone,
            mark_session_connected, ConnectionFailed, ConnectionGivenUp, ReconnectDelayOver,
            ReconnectFailed, AttemptReconnect, StreamEnded, deregister_session, TaskOver
    <2>2. attempt \in [Sessions -> 0 .. MAX_RECONNECT_ATTEMPTS]
        BY DEF TypeOK
    <2>3. QED
        BY <1>a, <2>1, <2>2, UpdateType
<1>5. streaming' \in [Sessions -> BOOLEAN]
    <2>1. streaming' = streaming \/ \E b \in BOOLEAN : streaming' = [streaming EXCEPT ![s] = b]
        BY DEF SessionStep, TaskStep, connect_session, Opened, ConnectFails, HandshakeDone,
            mark_session_connected, Connected, ConnectionFailed, ConnectionGivenUp, ReconnectDelayOver,
            ReconnectFailed, StreamEnded, deregister_session
    <2>2. QED
        BY <2>1 DEF TypeOK
<1>6. /\ host_to_sessions' \in [Hosts -> SUBSET Sessions]
      /\ host_connected' \in [Hosts -> BOOLEAN]
      /\ pending_host_requests' \in [Requests -> Pending \cup {None}]
    <2>1. \/ LeaveHost(s)
          \/ UNCHANGED <<host_to_sessions, host_connected, pending_host_requests>>
          \/ \E h \in Hosts : Connected(s, h) /\ UNCHANGED pending_host_requests
        BY DEF SessionStep, TaskStep, connect_session, Opened, ConnectFails, HandshakeDone,
            mark_session_connected, ConnectionFailed, ConnectionGivenUp, ReconnectDelayOver,
            ReconnectFailed, StreamEnded, deregister_session, StayWithHost, requestVars
    <2>2. CASE LeaveHost(s)
        BY <1>b, <2>2 DEF TypeOK, LeaveHost
    <2>3. ASSUME NEW h \in Hosts, Connected(s, h), UNCHANGED pending_host_requests
          PROVE  /\ host_to_sessions' \in [Hosts -> SUBSET Sessions]
                 /\ host_connected' \in [Hosts -> BOOLEAN]
                 /\ pending_host_requests' \in [Requests -> Pending \cup {None}]
        <3>1. host_to_sessions' = [host_to_sessions EXCEPT ![h] = @ \cup {s}]
            BY <2>3 DEF Connected
        <3>2. host_connected' = [host_connected EXCEPT ![h] = TRUE] \/ host_connected' = host_connected
            BY <2>3 DEF Connected
        <3>3. QED
            BY <1>b, <2>3, <3>1, <3>2 DEF TypeOK
    <2>4. QED
        BY <2>1, <2>2, <2>3 DEF TypeOK
<1>7. ClientTypeOK'
    <2>1. \/ UNCHANGED clientVars
          \/ NewClient(s)
          \/ /\ wire' = [wire EXCEPT ![s] = FALSE]
             /\ UNCHANGED <<reader, writer, outbound, pending_requests, event_rx, call, at_daemon, too_large>>
        BY DEF SessionStep, TaskStep, connect_session, Opened, ConnectFails, HandshakeDone,
            mark_session_connected, Connected, ConnectionFailed, ConnectionGivenUp, ReconnectDelayOver,
            ReconnectFailed, StreamEnded, deregister_session, KillChild
    <2>2. ClientTypeOK
        BY DEF TypeOK
    <2>3. CASE wire' = [wire EXCEPT ![s] = FALSE]
              /\ UNCHANGED <<reader, writer, outbound, pending_requests, event_rx, call, at_daemon, too_large>>
        BY <2>2, <2>3 DEF ClientTypeOK
    <2>4. QED
        BY <2>1, <2>2, <2>3, ClientUnchanged, NewClientTypes
<1>8. UNCHANGED <<issued, responses>>
    BY DEF SessionStep, TaskStep, connect_session, Opened, ConnectFails, HandshakeDone,
        mark_session_connected, ConnectionFailed, ConnectionGivenUp, ReconnectDelayOver,
        ReconnectFailed, StreamEnded, deregister_session, requestVars
<1>9. QED
    BY <1>1, <1>2, <1>3, <1>4, <1>5, <1>6, <1>7, <1>8 DEF TypeOK

\* Host-scoped requests and drained events: queues, answers and the table of
\* pending requests.
LEMMA RequestTypes ==
    ASSUME TypeOK,
           \/ \E s \in Sessions : EventStep(s)
           \/ \E r \in Requests : RequestStep(r)
    PROVE  TypeOK'
<1>a. outbound \in [Sessions -> Seq(Messages)] /\ event_rx \in [Sessions -> Seq(Events)]
    BY DEF TypeOK, ClientTypeOK
<1>b. host_to_sessions \in [Hosts -> SUBSET Sessions]
    BY DEF TypeOK
<1>c. pending_host_requests \in [Requests -> Pending \cup {None}]
    BY DEF TypeOK
<1>d. \A t \in Sessions, m \in Messages : [outbound EXCEPT ![t] = Append(@, m)] \in [Sessions -> Seq(Messages)]
    <2>1. \A t \in Sessions, m \in Messages : Append(outbound[t], m) \in Seq(Messages)
        BY <1>a
    <2>2. QED
        BY <1>a, <2>1
<1>e. Requests \subseteq Messages /\ Abort \in Messages
    BY DEF Messages
<1>f. \A h \in Hosts, t \in Sessions \cup {None} : Carriers(h, t) \subseteq Sessions
    BY <1>b DEF Carriers
<1>1. ASSUME NEW s \in Sessions, EventStep(s)
      PROVE  TypeOK'
    <2>1. Drain(s)
        BY <1>1 DEF EventStep, IgnoreEvent, FailUndecodable, RetryOrFail
    <2>2. event_rx' \in [Sessions -> Seq(Events)]
        <3>1. Tail(event_rx[s]) \in Seq(Events)
            BY <1>a, <2>1 DEF Drain
        <3>2. QED
            BY <1>a, <2>1, <3>1 DEF Drain
    <2>3. outbound' \in [Sessions -> Seq(Messages)] /\ pending_host_requests' \in [Requests -> Pending \cup {None}]
        <3>1. CASE IgnoreEvent(s)
            BY <1>a, <1>c, <3>1 DEF IgnoreEvent
        <3>2. CASE \E r \in Requests : FailUndecodable(s, r)
            BY <1>a, <1>c, <3>2 DEF FailUndecodable
        <3>3. CASE \E r \in Requests : RetryOrFail(s, r)
            <4>1. PICK r \in Requests : RetryOrFail(s, r)
                BY <3>3
            <4>2. pending_host_requests[r] \in Pending
                BY <1>c, <4>1 DEF RetryOrFail, Concerns
            <4>3. CASE pending_host_requests' = [pending_host_requests EXCEPT ![r] = None] /\ UNCHANGED outbound
                BY <1>a, <1>c, <4>3
            <4>4. CASE \E t \in Carriers(pending_host_requests[r].host, s) :
                          /\ pending_host_requests' = [pending_host_requests EXCEPT ![r].session = t]
                          /\ outbound' = [outbound EXCEPT ![t] = Append(@, r)]
                <5>1. PICK t \in Sessions :
                          /\ pending_host_requests' = [pending_host_requests EXCEPT ![r].session = t]
                          /\ outbound' = [outbound EXCEPT ![t] = Append(@, r)]
                    BY <1>f, <4>2, <4>4 DEF Pending
                <5>2. [pending_host_requests[r] EXCEPT !.session = t] \in Pending
                    BY <4>2 DEF Pending
                <5>3. QED
                    BY <1>c, <1>d, <1>e, <5>1, <5>2
            <4>5. QED
                BY <4>1, <4>3, <4>4 DEF RetryOrFail
        <3>4. QED
            BY <1>1, <3>1, <3>2, <3>3 DEF EventStep
    <2>4. QED
        BY <2>1, <2>2, <2>3 DEF TypeOK, ClientTypeOK, Drain, connVars, managerVars
<1>2. ASSUME NEW r \in Requests, RequestStep(r)
      PROVE  TypeOK'
    <2>1. CASE \E h \in Hosts : send_host_request(r, h)
        <3>1. PICK h \in Hosts : send_host_request(r, h)
            BY <2>1
        <3>2. outbound' \in [Sessions -> Seq(Messages)] /\ pending_host_requests' \in [Requests -> Pending \cup {None}]
            <4>1. CASE UNCHANGED <<pending_host_requests, outbound>>
                BY <1>a, <1>c, <4>1
            <4>2. CASE \E s \in Carriers(h, None) :
                          /\ outbound' = [outbound EXCEPT ![s] = Append(@, r)]
                          /\ pending_host_requests' =
                                 [pending_host_requests EXCEPT ![r] = [host |-> h, session |-> s]]
                BY <1>c, <1>d, <1>e, <1>f, <4>2 DEF Pending
            <4>3. QED
                BY <3>1, <4>1, <4>2 DEF send_host_request
        <3>3. QED
            BY <3>1, <3>2 DEF TypeOK, ClientTypeOK, send_host_request, connVars, managerVars
    <2>2. CASE \E s \in Sessions : HostResponse(r, s)
        BY <2>2 DEF TypeOK, ClientTypeOK, HostResponse, connVars, managerVars
    <2>3. CASE \E s \in Sessions : HostResponseUnreadable(r, s)
        <3>1. PICK s \in Sessions : HostResponseUnreadable(r, s)
            BY <2>3
        <3>2. DecodeFailed(r) \in Events
            BY DEF Events
        <3>3. Append(event_rx[s], DecodeFailed(r)) \in Seq(Events)
            BY <1>a, <3>2
        <3>4. event_rx' \in [Sessions -> Seq(Events)]
            BY <1>a, <3>1, <3>3 DEF HostResponseUnreadable
        <3>5. QED
            BY <3>1, <3>4 DEF TypeOK, ClientTypeOK, HostResponseUnreadable, connVars, managerVars, requestVars
    <2>4. CASE MatchResponse(r)
        BY <2>4 DEF TypeOK, ClientTypeOK, MatchResponse, clientVars, managerVars
    <2>5. CASE GiveUpHostRequest(r)
        <3>1. pending_host_requests[r] \in Pending
            BY <1>c, <2>5 DEF GiveUpHostRequest
        <3>2. outbound' = outbound \/ \E s \in Sessions : \/ outbound' = [outbound EXCEPT ![s] = Append(@, Abort)]
                                                       \/ outbound' = [outbound EXCEPT ![s] = @]
            <4>1. host_to_sessions[pending_host_requests[r].host] \subseteq Sessions
                BY <1>b, <3>1 DEF Pending
            <4>2. QED
                BY <2>5, <4>1 DEF GiveUpHostRequest
        <3>3. outbound' \in [Sessions -> Seq(Messages)]
            <4>1. ASSUME NEW s \in Sessions, outbound' = [outbound EXCEPT ![s] = @]
                  PROVE  outbound' \in [Sessions -> Seq(Messages)]
                BY <1>a, <4>1
            <4>2. ASSUME NEW s \in Sessions, outbound' = [outbound EXCEPT ![s] = Append(@, Abort)]
                  PROVE  outbound' \in [Sessions -> Seq(Messages)]
                BY <1>d, <1>e, <4>2
            <4>3. QED
                BY <1>a, <3>2, <4>1, <4>2
        <3>4. QED
            BY <1>c, <2>5, <3>3 DEF TypeOK, ClientTypeOK, GiveUpHostRequest, connVars, managerVars
    <2>6. QED
        BY <1>2, <2>1, <2>2, <2>3, <2>4, <2>5 DEF RequestStep
<1>3. QED
    BY <1>1, <1>2

LEMMA TypeStep == TypeOK /\ [Next]_vars => TypeOK'
<1> SUFFICES ASSUME TypeOK, [Next]_vars
             PROVE  TypeOK'
    OBVIOUS
<1>1. ASSUME NEW s \in Sessions, ClientStep(s)
      PROVE  TypeOK'
    BY <1>1, ClientTypes DEF TypeOK, ClientStep, managerVars, requestVars
<1>2. ASSUME NEW s \in Sessions, NEW c \in Calls, CallStep(c, s)
      PROVE  TypeOK'
    BY <1>2, CallTypes DEF TypeOK, CallStep, managerVars, requestVars
<1>3. CASE UNCHANGED vars
    BY <1>3 DEF TypeOK, ClientTypeOK, vars, clientVars, managerVars, requestVars
<1>4. QED
    BY <1>1, <1>2, <1>3, ManagerTypes, RequestTypes DEF Next

\* Every variable keeps the type the code gives it: a reconnect counts at most
\* MAX_RECONNECT_ATTEMPTS attempts, and the manager's tables only name
\* sessions, hosts and requests there are.
THEOREM TypeCorrect == Spec => []TypeOK
BY TypeInit, TypeStep, PTL DEF Spec

-----------------------------------------------------------------------------
(* A session, its task and its host *)

\* A step of one session leaves the others as they are.
LEMMA OtherSessions ==
    ASSUME TypeOK, NEW s \in Sessions, SessionStep(s), NEW t \in Sessions, t # s
    PROVE  /\ sessions'[t] = sessions[t] /\ session_host'[t] = session_host[t]
           /\ task'[t] = task[t] /\ attempt'[t] = attempt[t] /\ streaming'[t] = streaming[t]
<1>a. sessions'[t] = sessions[t]
    BY DEF TypeOK, SessionStep, TaskStep, connect_session, Opened, ConnectFails, HandshakeDone,
        mark_session_connected, Connected, ConnectionFailed, ConnectionGivenUp, ReconnectDelayOver,
        ReconnectFailed, AttemptReconnect, FinalizeDisconnect, StreamEnded, deregister_session
<1>b. session_host'[t] = session_host[t]
    BY DEF TypeOK, SessionStep, TaskStep, connect_session, Opened, ConnectFails, HandshakeDone,
        mark_session_connected, Connected, ConnectionFailed, ConnectionGivenUp, ReconnectDelayOver,
        ReconnectFailed, AttemptReconnect, FinalizeDisconnect, StreamEnded, deregister_session
<1>c. task'[t] = task[t]
    BY DEF TypeOK, SessionStep, TaskStep, connect_session, Opened, ConnectFails, HandshakeDone,
        mark_session_connected, ConnectionFailed, ConnectionGivenUp, ReconnectDelayOver,
        ReconnectFailed, AttemptReconnect, StreamEnded, deregister_session, TaskOver
<1>d. attempt'[t] = attempt[t]
    BY DEF TypeOK, SessionStep, TaskStep, connect_session, Opened, ConnectFails, HandshakeDone,
        mark_session_connected, ConnectionFailed, ConnectionGivenUp, ReconnectDelayOver,
        ReconnectFailed, AttemptReconnect, StreamEnded, deregister_session, TaskOver
<1>e. streaming'[t] = streaming[t]
    BY DEF TypeOK, SessionStep, TaskStep, connect_session, Opened, ConnectFails, HandshakeDone,
        mark_session_connected, Connected, ConnectionFailed, ConnectionGivenUp, ReconnectDelayOver,
        ReconnectFailed, StreamEnded, deregister_session
<1>f. QED
    BY <1>a, <1>b, <1>c, <1>d, <1>e

\* What the invariants say of one session.
Sound(s) ==
    /\ task[s] # "none" => sessions[s] \in {"Connecting", "Initializing", "Reconnecting",
                                           "AwaitingExitStatus", "Deregistered"}
    /\ task[s] \in {"handshake", "shaken"} => sessions[s] \in {"Initializing", "Deregistered"}
    /\ sessions[s] \in {"Connecting", "Initializing", "AwaitingExitStatus", "Reconnecting"}
           => task[s] # "none"
    /\ sessions[s] = "Connected" => streaming[s] /\ task[s] = "none"
    /\ sessions[s] \in {"Connected", "Reconnecting"} => session_host[s] \in Hosts
    /\ attempt[s] > 0 /\ sessions[s] \notin {"Disconnected", "Deregistered"} => session_host[s] \in Hosts

LEMMA SoundMeans ==
    (\A s \in Sessions : Sound(s)) <=> TaskFitsState /\ NobodyForgotten /\ HostRemembered
BY DEF Sound, TaskFitsState, NobodyForgotten, HostRemembered

LEMMA SoundStep ==
    ASSUME TypeOK, NEW s \in Sessions, Sound(s), SessionStep(s)
    PROVE  Sound(s)'
<1>a. /\ sessions \in [Sessions -> States] /\ session_host \in [Sessions -> Hosts \cup {None}]
      /\ task \in [Sessions -> Tasks] /\ attempt \in [Sessions -> Nat]
      /\ streaming \in [Sessions -> BOOLEAN]
    BY ManagerAssumption DEF TypeOK
<1>1. CASE connect_session(s)
    BY <1>1, <1>a DEF Sound, connect_session
<1>2. CASE Opened(s)
    BY <1>2, <1>a DEF Sound, Opened, HasEntry
<1>3. CASE ConnectFails(s) \/ HandshakeDone(s)
    BY <1>3, <1>a DEF Sound, ConnectFails, HandshakeDone
<1>4. CASE mark_session_connected(s)
    BY <1>4, <1>a DEF Sound, mark_session_connected, Connected, TaskOver
<1>5. CASE ConnectionFailed(s)
    BY <1>5, <1>a DEF Sound, ConnectionFailed
<1>6. CASE ConnectionGivenUp(s)
    BY <1>6, <1>a DEF Sound, ConnectionGivenUp, HasEntry, TaskOver
<1>7. CASE ReconnectDelayOver(s)
    BY <1>7, <1>a DEF Sound, ReconnectDelayOver, HasEntry, TaskOver
<1>8. CASE ReconnectFailed(s)
    BY <1>8, <1>a DEF Sound, ReconnectFailed, HasEntry, AttemptReconnect, FinalizeDisconnect, TaskOver
<1>9. CASE StreamEnded(s)
    BY <1>9, <1>a DEF Sound, StreamEnded, AttemptReconnect, FinalizeDisconnect
<1>10. CASE deregister_session(s)
    BY <1>10, <1>a DEF Sound, deregister_session
<1>11. QED
    BY <1>1, <1>2, <1>3, <1>4, <1>5, <1>6, <1>7, <1>8, <1>9, <1>10 DEF SessionStep, TaskStep

\* Everything but a step of a session leaves the manager's tables alone.
LEMMA ManagerUnchanged ==
    ASSUME Next, ~\E s \in Sessions : SessionStep(s)
    PROVE  UNCHANGED managerVars
<1>1. ASSUME NEW s \in Sessions, EventStep(s) PROVE UNCHANGED managerVars
    BY <1>1 DEF EventStep, IgnoreEvent, FailUndecodable, RetryOrFail, Drain
<1>2. ASSUME NEW r \in Requests, RequestStep(r) PROVE UNCHANGED managerVars
    BY <1>2 DEF RequestStep, send_host_request, HostResponse, HostResponseUnreadable, MatchResponse,
        GiveUpHostRequest
<1>3. QED
    BY <1>1, <1>2 DEF Next, ClientStep, CallStep

LEMMA SoundAlways ==
    ASSUME TypeOK, \A s \in Sessions : Sound(s), [Next]_vars
    PROVE  \A s \in Sessions : Sound(s)'
<1>1. CASE \E s \in Sessions : SessionStep(s)
    BY <1>1, SoundStep, OtherSessions DEF Sound
<1>2. CASE UNCHANGED managerVars
    BY <1>2 DEF Sound, managerVars
<1>3. QED
    BY <1>1, <1>2, ManagerUnchanged DEF vars

-----------------------------------------------------------------------------
(* The index of the hosts and what waits for them *)

LEMMA IndexStep ==
    ASSUME TypeOK, \A s \in Sessions : Sound(s), IndexIsExact, HostKnownIffConnected, [Next]_vars
    PROVE  IndexIsExact' /\ HostKnownIffConnected'
<1>a. /\ sessions \in [Sessions -> States] /\ session_host \in [Sessions -> Hosts \cup {None}]
      /\ host_to_sessions \in [Hosts -> SUBSET Sessions] /\ host_connected \in [Hosts -> BOOLEAN]
    BY DEF TypeOK
<1>1. ASSUME NEW s \in Sessions, SessionStep(s)
      PROVE  IndexIsExact' /\ HostKnownIffConnected'
    <2>a. \A t \in Sessions \ {s} : sessions'[t] = sessions[t] /\ session_host'[t] = session_host[t]
        BY <1>1, OtherSessions
    <2>1. ASSUME NEW h \in Hosts, Connected(s, h), task[s] = "shaken", sessions[s] = "Initializing"
          PROVE  IndexIsExact' /\ HostKnownIffConnected'
        <3>1. \A g \in Hosts : host_to_sessions'[g] = IF g = h THEN host_to_sessions[g] \cup {s} ELSE host_to_sessions[g]
            BY <1>a, <2>1 DEF Connected
        <3>2. \A g \in Hosts : host_connected'[g] = IF g = h THEN TRUE ELSE host_connected[g]
            BY <1>a, <2>1 DEF Connected, HostKnownIffConnected
        <3>3. sessions'[s] = "Connected" /\ session_host'[s] = h
            BY <1>a, <2>1 DEF Connected
        <3>4. IndexIsExact'
            <4>1. ASSUME NEW g \in Hosts, NEW t \in Sessions
                  PROVE  t \in host_to_sessions'[g] <=> sessions'[t] = "Connected" /\ session_host'[t] = g
                <5>1. t \in host_to_sessions[g] <=> sessions[t] = "Connected" /\ session_host[t] = g
                    BY DEF IndexIsExact
                <5>2. CASE t = s
                    BY <5>1, <5>2, <2>1, <3>1, <3>3
                <5>3. CASE t # s
                    <6>1. sessions'[t] = sessions[t] /\ session_host'[t] = session_host[t]
                        BY <2>a, <5>3
                    <6>2. t \in host_to_sessions'[g] <=> t \in host_to_sessions[g]
                        BY <3>1, <5>3
                    <6>3. QED
                        BY <5>1, <6>1, <6>2
                <5>4. QED
                    BY <5>2, <5>3
            <4>2. \A g \in Hosts : host_to_sessions'[g] \subseteq Sessions
                BY <1>a, <3>1
            <4>3. QED
                BY <4>1, <4>2 DEF IndexIsExact
        <3>5. HostKnownIffConnected'
            BY <1>a, <3>1, <3>2 DEF HostKnownIffConnected
        <3>6. QED
            BY <3>4, <3>5
    <2>2. ASSUME LeaveHost(s), sessions'[s] # "Connected", sessions[s] \in {"Connected", "Reconnecting"}
          PROVE  IndexIsExact' /\ HostKnownIffConnected'
        <3>1. session_host[s] \in Hosts
            BY <2>2 DEF Sound
        <3>2. \A g \in Hosts : host_to_sessions'[g] =
                  IF g = session_host[s] THEN host_to_sessions[g] \ {s} ELSE host_to_sessions[g]
            BY <1>a, <2>2, <3>1 DEF LeaveHost, IndexWithout
        <3>3. \A g \in Hosts : host_connected'[g] =
                  IF g = session_host[s] /\ host_to_sessions'[g] = {} THEN FALSE ELSE host_connected[g]
            BY <1>a, <2>2, <3>1 DEF LeaveHost, NoSessionLeft
        <3>4. IndexIsExact'
            <4>1. ASSUME NEW g \in Hosts, NEW t \in Sessions
                  PROVE  t \in host_to_sessions'[g] <=> sessions'[t] = "Connected" /\ session_host'[t] = g
                <5>1. t \in host_to_sessions[g] <=> sessions[t] = "Connected" /\ session_host[t] = g
                    BY DEF IndexIsExact
                <5>2. CASE t = s
                    BY <5>1, <5>2, <2>2, <3>2
                <5>3. CASE t # s
                    BY <5>1, <5>3, <2>a, <2>2, <3>2
                <5>4. QED
                    BY <5>2, <5>3
            <4>2. \A g \in Hosts : host_to_sessions'[g] \subseteq Sessions
                BY <1>a, <3>2
            <4>3. QED
                BY <4>1, <4>2 DEF IndexIsExact
        <3>5. HostKnownIffConnected'
            BY <1>a, <3>1, <3>2, <3>3 DEF HostKnownIffConnected
        <3>6. QED
            BY <3>4, <3>5
    <2>3. ASSUME UNCHANGED <<host_to_sessions, host_connected>>,
                 sessions[s] # "Connected", sessions'[s] # "Connected"
          PROVE  IndexIsExact' /\ HostKnownIffConnected'
        BY <1>a, <2>a, <2>3 DEF IndexIsExact, HostKnownIffConnected
    <2>4. CASE TaskStep(s) \/ connect_session(s)
        <3>1. sessions[s] # "Connected"
            BY <2>4 DEF Sound, connect_session, TaskStep, Opened, ConnectFails, HandshakeDone,
                mark_session_connected, ConnectionFailed, ConnectionGivenUp, ReconnectDelayOver, ReconnectFailed
        <3>2. CASE mark_session_connected(s) /\ sessions[s] = "Initializing"
            <4>1. PICK h \in Hosts : Connected(s, h)
                BY <3>2 DEF mark_session_connected
            <4>2. QED
                BY <2>1, <3>2, <4>1 DEF mark_session_connected
        <3>3. CASE ~(mark_session_connected(s) /\ sessions[s] = "Initializing")
            <4>1. UNCHANGED <<host_to_sessions, host_connected>>
                BY <2>4, <3>3 DEF connect_session, TaskStep, Opened, ConnectFails, HandshakeDone,
                    mark_session_connected, ConnectionFailed, ConnectionGivenUp, ReconnectDelayOver, ReconnectFailed
            <4>2. sessions'[s] # "Connected"
                BY <1>a, <2>4, <3>1, <3>3 DEF connect_session, TaskStep, Opened, ConnectFails, HandshakeDone,
                    mark_session_connected, ConnectionFailed, ConnectionGivenUp, ReconnectDelayOver,
                    ReconnectFailed, AttemptReconnect, FinalizeDisconnect
            <4>3. QED
                BY <2>3, <3>1, <4>1, <4>2
        <3>4. QED
            BY <3>2, <3>3
    <2>5. CASE StreamEnded(s)
        <3>1. sessions'[s] # "Connected"
            BY <1>a, <2>5 DEF StreamEnded, AttemptReconnect, FinalizeDisconnect
        <3>2. CASE sessions[s] = "Connected"
            <4>1. LeaveHost(s)
                BY <2>5, <3>2 DEF StreamEnded
            <4>2. QED
                BY <2>2, <3>1, <3>2, <4>1
        <3>3. CASE sessions[s] # "Connected"
            BY <2>3, <2>5, <3>1, <3>3 DEF StreamEnded, StayWithHost
        <3>4. QED
            BY <3>2, <3>3
    <2>6. CASE deregister_session(s)
        <3>1. sessions'[s] # "Connected"
            BY <1>a, <2>6 DEF deregister_session
        <3>2. QED
            BY <2>2, <2>3, <2>6, <3>1 DEF deregister_session, StayWithHost
    <2>7. QED
        BY <1>1, <2>4, <2>5, <2>6 DEF SessionStep
<1>2. CASE UNCHANGED managerVars
    BY <1>2 DEF IndexIsExact, HostKnownIffConnected, managerVars
<1>3. QED
    BY <1>1, <1>2, ManagerUnchanged DEF vars

LEMMA WaitStep ==
    ASSUME TypeOK, \A s \in Sessions : Sound(s), NoRequestWithoutHost, [Next]_vars
    PROVE  NoRequestWithoutHost'
<1>a. /\ host_to_sessions \in [Hosts -> SUBSET Sessions]
      /\ pending_host_requests \in [Requests -> Pending \cup {None}]
    BY DEF TypeOK
<1>b. \A r \in Requests : pending_host_requests[r] # None => pending_host_requests[r].host \in Hosts
    BY <1>a DEF Pending
\* Nobody leaves a host, and no request changes hosts.
<1>c. ASSUME \A h \in Hosts : host_to_sessions[h] \subseteq host_to_sessions'[h],
             \A r \in Requests : pending_host_requests'[r] = None
                 \/ /\ pending_host_requests[r] # None
                    /\ pending_host_requests'[r].host = pending_host_requests[r].host
      PROVE  NoRequestWithoutHost'
    BY <1>b, <1>c DEF NoRequestWithoutHost
<1>1. ASSUME NEW s \in Sessions, SessionStep(s)
      PROVE  NoRequestWithoutHost'
    <2>1. CASE LeaveHost(s) /\ session_host[s] \in Hosts
        <3>1. host_to_sessions' = IndexWithout(s)
            BY <2>1 DEF LeaveHost
        <3>2. \A h \in Hosts \ {session_host[s]} : host_to_sessions'[h] = host_to_sessions[h]
            BY <1>a, <3>1 DEF IndexWithout
        <3>3. CASE host_to_sessions'[session_host[s]] = {}
            <4>1. pending_host_requests' = [r \in Requests |->
                      IF r \in Orphaned(IndexWithout(s)) THEN None ELSE pending_host_requests[r]]
                BY <2>1, <3>1, <3>3 DEF LeaveHost, NoSessionLeft
            <4>2. QED
                BY <1>b, <3>1, <4>1 DEF NoRequestWithoutHost, Orphaned
        <3>4. CASE host_to_sessions'[session_host[s]] # {}
            <4>1. UNCHANGED pending_host_requests
                BY <2>1, <3>1, <3>4 DEF LeaveHost, NoSessionLeft
            <4>2. QED
                BY <1>b, <3>2, <3>4, <4>1 DEF NoRequestWithoutHost
        <3>5. QED
            BY <3>3, <3>4
    <2>2. CASE UNCHANGED pending_host_requests /\ \A h \in Hosts : host_to_sessions[h] \subseteq host_to_sessions'[h]
        BY <1>b, <2>2 DEF NoRequestWithoutHost
    <2>3. CASE StreamEnded(s) \/ deregister_session(s)
        <3>1. \/ LeaveHost(s) /\ session_host[s] \in Hosts
              \/ UNCHANGED <<host_to_sessions, pending_host_requests>>
            BY <2>3 DEF Sound, StreamEnded, deregister_session, StayWithHost
        <3>2. QED
            BY <2>1, <2>2, <3>1
    <2>4. CASE connect_session(s) \/ TaskStep(s)
        <3>1. UNCHANGED pending_host_requests
            BY <2>4 DEF connect_session, TaskStep, Opened, ConnectFails, HandshakeDone, mark_session_connected,
                ConnectionFailed, ConnectionGivenUp, ReconnectDelayOver, ReconnectFailed, requestVars
        <3>2. UNCHANGED host_to_sessions
              \/ \E h \in Hosts : host_to_sessions' = [host_to_sessions EXCEPT ![h] = @ \cup {s}]
            BY <2>4 DEF connect_session, TaskStep, Opened, ConnectFails, HandshakeDone, mark_session_connected,
                Connected, ConnectionFailed, ConnectionGivenUp, ReconnectDelayOver, ReconnectFailed
        <3>3. \A h \in Hosts : host_to_sessions[h] \subseteq host_to_sessions'[h]
            BY <1>a, <3>2
        <3>4. QED
            BY <2>2, <3>1, <3>3
    <2>5. QED
        BY <1>1, <2>3, <2>4 DEF SessionStep
<1>2. ASSUME NEW s \in Sessions, EventStep(s)
      PROVE  NoRequestWithoutHost'
    <2>1. UNCHANGED host_to_sessions
        BY <1>2 DEF EventStep, IgnoreEvent, FailUndecodable, RetryOrFail, Drain, managerVars
    <2>2. \/ UNCHANGED pending_host_requests
          \/ \E r \in Requests : \/ pending_host_requests' = [pending_host_requests EXCEPT ![r] = None]
                                 \/ /\ pending_host_requests[r] # None
                                    /\ \E t \in Carriers(pending_host_requests[r].host, s) :
                                       pending_host_requests' = [pending_host_requests EXCEPT ![r].session = t]
        BY <1>2 DEF EventStep, IgnoreEvent, FailUndecodable, RetryOrFail, Concerns
    <2>3. \A r \in Requests : pending_host_requests'[r] = None
              \/ /\ pending_host_requests[r] # None
                 /\ pending_host_requests'[r].host = pending_host_requests[r].host
        BY <1>a, <2>2 DEF Pending
    <2>4. QED
        BY <1>c, <2>1, <2>3
<1>3. ASSUME NEW r \in Requests, RequestStep(r)
      PROVE  NoRequestWithoutHost'
    <2>1. UNCHANGED host_to_sessions
        BY <1>3 DEF RequestStep, send_host_request, HostResponse, HostResponseUnreadable, MatchResponse,
            GiveUpHostRequest, managerVars
    <2>2. CASE \E h \in Hosts : send_host_request(r, h)
        <3>1. PICK h \in Hosts : send_host_request(r, h)
            BY <2>2
        <3>2. UNCHANGED pending_host_requests \/
              \E s \in Carriers(h, None) :
                  pending_host_requests' = [pending_host_requests EXCEPT ![r] = [host |-> h, session |-> s]]
            BY <3>1 DEF send_host_request
        <3>3. Carriers(h, None) # {} => host_to_sessions[h] # {}
            BY DEF Carriers
        <3>4. QED
            BY <1>a, <2>1, <3>2, <3>3 DEF NoRequestWithoutHost
    <2>3. CASE ~\E h \in Hosts : send_host_request(r, h)
        <3>1. UNCHANGED pending_host_requests \/ pending_host_requests' = [pending_host_requests EXCEPT ![r] = None]
            BY <1>3, <2>3 DEF RequestStep, HostResponse, HostResponseUnreadable, MatchResponse,
                GiveUpHostRequest, requestVars
        <3>2. \A q \in Requests : pending_host_requests'[q] = None
              \/ /\ pending_host_requests[q] # None
                 /\ pending_host_requests'[q].host = pending_host_requests[q].host
            BY <1>a, <3>1
        <3>3. QED
            BY <1>c, <2>1, <3>2
    <2>4. QED
        BY <2>2, <2>3
<1>4. CASE UNCHANGED <<managerVars, requestVars>>
    BY <1>4 DEF NoRequestWithoutHost, managerVars, requestVars
<1>5. QED
    BY <1>1, <1>2, <1>3, <1>4 DEF Next, ClientStep, CallStep, vars

-----------------------------------------------------------------------------
(* The callers of a client *)

LEMMA EntryStep ==
    ASSUME TypeOK, EntryDropped, [Next]_vars
    PROVE  EntryDropped'
<1>a. /\ reader \in [Sessions -> {"none", "reading", "flagged", "cleared", "ended"}]
      /\ pending_requests \in [Sessions -> SUBSET Calls]
      /\ call \in [Calls -> [pc : {"idle", "inserted", "checked", "waiting", "ended"},
                             session : Sessions \cup {None}]]
    BY DEF TypeOK, ClientTypeOK
<1>0. CASE UNCHANGED <<reader, pending_requests, call>>
    BY <1>0 DEF EntryDropped
<1>1. ASSUME NEW s \in Sessions, ClientStep(s)
      PROVE  EntryDropped'
    <2>1. CASE ReaderStops(s)
        BY <1>a, <2>1 DEF EntryDropped, ReaderStops
    <2>2. CASE ReaderClears(s)
        BY <1>a, <2>2 DEF EntryDropped, ReaderClears
    <2>3. CASE ReaderEnds(s)
        BY <1>a, <2>3 DEF EntryDropped, ReaderEnds
    <2>4. CASE WriterRefuses(s) \/ WriterFails(s)
        <3>1. UNCHANGED <<reader, call>>
            BY <2>4 DEF WriterRefuses, WriterFails, connVars
        <3>2. \A t \in Sessions : pending_requests'[t] \subseteq pending_requests[t]
            BY <1>a, <2>4 DEF WriterRefuses, WriterFails
        <3>3. QED
            BY <3>1, <3>2 DEF EntryDropped
    <2>5. QED
        BY <1>0, <1>1, <2>1, <2>2, <2>3, <2>4 DEF ClientStep, ConnectionLost, WriterWrites, WriterGone,
            WriterReleased, connVars
<1>2. ASSUME NEW s \in Sessions, NEW c \in Calls, CallStep(c, s)
      PROVE  EntryDropped'
    <2>1. UNCHANGED reader
        BY <1>2 DEF CallStep, CallInserts, CallChecks, CallSends, CallAnswered, CallEnds, CallTimesOut, connVars
    <2>2. CASE CallInserts(c, s)
        BY <1>a, <2>1, <2>2 DEF EntryDropped, CallInserts
    <2>3. CASE CallChecks(c, s)
        BY <1>a, <2>1, <2>3 DEF EntryDropped, CallChecks, disconnected
    <2>4. CASE CallSends(c, s)
        BY <1>a, <2>1, <2>4 DEF EntryDropped, CallSends
    <2>5. CASE CallAnswered(c, s) \/ CallEnds(c, s) \/ CallTimesOut(c, s)
        BY <1>a, <2>1, <2>5 DEF EntryDropped, CallAnswered, CallEnds, CallTimesOut
    <2>6. QED
        BY <1>2, <2>2, <2>3, <2>4, <2>5 DEF CallStep
<1>3. ASSUME NEW s \in Sessions, SessionStep(s)
      PROVE  EntryDropped'
    <2>1. UNCHANGED <<reader, pending_requests, call>> \/ NewClient(s)
        BY <1>3 DEF SessionStep, TaskStep, connect_session, Opened, ConnectFails, HandshakeDone,
            mark_session_connected, Connected, ConnectionFailed, ConnectionGivenUp, ReconnectDelayOver,
            ReconnectFailed, StreamEnded, deregister_session, clientVars
    <2>2. CASE NewClient(s)
        BY <1>a, <2>2 DEF EntryDropped, NewClient
    <2>3. QED
        BY <1>0, <2>1, <2>2
<1>4. ASSUME NEW s \in Sessions, EventStep(s)
      PROVE  EntryDropped'
    BY <1>0, <1>4 DEF EventStep, IgnoreEvent, FailUndecodable, RetryOrFail, Drain, connVars
<1>5. ASSUME NEW r \in Requests, RequestStep(r)
      PROVE  EntryDropped'
    BY <1>0, <1>5 DEF RequestStep, send_host_request, HostResponse, HostResponseUnreadable, MatchResponse,
        GiveUpHostRequest, connVars, clientVars
<1>6. QED
    BY <1>0, <1>1, <1>2, <1>3, <1>4, <1>5 DEF Next, vars, clientVars

-----------------------------------------------------------------------------
(* The theorems *)

LEMMA InvInit == Init => IInv
<1> SUFFICES ASSUME Init PROVE IInv
    OBVIOUS
<1>1. TypeOK
    BY TypeInit
<1>2. TaskFitsState /\ NobodyForgotten /\ HostRemembered
    BY DEF Init, TaskFitsState, NobodyForgotten, HostRemembered
<1>3. IndexIsExact /\ HostKnownIffConnected /\ NoRequestWithoutHost
    BY DEF Init, IndexIsExact, HostKnownIffConnected, NoRequestWithoutHost
<1>4. EntryDropped
    BY DEF Init, ClientInit, EntryDropped
<1>5. QED
    BY <1>1, <1>2, <1>3, <1>4 DEF IInv

LEMMA InvStep == IInv /\ [Next]_vars => IInv'
<1> SUFFICES ASSUME IInv, [Next]_vars PROVE IInv'
    OBVIOUS
<1>1. TypeOK /\ TypeOK'
    BY TypeStep DEF IInv
<1>2. \A s \in Sessions : Sound(s)
    BY SoundMeans DEF IInv
<1>3. (TaskFitsState /\ NobodyForgotten /\ HostRemembered)'
    <2>1. \A s \in Sessions : Sound(s)'
        BY <1>1, <1>2, SoundAlways
    <2>2. QED
        BY <2>1 DEF Sound, TaskFitsState, NobodyForgotten, HostRemembered
<1>4. IndexIsExact' /\ HostKnownIffConnected'
    BY <1>1, <1>2, IndexStep DEF IInv
<1>5. NoRequestWithoutHost'
    BY <1>1, <1>2, WaitStep DEF IInv
<1>6. EntryDropped'
    BY <1>1, EntryStep DEF IInv
<1>7. QED
    BY <1>1, <1>3, <1>4, <1>5, <1>6 DEF IInv

\* The inductive invariant holds in every state.
THEOREM Inductive == Spec => []IInv
BY InvInit, InvStep, PTL DEF Spec

\* The index of the hosts lists exactly the connected sessions, and HostConnected
\* and HostDisconnected alternate: whatever reconnects, failures and exits are
\* in progress, a request for a host finds the sessions that can carry it and no
\* others, and the models kept per host exist while one of them does.
THEOREM HostsStayTracked == Spec => []HostsTracked
<1>1. IInv => HostsTracked
    BY DEF IInv, HostsTracked
<1>2. QED
    BY <1>1, Inductive, PTL

\* No request waits for a host that no session is connected to.
THEOREM NobodyWaitsForALostHost == Spec => []NoRequestWithoutHost
<1>1. IInv => NoRequestWithoutHost
    BY DEF IInv
<1>2. QED
    BY <1>1, Inductive, PTL

\* A session in the middle of a connect or reconnect has a task that ends it,
\* and a connected one a stream that reports its end.
THEOREM SomebodyGoesOn == Spec => []NobodyForgotten
<1>1. IInv => NobodyForgotten
    BY DEF IInv
<1>2. QED
    BY <1>1, Inductive, PTL

\* A caller is not left with an entry that no reader will ever answer: the
\* flag is set before the entries are dropped and read after they are added.
THEOREM CallersReleased == Spec => []NoCallOutlivesReader
<1>1. IInv => NoCallOutlivesReader
    BY DEF IInv, EntryDropped, NoCallOutlivesReader
<1>2. QED
    BY <1>1, Inductive, PTL

\* Whatever a late task, event or failure of it brings, a deregistered session
\* stays deregistered.
THEOREM NeverResurrected == Spec => StaysDeregistered
<1>1. ASSUME IInv, [Next]_vars, NEW s \in Sessions, sessions[s] = "Deregistered"
      PROVE  sessions'[s] = "Deregistered"
    <2>1. CASE SessionStep(s)
        BY <1>1, <2>1 DEF IInv, TypeOK, SessionStep, TaskStep, connect_session, Opened, ConnectFails, HandshakeDone,
            mark_session_connected, ConnectionFailed, ConnectionGivenUp, ReconnectDelayOver,
            ReconnectFailed, StreamEnded, deregister_session, HasEntry
    <2>2. CASE \E t \in Sessions : t # s /\ SessionStep(t)
        BY <1>1, <2>2, OtherSessions DEF IInv
    <2>3. CASE UNCHANGED managerVars
        BY <1>1, <2>3 DEF managerVars
    <2>4. QED
        BY <1>1, <2>1, <2>2, <2>3, ManagerUnchanged DEF vars
<1>2. IInv /\ [Next]_vars => (\A s \in Sessions : sessions[s] = "Deregistered" => sessions'[s] = "Deregistered")
    BY <1>1
<1>3. QED
    BY <1>2, Inductive, PTL DEF Spec, StaysDeregistered
=============================================================================
