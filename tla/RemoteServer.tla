---------------------------- MODULE RemoteServer ----------------------------
(***************************************************************************)
(* The sessions of `RemoteServerManager` (crates/remote_server/src/        *)
(* manager.rs) over their clients: connecting, reconnecting and            *)
(* deregistering, the index of the hosts, and the host-scoped requests     *)
(* that any session of a host may carry.  The manager lives on the main    *)
(* thread; its background tasks come back to it by closures (`spawner`),   *)
(* each an action here.                                                    *)
(***************************************************************************)
EXTENDS RemoteClient

CONSTANTS
    Hosts,                  \* ids of daemons: a daemon that starts anew has a new one
    MAX_RECONNECT_ATTEMPTS

ASSUME ManagerAssumption ==
    /\ MAX_RECONNECT_ATTEMPTS \in Nat \ {0}
    /\ None \notin Hosts

VARIABLES
    sessions,               \* RemoteSessionState; "Unknown" before connect_session,
                            \* "Deregistered" after: both have no entry
    session_host,           \* host_id of Connected, and of a reconnect
    task,                   \* where the session's background task is
    attempt,                \* its attempt, 0 for the one of connect_session
    streaming,              \* the event stream of the client is being drained
    host_to_sessions,
    host_connected,         \* the last event of a host was HostConnected
    pending_host_requests,  \* of a request, None or its host and session
    issued,                 \* the requests ever sent: each has an id of its own
    responses               \* host responses read and not matched yet

managerVars == <<sessions, session_host, task, attempt, streaming, host_to_sessions, host_connected>>
requestVars == <<pending_host_requests, issued, responses>>
vars == <<clientVars, managerVars, requestVars>>

States == {"Unknown", "Connecting", "Initializing", "Connected", "Reconnecting",
           "AwaitingExitStatus", "Disconnected", "Deregistered"}
Tasks == {"none", "connecting", "handshake", "shaken", "failed", "classify", "delay"}
Pending == [host : Hosts, session : Sessions]

TypeOK ==
    /\ ClientTypeOK
    /\ sessions \in [Sessions -> States]
    /\ session_host \in [Sessions -> Hosts \cup {None}]
    /\ task \in [Sessions -> Tasks]
    /\ attempt \in [Sessions -> 0 .. MAX_RECONNECT_ATTEMPTS]
    /\ streaming \in [Sessions -> BOOLEAN]
    /\ host_to_sessions \in [Hosts -> SUBSET Sessions]
    /\ host_connected \in [Hosts -> BOOLEAN]
    /\ pending_host_requests \in [Requests -> Pending \cup {None}]
    /\ issued \subseteq Requests
    /\ responses \subseteq Requests

Init ==
    /\ ClientInit
    /\ sessions = [s \in Sessions |-> "Unknown"]
    /\ session_host = [s \in Sessions |-> None]
    /\ task = [s \in Sessions |-> "none"]
    /\ attempt = [s \in Sessions |-> 0]
    /\ streaming = [s \in Sessions |-> FALSE]
    /\ host_to_sessions = [h \in Hosts |-> {}]
    /\ host_connected = [h \in Hosts |-> FALSE]
    /\ pending_host_requests = [r \in Requests |-> None]
    /\ issued = {}
    /\ responses = {}

\* Mutant: a session that was deregistered meanwhile is inserted all the same.
HasEntry_Any(s) == sessions[s] # "Unknown"
\* Mutant: a session that reconnects is taken for one that is gone.
HasEntry_Live(s) == sessions[s] \in {"Connecting", "Initializing", "Connected"}
\* self.sessions.contains_key
HasEntry(s) == sessions[s] \notin {"Unknown", "Deregistered"}

\* The session's task is over, and the count of its attempts with it.
TaskOver(s) ==
    /\ task' = [task EXCEPT ![s] = "none"]
    /\ attempt' = [attempt EXCEPT ![s] = 0]

-----------------------------------------------------------------------------
(* Connecting. *)

connect_session(s) ==
    /\ sessions[s] = "Unknown"
    /\ sessions' = [sessions EXCEPT ![s] = "Connecting"]
    /\ task' = [task EXCEPT ![s] = "connecting"]
    /\ UNCHANGED <<session_host, attempt, streaming, host_to_sessions, host_connected,
                   clientVars, requestVars>>

\* The transport is connected.
Opened(s) ==
    /\ task[s] = "connecting"
    /\ IF HasEntry(s)
       THEN /\ sessions' = [sessions EXCEPT ![s] = "Initializing"]
            /\ task' = [task EXCEPT ![s] = "handshake"]
       ELSE /\ task' = [task EXCEPT ![s] = "failed"]
            /\ UNCHANGED sessions
    /\ UNCHANGED <<session_host, attempt, streaming, host_to_sessions, host_connected,
                   clientVars, requestVars>>

\* transport.connect or the handshake fails: an error, the wrong version.
ConnectFails(s) ==
    /\ task[s] \in {"connecting", "handshake"}
    /\ task' = [task EXCEPT ![s] = "failed"]
    /\ UNCHANGED <<sessions, session_host, attempt, streaming, host_to_sessions, host_connected,
                   clientVars, requestVars>>

HandshakeDone(s) ==
    /\ task[s] = "handshake"
    /\ task' = [task EXCEPT ![s] = "shaken"]
    /\ UNCHANGED <<sessions, session_host, attempt, streaming, host_to_sessions, host_connected,
                   clientVars, requestVars>>

\* mark_session_connected: the daemon says which host it is.
Connected(s, h) ==
    /\ sessions' = [sessions EXCEPT ![s] = "Connected"]
    /\ session_host' = [session_host EXCEPT ![s] = h]
    /\ streaming' = [streaming EXCEPT ![s] = TRUE]
    /\ host_to_sessions' = [host_to_sessions EXCEPT ![h] = @ \cup {s}]
    /\ host_connected' = IF host_to_sessions[h] = {} THEN [host_connected EXCEPT ![h] = TRUE]
                                                    ELSE host_connected
    /\ NewClient(s)

mark_session_connected(s) ==
    /\ task[s] = "shaken"
    /\ TaskOver(s)
    /\ IF sessions[s] = "Initializing"
       THEN \E h \in Hosts : Connected(s, h)
       ELSE UNCHANGED <<sessions, session_host, streaming, host_to_sessions, host_connected, clientVars>>
    /\ UNCHANGED requestVars

\* The first closure of connect_session's error path.
ConnectionFailed(s) ==
    /\ task[s] = "failed" /\ attempt[s] = 0
    /\ task' = [task EXCEPT ![s] = "classify"]
    /\ sessions' = [sessions EXCEPT ![s] = IF @ = "Initializing" THEN "AwaitingExitStatus" ELSE @]
    /\ UNCHANGED <<session_host, attempt, streaming, host_to_sessions, host_connected,
                   clientVars, requestVars>>

-----------------------------------------------------------------------------
(* Losing a connection. *)

\* remove_from_host_index
IndexWithout(s) == [host_to_sessions EXCEPT ![session_host[s]] = @ \ {s}]

\* Mutant: only requests no session has taken to the daemon yet.
Orphaned_Unread(index) ==
    {r \in Requests \ at_daemon : /\ pending_host_requests[r] # None
                                  /\ index[pending_host_requests[r].host] = {}}
\* fail_pending_host_requests_for_disconnected_hosts, with this index
Orphaned(index) ==
    {r \in Requests : /\ pending_host_requests[r] # None
                      /\ index[pending_host_requests[r].host] = {}}

\* Mutant: HostDisconnected whichever session of the host leaves.
NoSessionLeft_Any(index, h) == TRUE
NoSessionLeft(index, h) == index[h] = {}

\* remove_from_host_index, handle_host_disconnected
LeaveHost(s) ==
    LET index == IndexWithout(s)
        h == session_host[s]
    IN  /\ host_to_sessions' = index
        /\ IF NoSessionLeft(index, h)
           THEN /\ host_connected' = [host_connected EXCEPT ![h] = FALSE]
                /\ pending_host_requests' = [r \in Requests |->
                       IF r \in Orphaned(index) THEN None ELSE pending_host_requests[r]]
           ELSE UNCHANGED <<host_connected, pending_host_requests>>

StayWithHost == UNCHANGED <<host_to_sessions, host_connected, pending_host_requests>>

\* attempt_reconnect, up to its delay
AttemptReconnect(s, n) ==
    /\ sessions' = [sessions EXCEPT ![s] = "Reconnecting"]
    /\ task' = [task EXCEPT ![s] = "delay"]
    /\ attempt' = [attempt EXCEPT ![s] = n]
    /\ UNCHANGED session_host

\* finalize_disconnect, but for the host's part
FinalizeDisconnect(s) ==
    /\ sessions' = [sessions EXCEPT ![s] = "Disconnected"]
    /\ session_host' = [session_host EXCEPT ![s] = None]

\* mark_session_disconnected when the event stream of s has ended: both tasks
\* are over and no event is left.  The transport says whether a reconnect is
\* any use; finalize_disconnect if not.
StreamEnded(s) ==
    /\ streaming[s] /\ reader[s] = "ended" /\ writer[s] = "gone" /\ event_rx[s] = <<>>
    /\ streaming' = [streaming EXCEPT ![s] = FALSE]
    /\ IF sessions[s] = "Connected"
       THEN /\ LeaveHost(s)
            /\ \/ AttemptReconnect(s, 1)
               \/ FinalizeDisconnect(s) /\ UNCHANGED <<task, attempt>>
       ELSE UNCHANGED <<sessions, session_host, task, attempt>> /\ StayWithHost
    /\ KillChild(s)
    /\ UNCHANGED <<issued, responses,
                   reader, writer, outbound, pending_requests, event_rx, call, at_daemon, too_large>>

\* The last closure of connect_session's error path: mark_session_disconnected
\* of a session that was never connected.
ConnectionGivenUp(s) ==
    /\ task[s] = "classify"
    /\ TaskOver(s)
    /\ sessions' = [sessions EXCEPT ![s] = IF HasEntry(s) THEN "Disconnected" ELSE @]
    /\ UNCHANGED <<session_host, streaming, host_to_sessions, host_connected,
                   clientVars, requestVars>>

\* After RECONNECT_DELAY: connect, unless the session was deregistered.
ReconnectDelayOver(s) ==
    /\ task[s] = "delay"
    /\ IF HasEntry(s)
       THEN task' = [task EXCEPT ![s] = "connecting"] /\ UNCHANGED attempt
       ELSE TaskOver(s)
    /\ UNCHANGED <<sessions, session_host, streaming, host_to_sessions, host_connected,
                   clientVars, requestVars>>

\* Mutant: the attempts are not counted.
Exhausted_Never(s) == FALSE
Exhausted(s) == attempt[s] >= MAX_RECONNECT_ATTEMPTS

\* handle_reconnect_failure
ReconnectFailed(s) ==
    /\ task[s] = "failed" /\ attempt[s] > 0
    /\ \/ /\ HasEntry(s) /\ ~Exhausted(s)
          /\ AttemptReconnect(s, attempt[s] + 1)
       \/ HasEntry(s) /\ Exhausted(s) /\ FinalizeDisconnect(s) /\ TaskOver(s)
       \/ ~HasEntry(s) /\ TaskOver(s) /\ UNCHANGED <<sessions, session_host>>
    /\ UNCHANGED <<streaming, host_to_sessions, host_connected, clientVars, requestVars>>

\* The user's shell has exited.
deregister_session(s) ==
    /\ sessions[s] \notin {"Unknown", "Deregistered"}
    /\ sessions' = [sessions EXCEPT ![s] = "Deregistered"]
    /\ session_host' = [session_host EXCEPT ![s] = None]
    /\ IF sessions[s] \in {"Connected", "Reconnecting"} THEN LeaveHost(s) ELSE StayWithHost
    /\ KillChild(s)
    /\ UNCHANGED <<task, attempt, streaming, issued, responses,
                   reader, writer, outbound, pending_requests, event_rx, call, at_daemon, too_large>>

-----------------------------------------------------------------------------
(* Host-scoped requests. *)

\* The sessions of the host that dispatch_host_scoped_request may settle on:
\* it tries them in the order of a hash set.
Carriers(h, excluded) ==
    {s \in host_to_sessions[h] \ {excluded} : sessions[s] = "Connected" /\ MayQueue(s)}

send_host_request(r, h) ==
    /\ r \notin issued
    /\ issued' = issued \cup {r}
    /\ IF Carriers(h, None) = {}
       THEN UNCHANGED <<pending_host_requests, outbound>>
       ELSE \E s \in Carriers(h, None) :
                /\ outbound' = [outbound EXCEPT ![s] = Append(@, r)]
                /\ pending_host_requests' =
                       [pending_host_requests EXCEPT ![r] = [host |-> h, session |-> s]]
    /\ UNCHANGED <<connVars, pending_requests, event_rx, call, at_daemon, managerVars, responses>>

\* The daemon answers on any connection to it, in a way that can be decoded.
HostResponse(r, s) ==
    /\ r \in at_daemon /\ pending_host_requests[r] # None
    /\ session_host[s] = pending_host_requests[r].host
    /\ streaming[s] /\ reader[s] = "reading" /\ wire[s]
    /\ at_daemon' = at_daemon \ {r}
    /\ responses' = responses \cup {r}
    /\ UNCHANGED <<connVars, outbound, pending_requests, event_rx, call,
                   managerVars, pending_host_requests, issued>>

\* Or not: reader_task tells the manager.
HostResponseUnreadable(r, s) ==
    /\ r \in at_daemon /\ pending_host_requests[r] # None
    /\ session_host[s] = pending_host_requests[r].host
    /\ streaming[s] /\ reader[s] = "reading" /\ wire[s]
    /\ at_daemon' = at_daemon \ {r}
    /\ event_rx' = [event_rx EXCEPT ![s] = Append(@, DecodeFailed(r))]
    /\ UNCHANGED <<connVars, outbound, pending_requests, call, managerVars, requestVars>>

\* The manager takes the response; the request may be gone.
MatchResponse(r) ==
    /\ r \in responses
    /\ responses' = responses \ {r}
    /\ pending_host_requests' = [pending_host_requests EXCEPT ![r] = None]
    /\ UNCHANGED <<clientVars, managerVars, issued>>

\* timeout_host_request and abort_host_request: the request is withdrawn and
\* the daemon told to abort on any connected session of its host.
GiveUpHostRequest(r) ==
    /\ pending_host_requests[r] # None
    /\ pending_host_requests' = [pending_host_requests EXCEPT ![r] = None]
    /\ LET connected == {s \in host_to_sessions[pending_host_requests[r].host] : sessions[s] = "Connected"}
       IN  IF connected = {} THEN UNCHANGED outbound
           ELSE \E s \in connected :
                    outbound' = [outbound EXCEPT ![s] = IF MayQueue(s) THEN Append(@, Abort) ELSE @]
    /\ UNCHANGED <<connVars, pending_requests, event_rx, call, at_daemon, managerVars, issued, responses>>

-----------------------------------------------------------------------------
(* forward_client_event: the next event of a client is drained. *)

Drain(s) ==
    /\ streaming[s] /\ event_rx[s] # <<>>
    /\ event_rx' = [event_rx EXCEPT ![s] = Tail(@)]
    /\ UNCHANGED <<connVars, pending_requests, call, at_daemon, managerVars, issued, responses>>

\* The event concerns a request that is pending, on a connected session.
Concerns(s, event, r) ==
    sessions[s] = "Connected" /\ Head(event_rx[s]) = event /\ pending_host_requests[r] # None

\* fail_host_request_decode_error
FailUndecodable(s, r) ==
    /\ Drain(s)
    /\ Concerns(s, DecodeFailed(r), r)
    /\ pending_host_requests' = [pending_host_requests EXCEPT ![r] = None]
    /\ UNCHANGED outbound

\* handle_host_scoped_write_failed: the session the request was sent on
\* failed; another one carries it, or it has failed.
RetryOrFail(s, r) ==
    /\ Drain(s)
    /\ Concerns(s, WriteFailed(r), r) /\ pending_host_requests[r].session = s
    /\ LET carriers == Carriers(pending_host_requests[r].host, s)
       IN  \/ /\ carriers = {}
              /\ pending_host_requests' = [pending_host_requests EXCEPT ![r] = None]
              /\ UNCHANGED outbound
           \/ \E t \in carriers :
                /\ pending_host_requests' = [pending_host_requests EXCEPT ![r].session = t]
                /\ outbound' = [outbound EXCEPT ![t] = Append(@, r)]

\* Anything else: the end of the connection, which the end of the stream is
\* for; an event of a session that is not connected; a request that is
\* resolved, or was sent again on another session.
IgnoreEvent(s) ==
    /\ Drain(s)
    /\ \A r \in Requests :
          /\ ~Concerns(s, DecodeFailed(r), r)
          /\ ~(Concerns(s, WriteFailed(r), r) /\ pending_host_requests[r].session = s)
    /\ UNCHANGED <<pending_host_requests, outbound>>

-----------------------------------------------------------------------------
\* The client's own threads; callers take the client of a connected session.
ClientStep(s) ==
    /\ \/ ConnectionLost(s)
       \/ ReaderStops(s) \/ ReaderClears(s) \/ ReaderEnds(s)
       \/ WriterWrites(s) \/ WriterRefuses(s) \/ WriterFails(s) \/ WriterGone(s)
       \/ sessions[s] # "Connected" /\ WriterReleased(s)
    /\ UNCHANGED <<managerVars, requestVars>>

CallStep(c, s) ==
    /\ \/ sessions[s] = "Connected" /\ CallInserts(c, s)
       \/ CallChecks(c, s) \/ CallSends(c, s) \/ CallAnswered(c, s)
       \/ CallEnds(c, s) \/ CallTimesOut(c, s)
    /\ UNCHANGED <<managerVars, requestVars>>

TaskStep(s) ==
    \/ Opened(s) \/ ConnectFails(s) \/ HandshakeDone(s) \/ mark_session_connected(s)
    \/ ConnectionFailed(s) \/ ConnectionGivenUp(s)
    \/ ReconnectDelayOver(s) \/ ReconnectFailed(s)

SessionStep(s) ==
    connect_session(s) \/ deregister_session(s) \/ TaskStep(s) \/ StreamEnded(s)

EventStep(s) ==
    IgnoreEvent(s) \/ \E r \in Requests : FailUndecodable(s, r) \/ RetryOrFail(s, r)

RequestStep(r) ==
    \/ \E h \in Hosts : send_host_request(r, h)
    \/ \E s \in Sessions : HostResponse(r, s) \/ HostResponseUnreadable(r, s)
    \/ MatchResponse(r)
    \/ GiveUpHostRequest(r)

Next ==
    \/ \E s \in Sessions : SessionStep(s) \/ EventStep(s) \/ ClientStep(s)
    \/ \E s \in Sessions, c \in Calls : CallStep(c, s)
    \/ \E r \in Requests : RequestStep(r)

Spec == Init /\ [][Next]_vars

\* The executors run what is ready: tasks of a session, tasks of a client,
\* closures and drained events.  A connection that is lost ends the reader.
ClientProgress(s) ==
    /\ \/ ReaderStops(s) /\ ~wire[s]
       \/ ReaderClears(s) \/ ReaderEnds(s)
       \/ WriterWrites(s) \/ WriterRefuses(s) \/ WriterFails(s) \/ WriterGone(s)
       \/ sessions[s] # "Connected" /\ WriterReleased(s)
    /\ UNCHANGED <<managerVars, requestVars>>

FairSpec ==
    /\ Spec
    /\ \A s \in Sessions :
          /\ WF_vars(TaskStep(s))
          /\ WF_vars(ClientProgress(s))
          /\ WF_vars(EventStep(s))
          /\ WF_vars(StreamEnded(s))

-----------------------------------------------------------------------------
(* Properties *)

\* The index lists under a host exactly its connected sessions, whatever
\* reconnect, failure or exit of a shell is in progress (remove_from_host_index,
\* mark_session_connected).
IndexIsExact ==
    \A h \in Hosts : host_to_sessions[h] =
        {s \in Sessions : sessions[s] = "Connected" /\ session_host[s] = h}

\* Subscribers to HostConnected and HostDisconnected keep a model per host:
\* they have one exactly while a session of the host is connected.
HostKnownIffConnected ==
    \A h \in Hosts : host_connected[h] <=> host_to_sessions[h] # {}

\* The two tables of the hosts, changed at a dozen places, stay true to the
\* sessions (manager.rs: host_to_sessions, HostConnected, HostDisconnected).
HostsTracked == IndexIsExact /\ HostKnownIffConnected

\* Nobody waits for an answer from a host no session is connected to
\* (fail_pending_host_requests_for_disconnected_hosts).
NoRequestWithoutHost ==
    \A r \in Requests : pending_host_requests[r] # None =>
        host_to_sessions[pending_host_requests[r].host] # {}

\* A session whose shell has exited is never connected or tracked again, at
\* whatever point of a connect or reconnect it exited (the contains_key checks
\* of the closures).
StaysDeregistered ==
    [][\A s \in Sessions : sessions[s] = "Deregistered" => sessions'[s] = "Deregistered"]_vars

\* No session is left in the middle of something with nobody to go on: one
\* that connects or reconnects has a background task that will say how it
\* ended, and of one that is connected the events are drained until they end.
NobodyForgotten ==
    \A s \in Sessions :
        /\ sessions[s] \in {"Connecting", "Initializing", "AwaitingExitStatus", "Reconnecting"}
               => task[s] # "none"
        /\ sessions[s] = "Connected" => streaming[s] /\ task[s] = "none"

\* "Handled by the drain loop's completion callback": a session whose
\* connection is gone does not stay connected.
LostConnectionNoticed ==
    \A s \in Sessions :
        sessions[s] = "Connected" /\ reader[s] = "ended"
            ~> sessions[s] # "Connected" \/ reader[s] # "ended"
=============================================================================
