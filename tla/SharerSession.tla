--------------------------- MODULE SharerSession ---------------------------
(***************************************************************************)
(* The sharer's network composed with the session-sharing server and the   *)
(* websockets between them.  The server is not part of the repository: it  *)
(* is modelled from how sharer/network.rs uses it (the endpoints it dials, *)
(* the answers it handles, last_received_event_no, EventsProcessedAck).    *)
(*                                                                         *)
(* A connection carries messages both ways in order; it may break at any   *)
(* time, losing what has not been read at either end.                      *)
(***************************************************************************)
EXTENDS SharerNetwork, SequencesExt

CONSTANTS
    ResumeMayDrop   \* a resumed connection may break before SessionReconnected

ASSUME SharerSessionAssumption == ResumeMayDrop \in BOOLEAN

VARIABLES
    wire,      \* the server's end of each connection
    down,      \* messages on their way to the sharer
    serves,    \* the session each connection speaks for, if any
    sessions   \* what the server keeps of each session

serverVars == <<wire, down, serves, sessions>>
allVars == <<vars, serverVars>>

NoSession == [status |-> "none", log |-> <<>>, acked |-> 0, prompt |-> 0, inputs |-> <<>>]

\* last_received_event_no + 1
NextExpected(s) ==
    IF sessions[s].log = <<>> THEN 0 ELSE Last(sessions[s].log) + 1

SessionInit ==
    /\ Init
    /\ wire = [c \in Conn |-> "none"]
    /\ down = [c \in Conn |-> <<>>]
    /\ serves = [c \in Conn |-> None]
    /\ sessions = [s \in Attempt |-> NoSession]

Send(c, m) == down' = [down EXCEPT ![c] = Append(@, m)]

-----------------------------------------------------------------------------
\* The sharer's steps.

\* A connection that a callback of the sharer has just opened is up.
WireUp == wire' = [c \in Conn |-> IF sock'[c] = "open" /\ sock[c] = "none" THEN "up" ELSE wire[c]]

ClientStep == Client /\ WireUp /\ UNCHANGED <<down, serves, sessions>>

Deliver(c) ==
    /\ down[c] # <<>>
    /\ down' = [down EXCEPT ![c] = Tail(@)]
    /\ LET m == Head(down[c]) IN
       \/ m.type = "SessionInitialized" /\ RecvSessionInitialized(c, m.session)
       \/ m.type = "FailedToInitializeSession" /\ RecvFailedToInitialize(c, m.retryable)
       \/ m.type = "SessionReconnected" /\ RecvSessionReconnected(c, m.next)
       \/ m.type \in {"FailedToReconnect", "SessionTerminated"} /\ RecvTerminated(c)
       \/ m.type = "EventsProcessedAck" /\ RecvAck(c, m.no)
    /\ UNCHANGED <<wire, serves, sessions>>

\* A message no callback acts on: it is ignored, comes at the wrong stage,
\* or finds the network gone.
Discard(c) ==
    /\ down[c] # <<>>
    /\ LET m == Head(down[c]) IN
       \/ ~Delivers(c)
       \/ m.type \in {"SessionInitialized", "FailedToInitializeSession"}
             /\ stage # "BeforeStarted"
       \/ m.type = "SessionReconnected" /\ ~AwaitsResume
    /\ down' = [down EXCEPT ![c] = Tail(@)]
    /\ UNCHANGED <<vars, wire, serves, sessions>>

SocketGone(c) ==
    /\ wire[c] = "down" /\ down[c] = <<>>
    /\ StreamDone(c) \/ StartupSocketError(c)
    /\ UNCHANGED serverVars

-----------------------------------------------------------------------------
\* The server reads the oldest message of connection c.

Reads(c, type) ==
    /\ wire[c] = "up"
    /\ proxy[c] # <<>> /\ Head(proxy[c]).type = type
    /\ Drain(c)
    /\ UNCHANGED <<alive, stage, startupVars, retry, txVars, sock, sessionVars, wire>>

ServerInitialize(c) ==
    /\ Reads(c, "Initialize")
    /\ \/ /\ sessions' = [sessions EXCEPT ![c].status = "active"]
          /\ serves' = [serves EXCEPT ![c] = c]
          /\ Send(c, [type |-> "SessionInitialized", session |-> c])
       \/ /\ \E r \in BOOLEAN :
                Send(c, [type |-> "FailedToInitializeSession", retryable |-> r])
          /\ UNCHANGED <<sessions, serves>>

\* /sessions/{session_id}/resume: the new connection takes the session over.
ServerResume(c) ==
    /\ Reads(c, "Reconnect")
    /\ \/ /\ sessions[session_id].status = "active"
          /\ serves' = [d \in Conn |-> IF d = c THEN session_id
                                       ELSE IF serves[d] = session_id THEN None ELSE serves[d]]
          /\ Send(c, [type |-> "SessionReconnected", next |-> NextExpected(session_id)])
       \/ /\ Send(c, [type |-> "FailedToReconnect"])
          /\ UNCHANGED serves
    /\ UNCHANGED sessions

\* Events the server has already are dropped; any later one is recorded.
ServerEvent(c) ==
    /\ Reads(c, "OrderedTerminalEvent")
    /\ LET s == serves[c]  n == Head(proxy[c]).no IN
       sessions' = IF s # None /\ n >= NextExpected(s)
                     THEN [sessions EXCEPT ![s].log = Append(@, n)] ELSE sessions
    /\ UNCHANGED <<down, serves>>

ServerPrompt(c) ==
    /\ Reads(c, "UpdateActivePrompt")
    /\ sessions' = IF serves[c] # None
                     THEN [sessions EXCEPT ![serves[c]].prompt = Head(proxy[c]).prompt]
                     ELSE sessions
    /\ UNCHANGED <<down, serves>>

ServerInput(c) ==
    /\ Reads(c, "UpdateInput")
    /\ sessions' = IF serves[c] # None
                     THEN [sessions EXCEPT ![serves[c]].inputs = Append(@, Head(proxy[c]))]
                     ELSE sessions
    /\ UNCHANGED <<down, serves>>

ServerEndSession(c) ==
    /\ Reads(c, "EndSession")
    /\ sessions' = IF serves[c] # None
                     THEN [sessions EXCEPT ![serves[c]].status = "ended"] ELSE sessions
    /\ UNCHANGED <<down, serves>>

ServerAck(c) ==
    /\ wire[c] = "up" /\ serves[c] # None
    /\ LET s == serves[c] IN
       /\ sessions[s].acked < NextExpected(s)
       /\ sessions' = [sessions EXCEPT ![s].acked = NextExpected(s)]
       /\ Send(c, [type |-> "EventsProcessedAck", no |-> NextExpected(s) - 1])
    /\ UNCHANGED <<vars, wire, serves>>

-----------------------------------------------------------------------------
\* The transport.

\* The send task has sent everything of a closed channel and closes the
\* websocket.
ChannelClosed(c) == c # ws_proxy_tx \/ ~tx_open \/ ~alive

Hangup(c) ==
    /\ wire[c] = "up" /\ ChannelClosed(c) /\ proxy[c] = <<>>
    /\ wire' = [wire EXCEPT ![c] = "down"]
    /\ serves' = [serves EXCEPT ![c] = None]
    /\ UNCHANGED <<vars, down, sessions>>

\* The server closes the connection, or the network loses it.
Break(c) ==
    /\ wire[c] = "up"
    /\ c \in Reconnect => ResumeMayDrop \/ (Started /\ ws_proxy_tx = c)
    /\ wire' = [wire EXCEPT ![c] = "down"]
    /\ serves' = [serves EXCEPT ![c] = None]
    /\ \E kept \in {<<>>, down[c]} : down' = [down EXCEPT ![c] = kept]
    /\ UNCHANGED <<vars, sessions>>

\* Messages sent into a connection that is down are lost.
Lose(c) ==
    /\ wire[c] = "down"
    /\ Drain(c)
    /\ UNCHANGED <<alive, stage, startupVars, retry, txVars, sock, sessionVars, serverVars>>

-----------------------------------------------------------------------------
Server(c) ==
    \/ ServerInitialize(c) \/ ServerResume(c) \/ ServerEvent(c) \/ ServerPrompt(c)
    \/ ServerInput(c) \/ ServerEndSession(c)

SessionNext ==
    \/ ClientStep
    \/ \E c \in Conn :
         \/ Deliver(c) \/ Discard(c) \/ SocketGone(c)
         \/ Server(c) \/ ServerAck(c)
         \/ Hangup(c) \/ Break(c) \/ Lose(c)

SessionSpec == SessionInit /\ [][SessionNext]_allVars

\* The main thread runs every callback that is ready, a future resolves, a
\* connection that is up carries what was sent. Nothing obliges the terminal
\* to produce events, the server to acknowledge or a connection to break.
Fairness ==
    /\ \A a \in Attempt : WF_allVars((ConnectOk(a) \/ ConnectErr(a)) /\ ClientStep)
    /\ WF_allVars(((\E c \in Conn : ReconnectOk(c)) \/ ReconnectErr) /\ ClientStep)
    /\ WF_allVars(ReconnectTimer /\ ClientStep)
    /\ \A c \in Conn :
         /\ WF_allVars(Deliver(c) \/ Discard(c))
         /\ WF_allVars(SocketGone(c))
         /\ WF_allVars(Server(c))
         /\ WF_allVars(Hangup(c))

FairSpec == SessionSpec /\ Fairness

-----------------------------------------------------------------------------
\* Properties.

Live == session_id # None /\ sessions[session_id].status = "active"

\* Nothing the server may still ask for has been forgotten: every event past
\* last_received_event_no of the live session is among the unacked ones.
NothingLost ==
    session_id # None =>
        NextExpected(session_id)..(event_no - 1) \subseteq unacked

\* The connection the sharer sends on never speaks for another session than
\* the one it was told: a late SessionInitialized of an abandoned startup
\* attempt must not be taken for the current one's.
OneSession ==
    session_id # None /\ Started => serves[ws_proxy_tx] \in {None, session_id}

\* A prompt change is never lost for good: once the connection of a started
\* session is idle, the server shows the sharer's prompt, whatever was
\* dropped while it was disconnected.
PromptCaughtUp ==
    /\ Started /\ alive /\ tx_open
    /\ serves[ws_proxy_tx] = session_id /\ proxy[ws_proxy_tx] = <<>>
    => sessions[session_id].prompt = prompt

\* Input updates reach the server in the order they were made: the buffered
\* ones of a reconnect go before the new ones, and none of a block that is
\* no longer the one edited comes after one of its successor.
InputsInOrder ==
    \A s \in Attempt :
        LET in == sessions[s].inputs IN
        \A i, j \in DOMAIN in : i < j =>
            \/ in[i].block < in[j].block
            \/ in[i].block = in[j].block /\ in[i].op < in[j].op

\* What is no event catches up as well, in order, across a reconnect.
LatestStateArrives == PromptCaughtUp /\ InputsInOrder

\* The session implements OrderedLog: the sharer records events, the server's
\* log is what is delivered, 0, 1, 2, ..., each once, across broken
\* connections, retransmission and overlapping startup attempts.
Over == stage = "Finished" \/ ~alive
ServerLog == IF session_id = None THEN <<>> ELSE sessions[session_id].log

Log == INSTANCE OrderedLog WITH recorded <- event_no, delivered <- ServerLog, over <- Over
ImplementsOrderedLog == Log!Spec

\* Every event the terminal recorded reaches the server unless the session
\* ends. The code ensures it of a sharer with one startup attempt (all but
\* ambient agents) whose resumed connections do not break before they are
\* confirmed, which is what MaxAttempts = 1 and ResumeMayDrop = FALSE say. In
\* stage Reconnecting a connection that ends is only closed: if it is the
\* resumed one, or a startup attempt that lost and closes late, whose close()
\* aborts the reconnect, nothing starts another and the events stay here.
ImplementsLiveLog == Log!LiveSpec
=============================================================================
