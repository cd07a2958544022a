--------------------------- MODULE ViewerSession ---------------------------
(***************************************************************************)
(* A viewer's network composed with the session-sharing server and the     *)
(* websockets between them.  The server is not part of the repository: it  *)
(* is modelled from how viewer/network.rs uses it.  It holds the session's *)
(* ordered terminal events and sends a viewer those it lacks, then the new *)
(* ones as they come.                                                      *)
(***************************************************************************)
EXTENDS ViewerNetwork, SequencesExt

CONSTANTS
    Unordered,      \* a connection may deliver events before earlier ones
    ResumeMayDrop,  \* a resumed connection may break before it is confirmed
    MaxRoleChanges  \* bound: changes of the viewer's role

ASSUME ViewerSessionAssumption ==
    /\ Unordered \in BOOLEAN
    /\ ResumeMayDrop \in BOOLEAN
    /\ MaxRoleChanges \in Nat

VARIABLES
    wire,          \* the server's end of each connection
    down,          \* messages on their way to the viewer
    serves,        \* the connections the viewer is served on
    events,        \* how many ordered terminal events the session has
    session,       \* "active", "ended", or "removed": this viewer lost access
    inputs,        \* the input updates received of this viewer
    granted,       \* the role this viewer has
    role_changes

roleVars == <<granted, role_changes>>
serverVars == <<wire, down, serves, events, session, inputs, roleVars>>
allVars == <<vars, serverVars>>

Event(n) == [type |-> "OrderedTerminalEvent", no |-> n]
EventsFrom(n) == [i \in 1..(events - n) |-> Event(n + i - 1)]

SessionInit ==
    /\ Init
    /\ wire = [c \in Conn |-> "none"]
    /\ down = [c \in Conn |-> <<>>]
    /\ serves = {}
    /\ events = 0
    /\ session = "active"
    /\ inputs = <<>>
    /\ granted = Reader
    /\ role_changes = 0

Send(c, msgs) == down' = [down EXCEPT ![c] = @ \o msgs]

\* To every connection the viewer is served on.
SendAll(m) == down' = [c \in Conn |-> IF c \in serves THEN Append(down[c], m) ELSE down[c]]

-----------------------------------------------------------------------------
\* The viewer's steps.

\* A connection that a callback of the viewer has just opened is up.
WireUp == wire' = [c \in Conn |-> IF sock'[c] = "open" /\ sock[c] = "none" THEN "up" ELSE wire[c]]

ClientStep ==
    Client /\ WireUp /\ UNCHANGED <<down, serves, events, session, inputs, roleVars>>

\* The messages of connection c that may be read next: the oldest one, or any
\* event that only other events are before.
Readable(c) ==
    {i \in DOMAIN down[c] :
        i = 1 \/ (Unordered /\ \A j \in 1..i : down[c][j].type = "OrderedTerminalEvent")}

Deliver(c) ==
    /\ \E i \in Readable(c) :
         LET m == down[c][i] IN
         /\ down' = [down EXCEPT ![c] = RemoveAt(@, i)]
         /\ \/ m.type = "JoinedSuccessfully" /\ RecvJoinedSuccessfully(c, m.latest, m.role)
            \/ m.type = "RejoinedSuccessfully" /\ RecvRejoinedSuccessfully(c, m.role)
            \/ m.type = "OrderedTerminalEvent" /\ RecvOrderedTerminalEvent(c, m.no)
            \/ m.type \in {"SessionEnded", "ViewerRemoved"} /\ RecvEnded(c)
            \/ m.type = "FailedToJoin" /\ RecvFailedToJoin(c)
            \/ m.type = "ParticipantRoleChanged" /\ RecvRoleChanged(c, m.role)
    /\ UNCHANGED <<wire, serves, events, session, inputs, roleVars>>

\* A message that finds the network gone or has joined already.
Discard(c) ==
    /\ down[c] # <<>>
    /\ \/ ~Delivers(c)
       \/ Joined /\ Head(down[c]).type \in {"JoinedSuccessfully", "RejoinedSuccessfully"}
    /\ down' = [down EXCEPT ![c] = Tail(@)]
    /\ UNCHANGED <<vars, wire, serves, events, session, inputs, roleVars>>

SocketGone(c) ==
    /\ wire[c] = "down" /\ down[c] = <<>>
    /\ StreamDone(c)
    /\ UNCHANGED serverVars

-----------------------------------------------------------------------------
\* The server reads the oldest message of connection c.

\* The send task takes the oldest message of a channel to the websocket.
Drain(c) ==
    /\ proxy[c] # <<>>
    /\ proxy' = [proxy EXCEPT ![c] = Tail(@)]
    /\ UNCHANGED <<loopVars, alive, stage, id, joining, retry, reauthVars, inputVars, txVars,
                   sock, join_failed>>

Reads(c, type) ==
    /\ wire[c] = "up"
    /\ proxy[c] # <<>> /\ Head(proxy[c]).type = type
    /\ Drain(c)

\* A viewer that is known resumes; its new connection takes over.
ServerInitialize(c) ==
    /\ Reads(c, "Initialize")
    /\ LET m == Head(proxy[c]) IN
       \/ /\ session = "active" /\ ~m.known
          /\ Send(c, <<[type |-> "JoinedSuccessfully", latest |-> events - 1, role |-> granted]>>
                     \o EventsFrom(m.from))
          /\ serves' = {c}
          /\ UNCHANGED wire
       \/ /\ session = "active" /\ m.known
          /\ Send(c, <<[type |-> "RejoinedSuccessfully", role |-> granted]>> \o EventsFrom(m.from))
          /\ serves' = {c}
          /\ UNCHANGED wire
       \/ /\ Send(c, <<[type |-> "FailedToJoin"]>>)
          /\ wire' = [wire EXCEPT ![c] = "down"]
          /\ UNCHANGED serves
    /\ UNCHANGED <<events, session, inputs, roleVars>>

ServerInput(c) ==
    /\ Reads(c, "UpdateInput")
    /\ inputs' = IF c \in serves THEN Append(inputs, Head(proxy[c])) ELSE inputs
    /\ UNCHANGED <<wire, down, serves, events, session, roleVars>>

ServerReauthenticated(c) ==
    /\ Reads(c, "Reauthenticated")
    /\ UNCHANGED serverVars

\* The sharer's next ordered terminal event.
ServerEvent ==
    /\ session = "active" /\ events < MaxEvents
    /\ events' = events + 1
    /\ SendAll(Event(events))
    /\ UNCHANGED <<vars, wire, serves, session, inputs, roleVars>>

ServerRole(r) ==
    /\ session = "active" /\ role_changes < MaxRoleChanges
    /\ role_changes' = role_changes + 1
    /\ granted' = r
    /\ SendAll([type |-> "ParticipantRoleChanged", role |-> r])
    /\ UNCHANGED <<vars, wire, serves, events, session, inputs>>

\* The session ends, or this viewer loses access to it.
ServerEnds(why) ==
    /\ session = "active"
    /\ session' = why
    /\ SendAll([type |-> IF why = "ended" THEN "SessionEnded" ELSE "ViewerRemoved"])
    /\ serves' = {}
    /\ UNCHANGED <<vars, wire, events, inputs, roleVars>>

-----------------------------------------------------------------------------
\* The transport.

\* The send task has sent everything of a closed channel and closes the
\* websocket.
ChannelClosed(c) == c # ws_proxy_tx \/ ~tx_open \/ ~alive

Hangup(c) ==
    /\ wire[c] = "up" /\ ChannelClosed(c) /\ proxy[c] = <<>>
    /\ wire' = [wire EXCEPT ![c] = "down"]
    /\ serves' = serves \ {c}
    /\ UNCHANGED <<vars, down, events, session, inputs, roleVars>>

\* The server closes the connection, or the network loses it.
Break(c) ==
    /\ wire[c] = "up"
    /\ c # 1 => ResumeMayDrop \/ (Joined /\ ws_proxy_tx = c)
    /\ wire' = [wire EXCEPT ![c] = "down"]
    /\ serves' = serves \ {c}
    /\ \E kept \in {<<>>, down[c]} : down' = [down EXCEPT ![c] = kept]
    /\ UNCHANGED <<vars, events, session, inputs, roleVars>>

\* Messages sent into a connection that is down are lost.
Lose(c) == wire[c] = "down" /\ Drain(c) /\ UNCHANGED serverVars

-----------------------------------------------------------------------------
Server(c) == ServerInitialize(c) \/ ServerInput(c) \/ ServerReauthenticated(c)

SessionNext ==
    \/ ClientStep
    \/ \E c \in Conn :
         \/ Deliver(c) \/ Discard(c) \/ SocketGone(c)
         \/ Server(c) \/ Hangup(c) \/ Break(c) \/ Lose(c)
    \/ ServerEvent
    \/ \E r \in Roles : ServerRole(r)
    \/ \E why \in {"ended", "removed"} : ServerEnds(why)

SessionSpec == SessionInit /\ [][SessionNext]_allVars

\* The main thread runs every callback that is ready, a future resolves, a
\* connection that is up carries what was sent.
Fairness ==
    /\ WF_allVars((JoinConnected \/ JoinNotConnected) /\ ClientStep)
    /\ WF_allVars(((\E c \in Conn : ReconnectOk(c)) \/ ReconnectErr) /\ ClientStep)
    /\ WF_allVars(ReconnectTimer /\ ClientStep)
    /\ \A c \in Conn :
         /\ WF_allVars(Deliver(c) \/ Discard(c))
         /\ WF_allVars(SocketGone(c))
         /\ WF_allVars(Server(c))
         /\ WF_allVars(Hangup(c))

FairSpec == SessionSpec /\ Fairness

-----------------------------------------------------------------------------
\* Properties.

\* What is open to the viewer before it has joined: the connect future, or a
\* connection whose stream has not ended.
StillJoining == stage = "BeforeJoined" /\ (joining \/ sock[1] = "open")

\* The session implements OrderedLog: the server records, what the terminal
\* model processes is delivered, in order, each once, across reconnects.
Over == ~alive \/ stage = "Finished" \/ (stage = "BeforeJoined" /\ ~StillJoining)

Log == INSTANCE OrderedLog WITH recorded <- events, delivered <- applied, over <- Over
ImplementsOrderedLog == Log!Spec

\* Every event of the session is shown to the viewer unless the session is
\* over for it. The code ensures it of a viewer whose resumed connections do
\* not break before they are confirmed (ResumeMayDrop = FALSE): the end of one
\* that does is met in stage Reconnecting, which restarts nothing.
ImplementsLiveLog == Log!LiveSpec

\* A reconnect never loses an event in between: what the server sends on a
\* connection continues what the viewer has, without a gap.
StreamsContinue ==
    alive /\ stage \in {"JoinedSuccessfully", "Reconnecting"} => \A c \in serves :
        \A n \in next_event_no..(events - 1) :
            n \in buffer \/ \E i \in DOMAIN down[c] : down[c][i] = Event(n)

\* A role change is never lost: a viewer that has read all its connection
\* brought has the role it was given, also when that changed while it was
\* disconnected or before it had caught up.  A reauthentication makes an
\* exception: it reconnects while the old connection still delivers, which
\* may bring an older role after the newer one.
RoleCaughtUp ==
    alive /\ Joined /\ reauths = 0 /\ ws_proxy_tx \in serves /\ down[ws_proxy_tx] = <<>> =>
        role = granted
=============================================================================
