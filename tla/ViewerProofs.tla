---------------------------- MODULE ViewerProofs -----------------------------
(***************************************************************************)
(* Proofs about the viewer: whatever the order and the repeats its events  *)
(* are received in, its event loop processes each event once and in order  *)
(* and is active exactly when it has caught up (module ViewerEventLoop);   *)
(* and whichever connections break, overlap or deliver out of order, this  *)
(* is what the terminal shows of the session (module ViewerSession), and   *)
(* the viewer's role catches up with the one it was given.                 *)
(***************************************************************************)
EXTENDS ViewerSession, SequenceLemmas, SequenceTheorems, TLAPS

(* The event loop *)

\* The flush stops at an event that has not been received, having passed
\* received ones only.
LEMMA FlushStops ==
    ASSUME LoopTypeOK, NEW held \in SUBSET EventNo
    PROVE  /\ FlushedUpTo(held) \in next_event_no..MaxEvents
           /\ FlushedUpTo(held) \notin held
           /\ next_event_no..(FlushedUpTo(held) - 1) \subseteq held
<1> DEFINE Missing == (next_event_no..MaxEvents) \ held
<1>1. Missing \in SUBSET Nat /\ MaxEvents \in Missing
  BY EventLoopAssumption DEF LoopTypeOK, EventNo
<1>2. PICK n \in Missing : \A m \in Missing : n <= m
  BY <1>1, LeastNumber, Zenon
<1>3. n \in next_event_no..MaxEvents /\ n \notin held
  OBVIOUS
<1>4. next_event_no..(n - 1) \subseteq held
  BY <1>1, <1>2, <1>3, EventLoopAssumption DEF LoopTypeOK
<1> QED BY <1>3, <1>4 DEF FlushedUpTo

\* The inductive invariant: without an event loop the viewer is not active.
LoopInv ==
    /\ LoopTypeOK
    /\ AppliedInOrder
    /\ NothingHeldBack
    /\ ActiveIffCaughtUp
    /\ ~event_loop => ~IsActive

LEMMA InitLoopInv == LoopInit => LoopInv
<1> SUFFICES ASSUME LoopInit PROVE LoopInv
  OBVIOUS
<1> USE EventLoopAssumption DEF LoopInit
<1>1. LoopTypeOK
  <2>1. <<>> \in Seq(EventNo)
    OBVIOUS
  <2>2. next_event_no \in 0..MaxEvents /\ status \in Status
    BY DEF Status
  <2> QED BY <2>1, <2>2 DEF LoopTypeOK
<1>2. AppliedInOrder /\ NothingHeldBack /\ ActiveIffCaughtUp
  BY DEF AppliedInOrder, NothingHeldBack, ActiveIffCaughtUp
<1>3. ~IsActive
  BY DEF IsActive, Pending
<1> QED BY <1>1, <1>2, <1>3 DEF LoopInv

LEMMA JoinKeepsLoopInv ==
    ASSUME LoopInv, ~event_loop,
           NEW latest \in EventNo \cup {NoEvent}, NEW r \in Roles, NewEventLoop(latest, r)
    PROVE  LoopInv'
<1>1. LoopTypeOK' /\ AppliedInOrder' /\ NothingHeldBack'
  BY EventLoopAssumption DEF LoopInv, LoopTypeOK, AppliedInOrder, NothingHeldBack, NewEventLoop, CatchingUpTo, Status
<1>2. status' = IF latest = NoEvent THEN Active(r) ELSE status
  BY DEF LoopInv, NewEventLoop
<1>3. ActiveIffCaughtUp'
  BY <1>2, EventLoopAssumption DEF LoopInv, ActiveIffCaughtUp, NewEventLoop, CatchingUpTo, IsActive, Active, NoEvent, EventNo
<1> QED BY <1>1, <1>3 DEF LoopInv, NewEventLoop

LEMMA EventKeepsLoopInv ==
    ASSUME LoopInv, event_loop, NEW n \in EventNo, ProcessOrderedTerminalEvent(n)
    PROVE  /\ LoopInv' /\ event_loop'
           /\ FlushedUpTo(buffer \cup {n}) \in next_event_no..MaxEvents
           /\ FlushedUpTo(buffer \cup {n}) \notin buffer \cup {n}
           /\ next_event_no..(FlushedUpTo(buffer \cup {n}) - 1) \subseteq buffer \cup {n}
<1> DEFINE held == buffer \cup {n}
           to == FlushedUpTo(held)
           batch == [i \in 1..(to - next_event_no) |-> next_event_no + i - 1]
<1> USE EventLoopAssumption
<1>1. /\ to \in next_event_no..MaxEvents
      /\ to \notin held
      /\ next_event_no..(to - 1) \subseteq held
  <2>1. held \in SUBSET EventNo
    BY DEF LoopInv, LoopTypeOK
  <2> QED BY <2>1, FlushStops DEF LoopInv
<1>2. /\ next_event_no' = to
      /\ buffer' = held \ (next_event_no..(to - 1))
      /\ applied' = applied \o batch
      /\ status' = IF CatchesUp(to) /\ role # NoRole THEN Active(role) ELSE status
      /\ UNCHANGED <<event_loop, catching_up_to_event_no, role>>
  BY DEF ProcessOrderedTerminalEvent, StatusOnceCaughtUp
<1> HIDE DEF to, held
<1>3. next_event_no \in Nat /\ to \in Nat /\ next_event_no <= to /\ to <= MaxEvents
  BY <1>1 DEF LoopInv, LoopTypeOK
<1>4. /\ batch \in Seq(EventNo)
      /\ Len(batch) = to - next_event_no
      /\ \A j \in 1..(to - next_event_no) : batch[j] = next_event_no + j - 1
  BY <1>3 DEF EventNo
<1> HIDE DEF batch
<1>4a. applied \in Seq(EventNo) /\ Len(applied) = next_event_no
  BY DEF LoopInv, LoopTypeOK, AppliedInOrder
<1>4b. /\ applied' \in Seq(EventNo)
       /\ Len(applied') = to
       /\ \A i \in 1..to : applied'[i] = IF i <= next_event_no
                                          THEN applied[i] ELSE batch[i - next_event_no]
  <2>1. /\ applied \o batch \in Seq(EventNo)
        /\ Len(applied \o batch) = Len(applied) + Len(batch)
        /\ \A i \in 1..(Len(applied) + Len(batch)) :
              (applied \o batch)[i] = IF i <= Len(applied)
                                       THEN applied[i] ELSE batch[i - Len(applied)]
    BY <1>4, <1>4a, ConcatProperties, Zenon
  <2>2. Len(applied) + Len(batch) = to
    BY <1>3, <1>4, <1>4a
  <2> QED BY <1>2, <1>4a, <2>1, <2>2, Zenon
<1>5. LoopTypeOK'
  <2>2. buffer' \subseteq EventNo
    BY <1>2 DEF LoopInv, LoopTypeOK, held
  <2>3. status' \in Status
    <3>1. status \in Status /\ role \in Roles \cup {NoRole}
      BY DEF LoopInv, LoopTypeOK
    <3> QED BY <1>2, <3>1 DEF Status
  <2> QED BY <1>2, <1>3, <1>4b, <2>2, <2>3 DEF LoopInv, LoopTypeOK
<1>6. AppliedInOrder'
  <2>1. DOMAIN applied' = 1..to
    BY <1>3, <1>4b, LenProperties
  <2>2. ASSUME NEW i \in 1..to, i <= next_event_no PROVE applied'[i] = i - 1
    <3>1. i \in DOMAIN applied
      BY <1>3, <1>4a, <2>2
    <3> QED BY <1>4b, <2>2, <3>1 DEF LoopInv, AppliedInOrder
  <2>3. ASSUME NEW i \in 1..to, i > next_event_no PROVE applied'[i] = i - 1
    <3>1. i - next_event_no \in 1..(to - next_event_no)
      BY <1>3, <2>3
    <3>2. batch[i - next_event_no] = i - 1
      BY <1>3, <1>4, <3>1
    <3> QED BY <1>3, <1>4b, <2>3, <3>2
  <2>4. \A i \in 1..to : applied'[i] = i - 1
    BY <1>3, <2>2, <2>3
  <2> QED BY <1>2, <1>4b, <2>1, <2>4 DEF AppliedInOrder
<1>7. NothingHeldBack'
  BY <1>1, <1>2 DEF NothingHeldBack
<1>8. CatchesUp(to) <=> /\ next_event_no <= catching_up_to_event_no
                        /\ catching_up_to_event_no < to
  BY <1>3 DEF CatchesUp, LoopInv, LoopTypeOK, EventNo, NoEvent
<1>9. ActiveIffCaughtUp'
  <2>1. CASE CatchesUp(to)
    BY <1>2, <1>3, <1>8, <2>1
       DEF ActiveIffCaughtUp, IsActive, Active, LoopInv, LoopTypeOK, EventNo, NoEvent
  <2>2. CASE ~CatchesUp(to)
    BY <1>2, <1>3, <1>8, <2>2
       DEF ActiveIffCaughtUp, IsActive, LoopInv, LoopTypeOK, EventNo, NoEvent
  <2> QED BY <2>1, <2>2
<1>10. LoopInv' /\ event_loop'
  BY <1>2, <1>5, <1>6, <1>7, <1>9 DEF LoopInv
<1> QED BY <1>1, <1>10 DEF to, held

LEMMA RoleKeepsLoopInv ==
    ASSUME LoopInv, NEW r \in Roles, ChangeRole(r)
    PROVE  LoopInv'
<1>1. LoopTypeOK' /\ AppliedInOrder' /\ NothingHeldBack'
  BY DEF LoopInv, LoopTypeOK, AppliedInOrder, NothingHeldBack, ChangeRole, Status
<1>2. IsActive' <=> IsActive
  BY DEF ChangeRole, RoleShownNow, IsActive, Active
<1>3. ActiveIffCaughtUp'
  BY <1>2, EventLoopAssumption DEF LoopInv, ActiveIffCaughtUp, ChangeRole, RoleShownNow, IsActive, Active
<1> QED BY <1>1, <1>2, <1>3 DEF LoopInv, ChangeRole

THEOREM LoopInvariant == LoopSpec => []LoopInv
<1>1. LoopInv /\ [LoopNext]_loopVars => LoopInv'
  <2> SUFFICES ASSUME LoopInv, [LoopNext]_loopVars PROVE LoopInv'
    OBVIOUS
  <2>1. CASE UNCHANGED loopVars
    BY <2>1 DEF loopVars, LoopInv, LoopTypeOK, AppliedInOrder, NothingHeldBack,
                ActiveIffCaughtUp, IsActive
  <2>2. CASE LoopNext
    BY <2>2, JoinKeepsLoopInv, EventKeepsLoopInv, RoleKeepsLoopInv DEF LoopNext
  <2> QED BY <2>1, <2>2
<1> QED BY <1>1, InitLoopInv, PTL DEF LoopSpec

\* The terminal model processes events 0, 1, 2, ..., each once, whatever the
\* order and the repeats they are received in.
THEOREM EventsAppliedInOrder == LoopSpec => []AppliedInOrder
<1>1. LoopInv => AppliedInOrder
  BY DEF LoopInv
<1> QED BY <1>1, LoopInvariant, PTL

\* No event waits in the buffer once all before it have been processed.
THEOREM NoEventHeldBack == LoopSpec => []NothingHeldBack
<1>1. LoopInv => NothingHeldBack
  BY DEF LoopInv
<1> QED BY <1>1, LoopInvariant, PTL

\* The viewer is active exactly when it has processed every event from before
\* it joined, with the role last given to it.
THEOREM ActiveOnceCaughtUp == LoopSpec => []ActiveIffCaughtUp
<1>1. LoopInv => ActiveIffCaughtUp
  BY DEF LoopInv
<1> QED BY <1>1, LoopInvariant, PTL

-----------------------------------------------------------------------------
(* The viewer and the server *)

Replies == {"JoinedSuccessfully", "RejoinedSuccessfully", "FailedToJoin"}
Endings == {"SessionEnded", "ViewerRemoved"}
IsInitialize(m) == m.type = "Initialize"

InputMessage == {Input(b, n) : b \in 0..MaxBlocks, n \in 0..MaxOps}
Plain == InputMessage \cup {Reauthenticated}
Upstream == Plain \cup {Initialize(k, n) : k \in BOOLEAN, n \in Nat}
Downstream ==
    {[type |-> "JoinedSuccessfully", latest |-> n, role |-> r] : n \in EventNo \cup {NoEvent}, r \in Roles}
    \cup {[type |-> "RejoinedSuccessfully", role |-> r] : r \in Roles}
    \cup {[type |-> "ParticipantRoleChanged", role |-> r] : r \in Roles}
    \cup {Event(n) : n \in EventNo}
    \cup {[type |-> t] : t \in Endings \cup {"FailedToJoin"}}

\* The messages and the server's side; NetworkTypeOK has the rest.
SessionTypeOK ==
    /\ pending_input_updates \in Seq(InputMessage)
    /\ proxy \in [Conn -> Seq(Upstream)]
    /\ down \in [Conn -> Seq(Downstream)]
    /\ wire \in [Conn -> {"none", "up", "down"}]
    /\ serves \subseteq Conn
    /\ events \in 0..MaxEvents
    /\ session \in {"active", "ended", "removed"}
    /\ granted \in Roles

\* The event loop exists from the first JoinedSuccessfully on, and has seen
\* events of the session only.
Loops ==
    /\ id <=> event_loop
    /\ ~event_loop => next_event_no = 0 /\ buffer = {}
    /\ stage = "BeforeJoined" => ~event_loop
    /\ ~event_loop => stage = "BeforeJoined" \/ ~alive
    /\ next_event_no <= events /\ buffer \subseteq 0..(events - 1)

\* What each stage says of the connections. A reconnect that goes on once
\* the stage is Finished finds the session over, and one in its backoff has
\* a retry left.
Phases ==
    /\ joining /\ alive => stage = "BeforeJoined" /\ sock[1] = "none"
    /\ stage = "BeforeJoined" => /\ retry.phase = "idle" /\ ws_proxy_tx = 1
                                 /\ \A c \in Conn : c # 1 => sock[c] = "none"
    /\ Joined => retry.phase = "idle" /\ sock[ws_proxy_tx] # "none"
    /\ stage = "Finished" /\ alive /\ retry.phase # "idle" => session # "active"
    /\ retry.phase = "backoff" => retry.left > 0

\* The two ends of a connection.
Sockets ==
    /\ \A c \in Conn : sock[c] = "none" => wire[c] = "none" /\ proxy[c] = <<>>
    /\ \A c \in Conn : wire[c] = "none" => down[c] = <<>>
    /\ \A c \in Conn : wire[c] = "up" => sock[c] = "open"
    /\ \A c \in serves : wire[c] = "up"

\* Connection c resumes the session and has not been answered.
Waiting(c) ==
    /\ c = ws_proxy_tx /\ c # 1
    /\ stage \in {"Reconnecting", "Finished"} /\ retry.phase = "idle"

\* Connection c joins the session and has not been answered.
Joining(c) ==
    /\ c = 1
    /\ stage = "BeforeJoined" \/ ~alive
    /\ \A d \in Conn : d # 1 => sock[d] = "none"

\* The request that opens a connection is alone in its channel, and asks for
\* no later event than the viewer lacks.
Asking ==
    \A c \in Conn : \A i \in DOMAIN proxy[c] : IsInitialize(proxy[c][i]) =>
       /\ \A j \in DOMAIN proxy[c] : j = 1
       /\ down[c] = <<>> /\ c \notin serves
       /\ IF proxy[c][i].known
            THEN /\ Waiting(c) /\ proxy[c][i].from <= next_event_no
                 /\ stage = "Finished" /\ alive => session # "active"
            ELSE Joining(c) /\ proxy[c][i].from = 0

\* The answer to it comes first. While a connection is told that it resumes
\* the session no other one brings the session's end.
Answered ==
    \A c \in Conn : \A i \in DOMAIN down[c] :
       /\ down[c][i].type \in Replies => i = 1
       /\ down[c][i].type = "JoinedSuccessfully" => Joining(c)
       /\ down[c][i].type = "RejoinedSuccessfully" =>
            /\ Waiting(c) /\ (stage = "Finished" => ~alive)
            /\ \A d \in serves : d = c
            /\ \A d \in Conn : \A j \in DOMAIN down[d] : down[d][j].type \in Endings => d = c
       /\ down[c][i].type = "FailedToJoin" =>
            /\ Joining(c) \/ Waiting(c)
            /\ \A j \in DOMAIN down[c] : j = 1
            /\ c \notin serves
       /\ down[c][i].type \in Endings => session # "active"
       /\ down[c][i].type = "OrderedTerminalEvent" => down[c][i].no < events

\* Before the viewer has joined nothing is read ahead of the answer.
AnswerFirst ==
    alive /\ stage = "BeforeJoined" /\ sock[1] = "open" =>
       /\ 1 \in serves => down[1] # <<>>
       /\ down[1] # <<>> => down[1][1].type \in Replies

\* StreamsContinue, at every stage.
NoGap ==
    alive => \A c \in serves : \A n \in next_event_no..(events - 1) :
        n \in buffer \/ \E i \in DOMAIN down[c] : down[c][i] = Event(n)

VInv ==
    /\ NetworkTypeOK /\ SessionTypeOK /\ LoopInv
    /\ Loops /\ Phases /\ Sockets
    /\ Asking /\ Answered /\ AnswerFirst /\ NoGap

LEMMA Connections == 1 \in Conn /\ Conn \subseteq Nat /\ \A c \in Conn : c > 0
BY ViewerAssumption DEF ViewerAssumption, Conn

LEMMA EventTypes ==
    /\ \A n \in Int : Event(n).type = "OrderedTerminalEvent" /\ Event(n).no = n
    /\ \A n \in EventNo : Event(n) \in Downstream
    /\ \A m \in Downstream : m.type = "OrderedTerminalEvent" => m.no \in EventNo /\ m = Event(m.no)
<1>1. \A n \in EventNo : Event(n) \in Downstream
  BY DEF Downstream
<1>2. ASSUME NEW m \in Downstream, m.type = "OrderedTerminalEvent"
      PROVE  m.no \in EventNo /\ m = Event(m.no)
  <2>1. \/ \E n \in EventNo : m = Event(n)
        \/ m \in {[type |-> t] : t \in Endings \cup {"FailedToJoin"}}
    BY <1>2 DEF Downstream
  <2>2. m \notin {[type |-> t] : t \in Endings \cup {"FailedToJoin"}}
    BY <1>2 DEF Endings
  <2>3. QED BY <2>1, <2>2 DEF Event
<1>3. QED BY <1>1, <1>2 DEF Event

LEMMA PlainTypes ==
    /\ \A m \in Plain : m \in Upstream /\ ~IsInitialize(m)
    /\ \A m \in Upstream : IsInitialize(m) => /\ m.known \in BOOLEAN /\ m.from \in Nat
                                              /\ m = Initialize(m.known, m.from)
    /\ \A k \in BOOLEAN, n \in Nat : /\ Initialize(k, n) \in Upstream /\ IsInitialize(Initialize(k, n))
                                     /\ Initialize(k, n).known = k /\ Initialize(k, n).from = n
<1>1. \A m \in Plain : ~IsInitialize(m)
  BY DEF Plain, InputMessage, Input, Reauthenticated, IsInitialize
<1>2. ASSUME NEW m \in Upstream, IsInitialize(m)
      PROVE  m.known \in BOOLEAN /\ m.from \in Nat /\ m = Initialize(m.known, m.from)
  <2>1. PICK k \in BOOLEAN, n \in Nat : m = Initialize(k, n)
    BY <1>1, <1>2 DEF Upstream
  <2>2. QED BY <2>1 DEF Initialize
<1>3. \A k \in BOOLEAN, n \in Nat : Initialize(k, n) \in Upstream
  BY DEF Upstream
<1>4. \A m \in Plain : m \in Upstream
  BY DEF Upstream
<1>5. \A k \in BOOLEAN, n \in Nat : /\ IsInitialize(Initialize(k, n))
                                     /\ Initialize(k, n).known = k /\ Initialize(k, n).from = n
  BY DEF Initialize, IsInitialize
<1>6. QED BY <1>1, <1>2, <1>3, <1>4, <1>5

LEMMA InitVInv == SessionInit => VInv
<1> SUFFICES ASSUME SessionInit PROVE VInv
  OBVIOUS
<1>1. /\ LoopInit /\ alive = TRUE /\ stage = "BeforeJoined" /\ id = FALSE /\ joining = TRUE
      /\ retry = Idle /\ reauths = 0 /\ reauthing = 0
      /\ next_buffer_seq_no = [block |-> 0, op |-> 0] /\ pending_input_updates = <<>>
      /\ ws_proxy_tx = 1 /\ tx_open = TRUE /\ join_failed = FALSE
      /\ serves = {} /\ events = 0 /\ session = "active" /\ granted = Reader
      /\ proxy = [c \in Conn |-> <<>>] /\ sock = [c \in Conn |-> "none"]
      /\ wire = [c \in Conn |-> "none"] /\ down = [c \in Conn |-> <<>>]
  BY DEF SessionInit, Init
<1>2. LoopInv
  BY <1>1, InitLoopInv
<1>3. NetworkTypeOK
  <2>1. retry \in RetryState
    BY <1>1, ViewerAssumption DEF ViewerAssumption, Idle, RetryState
  <2>2. next_buffer_seq_no \in [block : 0..MaxBlocks, op : 0..MaxOps]
    BY <1>1, ViewerAssumption DEF ViewerAssumption
  <2>3. reauths \in 0..MaxReauth /\ reauthing \in 0..reauths
    BY <1>1, ViewerAssumption DEF ViewerAssumption
  <2>4. LoopTypeOK /\ stage \in Stages /\ ws_proxy_tx \in Conn
    BY <1>1, <1>2, Connections DEF LoopInv, Stages
  <2>5. sock \in [Conn -> {"none", "open", "done"}]
    BY <1>1
  <2>6. DOMAIN pending_input_updates = {}
    BY <1>1
  <2>7. QED BY <1>1, <2>1, <2>2, <2>3, <2>4, <2>5, <2>6 DEF NetworkTypeOK
<1>4. SessionTypeOK
  <2>1. <<>> \in Seq(InputMessage) /\ <<>> \in Seq(Upstream) /\ <<>> \in Seq(Downstream)
    OBVIOUS
  <2>2. events \in 0..MaxEvents /\ granted \in Roles
    BY <1>1, EventLoopAssumption
  <2>3. QED BY <1>1, <2>1, <2>2 DEF SessionTypeOK
<1>5. Loops /\ Phases /\ Sockets
  BY <1>1, Connections DEF LoopInit, Loops, Phases, Sockets, Idle, Joined
<1>6. Asking /\ Answered /\ AnswerFirst /\ NoGap
  BY <1>1, Connections DEF Asking, Answered, AnswerFirst, NoGap
<1>7. QED BY <1>2, <1>3, <1>4, <1>5, <1>6 DEF VInv

-----------------------------------------------------------------------------
\* Steps that open no connection and send nothing new.

\* No request is new, and one that is left is alone.
ProxyOld ==
    \A c \in Conn : \A i \in DOMAIN proxy[c]' : IsInitialize(proxy[c]'[i]) =>
       /\ \E k \in DOMAIN proxy[c] : proxy[c]'[i] = proxy[c][k]
       /\ \A j \in DOMAIN proxy[c]' : j = 1

\* What connection c has been sent is part of what it had been sent.
DownOld ==
    \A c \in Conn : \A i \in DOMAIN down[c]' :
       \E k \in DOMAIN down[c] : k >= i /\ down[c]'[i] = down[c][k]

\* Who waits for an answer goes on waiting.
StillWaiting == \A c \in Conn : (Waiting(c) => Waiting(c)') /\ (Joining(c) => Joining(c)')

Resumes(c) == \E i \in DOMAIN proxy[c] : IsInitialize(proxy[c][i]) /\ proxy[c][i].known
Confirmed(c) == \E i \in DOMAIN down[c] : down[c][i].type = "RejoinedSuccessfully"

\* The viewer's network has not finished under a connection that resumes.
NotFinished ==
    stage' = "Finished" /\ alive' => \A c \in Conn :
        (Resumes(c)' => session' # "active") /\ ~Confirmed(c)'

\* An event that was on its way to the viewer still is, or has arrived.
EventsKept ==
    alive' => /\ alive
              /\ \A c \in serves' : \A n \in EventNo :
                    n \in buffer \/ (\E i \in DOMAIN down[c] : down[c][i] = Event(n)) =>
                       \/ n < next_event_no'
                       \/ n \in buffer'
                       \/ \E i \in DOMAIN down[c]' : down[c]'[i] = Event(n)

LEMMA SequencePositions ==
    ASSUME NEW S, NEW q \in Seq(S)
    PROVE  \A j \in DOMAIN q : j \in Nat /\ j > 0
OBVIOUS

LEMMA Positions ==
    ASSUME SessionTypeOK, NEW c \in Conn
    PROVE  /\ proxy[c] \in Seq(Upstream) /\ down[c] \in Seq(Downstream)
           /\ \A i \in DOMAIN proxy[c] : i \in Nat /\ i > 0 /\ proxy[c][i] \in Upstream
           /\ \A i \in DOMAIN down[c] : i \in Nat /\ i > 0 /\ down[c][i] \in Downstream
           /\ down[c] # <<>> => 1 \in DOMAIN down[c] /\ Head(down[c]) = down[c][1]
           /\ proxy[c] # <<>> => 1 \in DOMAIN proxy[c] /\ Head(proxy[c]) = proxy[c][1]
<1>1. PICK p \in Seq(Upstream), d \in Seq(Downstream) : p = proxy[c] /\ d = down[c]
  BY DEF SessionTypeOK
<1>2. /\ \A i \in DOMAIN p : i \in Nat /\ i > 0 /\ p[i] \in Upstream
      /\ \A i \in DOMAIN d : i \in Nat /\ i > 0 /\ d[i] \in Downstream
      /\ d # <<>> => 1 \in DOMAIN d /\ Head(d) = d[1]
      /\ p # <<>> => 1 \in DOMAIN p /\ Head(p) = p[1]
  OBVIOUS
<1>3. QED BY <1>1, <1>2

LEMMA NothingNew ==
    ASSUME VInv, SessionTypeOK', DownOld, NEW c \in Conn, down[c] = <<>>
    PROVE  down[c]' = <<>>
<1>1. SUFFICES ASSUME down[c]' # <<>> PROVE FALSE
  OBVIOUS
<1>2. down[c]' \in Seq(Downstream)
  BY DEF SessionTypeOK
<1>3. 1 \in DOMAIN down[c]'
  BY <1>1, <1>2
<1>4. QED BY <1>3 DEF DownOld

LEMMA NoGapStays ==
    ASSUME VInv, LoopInv', serves' \subseteq serves, UNCHANGED events,
           next_event_no <= next_event_no', EventsKept
    PROVE  NoGap'
<1>1. SUFFICES ASSUME alive', NEW c \in serves', NEW n \in next_event_no'..(events - 1)
               PROVE  n \in buffer' \/ \E i \in DOMAIN down[c]' : down[c]'[i] = Event(n)
  BY DEF NoGap
<1>2. next_event_no \in Nat /\ next_event_no' \in Nat /\ events \in Nat
  BY DEF VInv, LoopInv, LoopTypeOK, SessionTypeOK
<1>3. n \in next_event_no..(events - 1) /\ n \in EventNo /\ ~(n < next_event_no') /\ c \in serves
  BY <1>2, EventLoopAssumption DEF EventNo, VInv, SessionTypeOK
<1>4. n \in buffer \/ \E i \in DOMAIN down[c] : down[c][i] = Event(n)
  BY <1>1, <1>3 DEF EventsKept, VInv, NoGap
<1>5. QED BY <1>1, <1>3, <1>4 DEF EventsKept

LEMMA QuietVInv ==
    ASSUME VInv, NetworkTypeOK', SessionTypeOK', LoopInv', Loops', Phases', Sockets', AnswerFirst',
           ProxyOld, DownOld, serves' \subseteq serves, UNCHANGED <<events, session>>,
           next_event_no <= next_event_no', StillWaiting, NotFinished, EventsKept
    PROVE  VInv'
<1>1. next_event_no \in Nat /\ next_event_no' \in Nat /\ events \in Nat
  BY DEF VInv, LoopInv, LoopTypeOK, SessionTypeOK
<1>2. Asking'
  <2>1. SUFFICES ASSUME NEW c \in Conn, NEW i \in DOMAIN proxy[c]', IsInitialize(proxy[c]'[i])
                 PROVE  /\ \A j \in DOMAIN proxy[c]' : j = 1
                        /\ down[c]' = <<>> /\ c \notin serves'
                        /\ IF proxy[c]'[i].known
                             THEN /\ Waiting(c)' /\ proxy[c]'[i].from <= next_event_no'
                                  /\ stage' = "Finished" /\ alive' => session' # "active"
                             ELSE Joining(c)' /\ proxy[c]'[i].from = 0
    BY DEF Asking
  <2>2. PICK k \in DOMAIN proxy[c] : proxy[c]'[i] = proxy[c][k]
    BY <2>1 DEF ProxyOld
  <2>3. proxy[c][k] \in Upstream /\ proxy[c][k].from \in Nat
    BY <2>1, <2>2, Positions, PlainTypes DEF VInv
  <2>4. /\ down[c] = <<>> /\ c \notin serves
        /\ IF proxy[c][k].known
             THEN Waiting(c) /\ proxy[c][k].from <= next_event_no
             ELSE Joining(c) /\ proxy[c][k].from = 0
    BY <2>1, <2>2 DEF VInv, Asking
  <2>5. proxy[c]'[i].known => Resumes(c)'
    BY <2>1 DEF Resumes
  <2>6. down[c]' = <<>>
    BY <2>4, NothingNew
  <2>7. \A j \in DOMAIN proxy[c]' : j = 1
    BY <2>1 DEF ProxyOld
  <2>8. proxy[c]'[i].known => proxy[c]'[i].from <= next_event_no'
    BY <1>1, <2>2, <2>3, <2>4
  <2>9. QED BY <2>2, <2>4, <2>5, <2>6, <2>7, <2>8 DEF StillWaiting, NotFinished
<1>3. Answered'
  <2>1. SUFFICES ASSUME NEW c \in Conn, NEW i \in DOMAIN down[c]'
                 PROVE  /\ down[c]'[i].type \in Replies => i = 1
                        /\ down[c]'[i].type = "JoinedSuccessfully" => Joining(c)'
                        /\ down[c]'[i].type = "RejoinedSuccessfully" =>
                             /\ Waiting(c)' /\ (stage' = "Finished" => ~alive')
                             /\ \A d \in serves' : d = c
                             /\ \A d \in Conn : \A j \in DOMAIN down[d]' :
                                   down[d]'[j].type \in Endings => d = c
                        /\ down[c]'[i].type = "FailedToJoin" =>
                             /\ Joining(c)' \/ Waiting(c)'
                             /\ \A j \in DOMAIN down[c]' : j = 1
                             /\ c \notin serves'
                        /\ down[c]'[i].type \in Endings => session' # "active"
                        /\ down[c]'[i].type = "OrderedTerminalEvent" => down[c]'[i].no < events'
    BY DEF Answered
  <2>2. PICK k \in DOMAIN down[c] : k >= i /\ down[c]'[i] = down[c][k]
    BY DEF DownOld
  <2>3. /\ i \in Nat /\ i > 0 /\ \A j \in DOMAIN down[c]' : j \in Nat /\ j > 0
        /\ \A j \in DOMAIN down[c] : j \in Nat /\ j > 0
    <3>1. \A j \in DOMAIN down[c]' : j \in Nat /\ j > 0
      BY SequencePositions DEF SessionTypeOK
    <3>2. \A j \in DOMAIN down[c] : j \in Nat /\ j > 0
      BY Positions DEF VInv
    <3>3. QED BY <3>1, <3>2
  <2>4. down[c]'[i].type \in Replies => i = 1
    <3>1. down[c]'[i].type \in Replies => k = 1
      BY <2>2 DEF VInv, Answered
    <3>2. QED BY <2>2, <2>3, <3>1
  <2>5. ASSUME down[c]'[i].type = "RejoinedSuccessfully"
        PROVE  /\ Waiting(c)' /\ (stage' = "Finished" => ~alive')
               /\ \A d \in serves' : d = c
               /\ \A d \in Conn : \A j \in DOMAIN down[d]' : down[d]'[j].type \in Endings => d = c
    <3>1. /\ Waiting(c) /\ \A d \in serves : d = c
          /\ \A d \in Conn : \A j \in DOMAIN down[d] : down[d][j].type \in Endings => d = c
      BY <2>2, <2>5 DEF VInv, Answered
    <3>2. Confirmed(c)'
      BY <2>5 DEF Confirmed
    <3>3. stage' = "Finished" => ~alive'
      BY <3>2 DEF NotFinished
    <3>4. \A d \in Conn : \A j \in DOMAIN down[d]' : down[d]'[j].type \in Endings => d = c
      BY <3>1 DEF DownOld
    <3>5. QED BY <3>1, <3>3, <3>4 DEF StillWaiting
  <2>6. ASSUME down[c]'[i].type = "FailedToJoin"
        PROVE  /\ Joining(c)' \/ Waiting(c)'
               /\ \A j \in DOMAIN down[c]' : j = 1
               /\ c \notin serves'
    <3>1. /\ Joining(c) \/ Waiting(c)
          /\ \A j \in DOMAIN down[c] : j = 1
          /\ c \notin serves
      BY <2>2, <2>6 DEF VInv, Answered
    <3>2. ASSUME NEW j \in DOMAIN down[c]' PROVE j = 1
      <4>1. PICK l \in DOMAIN down[c] : l >= j
        BY DEF DownOld
      <4>2. l = 1 /\ j \in Nat /\ j > 0
        BY <2>3, <3>1
      <4>3. QED BY <4>1, <4>2
    <3>3. QED BY <3>1, <3>2 DEF StillWaiting
  <2>7. /\ down[c]'[i].type = "JoinedSuccessfully" => Joining(c)'
        /\ down[c]'[i].type \in Endings => session' # "active"
        /\ down[c]'[i].type = "OrderedTerminalEvent" => down[c]'[i].no < events'
    BY <2>2 DEF VInv, Answered, StillWaiting
  <2>8. QED BY <2>4, <2>5, <2>6, <2>7
<1>4. NoGap'
  BY NoGapStays
<1>5. QED BY <1>2, <1>3, <1>4 DEF VInv

LEMMA LoopStays ==
    ASSUME LoopInv, UNCHANGED loopVars
    PROVE  LoopInv'
BY DEF loopVars, LoopInv, LoopTypeOK, AppliedInOrder, NothingHeldBack, ActiveIffCaughtUp, IsActive

LEMMA LoopEnds ==
    ASSUME LoopInv, SharedSessionEnded
    PROVE  LoopInv'
<1>1. /\ status' = Ended /\ role' = NoRole
      /\ UNCHANGED <<event_loop, next_event_no, buffer, catching_up_to_event_no, applied>>
  BY DEF SharedSessionEnded
<1>2. LoopTypeOK' /\ AppliedInOrder' /\ NothingHeldBack'
  BY <1>1 DEF LoopInv, LoopTypeOK, AppliedInOrder, NothingHeldBack, Status
<1>3. ~IsActive'
  BY <1>1 DEF IsActive, Ended
<1>4. QED BY <1>1, <1>2, <1>3 DEF LoopInv, ActiveIffCaughtUp

\* What does not change is not new.
LEMMA ProxySame == ASSUME VInv, UNCHANGED proxy PROVE ProxyOld
BY DEF VInv, Asking, ProxyOld

LEMMA DownSame == ASSUME SessionTypeOK, UNCHANGED down PROVE DownOld
<1> SUFFICES ASSUME NEW c \in Conn, NEW i \in DOMAIN down[c]'
             PROVE  \E k \in DOMAIN down[c] : k >= i /\ down[c]'[i] = down[c][k]
  BY DEF DownOld
<1>1. i \in DOMAIN down[c] /\ down[c]'[i] = down[c][i]
  OBVIOUS
<1>2. i \in Nat
  BY <1>1, Positions
<1>3. i >= i
  BY <1>2
<1>4. QED BY <1>1, <1>3

\* A connection that resumes keeps the viewer's network from finishing.
LEMMA OldRequests ==
    ASSUME VInv, ProxyOld, DownOld, NEW c \in Conn
    PROVE  /\ Resumes(c)' => Resumes(c)
           /\ Confirmed(c)' => Confirmed(c)
           /\ Resumes(c) => Waiting(c) /\ (stage = "Finished" /\ alive => session # "active")
           /\ Confirmed(c) => Waiting(c) /\ (stage = "Finished" => ~alive)
<1>1. Resumes(c)' => Resumes(c)
  BY DEF Resumes, ProxyOld
<1>2. Confirmed(c)' => Confirmed(c)
  BY DEF Confirmed, DownOld
<1>3. Resumes(c) => Waiting(c) /\ (stage = "Finished" /\ alive => session # "active")
  BY DEF Resumes, VInv, Asking
<1>4. Confirmed(c) => Waiting(c) /\ (stage = "Finished" => ~alive)
  BY DEF Confirmed, VInv, Answered
<1>5. QED BY <1>1, <1>2, <1>3, <1>4

LEMMA FinishedStays ==
    ASSUME VInv, ProxyOld, DownOld, UNCHANGED session, alive' => alive,
           stage' = "Finished" /\ alive' => stage = "Finished"
    PROVE  NotFinished
BY OldRequests DEF NotFinished

LEMMA NothingWaits ==
    ASSUME VInv, ProxyOld, DownOld, \A c \in Conn : ~Waiting(c)
    PROVE  NotFinished
BY OldRequests DEF NotFinished

\* Once the viewer has joined no request is under way.
LEMMA NoRequest ==
    ASSUME VInv, alive, stage # "BeforeJoined", \A c \in Conn : ~Waiting(c)
    PROVE  \A c \in Conn : \A i \in DOMAIN proxy[c] : ~IsInitialize(proxy[c][i])
<1> SUFFICES ASSUME NEW c \in Conn, NEW i \in DOMAIN proxy[c], IsInitialize(proxy[c][i]) PROVE FALSE
  OBVIOUS
<1>1. Waiting(c) \/ Joining(c)
  BY DEF VInv, Asking
<1>2. QED BY <1>1 DEF Joining

\* Messages that are no request can be put in a channel.
LEMMA SentPlain ==
    ASSUME VInv, NEW msgs \in Seq(Plain), sock[ws_proxy_tx] # "none",
           \A c \in Conn : \A i \in DOMAIN proxy[c] : ~IsInitialize(proxy[c][i]),
           proxy' = Queued(msgs)
    PROVE  /\ proxy' \in [Conn -> Seq(Upstream)]
           /\ ProxyOld
           /\ \A c \in Conn : \A i \in DOMAIN proxy[c]' : ~IsInitialize(proxy[c]'[i])
           /\ \A c \in Conn : sock[c] = "none" => proxy[c]' = <<>>
<1>1. proxy \in [Conn -> Seq(Upstream)] /\ ws_proxy_tx \in Conn
  BY DEF VInv, SessionTypeOK, NetworkTypeOK
<1>2. msgs \in Seq(Upstream) /\ \A i \in DOMAIN msgs : ~IsInitialize(msgs[i])
  <2>1. \A i \in DOMAIN msgs : msgs[i] \in Plain
    OBVIOUS
  <2>2. Plain \subseteq Upstream
    BY PlainTypes
  <2>3. QED BY <2>1, <2>2, PlainTypes
<1>3. PICK c \in Conn : c = ws_proxy_tx
  BY <1>1
<1>4. PICK q \in Seq(Upstream) : q = proxy[c]
  BY <1>1
<1>5. q \o msgs \in Seq(Upstream) /\ \A i \in DOMAIN (q \o msgs) : ~IsInitialize((q \o msgs)[i])
  <2>1. /\ q \o msgs \in Seq(Upstream)
        /\ \A i \in DOMAIN (q \o msgs) :
             \/ i \in DOMAIN q /\ (q \o msgs)[i] = q[i]
             \/ i - Len(q) \in DOMAIN msgs /\ (q \o msgs)[i] = msgs[i - Len(q)]
    BY <1>2
  <2>2. \A i \in DOMAIN q : ~IsInitialize(q[i])
    BY <1>4
  <2>3. QED BY <1>2, <2>1, <2>2
<1>6. proxy' = proxy \/ proxy' = [proxy EXCEPT ![c] = q \o msgs]
  BY <1>3, <1>4 DEF Queued
<1>7. proxy' \in [Conn -> Seq(Upstream)] /\ \A d \in Conn : d # c => proxy[d]' = proxy[d]
  BY <1>1, <1>5, <1>6
<1>8. proxy[c]' = q \/ proxy[c]' = q \o msgs
  BY <1>1, <1>4, <1>6
<1>9. \A d \in Conn : \A i \in DOMAIN proxy[d]' : ~IsInitialize(proxy[d]'[i])
  <2>1. \A i \in DOMAIN proxy[c]' : ~IsInitialize(proxy[c]'[i])
    <3>1. CASE proxy[c]' = q BY <1>4, <3>1
    <3>2. CASE proxy[c]' = q \o msgs BY <1>5, <3>2
    <3>3. QED BY <1>8, <3>1, <3>2
  <2>2. QED BY <1>7, <2>1
<1>10. \A d \in Conn : sock[d] = "none" => proxy[d]' = <<>>
  BY <1>3, <1>7 DEF VInv, Sockets
<1>11. QED BY <1>7, <1>9, <1>10 DEF ProxyOld

\* A step of the viewer alone, between its connections.
LEMMA OwnVInv ==
    ASSUME VInv, NetworkTypeOK', LoopInv', Loops', Phases',
           pending_input_updates' \in Seq(InputMessage), proxy' \in [Conn -> Seq(Upstream)],
           ProxyOld, \A c \in Conn : sock[c] = "none" => proxy[c]' = <<>>,
           UNCHANGED <<sock, wire, down, serves, events, session, granted>>,
           UNCHANGED <<next_event_no, buffer>>, alive' => alive,
           alive' /\ stage' = "BeforeJoined" => stage = "BeforeJoined",
           StillWaiting, NotFinished
    PROVE  VInv'
<1>1. SessionTypeOK'
  BY DEF VInv, SessionTypeOK
<1>2. Sockets' /\ AnswerFirst'
  BY DEF VInv, Sockets, AnswerFirst
<1>3. DownOld /\ EventsKept
  BY DownSame DEF VInv, EventsKept
<1>4. next_event_no <= next_event_no'
  BY DEF VInv, LoopInv, LoopTypeOK
<1>5. QED BY <1>1, <1>2, <1>3, <1>4, QuietVInv

LEMMA NoWire == ASSUME VInv, WireUp, UNCHANGED sock PROVE UNCHANGED wire
BY DEF WireUp, VInv, SessionTypeOK

LEMMA JoinNotConnectedVInv == ASSUME VInv, JoinNotConnected, ClientStep PROVE VInv'
<1>1. /\ UNCHANGED <<loopVars, alive, stage, id, retry, reauthVars, inputVars, txVars, proxy, sock>>
      /\ joining' = FALSE /\ join_failed' = TRUE
      /\ UNCHANGED <<wire, down, serves, events, session, granted>>
  BY NoWire DEF JoinNotConnected, ClientStep, roleVars
<1>2. LoopInv'
  BY <1>1, LoopStays DEF VInv
<1>3. NetworkTypeOK' /\ Loops' /\ Phases' /\ SessionTypeOK'
  BY <1>1, <1>2 DEF VInv, NetworkTypeOK, LoopInv, Loops, Phases, SessionTypeOK, Joined,
                    loopVars, reauthVars, inputVars, txVars
<1>4. StillWaiting
  BY <1>1 DEF StillWaiting, Waiting, Joining, txVars
<1>5. ProxyOld /\ DownOld
  BY <1>1, ProxySame, DownSame DEF VInv
<1>6. NotFinished
  BY <1>1, <1>5, FinishedStays
<1>7. QED BY <1>1, <1>2, <1>3, <1>4, <1>5, <1>6, OwnVInv DEF SessionTypeOK, VInv, Sockets, loopVars

LEMMA ReauthenticateVInv == ASSUME VInv, Reauthenticate, ClientStep PROVE VInv'
<1>1. /\ UNCHANGED <<loopVars, alive, stage, id, joining, retry, inputVars, txVars, proxy, sock, join_failed>>
      /\ reauths < MaxReauth /\ reauths' = reauths + 1 /\ reauthing' = reauthing + 1
      /\ UNCHANGED <<wire, down, serves, events, session, granted>>
  BY NoWire DEF Reauthenticate, ClientStep, roleVars
<1>2. LoopInv'
  BY <1>1, LoopStays DEF VInv
<1>3. reauths' \in 0..MaxReauth /\ reauthing' \in 0..reauths'
  BY <1>1, ViewerAssumption DEF ViewerAssumption, VInv, NetworkTypeOK
<1>4. NetworkTypeOK' /\ Loops' /\ Phases' /\ SessionTypeOK'
  BY <1>1, <1>2, <1>3 DEF VInv, NetworkTypeOK, LoopInv, Loops, Phases, SessionTypeOK, Joined,
                          loopVars, inputVars, txVars
<1>5. StillWaiting
  BY <1>1 DEF StillWaiting, Waiting, Joining, txVars
<1>6. ProxyOld /\ DownOld
  BY <1>1, ProxySame, DownSame DEF VInv
<1>7. NotFinished
  BY <1>1, <1>6, FinishedStays
<1>8. QED BY <1>1, <1>2, <1>4, <1>5, <1>6, <1>7, OwnVInv DEF SessionTypeOK, VInv, Sockets, loopVars

LEMMA ReconnectTimerVInv == ASSUME VInv, ReconnectTimer, ClientStep PROVE VInv'
<1>1. /\ UNCHANGED <<loopVars, alive, stage, id, joining, reauthVars, inputVars, txVars, proxy, sock, join_failed>>
      /\ alive /\ retry.phase = "backoff"
      /\ retry' = [phase |-> "dialing", left |-> retry.left - 1, first |-> FALSE]
      /\ UNCHANGED <<wire, down, serves, events, session, granted>>
  BY NoWire DEF ReconnectTimer, ClientStep, roleVars
<1>2. LoopInv'
  BY <1>1, LoopStays DEF VInv
<1>3. /\ retry' \in RetryState /\ retry'.phase = "dialing" /\ ~(retry.phase = "idle")
      /\ ~(stage = "BeforeJoined") /\ ~Joined
  BY <1>1, ViewerAssumption DEF ViewerAssumption, VInv, NetworkTypeOK, RetryState, Phases
<1>4. NetworkTypeOK' /\ Loops' /\ SessionTypeOK'
  BY <1>1, <1>2, <1>3 DEF VInv, NetworkTypeOK, LoopInv, Loops, SessionTypeOK,
                          loopVars, reauthVars, inputVars, txVars
<1>5. Phases'
  BY <1>1, <1>3 DEF VInv, Phases, Joined, txVars
<1>6. StillWaiting
  BY <1>1, <1>3 DEF StillWaiting, Waiting, Joining, txVars
<1>7. ProxyOld /\ DownOld
  BY <1>1, ProxySame, DownSame DEF VInv
<1>8. NotFinished
  BY <1>1, <1>7, FinishedStays
<1>9. QED BY <1>1, <1>2, <1>4, <1>5, <1>6, <1>7, <1>8, OwnVInv DEF SessionTypeOK, VInv, Sockets, loopVars

LEMMA ReconnectErrVInv == ASSUME VInv, ReconnectErr, ClientStep PROVE VInv'
<1>1. /\ UNCHANGED <<alive, id, joining, reauthVars, inputVars, ws_proxy_tx, proxy, sock, join_failed>>
      /\ alive /\ retry.phase = "dialing"
      /\ UNCHANGED <<wire, down, serves, events, session, granted>>
  BY NoWire DEF ReconnectErr, ClientStep, roleVars
<1>2. \/ /\ retry.left # 0
         /\ retry' = [phase |-> "backoff", left |-> retry.left, first |-> FALSE]
         /\ UNCHANGED <<stage, tx_open, loopVars>>
      \/ /\ retry' = Idle
         /\ stage' = "Finished"
         /\ tx_open' = FALSE
         /\ SharedSessionEnded
  BY DEF ReconnectErr, Exhausted
<1>3. LoopInv' /\ UNCHANGED <<next_event_no, buffer, event_loop>>
  <2>1. CASE UNCHANGED loopVars
    BY <2>1, LoopStays DEF VInv, loopVars
  <2>2. CASE SharedSessionEnded
    BY <2>2, LoopEnds DEF VInv, SharedSessionEnded
  <2>3. QED BY <1>2, <2>1, <2>2
<1>4. /\ retry \in RetryState /\ retry' \in RetryState /\ (retry'.phase = "backoff" => retry'.left > 0)
      /\ ~(stage = "BeforeJoined") /\ ~(stage' = "BeforeJoined") /\ ~Joined /\ ~Joined'
      /\ stage' = "Finished" /\ retry'.phase # "idle" => UNCHANGED <<session, stage>> /\ retry.phase # "idle"
  <2>1. retry \in RetryState /\ Idle \in RetryState
    BY ViewerAssumption DEF ViewerAssumption, VInv, NetworkTypeOK, RetryState, Idle
  <2>2. ~(stage = "BeforeJoined") /\ ~Joined
    BY <1>1 DEF VInv, Phases
  <2>3. CASE /\ retry.left # 0 /\ UNCHANGED stage
             /\ retry' = [phase |-> "backoff", left |-> retry.left, first |-> FALSE]
    <3>1. retry.left \in 0..MaxRetries
      BY <2>1 DEF RetryState
    <3>2. retry' \in RetryState /\ retry'.left > 0
      BY <2>3, <3>1 DEF RetryState
    <3>3. QED BY <1>1, <2>1, <2>2, <2>3, <3>2 DEF Joined
  <2>4. CASE retry' = Idle /\ stage' = "Finished"
    BY <2>1, <2>2, <2>4 DEF Idle, Joined
  <2>5. QED BY <1>2, <2>3, <2>4
<1>5. NetworkTypeOK'
  BY <1>1, <1>2, <1>3, <1>4 DEF VInv, NetworkTypeOK, LoopInv, reauthVars, inputVars, txVars, Stages
<1>6. Loops'
  BY <1>1, <1>3, <1>4 DEF VInv, Loops
<1>7. Phases'
  BY <1>1, <1>4 DEF VInv, Phases
<1>8. \A c \in Conn : ~Waiting(c) /\ ~Joining(c)
  BY <1>1, <1>4 DEF Waiting, Joining
<1>9. ProxyOld /\ DownOld
  BY <1>1, ProxySame, DownSame DEF VInv
<1>10. StillWaiting /\ NotFinished
  BY <1>8, <1>9, NothingWaits DEF StillWaiting
<1>11. pending_input_updates' \in Seq(InputMessage) /\ proxy' \in [Conn -> Seq(Upstream)]
       /\ \A c \in Conn : sock[c] = "none" => proxy[c]' = <<>>
  BY <1>1 DEF VInv, SessionTypeOK, inputVars, Sockets
<1>12. QED BY <1>1, <1>3, <1>4, <1>5, <1>6, <1>7, <1>9, <1>10, <1>11, OwnVInv

\* The viewer has no network left.
LEMMA ClosePaneVInv == ASSUME VInv, ClosePane, ClientStep PROVE VInv'
<1>1. /\ UNCHANGED <<id, joining, reauthVars, inputVars, ws_proxy_tx, proxy, sock, join_failed>>
      /\ alive /\ alive' = FALSE /\ stage' = "Finished" /\ tx_open' = FALSE /\ SharedSessionEnded
      /\ retry' = retry \/ (Abortable /\ retry' \in {Idle, Detached})
      /\ UNCHANGED <<wire, down, serves, events, session, granted>>
  BY NoWire DEF ClosePane, CloseWithoutReconnection, Close, ClientStep, roleVars
<1>2. LoopInv' /\ UNCHANGED <<next_event_no, buffer, event_loop>>
  BY <1>1, LoopEnds DEF VInv, SharedSessionEnded
<1>3. /\ retry' \in RetryState /\ (retry'.phase = "backoff" => retry'.left > 0)
      /\ (retry.phase = "idle" => retry'.phase = "idle")
  <2>1. retry \in RetryState /\ (retry.phase = "backoff" => retry.left > 0)
    BY DEF VInv, NetworkTypeOK, Phases
  <2>2. Idle \in RetryState /\ Idle.phase # "backoff" /\ Detached \in RetryState /\ Detached.phase = retry.phase
    BY <2>1, ViewerAssumption DEF ViewerAssumption, RetryState, Idle, Detached
  <2>3. QED BY <1>1, <2>1, <2>2 DEF Abortable
<1>4. NetworkTypeOK'
  BY <1>1, <1>2, <1>3 DEF VInv, NetworkTypeOK, LoopInv, reauthVars, inputVars, Stages
<1>5. Loops' /\ Phases'
  BY <1>1, <1>2, <1>3 DEF VInv, Loops, Phases, Joined
<1>6. StillWaiting
  BY <1>1, <1>3 DEF StillWaiting, Waiting, Joining
<1>7. ProxyOld /\ DownOld /\ NotFinished
  BY <1>1, ProxySame, DownSame DEF VInv, NotFinished
<1>8. pending_input_updates' \in Seq(InputMessage) /\ proxy' \in [Conn -> Seq(Upstream)]
      /\ \A c \in Conn : sock[c] = "none" => proxy[c]' = <<>>
  BY <1>1 DEF VInv, SessionTypeOK, inputVars, Sockets
<1>9. QED BY <1>1, <1>2, <1>4, <1>5, <1>6, <1>7, <1>8, OwnVInv

LEMMA ReconnectBegins ==
    ASSUME VInv, alive, ReconnectWebsocket, UNCHANGED <<alive, ws_proxy_tx, event_loop, session>>
    PROVE  /\ retry' \in RetryState /\ stage' \in Stages /\ tx_open' \in BOOLEAN
           /\ retry'.phase = "backoff" => retry'.left > 0
           /\ IF Joined
                THEN stage' = "Reconnecting"
                ELSE UNCHANGED <<stage, retry>>
<1>1. retry \in RetryState /\ stage \in Stages /\ tx_open \in BOOLEAN
      /\ (retry.phase = "backoff" => retry.left > 0) /\ (stage = "BeforeJoined" <=> ~event_loop)
  BY DEF VInv, NetworkTypeOK, Phases, Loops
<1>2. [phase |-> "dialing", left |-> MaxRetries, first |-> TRUE] \in RetryState
  BY ViewerAssumption DEF ViewerAssumption, RetryState
<1>3. CASE Joined
  <2>1. event_loop /\ MayReconnect
    BY <1>1, <1>3 DEF MayReconnect, Joined
  <2>2. /\ tx_open' = FALSE /\ stage' = "Reconnecting"
        /\ retry' = [phase |-> "dialing", left |-> MaxRetries, first |-> TRUE]
    BY <2>1 DEF ReconnectWebsocket
  <2>3. QED BY <1>2, <1>3, <2>2 DEF Stages
<1>4. CASE ~Joined
  <2>1. MayReconnect => ~event_loop
    BY <1>1, <1>4 DEF MayReconnect, Joined, Stages
  <2>2. UNCHANGED <<stage, retry>> /\ (tx_open' = FALSE \/ UNCHANGED tx_open)
    BY <2>1 DEF ReconnectWebsocket, txVars
  <2>3. QED BY <1>1, <1>4, <2>2
<1>5. QED BY <1>3, <1>4

LEMMA ReauthDoneVInv == ASSUME VInv, ReauthDone, ClientStep PROVE VInv'
<1>1. /\ UNCHANGED <<loopVars, alive, id, joining, reauths, inputVars, ws_proxy_tx, sock, join_failed>>
      /\ alive /\ reauthing > 0 /\ reauthing' = reauthing - 1
      /\ \/ SendNow(<<Reauthenticated>>) /\ ReconnectWebsocket
         \/ UNCHANGED <<stage, retry, txVars, proxy>>
      /\ UNCHANGED <<wire, down, serves, events, session, granted>>
  BY NoWire DEF ReauthDone, ClientStep, roleVars, ReconnectWebsocket, txVars
<1>2. LoopInv' /\ UNCHANGED <<next_event_no, buffer, event_loop>>
  BY <1>1, LoopStays DEF VInv, loopVars
<1>3. reauthing' \in 0..reauths'
  BY <1>1 DEF VInv, NetworkTypeOK
<1>4. /\ retry' \in RetryState /\ stage' \in Stages /\ tx_open' \in BOOLEAN
      /\ retry'.phase = "backoff" => retry'.left > 0
      /\ \/ Joined /\ stage' = "Reconnecting"
         \/ UNCHANGED <<stage, retry>>
  <2>1. CASE ReconnectWebsocket
    BY <1>1, <1>2, <2>1, ReconnectBegins
  <2>2. CASE UNCHANGED <<stage, retry, txVars>>
    BY <2>2 DEF VInv, NetworkTypeOK, Phases, txVars
  <2>3. QED BY <1>1, <2>1, <2>2
<1>5. NetworkTypeOK'
  BY <1>1, <1>2, <1>3, <1>4 DEF VInv, NetworkTypeOK, LoopInv, inputVars, Stages
<1>6. Loops'
  BY <1>1, <1>2, <1>4 DEF VInv, Loops, Joined
<1>7. Phases'
  BY <1>1, <1>4 DEF VInv, Phases, Joined
<1>8. Joined => \A c \in Conn : ~Waiting(c) /\ ~Joining(c)
  BY <1>1 DEF Joined, Waiting, Joining
<1>9. /\ proxy' \in [Conn -> Seq(Upstream)] /\ ProxyOld
      /\ \A c \in Conn : sock[c] = "none" => proxy[c]' = <<>>
  <2>1. CASE UNCHANGED proxy
    BY <2>1, ProxySame DEF VInv, SessionTypeOK, Sockets
  <2>2. CASE Joined /\ proxy' = Queued(<<Reauthenticated>>)
    <3>1. \A c \in Conn : \A i \in DOMAIN proxy[c] : ~IsInitialize(proxy[c][i])
      BY <1>1, <1>8, <2>2, NoRequest DEF Joined
    <3>2. <<Reauthenticated>> \in Seq(Plain) /\ sock[ws_proxy_tx] # "none"
      BY <2>2 DEF Plain, VInv, Phases
    <3>3. QED BY <2>2, <3>1, <3>2, SentPlain
  <2>3. QED BY <1>1, <2>1, <2>2 DEF SendNow
<1>10. StillWaiting
  BY <1>1, <1>4, <1>8 DEF StillWaiting, Waiting, Joining, Joined
<1>11. DownOld
  BY <1>1, DownSame DEF VInv
<1>12. NotFinished
  BY <1>1, <1>4, <1>9, <1>11, FinishedStays
<1>13. pending_input_updates' \in Seq(InputMessage) /\ (alive' => alive)
      /\ (alive' /\ stage' = "BeforeJoined" => stage = "BeforeJoined")
  BY <1>1, <1>4 DEF VInv, SessionTypeOK, inputVars
<1>14. QED BY <1>1, <1>2, <1>5, <1>6, <1>7, <1>9, <1>10, <1>11, <1>12, <1>13, OwnVInv

LEMMA SendInputUpdateVInv ==
    ASSUME VInv, NEW b \in 0..MaxBlocks, SendInputUpdate(b), ClientStep
    PROVE  VInv'
<1> DEFINE op == IF b # next_buffer_seq_no.block THEN 0 ELSE next_buffer_seq_no.op
           m == Input(b, op)
<1>1. /\ UNCHANGED <<loopVars, alive, stage, id, joining, retry, reauthVars, txVars, sock, join_failed>>
      /\ alive /\ id /\ op < MaxOps
      /\ next_buffer_seq_no' = [block |-> b, op |-> op + 1]
      /\ pending_input_updates' = IF Joined THEN HeldInput(b) ELSE Append(HeldInput(b), m)
      /\ SendNow(<<m>>)
      /\ UNCHANGED <<wire, down, serves, events, session, granted>>
  BY NoWire DEF SendInputUpdate, ClientStep, roleVars
<1>2. LoopInv' /\ UNCHANGED <<next_event_no, buffer>>
  BY <1>1, LoopStays DEF VInv, loopVars
<1>3. op \in 0..MaxOps /\ op + 1 \in 0..MaxOps
  BY <1>1, ViewerAssumption DEF ViewerAssumption, VInv, NetworkTypeOK
<1>4. m \in InputMessage /\ m \in Plain /\ m.block = b
  BY <1>3 DEF InputMessage, Input, Plain
<1> HIDE DEF m, op
<1>5. HeldInput(b) \in Seq(InputMessage) /\ \A i \in DOMAIN HeldInput(b) : HeldInput(b)[i].block = b
  <2>1. CASE b # next_buffer_seq_no.block
    <3>1. HeldInput(b) = <<>>
      BY <2>1 DEF HeldInput
    <3>2. QED BY <3>1
  <2>2. CASE b = next_buffer_seq_no.block
    BY <2>2 DEF HeldInput, VInv, NetworkTypeOK, SessionTypeOK
  <2>3. QED BY <2>1, <2>2
<1>6. PICK h \in Seq(InputMessage) : h = HeldInput(b)
  BY <1>5
<1>7. Append(h, m) \in Seq(InputMessage) /\ \A i \in DOMAIN Append(h, m) : Append(h, m)[i].block = b
  <2>1. /\ Append(h, m) \in Seq(InputMessage)
        /\ \A i \in DOMAIN Append(h, m) : Append(h, m)[i] = m \/ (i \in DOMAIN h /\ Append(h, m)[i] = h[i])
    BY <1>4
  <2>2. QED BY <1>4, <1>5, <1>6, <2>1
<1>8. /\ pending_input_updates' \in Seq(InputMessage)
      /\ \A i \in DOMAIN pending_input_updates' : pending_input_updates'[i].block = b
  BY <1>1, <1>5, <1>6, <1>7
<1>9. NetworkTypeOK'
  <2>1. next_buffer_seq_no' \in [block : 0..MaxBlocks, op : 0..MaxOps] /\ next_buffer_seq_no'.block = b
    BY <1>1, <1>3
  <2>2. QED BY <1>1, <1>2, <1>8, <2>1 DEF VInv, NetworkTypeOK, LoopInv, reauthVars, txVars
<1>10. Loops' /\ Phases'
  BY <1>1 DEF VInv, Loops, Phases, Joined, loopVars, txVars
<1>11. StillWaiting
  BY <1>1 DEF StillWaiting, Waiting, Joining, txVars
<1>12. /\ proxy' \in [Conn -> Seq(Upstream)] /\ ProxyOld
       /\ \A c \in Conn : sock[c] = "none" => proxy[c]' = <<>>
  <2>1. CASE UNCHANGED proxy
    BY <2>1, ProxySame DEF VInv, SessionTypeOK, Sockets
  <2>2. CASE Joined /\ proxy' = Queued(<<m>>)
    <3>1. \A c \in Conn : ~Waiting(c)
      BY <2>2 DEF Joined, Waiting
    <3>2. \A c \in Conn : \A i \in DOMAIN proxy[c] : ~IsInitialize(proxy[c][i])
      BY <1>1, <2>2, <3>1, NoRequest DEF Joined
    <3>3. <<m>> \in Seq(Plain) /\ sock[ws_proxy_tx] # "none"
      BY <1>4, <2>2 DEF VInv, Phases
    <3>4. QED BY <2>2, <3>2, <3>3, SentPlain
  <2>3. QED BY <1>1, <2>1, <2>2 DEF SendNow
<1>13. DownOld
  BY <1>1, DownSame DEF VInv
<1>14. NotFinished
  BY <1>1, <1>12, <1>13, FinishedStays
<1>15. QED BY <1>1, <1>2, <1>8, <1>9, <1>10, <1>11, <1>12, <1>13, <1>14, OwnVInv

LEMMA TailElements ==
    ASSUME NEW S, NEW q \in Seq(S), q # <<>>
    PROVE  /\ Tail(q) \in Seq(S)
           /\ \A i \in DOMAIN Tail(q) : i \in Nat /\ i > 0 /\ i + 1 \in DOMAIN q /\ Tail(q)[i] = q[i + 1]
           /\ \A k \in DOMAIN q : k = 1 \/ (k - 1 \in DOMAIN Tail(q) /\ Tail(q)[k - 1] = q[k])
OBVIOUS

\* A channel that is read from holds no request any more.
LEMMA Drained ==
    ASSUME VInv, NEW c \in Conn, Drain(c)
    PROVE  /\ proxy' \in [Conn -> Seq(Upstream)]
           /\ ProxyOld
           /\ \A d \in Conn : d # c => proxy[d]' = proxy[d]
           /\ \A i \in DOMAIN proxy[c]' : ~IsInitialize(proxy[c]'[i])
           /\ \A d \in Conn : sock[d] = "none" => proxy[d]' = <<>>
<1>1. proxy \in [Conn -> Seq(Upstream)] /\ proxy[c] # <<>> /\ proxy' = [proxy EXCEPT ![c] = Tail(proxy[c])]
  BY DEF VInv, SessionTypeOK, Drain
<1>2. PICK q \in Seq(Upstream) : q = proxy[c] /\ q # <<>>
  BY <1>1
<1>3. Tail(q) \in Seq(Upstream) /\ \A i \in DOMAIN Tail(q) : i \in Nat /\ i > 0 /\ i + 1 \in DOMAIN q /\ Tail(q)[i] = q[i + 1]
  BY <1>2, TailElements
<1>4. /\ proxy' \in [Conn -> Seq(Upstream)] /\ proxy[c]' = Tail(q)
      /\ \A d \in Conn : d # c => proxy[d]' = proxy[d]
  BY <1>1, <1>2, <1>3
<1>5. ASSUME NEW i \in DOMAIN proxy[c]' PROVE ~IsInitialize(proxy[c]'[i])
  <2>1. i \in Nat /\ i > 0 /\ i + 1 \in DOMAIN q /\ proxy[c]'[i] = q[i + 1] /\ i + 1 # 1
    BY <1>3, <1>4
  <2>2. QED BY <1>2, <2>1 DEF VInv, Asking
<1>6. ProxyOld
  BY <1>4, <1>5 DEF ProxyOld, VInv, Asking
<1>7. \A d \in Conn : sock[d] = "none" => proxy[d]' = <<>>
  BY <1>1, <1>4 DEF VInv, Sockets
<1>8. QED BY <1>4, <1>5, <1>6, <1>7

LEMMA DrainVInv ==
    ASSUME VInv, NEW c \in Conn, Drain(c), UNCHANGED <<wire, down, serves, events, session, granted>>
    PROVE  VInv'
<1>1. UNCHANGED <<loopVars, alive, stage, id, joining, retry, reauthVars, inputVars, txVars, sock, join_failed>>
  BY DEF Drain
<1>2. LoopInv'
  BY <1>1, LoopStays DEF VInv
<1>3. NetworkTypeOK' /\ Loops' /\ Phases'
  BY <1>1, <1>2 DEF VInv, NetworkTypeOK, LoopInv, Loops, Phases, Joined,
                    loopVars, reauthVars, inputVars, txVars
<1>4. StillWaiting
  BY <1>1 DEF StillWaiting, Waiting, Joining, txVars
<1>5. DownOld
  BY DownSame DEF VInv
<1>6. NotFinished
  BY <1>1, <1>5, Drained, FinishedStays
<1>7. pending_input_updates' \in Seq(InputMessage) /\ UNCHANGED <<next_event_no, buffer>>
  BY <1>1 DEF VInv, SessionTypeOK, inputVars, loopVars
<1>8. QED BY <1>1, <1>2, <1>3, <1>4, <1>5, <1>6, <1>7, Drained, OwnVInv

LEMMA ReadsVInv ==
    ASSUME VInv, NEW c \in Conn, Lose(c) \/ ServerInput(c) \/ ServerReauthenticated(c)
    PROVE  VInv'
BY DrainVInv DEF Lose, ServerInput, ServerReauthenticated, Reads, serverVars, roleVars

-----------------------------------------------------------------------------
\* Connections that open.

LEMMA Unopened ==
    ASSUME VInv, NEW c \in Conn, sock[c] = "none"
    PROVE  proxy[c] = <<>> /\ down[c] = <<>> /\ wire[c] = "none" /\ c \notin serves
BY DEF VInv, Sockets

\* Connection c opens with a request, if it opens.
LEMMA OpenVInv ==
    ASSUME VInv, NetworkTypeOK', LoopInv', Loops', Phases',
           NEW c \in Conn, sock[c] = "none",
           NEW m \in Upstream, IsInitialize(m),
           \/ sock' = [sock EXCEPT ![c] = "open"] /\ proxy' = [proxy EXCEPT ![c] = <<m>>]
           \/ sock' = [sock EXCEPT ![c] = "done"] /\ UNCHANGED proxy,
           WireUp, UNCHANGED <<down, serves, events, session, granted, pending_input_updates>>,
           UNCHANGED <<next_event_no, buffer, alive, stage>>,
           IF m.known
             THEN /\ Waiting(c)' /\ m.from <= next_event_no
                  /\ stage = "Finished" /\ alive => session # "active"
             ELSE Joining(c)' /\ m.from = 0,
           \A d \in Conn : d # c => (Waiting(d) => Waiting(d)') /\ (Joining(d) => Joining(d)')
    PROVE  VInv'
<1>1. proxy[c] = <<>> /\ down[c] = <<>> /\ wire[c] = "none" /\ c \notin serves
  BY Unopened
<1>2. /\ sock \in [Conn -> {"none", "open", "done"}] /\ proxy \in [Conn -> Seq(Upstream)]
      /\ wire \in [Conn -> {"none", "up", "down"}]
  BY DEF VInv, NetworkTypeOK, SessionTypeOK
<1>3. <<m>> \in Seq(Upstream) /\ DOMAIN <<m>> = {1} /\ <<m>>[1] = m
  OBVIOUS
<1>4. /\ \A d \in Conn : d # c => sock'[d] = sock[d] /\ proxy'[d] = proxy[d]
      /\ \/ sock'[c] = "open" /\ proxy'[c] = <<m>>
         \/ sock'[c] = "done" /\ proxy'[c] = <<>>
  BY <1>1, <1>2
<1>5. /\ \A d \in Conn : d # c => wire'[d] = wire[d]
      /\ wire'[c] = IF sock'[c] = "open" THEN "up" ELSE "none"
      /\ wire' \in [Conn -> {"none", "up", "down"}]
  BY <1>1, <1>2, <1>4 DEF WireUp
<1>6. SessionTypeOK'
  <2>1. proxy' \in [Conn -> Seq(Upstream)]
    BY <1>2, <1>3
  <2>2. QED BY <1>5, <2>1 DEF VInv, SessionTypeOK
<1>7. Sockets'
  <2>1. ASSUME NEW d \in Conn
        PROVE  /\ sock'[d] = "none" => wire'[d] = "none" /\ proxy'[d] = <<>>
               /\ wire'[d] = "none" => down'[d] = <<>>
               /\ wire'[d] = "up" => sock'[d] = "open"
    BY <1>1, <1>4, <1>5 DEF VInv, Sockets
  <2>2. \A d \in serves : wire'[d] = "up"
    BY <1>1, <1>5 DEF VInv, Sockets, SessionTypeOK
  <2>3. QED BY <2>1, <2>2 DEF Sockets
<1>8. AnswerFirst'
  BY <1>1, <1>4, Connections DEF VInv, AnswerFirst
<1>9. Asking'
  <2>1. SUFFICES ASSUME NEW d \in Conn, NEW i \in DOMAIN proxy'[d], IsInitialize(proxy'[d][i])
                 PROVE  /\ \A j \in DOMAIN proxy'[d] : j = 1
                        /\ down'[d] = <<>> /\ d \notin serves'
                        /\ IF proxy'[d][i].known
                             THEN /\ Waiting(d)' /\ proxy'[d][i].from <= next_event_no'
                                  /\ stage' = "Finished" /\ alive' => session' # "active"
                             ELSE Joining(d)' /\ proxy'[d][i].from = 0
    BY DEF Asking
  <2>2. CASE d = c
    BY <1>1, <1>3, <1>4, <2>1, <2>2
  <2>3. CASE d # c
    BY <1>4, <2>1, <2>3 DEF VInv, Asking
  <2>4. QED BY <2>2, <2>3
<1>10. Answered'
  <2>1. SUFFICES ASSUME NEW d \in Conn, NEW i \in DOMAIN down[d]
                 PROVE  /\ down[d][i].type \in Replies => i = 1
                        /\ down[d][i].type = "JoinedSuccessfully" => Joining(d)'
                        /\ down[d][i].type = "RejoinedSuccessfully" =>
                             /\ Waiting(d)' /\ (stage = "Finished" => ~alive)
                             /\ \A e \in serves : e = d
                             /\ \A e \in Conn : \A j \in DOMAIN down[e] :
                                   down[e][j].type \in Endings => e = d
                        /\ down[d][i].type = "FailedToJoin" =>
                             /\ Joining(d)' \/ Waiting(d)'
                             /\ \A j \in DOMAIN down[d] : j = 1
                             /\ d \notin serves
                        /\ down[d][i].type \in Endings => session # "active"
                        /\ down[d][i].type = "OrderedTerminalEvent" => down[d][i].no < events
    BY DEF Answered
  <2>2. d # c
    BY <1>1
  <2>3. QED BY <2>1, <2>2 DEF VInv, Answered
<1>11. NoGap'
  BY DEF VInv, NoGap
<1>12. QED BY <1>6, <1>7, <1>8, <1>9, <1>10, <1>11 DEF VInv

LEMMA JoinConnectedVInv == ASSUME VInv, JoinConnected, ClientStep PROVE VInv'
<1>1. /\ UNCHANGED <<loopVars, alive, stage, id, retry, reauthVars, inputVars, txVars, join_failed>>
      /\ alive /\ joining /\ joining' = FALSE
      /\ proxy' = Queued(<<Initialize(id, 0)>>)
      /\ sock' = [sock EXCEPT ![1] = IF tx_open THEN "open" ELSE "done"]
      /\ WireUp /\ UNCHANGED <<down, serves, events, session, granted>>
  BY DEF JoinConnected, ClientStep, roleVars
<1>2. /\ stage = "BeforeJoined" /\ sock[1] = "none" /\ ws_proxy_tx = 1 /\ ~id
      /\ \A c \in Conn : c # 1 => sock[c] = "none"
  BY <1>1 DEF VInv, Phases, Loops
<1>3. LoopInv' /\ UNCHANGED <<next_event_no, buffer>>
  BY <1>1, LoopStays DEF VInv, loopVars
<1>4. 1 \in Conn /\ proxy \in [Conn -> Seq(Upstream)] /\ proxy[1] = <<>>
      /\ sock \in [Conn -> {"none", "open", "done"}]
  BY <1>2, Connections, Unopened DEF VInv, SessionTypeOK, NetworkTypeOK
<1>5. sock' \in [Conn -> {"none", "open", "done"}] /\ \A c \in Conn : c # 1 => sock'[c] = "none"
  BY <1>1, <1>2, <1>4
<1>6. NetworkTypeOK'
  BY <1>1, <1>3, <1>5 DEF VInv, NetworkTypeOK, LoopInv, reauthVars, inputVars, txVars
<1>7. Loops' /\ Phases'
  BY <1>1, <1>2, <1>5 DEF VInv, Loops, Phases, Joined, loopVars, txVars
<1>8. id = FALSE
  BY <1>2 DEF VInv, NetworkTypeOK
<1>9. PICK m \in Upstream : m = Initialize(id, 0) /\ IsInitialize(m) /\ m.known = FALSE /\ m.from = 0
  BY <1>8, PlainTypes
<1>10. <<>> \o <<m>> = <<m>>
  OBVIOUS
<1>11. \/ sock' = [sock EXCEPT ![1] = "open"] /\ proxy' = [proxy EXCEPT ![1] = <<m>>]
       \/ sock' = [sock EXCEPT ![1] = "done"] /\ UNCHANGED proxy
  <2>1. CASE tx_open
    BY <1>1, <1>2, <1>4, <1>9, <1>10, <2>1 DEF Queued
  <2>2. CASE ~tx_open
    BY <1>1, <2>2 DEF Queued
  <2>3. QED BY <2>1, <2>2
<1>12. Joining(1)'
  BY <1>1, <1>2, <1>5 DEF Joining
<1>13. \A d \in Conn : d # 1 => (Waiting(d) => Waiting(d)') /\ (Joining(d) => Joining(d)')
  BY <1>2 DEF Waiting, Joining
<1>14. UNCHANGED pending_input_updates
  BY <1>1 DEF inputVars
<1>15. QED BY <1>1, <1>2, <1>3, <1>4, <1>6, <1>7, <1>9, <1>11, <1>12, <1>13, <1>14, OpenVInv

LEMMA ReconnectOkVInv == ASSUME VInv, NEW c \in Conn, ReconnectOk(c), ClientStep PROVE VInv'
<1>1. /\ UNCHANGED <<loopVars, alive, stage, id, joining, reauthVars, inputVars, join_failed>>
      /\ alive /\ retry.phase = "dialing" /\ c # 1 /\ sock[c] = "none"
      /\ retry' = Idle /\ ws_proxy_tx' = c /\ tx_open' = TRUE
      /\ proxy' = [proxy EXCEPT ![c] = <<Initialize(id, next_event_no)>>]
      /\ sock' = [sock EXCEPT ![c] = "open"]
      /\ WireUp /\ UNCHANGED <<down, serves, events, session, granted>>
  BY DEF ReconnectOk, ClientStep, roleVars, ResumeFrom
<1>2. /\ stage # "BeforeJoined" /\ ~Joined /\ stage \in {"Reconnecting", "Finished"} /\ id
      /\ stage = "Finished" => session # "active"
  BY <1>1 DEF VInv, Phases, Loops, NetworkTypeOK, Stages, Joined
<1>3. LoopInv' /\ UNCHANGED <<next_event_no, buffer>>
  BY <1>1, LoopStays DEF VInv, loopVars
<1>4. retry' \in RetryState /\ retry'.phase = "idle"
  BY <1>1, ViewerAssumption DEF ViewerAssumption, Idle, RetryState
<1>5. sock' \in [Conn -> {"none", "open", "done"}] /\ sock[1]' = sock[1]
  BY <1>1, Connections DEF VInv, NetworkTypeOK
<1>6. NetworkTypeOK'
  BY <1>1, <1>3, <1>4, <1>5 DEF VInv, NetworkTypeOK, LoopInv, reauthVars, inputVars
<1>7. Loops'
  BY <1>1 DEF VInv, Loops, loopVars
<1>8. Phases'
  BY <1>1, <1>2, <1>4, <1>5 DEF VInv, Phases, Joined
<1>9. next_event_no \in Nat /\ id = TRUE
  BY <1>2 DEF VInv, NetworkTypeOK, LoopInv, LoopTypeOK
<1>10. PICK m \in Upstream : /\ m = Initialize(id, next_event_no) /\ IsInitialize(m)
                             /\ m.known = TRUE /\ m.from = next_event_no
  BY <1>9, PlainTypes
<1>11. Waiting(c)' /\ m.from <= next_event_no
  <2>1. c = ws_proxy_tx' /\ c # 1 /\ stage' \in {"Reconnecting", "Finished"} /\ retry'.phase = "idle"
    BY <1>1, <1>2, <1>4
  <2>2. m.from <= next_event_no
    BY <1>9, <1>10
  <2>3. QED BY <2>1, <2>2 DEF Waiting
<1>12. \A d \in Conn : ~Waiting(d) /\ ~Joining(d)
  BY <1>1, <1>2 DEF Waiting, Joining
<1>13. UNCHANGED pending_input_updates
  BY <1>1 DEF inputVars
<1>14. QED BY <1>1, <1>2, <1>3, <1>6, <1>7, <1>8, <1>10, <1>11, <1>12, <1>13, OpenVInv

LEMMA ClientVInv == ASSUME VInv, ClientStep PROVE VInv'
BY JoinConnectedVInv, JoinNotConnectedVInv, ReconnectOkVInv, ReconnectErrVInv, ReconnectTimerVInv,
   ReauthenticateVInv, ReauthDoneVInv, SendInputUpdateVInv, ClosePaneVInv
   DEF ClientStep, Client

-----------------------------------------------------------------------------
\* What the server sends.

LEMMA AppendElements ==
    ASSUME NEW S, NEW q \in Seq(S), NEW m \in S
    PROVE  /\ Append(q, m) \in Seq(S)
           /\ \A i \in DOMAIN Append(q, m) :
                \/ i \in DOMAIN q /\ Append(q, m)[i] = q[i]
                \/ i = Len(q) + 1 /\ Append(q, m)[i] = m
           /\ \A i \in DOMAIN q : i \in DOMAIN Append(q, m) /\ Append(q, m)[i] = q[i]
           /\ Len(q) + 1 \in DOMAIN Append(q, m) /\ Append(q, m)[Len(q) + 1] = m
           /\ Append(q, m) # <<>>
OBVIOUS

LEMMA Ranges ==
    \A a, b \in Nat : a <= b =>
        /\ 0..(a - 1) \subseteq 0..(b - 1)
        /\ \A k \in Nat : \A n \in k..(b - 1) : n \in a..(b - 1) \/ n \in k..(a - 1)
OBVIOUS

LEMMA SendAllVInv ==
    ASSUME VInv, session = "active", NEW m \in Downstream, m.type \notin Replies, SendAll(m),
           UNCHANGED <<vars, wire>>, serves' \subseteq serves, granted' \in Roles,
           session' \in {"active", "ended", "removed"}, m.type \in Endings => session' # "active",
           m.type = "OrderedTerminalEvent" => m.no < events',
           events' \in 0..MaxEvents, events <= events',
           \A n \in events..(events' - 1) : m = Event(n)
    PROVE  VInv'
<1>1. /\ UNCHANGED <<loopVars, alive, stage, id, joining, retry, reauthVars, inputVars, txVars,
                     proxy, sock, join_failed>>
      /\ UNCHANGED <<next_event_no, buffer>>
  BY DEF vars, loopVars
<1>2. down \in [Conn -> Seq(Downstream)] /\ serves \subseteq Conn /\ events \in Nat /\ events' \in Nat
  BY EventLoopAssumption DEF VInv, SessionTypeOK
<1>3. ASSUME NEW c \in Conn
      PROVE  /\ down'[c] \in Seq(Downstream)
             /\ c \notin serves => down'[c] = down[c]
             /\ c \in serves => down'[c] # <<>>
             /\ c \in serves => \E k \in DOMAIN down'[c] : down'[c][k] = m
             /\ \A i \in DOMAIN down'[c] :
                  \/ i \in DOMAIN down[c] /\ down'[c][i] = down[c][i]
                  \/ c \in serves /\ down'[c][i] = m
             /\ \A i \in DOMAIN down[c] : i \in DOMAIN down'[c] /\ down'[c][i] = down[c][i]
  <2>1. PICK q \in Seq(Downstream) : q = down[c]
    BY <1>2
  <2>2. down'[c] = IF c \in serves THEN Append(q, m) ELSE q
    BY <1>2, <2>1 DEF SendAll
  <2>3. /\ Append(q, m) \in Seq(Downstream)
        /\ \A i \in DOMAIN Append(q, m) :
             \/ i \in DOMAIN q /\ Append(q, m)[i] = q[i]
             \/ i = Len(q) + 1 /\ Append(q, m)[i] = m
        /\ \A i \in DOMAIN q : i \in DOMAIN Append(q, m) /\ Append(q, m)[i] = q[i]
        /\ Len(q) + 1 \in DOMAIN Append(q, m) /\ Append(q, m)[Len(q) + 1] = m
        /\ Append(q, m) # <<>>
    BY AppendElements
  <2>4. CASE c \in serves
    BY <2>1, <2>2, <2>3, <2>4
  <2>5. CASE c \notin serves
    BY <2>1, <2>2, <2>5
  <2>6. QED BY <2>4, <2>5
<1>4. SessionTypeOK'
  <2>1. DOMAIN down' = Conn /\ down' = [c \in Conn |-> down'[c]]
    BY DEF SendAll
  <2>2. down' \in [Conn -> Seq(Downstream)]
    BY <1>3, <2>1
  <2>3. QED BY <1>1, <1>2, <2>2 DEF VInv, SessionTypeOK, inputVars
<1>5. LoopInv'
  BY <1>1, LoopStays DEF VInv
<1>6. NetworkTypeOK'
  BY <1>1, <1>5 DEF VInv, NetworkTypeOK, LoopInv, reauthVars, inputVars, txVars
<1>7. Loops'
  <2>1. next_event_no <= events /\ buffer \subseteq 0..(events - 1) /\ next_event_no \in Nat
    BY DEF VInv, Loops, LoopInv, LoopTypeOK
  <2>2. next_event_no <= events'
    BY <1>2, <2>1
  <2>3. 0..(events - 1) \subseteq 0..(events' - 1)
    BY <1>2, Ranges
  <2>4. buffer \subseteq 0..(events' - 1)
    BY <2>1, <2>3
  <2>5. QED BY <1>1, <2>2, <2>4 DEF VInv, Loops, loopVars
<1>8. Phases'
  <2>1. ~(stage = "Finished" /\ alive /\ retry.phase # "idle")
    BY DEF VInv, Phases
  <2>2. QED BY <1>1, <2>1 DEF VInv, Phases, Joined, txVars
<1>9. Sockets'
  <2>1. ASSUME NEW c \in Conn, wire'[c] = "none" PROVE down'[c] = <<>>
    <3>1. wire[c] = "none" /\ c \notin serves
      BY <2>1 DEF VInv, Sockets
    <3>2. QED BY <1>3, <3>1 DEF VInv, Sockets
  <2>2. QED BY <1>1, <2>1 DEF VInv, Sockets
<1>10. \A c \in Conn : (Waiting(c) => Waiting(c)') /\ (Joining(c) => Joining(c)')
  BY <1>1 DEF Waiting, Joining, txVars
<1>11. Asking'
  <2>1. SUFFICES ASSUME NEW c \in Conn, NEW i \in DOMAIN proxy[c], IsInitialize(proxy[c][i])
                 PROVE  /\ \A j \in DOMAIN proxy[c] : j = 1
                        /\ down'[c] = <<>> /\ c \notin serves'
                        /\ IF proxy[c][i].known
                             THEN /\ Waiting(c)' /\ proxy[c][i].from <= next_event_no'
                                  /\ stage' = "Finished" /\ alive' => session' # "active"
                             ELSE Joining(c)' /\ proxy[c][i].from = 0
    BY <1>1 DEF Asking
  <2>2. /\ \A j \in DOMAIN proxy[c] : j = 1
        /\ down[c] = <<>> /\ c \notin serves
        /\ IF proxy[c][i].known
             THEN /\ Waiting(c) /\ proxy[c][i].from <= next_event_no
                  /\ stage = "Finished" /\ alive => session # "active"
             ELSE Joining(c) /\ proxy[c][i].from = 0
    BY <2>1 DEF VInv, Asking
  <2>3. QED BY <1>1, <1>3, <1>10, <2>2
<1>12. Answered'
  <2>1. SUFFICES ASSUME NEW c \in Conn, NEW i \in DOMAIN down'[c]
                 PROVE  /\ down'[c][i].type \in Replies => i = 1
                        /\ down'[c][i].type = "JoinedSuccessfully" => Joining(c)'
                        /\ down'[c][i].type = "RejoinedSuccessfully" =>
                             /\ Waiting(c)' /\ (stage' = "Finished" => ~alive')
                             /\ \A d \in serves' : d = c
                             /\ \A d \in Conn : \A j \in DOMAIN down'[d] :
                                   down'[d][j].type \in Endings => d = c
                        /\ down'[c][i].type = "FailedToJoin" =>
                             /\ Joining(c)' \/ Waiting(c)'
                             /\ \A j \in DOMAIN down'[c] : j = 1
                             /\ c \notin serves'
                        /\ down'[c][i].type \in Endings => session' # "active"
                        /\ down'[c][i].type = "OrderedTerminalEvent" => down'[c][i].no < events'
    BY DEF Answered
  <2>2. CASE c \in serves /\ down'[c][i] = m
    BY <2>2 DEF Replies
  <2>3. CASE i \in DOMAIN down[c] /\ down'[c][i] = down[c][i]
    <3>1. /\ down'[c][i].type \in Replies => i = 1
          /\ down'[c][i].type = "JoinedSuccessfully" => Joining(c)'
          /\ down'[c][i].type \notin Endings
      BY <1>10, <2>3 DEF VInv, Answered
    <3>2. ASSUME down'[c][i].type = "RejoinedSuccessfully"
          PROVE  /\ Waiting(c)' /\ (stage' = "Finished" => ~alive')
                 /\ \A d \in serves' : d = c
                 /\ \A d \in Conn : \A j \in DOMAIN down'[d] : down'[d][j].type \in Endings => d = c
      <4>1. /\ Waiting(c) /\ (stage = "Finished" => ~alive)
            /\ \A d \in serves : d = c
            /\ \A d \in Conn : \A j \in DOMAIN down[d] : down[d][j].type \in Endings => d = c
        BY <2>3, <3>2 DEF VInv, Answered
      <4>2. \A d \in Conn : \A j \in DOMAIN down'[d] : down'[d][j].type \in Endings => d = c
        BY <1>3, <4>1
      <4>3. QED BY <1>1, <1>10, <4>1, <4>2
    <3>3. ASSUME down'[c][i].type = "FailedToJoin"
          PROVE  /\ Joining(c)' \/ Waiting(c)'
                 /\ \A j \in DOMAIN down'[c] : j = 1
                 /\ c \notin serves'
      <4>1. /\ Joining(c) \/ Waiting(c)
            /\ \A j \in DOMAIN down[c] : j = 1
            /\ c \notin serves
        BY <2>3, <3>3 DEF VInv, Answered
      <4>2. down'[c] = down[c]
        BY <1>3, <4>1
      <4>3. QED BY <1>10, <4>1, <4>2
    <3>4. ASSUME down'[c][i].type = "OrderedTerminalEvent" PROVE down'[c][i].no < events'
      <4>1. down[c][i].no < events /\ down[c][i].no \in Int
        BY <2>3, <3>4, Positions, EventTypes, EventLoopAssumption DEF VInv, Answered, EventNo
      <4>2. QED BY <1>2, <2>3, <4>1
    <3>5. QED BY <3>1, <3>2, <3>3, <3>4
  <2>4. QED BY <1>3, <2>2, <2>3
<1>13. AnswerFirst'
  <2>1. SUFFICES ASSUME alive, stage = "BeforeJoined", sock[1] = "open"
                 PROVE  (1 \in serves' => down'[1] # <<>>) /\ (down'[1] # <<>> => down'[1][1].type \in Replies)
    BY <1>1 DEF AnswerFirst
  <2>2. (1 \in serves => down[1] # <<>>) /\ (down[1] # <<>> => down[1][1].type \in Replies)
    BY <2>1 DEF VInv, AnswerFirst
  <2>3. down[1] # <<>> => 1 \in DOMAIN down[1]
    BY Connections, Positions DEF VInv
  <2>4. QED BY <1>3, <2>2, <2>3, Connections
<1>14. NoGap'
  <2>1. SUFFICES ASSUME alive, NEW c \in serves', NEW n \in next_event_no..(events' - 1)
                 PROVE  n \in buffer \/ \E i \in DOMAIN down'[c] : down'[c][i] = Event(n)
    BY <1>1 DEF NoGap
  <2>2. c \in serves /\ c \in Conn
    BY <1>2
  <2>3. CASE n \in events..(events' - 1)
    BY <1>3, <2>2, <2>3
  <2>4. CASE n \notin events..(events' - 1)
    <3>1. n \in next_event_no..(events - 1)
      <4>1. next_event_no \in Nat
        BY DEF VInv, LoopInv, LoopTypeOK
      <4>2. QED BY <1>2, <2>4, <4>1, Ranges
    <3>2. n \in buffer \/ \E i \in DOMAIN down[c] : down[c][i] = Event(n)
      BY <2>1, <2>2, <3>1 DEF VInv, NoGap
    <3>3. QED BY <1>3, <2>2, <3>2
  <2>5. QED BY <2>3, <2>4
<1>15. QED BY <1>4, <1>5, <1>6, <1>7, <1>8, <1>9, <1>11, <1>12, <1>13, <1>14 DEF VInv

LEMMA ServerEventVInv == ASSUME VInv, ServerEvent PROVE VInv'
<1>1. /\ session = "active" /\ events' = events + 1 /\ events < MaxEvents
      /\ SendAll(Event(events)) /\ UNCHANGED <<vars, wire, serves, session, granted>>
  BY DEF ServerEvent, roleVars
<1>2. events \in 0..MaxEvents /\ events \in EventNo
  BY <1>1, EventLoopAssumption DEF VInv, SessionTypeOK, EventNo
<1>3. /\ Event(events) \in Downstream
      /\ Event(events).type = "OrderedTerminalEvent" /\ Event(events).no = events
  BY <1>2, EventTypes
<1>4. Event(events).type \notin Replies /\ Event(events).type \notin Endings
  BY <1>3 DEF Replies, Endings
<1>5. /\ events' \in 0..MaxEvents /\ events <= events' /\ Event(events).no < events'
      /\ \A n \in events..(events' - 1) : n = events
  BY <1>1, <1>2, <1>3, EventLoopAssumption
<1>6. granted' \in Roles /\ session' \in {"active", "ended", "removed"}
  BY <1>1 DEF VInv, SessionTypeOK
<1>7. QED BY <1>1, <1>3, <1>4, <1>5, <1>6, SendAllVInv

LEMMA ServerRoleVInv == ASSUME VInv, NEW r \in Roles, ServerRole(r) PROVE VInv'
<1> DEFINE m == [type |-> "ParticipantRoleChanged", role |-> r]
<1>1. /\ session = "active" /\ granted' = r
      /\ SendAll(m) /\ UNCHANGED <<vars, wire, serves, session, events>>
  BY DEF ServerRole
<1>2. /\ m \in Downstream
      /\ m.type \notin Replies /\ m.type \notin Endings /\ m.type # "OrderedTerminalEvent"
  BY DEF Downstream, Replies, Endings
<1>3. events' \in 0..MaxEvents /\ events <= events' /\ events..(events' - 1) = {}
  BY <1>1, EventLoopAssumption DEF VInv, SessionTypeOK
<1>4. granted' \in Roles /\ session' \in {"active", "ended", "removed"}
  BY <1>1 DEF VInv, SessionTypeOK
<1> HIDE DEF m
<1>5. QED BY <1>1, <1>2, <1>3, <1>4, SendAllVInv

LEMMA ServerEndsVInv == ASSUME VInv, NEW why \in {"ended", "removed"}, ServerEnds(why) PROVE VInv'
<1> DEFINE m == [type |-> IF why = "ended" THEN "SessionEnded" ELSE "ViewerRemoved"]
<1>1. /\ session = "active" /\ session' = why /\ serves' = {}
      /\ SendAll(m) /\ UNCHANGED <<vars, wire, events, granted>>
  BY DEF ServerEnds, roleVars
<1>2. /\ m \in Downstream
      /\ m.type \notin Replies /\ m.type # "OrderedTerminalEvent"
  BY DEF Downstream, Replies, Endings
<1>3. events' \in 0..MaxEvents /\ events <= events' /\ events..(events' - 1) = {}
  BY <1>1, EventLoopAssumption DEF VInv, SessionTypeOK
<1>4. granted' \in Roles /\ session' \in {"active", "ended", "removed"} /\ session' # "active"
  BY <1>1 DEF VInv, SessionTypeOK
<1> HIDE DEF m
<1>5. QED BY <1>1, <1>2, <1>3, <1>4, SendAllVInv

LEMMA ReplyTypes ==
    /\ \A n \in EventNo \cup {NoEvent}, r \in Roles :
         LET m == [type |-> "JoinedSuccessfully", latest |-> n, role |-> r]
         IN  m \in Downstream /\ m.type = "JoinedSuccessfully"
    /\ \A r \in Roles :
         LET m == [type |-> "RejoinedSuccessfully", role |-> r]
         IN  m \in Downstream /\ m.type = "RejoinedSuccessfully"
    /\ [type |-> "FailedToJoin"] \in Downstream /\ [type |-> "FailedToJoin"].type = "FailedToJoin"
<1> DEFINE J == {[type |-> "JoinedSuccessfully", latest |-> n, role |-> r] :
                    n \in EventNo \cup {NoEvent}, r \in Roles}
           R == {[type |-> "RejoinedSuccessfully", role |-> r] : r \in Roles}
           F == {[type |-> t] : t \in Endings \cup {"FailedToJoin"}}
<1>1. J \subseteq Downstream /\ R \subseteq Downstream /\ F \subseteq Downstream
  BY DEF Downstream
<1>2. /\ \A n \in EventNo \cup {NoEvent}, r \in Roles :
           [type |-> "JoinedSuccessfully", latest |-> n, role |-> r] \in J
      /\ \A r \in Roles : [type |-> "RejoinedSuccessfully", role |-> r] \in R
  OBVIOUS
<1>3. [type |-> "FailedToJoin"] \in F
  OBVIOUS
<1> HIDE DEF J, R, F
<1>4. QED BY <1>1, <1>2, <1>3

LEMMA AnswerElements ==
    ASSUME NEW S, NEW r \in S, NEW q \in Seq(S)
    PROVE  /\ <<>> \o (<<r>> \o q) = <<r>> \o q
           /\ <<r>> \o q \in Seq(S) /\ <<r>> \o q # <<>> /\ (<<r>> \o q)[1] = r
           /\ \A i \in DOMAIN (<<r>> \o q) : i = 1 \/ (i - 1 \in DOMAIN q /\ (<<r>> \o q)[i] = q[i - 1])
           /\ \A k \in DOMAIN q : k + 1 \in DOMAIN (<<r>> \o q) /\ (<<r>> \o q)[k + 1] = q[k]
OBVIOUS

LEMMA EventsFromElements ==
    ASSUME SessionTypeOK, NEW from \in Nat
    PROVE  /\ EventsFrom(from) \in Seq(Downstream)
           /\ \A i \in DOMAIN EventsFrom(from) :
                /\ EventsFrom(from)[i].type = "OrderedTerminalEvent"
                /\ EventsFrom(from)[i].no < events
           /\ \A n \in from..(events - 1) :
                \E i \in DOMAIN EventsFrom(from) : EventsFrom(from)[i] = Event(n)
<1>1. events \in Nat /\ events <= MaxEvents /\ MaxEvents \in Nat
  BY EventLoopAssumption DEF SessionTypeOK
<1> DEFINE D == 1..(events - from)
<1>2. ASSUME NEW i \in D PROVE from + i - 1 \in EventNo /\ from + i - 1 < events
  BY <1>1 DEF EventNo
<1>3. \A i \in D : /\ Event(from + i - 1) \in Downstream
                   /\ Event(from + i - 1).type = "OrderedTerminalEvent"
                   /\ Event(from + i - 1).no < events
  BY <1>2, EventTypes DEF EventNo
<1>4. EventsFrom(from) = [i \in D |-> Event(from + i - 1)]
  BY DEF EventsFrom
<1> DEFINE e(i) == Event(from + i - 1)
<1>5. D = 1..(IF from <= events THEN events - from ELSE 0)
  BY <1>1
<1>6. (IF from <= events THEN events - from ELSE 0) \in Nat
  BY <1>1
<1>7. \A i \in D : e(i) \in Downstream
  BY <1>3
<1> HIDE DEF e
<1>8. [i \in D |-> e(i)] \in Seq(Downstream)
  BY <1>5, <1>6, <1>7
<1>9. ASSUME NEW n \in from..(events - 1)
      PROVE  \E i \in D : e(i) = Event(n)
  <2>1. n - from + 1 \in D /\ from + (n - from + 1) - 1 = n
    BY <1>1
  <2>2. e(n - from + 1) = Event(n)
    BY <2>1 DEF e
  <2>3. QED BY <2>1, <2>2
<1>10. EventsFrom(from) = [i \in D |-> e(i)]
  BY <1>4 DEF e
<1>11. \A i \in D : e(i).type = "OrderedTerminalEvent" /\ e(i).no < events
  BY <1>3 DEF e
<1>12. QED BY <1>8, <1>9, <1>10, <1>11

\* The server answers a request with r, and then serves the viewer on the
\* request's connection, with events `rest', or drops the connection.
LEMMA AnswerVInv ==
    ASSUME VInv, NEW c \in Conn, Drain(c), wire[c] = "up",
           NEW i \in DOMAIN proxy[c], IsInitialize(proxy[c][i]),
           NEW r \in Downstream, r.type \in Replies, NEW rest \in Seq(Downstream),
           \A k \in DOMAIN rest : rest[k].type = "OrderedTerminalEvent" /\ rest[k].no < events,
           down' = [down EXCEPT ![c] = @ \o (<<r>> \o rest)],
           UNCHANGED <<events, session, granted>>,
           \/ /\ session = "active" /\ serves' = {c} /\ UNCHANGED wire
              /\ r.type = IF proxy[c][i].known THEN "RejoinedSuccessfully" ELSE "JoinedSuccessfully"
              /\ \A n \in proxy[c][i].from..(events - 1) : \E k \in DOMAIN rest : rest[k] = Event(n)
           \/ /\ r.type = "FailedToJoin" /\ rest = <<>>
              /\ wire' = [wire EXCEPT ![c] = "down"]
              /\ UNCHANGED serves
    PROVE  VInv'
<1>1. /\ UNCHANGED <<loopVars, alive, stage, id, joining, retry, reauthVars, inputVars, txVars, sock, join_failed>>
      /\ UNCHANGED <<next_event_no, buffer>>
  BY DEF Drain, loopVars
<1>2. /\ \A j \in DOMAIN proxy[c] : j = 1
      /\ down[c] = <<>> /\ c \notin serves
      /\ IF proxy[c][i].known
           THEN /\ Waiting(c) /\ proxy[c][i].from <= next_event_no
                /\ stage = "Finished" /\ alive => session # "active"
           ELSE Joining(c) /\ proxy[c][i].from = 0
  BY DEF VInv, Asking
<1>3. /\ down \in [Conn -> Seq(Downstream)] /\ serves \subseteq Conn /\ next_event_no \in Nat
      /\ wire \in [Conn -> {"none", "up", "down"}]
  BY DEF VInv, SessionTypeOK, LoopInv, LoopTypeOK
<1> DEFINE answer == <<r>> \o rest
<1>4. /\ answer \in Seq(Downstream) /\ answer # <<>> /\ answer[1] = r /\ 1 \in DOMAIN answer
      /\ <<>> \o answer = answer
      /\ \A j \in DOMAIN answer : j = 1 \/ (answer[j].type = "OrderedTerminalEvent" /\ answer[j].no < events)
      /\ \A k \in DOMAIN rest : \E j \in DOMAIN answer : answer[j] = rest[k]
      /\ rest = <<>> => \A j \in DOMAIN answer : j = 1
  <2>1. /\ <<>> \o (<<r>> \o rest) = <<r>> \o rest
        /\ <<r>> \o rest \in Seq(Downstream) /\ <<r>> \o rest # <<>> /\ (<<r>> \o rest)[1] = r
        /\ \A j \in DOMAIN (<<r>> \o rest) : j = 1 \/ (j - 1 \in DOMAIN rest /\ (<<r>> \o rest)[j] = rest[j - 1])
        /\ \A k \in DOMAIN rest : k + 1 \in DOMAIN (<<r>> \o rest) /\ (<<r>> \o rest)[k + 1] = rest[k]
    BY AnswerElements
  <2>2. 1 \in DOMAIN answer
    BY <2>1
  <2>3. rest = <<>> => DOMAIN rest = {}
    OBVIOUS
  <2>4. QED BY <2>1, <2>2, <2>3
<1> HIDE DEF answer
<1>5. /\ down'[c] = answer /\ down' \in [Conn -> Seq(Downstream)]
      /\ \A d \in Conn : d # c => down'[d] = down[d]
  BY <1>2, <1>3, <1>4 DEF answer
<1>6. /\ \A d \in Conn : d # c => wire'[d] = wire[d]
      /\ wire' \in [Conn -> {"none", "up", "down"}] /\ wire'[c] \in {"up", "down"}
      /\ serves' \subseteq serves \cup {c} /\ (c \in serves' => wire'[c] = "up" /\ session = "active")
      /\ (r.type = "FailedToJoin" <=> c \notin serves')
      /\ (c \in serves' => serves' = {c})
  BY <1>2, <1>3 DEF Replies
<1>7. NetworkTypeOK' /\ LoopInv' /\ Loops' /\ Phases'
  <2>1. LoopInv'
    BY <1>1, LoopStays DEF VInv
  <2>2. QED BY <1>1, <2>1 DEF VInv, NetworkTypeOK, LoopInv, Loops, Phases, Joined,
                              loopVars, reauthVars, inputVars, txVars
<1>8. SessionTypeOK'
  BY <1>1, <1>3, <1>5, <1>6, Drained DEF VInv, SessionTypeOK, inputVars
<1>9. Sockets'
  <2>1. sock[c] = "open"
    BY DEF VInv, Sockets
  <2>2. \A d \in serves' : d \in Conn /\ wire'[d] = "up"
    BY <1>3, <1>6 DEF VInv, Sockets
  <2>3. ASSUME NEW d \in Conn
        PROVE  /\ sock'[d] = "none" => wire'[d] = "none" /\ proxy'[d] = <<>>
               /\ wire'[d] = "none" => down'[d] = <<>>
               /\ wire'[d] = "up" => sock'[d] = "open"
    <3>1. CASE d = c
      BY <1>1, <1>6, <2>1, <3>1
    <3>2. CASE d # c
      BY <1>1, <1>5, <1>6, <3>2, Drained DEF VInv, Sockets
    <3>3. QED BY <3>1, <3>2
  <2>4. QED BY <2>2, <2>3 DEF Sockets
<1>10. \A d \in Conn : (Waiting(d) <=> Waiting(d)') /\ (Joining(d) <=> Joining(d)')
  BY <1>1 DEF Waiting, Joining, txVars
<1>11. \A d \in Conn : d # c => ~Confirmed(d)
  <2>1. SUFFICES ASSUME NEW d \in Conn, d # c, NEW j \in DOMAIN down[d],
                        down[d][j].type = "RejoinedSuccessfully"
                 PROVE  FALSE
    BY DEF Confirmed
  <2>2. Waiting(d)
    BY <2>1 DEF VInv, Answered
  <2>3. Joining(c)
    BY <1>2, <2>1, <2>2 DEF Waiting
  <2>4. sock[d] = "none"
    BY <2>2, <2>3 DEF Joining, Waiting
  <2>5. down[d] = <<>>
    BY <2>4, Unopened
  <2>6. QED BY <2>1, <2>5
<1>12. Asking'
  <2>1. SUFFICES ASSUME NEW d \in Conn, NEW j \in DOMAIN proxy'[d], IsInitialize(proxy'[d][j])
                 PROVE  /\ \A k \in DOMAIN proxy'[d] : k = 1
                        /\ down'[d] = <<>> /\ d \notin serves'
                        /\ IF proxy'[d][j].known
                             THEN /\ Waiting(d)' /\ proxy'[d][j].from <= next_event_no'
                                  /\ stage' = "Finished" /\ alive' => session' # "active"
                             ELSE Joining(d)' /\ proxy'[d][j].from = 0
    BY DEF Asking
  <2>2. d # c
    BY <2>1, Drained
  <2>3. proxy'[d] = proxy[d] /\ down'[d] = down[d]
    BY <1>5, <2>2, Drained
  <2>4. /\ \A k \in DOMAIN proxy[d] : k = 1
        /\ down[d] = <<>> /\ d \notin serves
        /\ IF proxy[d][j].known
             THEN /\ Waiting(d) /\ proxy[d][j].from <= next_event_no
                  /\ stage = "Finished" /\ alive => session # "active"
             ELSE Joining(d) /\ proxy[d][j].from = 0
    BY <2>1, <2>3 DEF VInv, Asking
  <2>5. QED BY <1>1, <1>6, <1>10, <2>2, <2>3, <2>4
<1>13. Answered'
  <2>1. SUFFICES ASSUME NEW d \in Conn, NEW j \in DOMAIN down'[d]
                 PROVE  /\ down'[d][j].type \in Replies => j = 1
                        /\ down'[d][j].type = "JoinedSuccessfully" => Joining(d)'
                        /\ down'[d][j].type = "RejoinedSuccessfully" =>
                             /\ Waiting(d)' /\ (stage' = "Finished" => ~alive')
                             /\ \A e \in serves' : e = d
                             /\ \A e \in Conn : \A k \in DOMAIN down'[e] :
                                   down'[e][k].type \in Endings => e = d
                        /\ down'[d][j].type = "FailedToJoin" =>
                             /\ Joining(d)' \/ Waiting(d)'
                             /\ \A k \in DOMAIN down'[d] : k = 1
                             /\ d \notin serves'
                        /\ down'[d][j].type \in Endings => session' # "active"
                        /\ down'[d][j].type = "OrderedTerminalEvent" => down'[d][j].no < events'
    BY DEF Answered
  <2>2. CASE d # c
    <3>1. down'[d] = down[d] /\ down[d][j].type # "RejoinedSuccessfully"
      BY <1>5, <1>11, <2>1, <2>2 DEF Confirmed
    <3>2. /\ down[d][j].type \in Replies => j = 1
          /\ down[d][j].type = "JoinedSuccessfully" => Joining(d)
          /\ down[d][j].type = "FailedToJoin" =>
               /\ Joining(d) \/ Waiting(d)
               /\ \A k \in DOMAIN down[d] : k = 1
               /\ d \notin serves
          /\ down[d][j].type \in Endings => session # "active"
          /\ down[d][j].type = "OrderedTerminalEvent" => down[d][j].no < events
      BY <2>1, <3>1 DEF VInv, Answered
    <3>3. d \in serves' => d \in serves
      BY <1>6, <2>2
    <3>4. QED BY <1>10, <3>1, <3>2, <3>3
  <2>3. CASE d = c /\ j # 1
    <3>1. down'[d][j].type = "OrderedTerminalEvent" /\ down'[d][j].no < events
      BY <1>4, <1>5, <2>1, <2>3
    <3>2. QED BY <3>1 DEF Replies, Endings
  <2>4. CASE d = c /\ j = 1
    <3>1. down'[d][j] = r /\ r.type \notin Endings /\ r.type # "OrderedTerminalEvent"
      BY <1>4, <1>5, <2>4 DEF Replies, Endings
    <3>2. r.type = "JoinedSuccessfully" => Joining(c)'
      BY <1>2, <1>10
    <3>3. ASSUME r.type = "RejoinedSuccessfully"
          PROVE  /\ Waiting(c)' /\ (stage' = "Finished" => ~alive')
                 /\ \A e \in serves' : e = c
                 /\ \A e \in Conn : \A k \in DOMAIN down'[e] : down'[e][k].type \in Endings => e = c
      <4>1. session = "active" /\ serves' = {c} /\ proxy[c][i].known
        BY <3>3
      <4>2. \A e \in Conn : \A k \in DOMAIN down[e] : down[e][k].type \notin Endings
        BY <4>1 DEF VInv, Answered
      <4>3. QED BY <1>1, <1>2, <1>5, <1>10, <4>1, <4>2
    <3>4. ASSUME r.type = "FailedToJoin"
          PROVE  /\ Joining(c)' \/ Waiting(c)'
                 /\ \A k \in DOMAIN down'[c] : k = 1
                 /\ c \notin serves'
      <4>1. rest = <<>>
        BY <3>4
      <4>2. QED BY <1>2, <1>4, <1>5, <1>6, <1>10, <3>4, <4>1
    <3>5. QED BY <2>4, <3>1, <3>2, <3>3, <3>4
  <2>5. QED BY <2>2, <2>3, <2>4
<1>14. AnswerFirst'
  <2>1. SUFFICES ASSUME alive, stage = "BeforeJoined", sock[1] = "open"
                 PROVE  (1 \in serves' => down'[1] # <<>>) /\ (down'[1] # <<>> => down'[1][1].type \in Replies)
    BY <1>1 DEF AnswerFirst
  <2>2. CASE c = 1
    BY <1>4, <1>5, <2>2
  <2>3. CASE c # 1
    <3>1. down'[1] = down[1] /\ (1 \in serves' => 1 \in serves)
      BY <1>5, <1>6, <2>3, Connections
    <3>2. QED BY <2>1, <3>1 DEF VInv, AnswerFirst
  <2>4. QED BY <2>2, <2>3
<1>15. NoGap'
  <2>1. SUFFICES ASSUME alive, NEW d \in serves', NEW n \in next_event_no..(events - 1)
                 PROVE  n \in buffer \/ \E k \in DOMAIN down'[d] : down'[d][k] = Event(n)
    BY <1>1 DEF NoGap
  <2>2. CASE d = c
    <3>1. \A k \in proxy[c][i].from..(events - 1) : \E j \in DOMAIN rest : rest[j] = Event(k)
      BY <1>6, <2>1, <2>2
    <3>2. proxy[c][i].from \in Nat /\ proxy[c][i].from <= next_event_no
      <4>1. proxy[c][i] \in Upstream
        BY Positions DEF VInv
      <4>2. QED BY <1>2, <1>3, <4>1, PlainTypes
    <3>3. n \in proxy[c][i].from..(events - 1)
      BY <1>3, <3>2
    <3>4. PICK k \in DOMAIN rest : rest[k] = Event(n)
      BY <3>1, <3>3
    <3>5. PICK j \in DOMAIN answer : answer[j] = rest[k]
      BY <1>4
    <3>6. QED BY <1>5, <2>2, <3>4, <3>5
  <2>3. CASE d # c
    BY <1>3, <1>5, <1>6, <2>1, <2>3 DEF VInv, NoGap
  <2>4. QED BY <2>2, <2>3
<1>16. QED BY <1>7, <1>8, <1>9, <1>12, <1>13, <1>14, <1>15 DEF VInv

LEMMA ServerInitializeVInv == ASSUME VInv, NEW c \in Conn, ServerInitialize(c) PROVE VInv'
<1> DEFINE m == Head(proxy[c])
<1>1. /\ Drain(c) /\ wire[c] = "up" /\ 1 \in DOMAIN proxy[c] /\ m = proxy[c][1] /\ IsInitialize(m)
      /\ m \in Upstream /\ m.from \in Nat /\ m.known \in BOOLEAN
      /\ UNCHANGED <<events, session, granted>>
  <2>1. /\ Drain(c) /\ wire[c] = "up" /\ proxy[c] # <<>> /\ m.type = "Initialize"
        /\ UNCHANGED <<events, session, granted>>
    BY DEF ServerInitialize, Reads, roleVars
  <2>2. 1 \in DOMAIN proxy[c] /\ m = proxy[c][1] /\ m \in Upstream
    BY <2>1, Positions DEF VInv
  <2>3. QED BY <2>1, <2>2, PlainTypes DEF IsInitialize
<1>2. PICK from \in Nat : from = m.from
  BY <1>1
<1>3. /\ EventsFrom(from) \in Seq(Downstream)
      /\ \A i \in DOMAIN EventsFrom(from) :
           /\ EventsFrom(from)[i].type = "OrderedTerminalEvent"
           /\ EventsFrom(from)[i].no < events
      /\ \A n \in from..(events - 1) :
           \E i \in DOMAIN EventsFrom(from) : EventsFrom(from)[i] = Event(n)
  BY EventsFromElements DEF VInv
<1>4. PICK rest \in Seq(Downstream) : rest = EventsFrom(from)
  BY <1>3
<1>5. events - 1 \in EventNo \cup {NoEvent} /\ granted \in Roles
  BY EventLoopAssumption DEF VInv, SessionTypeOK, EventNo, NoEvent
<1>6. CASE /\ session = "active" /\ ~m.known
           /\ Send(c, <<[type |-> "JoinedSuccessfully", latest |-> events - 1, role |-> granted]>>
                      \o EventsFrom(m.from))
           /\ serves' = {c}
           /\ UNCHANGED wire
  <2>1. PICK r \in Downstream :
           /\ r = [type |-> "JoinedSuccessfully", latest |-> events - 1, role |-> granted]
           /\ r.type = "JoinedSuccessfully"
    BY <1>5, ReplyTypes
  <2>2. down' = [down EXCEPT ![c] = @ \o (<<r>> \o rest)]
    BY <1>2, <1>4, <1>6, <2>1 DEF Send
  <2>3. QED BY <1>1, <1>2, <1>3, <1>4, <1>6, <2>1, <2>2, AnswerVInv DEF Replies
<1>7. CASE /\ session = "active" /\ m.known
           /\ Send(c, <<[type |-> "RejoinedSuccessfully", role |-> granted]>> \o EventsFrom(m.from))
           /\ serves' = {c}
           /\ UNCHANGED wire
  <2>1. PICK r \in Downstream :
           /\ r = [type |-> "RejoinedSuccessfully", role |-> granted]
           /\ r.type = "RejoinedSuccessfully"
    BY <1>5, ReplyTypes
  <2>2. down' = [down EXCEPT ![c] = @ \o (<<r>> \o rest)]
    BY <1>2, <1>4, <1>7, <2>1 DEF Send
  <2>3. QED BY <1>1, <1>2, <1>3, <1>4, <1>7, <2>1, <2>2, AnswerVInv DEF Replies
<1>8. CASE /\ Send(c, <<[type |-> "FailedToJoin"]>>)
           /\ wire' = [wire EXCEPT ![c] = "down"]
           /\ UNCHANGED serves
  <2>1. PICK r \in Downstream : r = [type |-> "FailedToJoin"] /\ r.type = "FailedToJoin"
    BY ReplyTypes
  <2>2. <<>> \in Seq(Downstream) /\ <<r>> \o <<>> = <<r>> /\ DOMAIN <<>> = {}
    OBVIOUS
  <2>3. down' = [down EXCEPT ![c] = @ \o (<<r>> \o <<>>)]
    BY <1>8, <2>1, <2>2 DEF Send
  <2>4. QED BY <1>1, <1>8, <2>1, <2>2, <2>3, AnswerVInv DEF Replies
<1>9. QED BY <1>6, <1>7, <1>8 DEF ServerInitialize

-----------------------------------------------------------------------------
\* What the viewer is brought, and connections that end.

LEMMA NoElements == \A S : \A q \in Seq(S) : DOMAIN q = {} => q = <<>>
<1> SUFFICES ASSUME NEW S, NEW q \in Seq(S), DOMAIN q = {} PROVE q = <<>>
  OBVIOUS
<1>1. Len(q) \in Nat /\ DOMAIN q = 1..Len(q)
  OBVIOUS
<1>2. Len(q) = 0
  BY <1>1
<1>3. QED BY <1>2, EmptySeq

\* Each element of what is left comes from its own place, or from the next.
LEMMA RemovedPositions ==
    ASSUME NEW S, NEW q \in Seq(S), NEW i \in DOMAIN q
    PROVE  /\ i \in 1..Len(q) /\ Len(q) \in Nat /\ DOMAIN q = 1..Len(q)
           /\ RemoveAt(q, i) \in Seq(S) /\ DOMAIN RemoveAt(q, i) = 1..(Len(q) - 1)
           /\ \A j \in 1..(Len(q) - 1) : RemoveAt(q, i)[j] = IF j < i THEN q[j] ELSE q[j + 1]
<1>1. i \in 1..Len(q) /\ Len(q) \in Nat /\ DOMAIN q = 1..Len(q)
  OBVIOUS
<1> DEFINE a == SubSeq(q, 1, i - 1)
           b == SubSeq(q, i + 1, Len(q))
<1>2. /\ a \in Seq(S) /\ Len(a) = i - 1
      /\ \A j \in 1..(i - 1) : a[j] = q[j]
  BY <1>1
<1>3. /\ b \in Seq(S) /\ Len(b) = Len(q) - i
      /\ \A j \in 1..(Len(q) - i) : b[j] = q[i + j]
  BY <1>1
<1>4. RemoveAt(q, i) = a \o b
  BY DEF RemoveAt
<1> HIDE DEF a, b
<1>5. /\ a \o b \in Seq(S) /\ DOMAIN (a \o b) = 1..(Len(q) - 1)
      /\ \A j \in 1..(Len(q) - 1) : (a \o b)[j] = IF j < i THEN q[j] ELSE q[j + 1]
  <2>1. /\ a \o b \in Seq(S) /\ Len(a \o b) = Len(a) + Len(b)
        /\ \A j \in 1..(Len(a) + Len(b)) : (a \o b)[j] = IF j <= Len(a) THEN a[j] ELSE b[j - Len(a)]
    BY <1>2, <1>3, ConcatProperties, Zenon
  <2>2. Len(a) + Len(b) = Len(q) - 1
    BY <1>1, <1>2, <1>3
  <2>3. ASSUME NEW j \in 1..(Len(q) - 1) PROVE (a \o b)[j] = IF j < i THEN q[j] ELSE q[j + 1]
    <3>1. CASE j < i
      BY <1>1, <1>2, <2>1, <2>2, <3>1
    <3>2. CASE ~(j < i)
      <4>1. j - (i - 1) \in 1..(Len(q) - i) /\ i + (j - (i - 1)) = j + 1 /\ ~(j <= i - 1)
        BY <1>1, <3>2
      <4>2. (a \o b)[j] = b[j - (i - 1)]
        BY <1>2, <2>1, <2>2, <4>1
      <4>3. b[j - (i - 1)] = q[i + (j - (i - 1))]
        BY <1>3, <4>1
      <4>4. QED BY <3>2, <4>1, <4>2, <4>3
    <3>3. QED BY <3>1, <3>2
  <2>4. DOMAIN (a \o b) = 1..(Len(q) - 1)
    BY <2>1, <2>2, LenProperties
  <2>5. QED BY <2>1, <2>3, <2>4
<1>6. QED BY <1>1, <1>4, <1>5

LEMMA RemovedElements ==
    ASSUME NEW S, NEW q \in Seq(S), NEW i \in DOMAIN q
    PROVE  /\ RemoveAt(q, i) \in Seq(S)
           /\ \A j \in DOMAIN RemoveAt(q, i) :
                \E k \in DOMAIN q : k >= j /\ k # i /\ RemoveAt(q, i)[j] = q[k] /\ (i = 1 => k > j)
           /\ \A k \in DOMAIN q : k = i \/ \E j \in DOMAIN RemoveAt(q, i) : RemoveAt(q, i)[j] = q[k]
<1> DEFINE left == RemoveAt(q, i)
<1>1. i \in 1..Len(q) /\ Len(q) \in Nat /\ DOMAIN q = 1..Len(q)
  BY RemovedPositions
<1>5. /\ left \in Seq(S) /\ DOMAIN left = 1..(Len(q) - 1)
      /\ \A j \in 1..(Len(q) - 1) : left[j] = IF j < i THEN q[j] ELSE q[j + 1]
  BY RemovedPositions
<1> HIDE DEF left
<1>6. ASSUME NEW j \in DOMAIN left
      PROVE  \E k \in DOMAIN q : k >= j /\ k # i /\ left[j] = q[k] /\ (i = 1 => k > j)
  <2>1. CASE j < i
    <3>1. j \in 1..(Len(q) - 1)
      BY <1>5
    <3>2. left[j] = q[j]
      BY <1>5, <2>1, <3>1
    <3>3. j \in DOMAIN q /\ j >= j /\ j # i /\ i # 1
      BY <1>1, <2>1, <3>1
    <3>4. QED BY <3>2, <3>3
  <2>2. CASE ~(j < i)
    <3>1. j \in 1..(Len(q) - 1)
      BY <1>5
    <3>2. left[j] = q[j + 1]
      BY <1>5, <2>2, <3>1
    <3>3. j + 1 \in DOMAIN q /\ j + 1 >= j /\ j + 1 # i /\ j + 1 > j
      BY <1>1, <2>2, <3>1
    <3>4. QED BY <3>2, <3>3
  <2>3. QED BY <2>1, <2>2
<1>7. ASSUME NEW k \in DOMAIN q, k # i
      PROVE  \E j \in DOMAIN left : left[j] = q[k]
  <2>1. CASE k < i
    <3>1. k \in 1..(Len(q) - 1)
      BY <1>1, <2>1
    <3>2. QED BY <1>5, <2>1, <3>1
  <2>2. CASE k > i
    <3>1. k - 1 \in 1..(Len(q) - 1) /\ ~(k - 1 < i) /\ (k - 1) + 1 = k
      BY <1>1, <2>2
    <3>2. QED BY <1>5, <3>1
  <2>3. QED BY <1>1, <1>7, <2>1, <2>2
<1>8. QED BY <1>5, <1>6, <1>7 DEF left

\* The tail is what is left without the first.
LEMMA TailRemoves ==
    ASSUME NEW S, NEW q \in Seq(S), q # <<>>
    PROVE  Tail(q) = RemoveAt(q, 1) /\ 1 \in DOMAIN q
<1>1. Len(q) \in Nat /\ Len(q) > 0 /\ 1 \in DOMAIN q
  OBVIOUS
<1>2. SubSeq(q, 1, 0) = <<>> /\ SubSeq(q, 2, Len(q)) \in Seq(S)
  BY <1>1
<1>3. Tail(q) = SubSeq(q, 2, Len(q))
  BY <1>1
<1>4. <<>> \o SubSeq(q, 2, Len(q)) = SubSeq(q, 2, Len(q))
  BY <1>2
<1>5. RemoveAt(q, 1) = SubSeq(q, 1, 0) \o SubSeq(q, 2, Len(q))
  BY DEF RemoveAt
<1>6. QED BY <1>1, <1>2, <1>3, <1>4, <1>5

\* Message i of connection c is taken.
Taken(c, i) == down' = [down EXCEPT ![c] = RemoveAt(@, i)]

LEMMA TakenElements ==
    ASSUME SessionTypeOK, NEW c \in Conn, NEW i \in DOMAIN down[c], Taken(c, i)
    PROVE  /\ down' \in [Conn -> Seq(Downstream)]
           /\ DownOld
           /\ \A d \in Conn : d # c => down'[d] = down[d]
           /\ \A j \in DOMAIN down'[c] :
                \E k \in DOMAIN down[c] : k >= j /\ k # i /\ down'[c][j] = down[c][k] /\ (i = 1 => k > j)
           /\ \A d \in Conn : \A k \in DOMAIN down[d] :
                \/ d = c /\ k = i
                \/ \E j \in DOMAIN down'[d] : down'[d][j] = down[d][k]
<1>1. down \in [Conn -> Seq(Downstream)]
  BY DEF SessionTypeOK
<1>2. PICK q \in Seq(Downstream) : q = down[c]
  BY <1>1
<1>3. /\ RemoveAt(q, i) \in Seq(Downstream)
      /\ \A j \in DOMAIN RemoveAt(q, i) :
           \E k \in DOMAIN q : k >= j /\ k # i /\ RemoveAt(q, i)[j] = q[k] /\ (i = 1 => k > j)
      /\ \A k \in DOMAIN q : k = i \/ \E j \in DOMAIN RemoveAt(q, i) : RemoveAt(q, i)[j] = q[k]
  <2>1. i \in DOMAIN q
    BY <1>2
  <2>2. QED BY <2>1, RemovedElements
<1>4. /\ down' \in [Conn -> Seq(Downstream)] /\ down'[c] = RemoveAt(q, i)
      /\ \A d \in Conn : d # c => down'[d] = down[d]
  BY <1>1, <1>2, <1>3 DEF Taken
<1>5. DownOld
  <2>1. SUFFICES ASSUME NEW d \in Conn, NEW j \in DOMAIN down'[d]
                 PROVE  \E k \in DOMAIN down[d] : k >= j /\ down'[d][j] = down[d][k]
    BY DEF DownOld
  <2>2. CASE d = c
    BY <1>2, <1>3, <1>4, <2>2
  <2>3. CASE d # c
    <3>1. j \in DOMAIN down[d] /\ down'[d][j] = down[d][j] /\ j \in Nat
      BY <1>4, <2>3, Positions
    <3>2. j >= j
      BY <3>1
    <3>3. QED BY <3>1, <3>2
  <2>4. QED BY <2>2, <2>3
<1>6. QED BY <1>2, <1>3, <1>4, <1>5

\* A step that takes from what connections have brought, and sends nothing.
LEMMA BroughtVInv ==
    ASSUME VInv, NetworkTypeOK', LoopInv', Loops', Phases', AnswerFirst', DownOld,
           down' \in [Conn -> Seq(Downstream)],
           UNCHANGED <<proxy, sock, wire, serves, events, session, granted, pending_input_updates>>,
           next_event_no <= next_event_no', StillWaiting, NotFinished, EventsKept
    PROVE  VInv'
<1>1. SessionTypeOK'
  BY DEF VInv, SessionTypeOK
<1>2. ProxyOld
  BY ProxySame
<1>3. ASSUME NEW c \in Conn, wire[c] = "none" PROVE down'[c] = <<>>
  BY <1>1, <1>3, NothingNew DEF VInv, Sockets
<1>4. Sockets'
  BY <1>3 DEF VInv, Sockets
<1>5. QED BY <1>1, <1>2, <1>4, QuietVInv

\* What is left on its way is read later.
LEMMA NoEventLost ==
    ASSUME VInv, NEW c \in Conn, NEW i \in DOMAIN down[c], Taken(c, i), alive' => alive,
           UNCHANGED serves, buffer \subseteq buffer' \/ down[c][i].type = "OrderedTerminalEvent",
           \A n \in buffer : n < next_event_no' \/ n \in buffer',
           alive' /\ c \in serves /\ down[c][i].type = "OrderedTerminalEvent" =>
              down[c][i].no < next_event_no' \/ down[c][i].no \in buffer'
    PROVE  EventsKept
<1> SUFFICES ASSUME alive', NEW d \in serves, NEW n \in EventNo,
                    n \in buffer \/ \E k \in DOMAIN down[d] : down[d][k] = Event(n)
             PROVE  \/ n < next_event_no'
                    \/ n \in buffer'
                    \/ \E j \in DOMAIN down'[d] : down'[d][j] = Event(n)
  BY DEF EventsKept
<1>1. CASE n \in buffer
  BY <1>1
<1>2. CASE \E k \in DOMAIN down[d] : down[d][k] = Event(n)
  <2>1. PICK k \in DOMAIN down[d] : down[d][k] = Event(n)
    BY <1>2
  <2>2. d \in Conn /\ SessionTypeOK
    BY DEF VInv, SessionTypeOK
  <2>3. \/ d = c /\ k = i
        \/ \E j \in DOMAIN down'[d] : down'[d][j] = down[d][k]
    BY <2>2, TakenElements
  <2>4. Event(n).type = "OrderedTerminalEvent" /\ Event(n).no = n
    BY EventTypes DEF EventNo
  <2>5. QED BY <2>1, <2>3, <2>4
<1>3. QED BY <1>1, <1>2

LEMMA ReadIs ==
    ASSUME VInv, NEW c \in Conn, Delivers(c), NEW i \in Readable(c)
    PROVE  /\ i \in DOMAIN down[c] /\ down[c][i] \in Downstream
           /\ down[c][i].type # "OrderedTerminalEvent" => i = 1
           /\ stage = "BeforeJoined" => c = 1 /\ i = 1 /\ down[c][i].type \in Replies
           /\ alive /\ sock[c] = "open"
<1>1. /\ i \in DOMAIN down[c] /\ alive /\ sock[c] = "open"
      /\ i = 1 \/ \A j \in 1..i : down[c][j].type = "OrderedTerminalEvent"
  BY DEF Readable, Delivers
<1>2. i \in Nat /\ i > 0 /\ down[c][i] \in Downstream
  BY <1>1, Positions DEF VInv
<1>3. i \in 1..i /\ 1 \in 1..i
  BY <1>2
<1>4. ASSUME stage = "BeforeJoined" PROVE c = 1 /\ i = 1 /\ down[c][i].type \in Replies
  <2>1. c = 1
    BY <1>1, <1>4 DEF VInv, Phases
  <2>2. down[1] # <<>>
    BY <1>1, <2>1
  <2>3. down[1][1].type \in Replies
    BY <1>1, <1>4, <2>1, <2>2 DEF VInv, AnswerFirst
  <2>4. i = 1
    BY <1>1, <1>3, <2>1, <2>3 DEF Replies
  <2>5. QED BY <2>1, <2>3, <2>4
<1>5. QED BY <1>1, <1>2, <1>3, <1>4

LEMMA EventVInv ==
    ASSUME VInv, NEW c \in Conn, NEW i \in Readable(c), Taken(c, i),
           down[c][i].type = "OrderedTerminalEvent",
           RecvOrderedTerminalEvent(c, down[c][i].no),
           UNCHANGED <<wire, serves, events, session, granted>>
    PROVE  VInv'
<1>1. /\ UNCHANGED <<alive, stage, id, joining, retry, reauthVars, inputVars, txVars,
                     proxy, sock, join_failed>>
      /\ Delivers(c)
      /\ IF event_loop THEN ProcessOrderedTerminalEvent(down[c][i].no) ELSE UNCHANGED loopVars
  BY DEF RecvOrderedTerminalEvent
<1>2. /\ i \in DOMAIN down[c] /\ down[c][i] \in Downstream /\ alive
      /\ stage # "BeforeJoined"
  BY <1>1, ReadIs DEF Replies
<1>3. PICK n \in EventNo : n = down[c][i].no
  BY <1>2, EventTypes
<1>4. event_loop /\ ProcessOrderedTerminalEvent(n)
  BY <1>1, <1>2, <1>3 DEF VInv, Loops
<1> DEFINE held == buffer \cup {n}
           to == FlushedUpTo(held)
<1>5. /\ LoopInv' /\ event_loop'
      /\ to \in next_event_no..MaxEvents /\ next_event_no..(to - 1) \subseteq held
      /\ next_event_no' = to /\ buffer' = held \ (next_event_no..(to - 1))
  BY <1>4, EventKeepsLoopInv DEF VInv, ProcessOrderedTerminalEvent
<1>6. /\ next_event_no \in Nat /\ MaxEvents \in Nat /\ events \in Nat /\ next_event_no <= events
      /\ held \subseteq 0..(events - 1)
  <2>1. n < events
    BY <1>2, <1>3 DEF VInv, Answered
  <2>2. n \in Nat /\ events \in Nat /\ MaxEvents \in Nat
    BY EventLoopAssumption DEF EventNo, VInv, SessionTypeOK
  <2>3. n \in 0..(events - 1)
    BY <2>1, <2>2
  <2>4. next_event_no \in Nat /\ next_event_no <= events /\ buffer \subseteq 0..(events - 1)
    BY DEF VInv, Loops, LoopInv, LoopTypeOK
  <2>5. QED BY <2>2, <2>3, <2>4
<1> HIDE DEF held, to
<1>7. to \in Nat /\ next_event_no <= to
  BY <1>5, <1>6
<1>8. to <= events
  <2>1. CASE to = next_event_no
    BY <1>6, <2>1
  <2>2. CASE to # next_event_no
    <3>1. to - 1 \in next_event_no..(to - 1)
      BY <1>6, <1>7, <2>2
    <3>2. to - 1 \in 0..(events - 1)
      BY <1>5, <1>6, <3>1
    <3>3. QED BY <1>6, <1>7, <3>2
  <2>3. QED BY <2>1, <2>2
<1>9. Loops'
  BY <1>1, <1>4, <1>5, <1>6, <1>8 DEF VInv, Loops
<1>10. NetworkTypeOK' /\ Phases'
  BY <1>1, <1>5 DEF VInv, NetworkTypeOK, LoopInv, Phases, Joined, reauthVars, inputVars, txVars
<1>11. StillWaiting
  BY <1>1 DEF StillWaiting, Waiting, Joining, txVars
<1>12. AnswerFirst'
  BY <1>1, <1>2 DEF AnswerFirst
<1>13. /\ down' \in [Conn -> Seq(Downstream)] /\ DownOld
  BY <1>2, TakenElements DEF VInv
<1>14. NotFinished
  BY <1>1, <1>13, ProxySame, FinishedStays
<1>15. \A k \in held : k < next_event_no' \/ k \in buffer'
  <2>1. ASSUME NEW k \in held PROVE k \in Nat
    BY <1>6
  <2>2. ASSUME NEW k \in held, ~(k < to) PROVE k \notin next_event_no..(to - 1)
    BY <1>6, <1>7, <2>2
  <2>3. QED BY <1>5, <2>2
<1>16. EventsKept
  BY <1>1, <1>2, <1>3, <1>15, NoEventLost DEF held
<1>17. next_event_no <= next_event_no' /\ UNCHANGED <<proxy, sock, pending_input_updates>>
  BY <1>1, <1>5, <1>7 DEF inputVars
<1>18. QED BY <1>5, <1>9, <1>10, <1>11, <1>12, <1>13, <1>14, <1>16, <1>17, BroughtVInv

LEMMA RoleVInv ==
    ASSUME VInv, NEW c \in Conn, NEW i \in Readable(c), Taken(c, i),
           down[c][i].type = "ParticipantRoleChanged",
           RecvRoleChanged(c, down[c][i].role),
           UNCHANGED <<wire, serves, events, session, granted>>
    PROVE  VInv'
<1>1. /\ UNCHANGED <<alive, stage, id, joining, retry, reauthVars, inputVars, txVars,
                     proxy, sock, join_failed>>
      /\ Delivers(c)
      /\ IF event_loop THEN ChangeRole(down[c][i].role) ELSE UNCHANGED loopVars
  BY DEF RecvRoleChanged
<1>2. /\ i \in DOMAIN down[c] /\ down[c][i] \in Downstream /\ alive
      /\ stage # "BeforeJoined"
  BY <1>1, ReadIs DEF Replies
<1>3. PICK r \in Roles : r = down[c][i].role
  BY <1>2 DEF Downstream, Event, Endings
<1>4. LoopInv' /\ UNCHANGED <<event_loop, next_event_no, buffer>>
  <2>1. CASE UNCHANGED loopVars
    BY <2>1, LoopStays DEF VInv, loopVars
  <2>2. CASE ChangeRole(r)
    BY <2>2, RoleKeepsLoopInv DEF VInv, ChangeRole
  <2>3. QED BY <1>1, <1>3, <2>1, <2>2
<1>5. Loops' /\ NetworkTypeOK' /\ Phases'
  BY <1>1, <1>4 DEF VInv, Loops, NetworkTypeOK, LoopInv, Phases, Joined, reauthVars, inputVars, txVars
<1>6. StillWaiting
  BY <1>1 DEF StillWaiting, Waiting, Joining, txVars
<1>7. AnswerFirst'
  BY <1>1, <1>2 DEF AnswerFirst
<1>8. /\ down' \in [Conn -> Seq(Downstream)] /\ DownOld
  BY <1>2, TakenElements DEF VInv
<1>9. NotFinished
  BY <1>1, <1>8, ProxySame, FinishedStays
<1>10. EventsKept
  BY <1>1, <1>2, <1>4, NoEventLost
<1>11. next_event_no <= next_event_no' /\ UNCHANGED <<proxy, sock, pending_input_updates>>
  BY <1>1, <1>4 DEF inputVars, VInv, LoopInv, LoopTypeOK
<1>12. QED BY <1>4, <1>5, <1>6, <1>7, <1>8, <1>9, <1>10, <1>11, BroughtVInv

LEMMA EndedVInv ==
    ASSUME VInv, NEW c \in Conn, NEW i \in Readable(c), Taken(c, i),
           down[c][i].type \in Endings, RecvEnded(c),
           UNCHANGED <<wire, serves, events, session, granted>>
    PROVE  VInv'
<1>1. /\ UNCHANGED <<alive, id, joining, reauthVars, inputVars, ws_proxy_tx, proxy, sock, join_failed>>
      /\ Delivers(c) /\ stage' = "Finished" /\ tx_open' = FALSE /\ SharedSessionEnded
      /\ retry' = retry \/ (Abortable /\ retry' \in {Idle, Detached})
  BY DEF RecvEnded, CloseWithoutReconnection, Close
<1>2. /\ i \in DOMAIN down[c] /\ i = 1 /\ alive
      /\ stage # "BeforeJoined"
  BY <1>1, ReadIs DEF Replies, Endings
<1>3. session # "active"
  BY <1>2 DEF VInv, Answered
<1>4. LoopInv' /\ UNCHANGED <<event_loop, next_event_no, buffer>>
  BY <1>1, LoopEnds DEF VInv, SharedSessionEnded
<1>5. /\ retry' \in RetryState /\ (retry'.phase = "backoff" => retry'.left > 0)
      /\ (retry.phase = "idle" => retry'.phase = "idle")
  <2>1. retry \in RetryState /\ (retry.phase = "backoff" => retry.left > 0)
    BY DEF VInv, NetworkTypeOK, Phases
  <2>2. Idle \in RetryState /\ Idle.phase # "backoff" /\ Detached \in RetryState /\ Detached.phase = retry.phase
    BY <2>1, ViewerAssumption DEF ViewerAssumption, RetryState, Idle, Detached
  <2>3. QED BY <1>1, <2>1, <2>2 DEF Abortable
<1>6. NetworkTypeOK'
  BY <1>1, <1>4, <1>5 DEF VInv, NetworkTypeOK, LoopInv, reauthVars, inputVars, Stages
<1>7. Loops' /\ Phases'
  BY <1>1, <1>2, <1>3, <1>4, <1>5 DEF VInv, Loops, Phases, Joined
<1>8. StillWaiting
  BY <1>1, <1>2, <1>5 DEF StillWaiting, Waiting, Joining
<1>9. AnswerFirst'
  BY <1>1 DEF AnswerFirst
<1>10. /\ down' \in [Conn -> Seq(Downstream)] /\ DownOld
  BY <1>2, TakenElements DEF VInv
<1>11. \A d \in Conn : ~Confirmed(d)
  <2>1. SUFFICES ASSUME NEW d \in Conn, NEW j \in DOMAIN down[d], down[d][j].type = "RejoinedSuccessfully"
                 PROVE  FALSE
    BY DEF Confirmed
  <2>2. c = d /\ j = 1
    BY <1>2, <2>1 DEF VInv, Answered, Replies
  <2>3. QED BY <1>2, <2>1, <2>2 DEF Endings
<1>12. NotFinished
  BY <1>1, <1>3, <1>10, <1>11, OldRequests, ProxySame DEF NotFinished
<1>13. EventsKept
  <2>1. down[c][i].type # "OrderedTerminalEvent"
    BY DEF Endings
  <2>2. QED BY <1>1, <1>2, <1>4, <2>1, NoEventLost
<1>14. next_event_no <= next_event_no' /\ UNCHANGED <<proxy, sock, pending_input_updates>>
  BY <1>1, <1>4 DEF inputVars, VInv, LoopInv, LoopTypeOK
<1>15. QED BY <1>4, <1>6, <1>7, <1>8, <1>9, <1>10, <1>12, <1>13, <1>14, BroughtVInv

LEMMA FailedToJoinVInv ==
    ASSUME VInv, NEW c \in Conn, NEW i \in Readable(c), Taken(c, i),
           down[c][i].type = "FailedToJoin", RecvFailedToJoin(c),
           UNCHANGED <<wire, serves, events, session, granted>>
    PROVE  VInv'
<1>1. /\ UNCHANGED <<alive, id, joining, reauthVars, inputVars, proxy, sock>>
      /\ Delivers(c)
      /\ IF stage = "Reconnecting"
           THEN /\ CloseWithoutReconnection
                /\ SharedSessionEnded
                /\ UNCHANGED join_failed
           ELSE /\ join_failed' = TRUE
                /\ UNCHANGED <<loopVars, stage, retry, txVars>>
  BY DEF RecvFailedToJoin
<1>2. /\ i \in DOMAIN down[c] /\ i = 1 /\ alive
      /\ stage = "BeforeJoined" => c = 1
  BY <1>1, ReadIs DEF Replies
<1>3. /\ Joining(c) \/ Waiting(c)
      /\ \A j \in DOMAIN down[c] : j = 1
      /\ c \notin serves
  BY <1>2 DEF VInv, Answered
<1>4. /\ down' \in [Conn -> Seq(Downstream)] /\ DownOld
      /\ \A j \in DOMAIN down'[c] : \E k \in DOMAIN down[c] : k # i
  BY <1>2, TakenElements DEF VInv
<1>5. down'[c] = <<>>
  <2>1. DOMAIN down'[c] = {} /\ down'[c] \in Seq(Downstream)
    BY <1>2, <1>3, <1>4
  <2>2. QED BY <2>1, NoElements
<1>6. AnswerFirst'
  <2>1. SUFFICES ASSUME alive', stage' = "BeforeJoined", sock'[1] = "open"
                 PROVE  (1 \in serves' => down'[1] # <<>>) /\ (down'[1] # <<>> => down'[1][1].type \in Replies)
    BY DEF AnswerFirst
  <2>2. stage = "BeforeJoined"
    BY <1>1, <2>1 DEF CloseWithoutReconnection
  <2>3. QED BY <1>2, <1>3, <1>5, <2>2
<1>7. LoopInv' /\ UNCHANGED <<event_loop, next_event_no, buffer>>
  <2>1. CASE UNCHANGED loopVars
    BY <2>1, LoopStays DEF VInv, loopVars
  <2>2. CASE SharedSessionEnded
    BY <2>2, LoopEnds DEF VInv, SharedSessionEnded
  <2>3. QED BY <1>1, <2>1, <2>2
<1>8. EventsKept
  BY <1>1, <1>2, <1>7, NoEventLost
<1>9. next_event_no <= next_event_no' /\ UNCHANGED <<proxy, sock, pending_input_updates>>
  BY <1>1, <1>7 DEF inputVars, VInv, LoopInv, LoopTypeOK
<1>10. CASE stage = "Reconnecting"
  <2>1. Waiting(c)
    BY <1>2, <1>3, <1>10 DEF Joining
  <2>2. /\ stage' = "Finished" /\ tx_open' = FALSE /\ UNCHANGED <<ws_proxy_tx, join_failed>>
        /\ retry.phase = "idle" /\ UNCHANGED retry
    BY <1>1, <1>10, <2>1 DEF CloseWithoutReconnection, Close, Waiting, Abortable
  <2>3. NetworkTypeOK'
    BY <1>1, <1>7, <2>2 DEF VInv, NetworkTypeOK, LoopInv, reauthVars, inputVars, Stages
  <2>4. Loops' /\ Phases'
    BY <1>1, <1>2, <1>7, <1>10, <2>2 DEF VInv, Loops, Phases, Joined
  <2>5. StillWaiting
    BY <1>1, <1>2, <1>10, <2>2 DEF StillWaiting, Waiting, Joining
  <2>6. ASSUME NEW d \in Conn PROVE ~Resumes(d) /\ ~Confirmed(d)
    <3>1. Resumes(d) \/ Confirmed(d) => d = c
      BY <1>4, <1>1, <2>1, OldRequests, ProxySame DEF Waiting
    <3>2. ~Resumes(c)
      BY <1>2 DEF Resumes, VInv, Asking
    <3>3. ~Confirmed(c)
      BY <1>2, <1>3 DEF Confirmed
    <3>4. QED BY <3>1, <3>2, <3>3
  <2>7. NotFinished
    BY <1>1, <1>4, <2>6, OldRequests, ProxySame DEF NotFinished
  <2>8. QED BY <1>4, <1>6, <1>7, <1>8, <1>9, <2>3, <2>4, <2>5, <2>7, BroughtVInv
<1>11. CASE stage # "Reconnecting"
  <2>1. /\ join_failed' = TRUE /\ UNCHANGED <<loopVars, stage, retry, txVars>>
    BY <1>1, <1>11
  <2>2. NetworkTypeOK'
    BY <1>1, <1>7, <2>1 DEF VInv, NetworkTypeOK, LoopInv, reauthVars, inputVars, txVars
  <2>3. Loops' /\ Phases'
    BY <1>1, <1>7, <2>1 DEF VInv, Loops, Phases, Joined, txVars
  <2>4. StillWaiting
    BY <1>1, <2>1 DEF StillWaiting, Waiting, Joining, txVars
  <2>5. NotFinished
    BY <1>1, <1>4, <2>1, ProxySame, FinishedStays
  <2>6. QED BY <1>4, <1>6, <1>7, <1>8, <1>9, <2>2, <2>3, <2>4, <2>5, BroughtVInv
<1>12. QED BY <1>10, <1>11

\* The viewer has just joined: nobody asks, and no answer is under way.
LEMMA SettledVInv ==
    ASSUME VInv, NetworkTypeOK', SessionTypeOK', LoopInv', Loops', Phases', Sockets',
           stage' # "BeforeJoined", DownOld, UNCHANGED <<serves, events, session>>,
           \A d \in Conn : \A j \in DOMAIN proxy'[d] : ~IsInitialize(proxy'[d][j]),
           \A d \in Conn : \A j \in DOMAIN down'[d] : down'[d][j].type \notin Replies,
           next_event_no <= next_event_no', EventsKept
    PROVE  VInv'
<1>1. Asking' /\ AnswerFirst'
  BY DEF Asking, AnswerFirst
<1>2. Answered'
  <2>1. SUFFICES ASSUME NEW d \in Conn, NEW j \in DOMAIN down'[d]
                 PROVE  /\ down'[d][j].type \in Endings => session # "active"
                        /\ down'[d][j].type = "OrderedTerminalEvent" => down'[d][j].no < events
    BY DEF Answered, Replies
  <2>2. PICK k \in DOMAIN down[d] : down'[d][j] = down[d][k]
    BY DEF DownOld
  <2>3. QED BY <2>2 DEF VInv, Answered
<1>3. NoGap'
  BY NoGapStays
<1>4. QED BY <1>1, <1>2, <1>3 DEF VInv

\* The answer to connection c's request has been taken.
LEMMA AnswerTaken ==
    ASSUME VInv, alive, NEW c \in Conn, NEW i \in DOMAIN down[c], i = 1, Taken(c, i),
           \A d \in Conn : d # c => ~Waiting(d) /\ ~Joining(d)
    PROVE  /\ \A d \in Conn : \A j \in DOMAIN proxy[d] : ~IsInitialize(proxy[d][j])
           /\ \A d \in Conn : \A j \in DOMAIN down'[d] : down'[d][j].type \notin Replies
<1>1. ASSUME NEW d \in Conn, NEW j \in DOMAIN proxy[d], IsInitialize(proxy[d][j]) PROVE FALSE
  <2>1. (Waiting(d) \/ Joining(d)) /\ down[d] = <<>>
    BY <1>1 DEF VInv, Asking
  <2>2. down[c] # <<>>
    OBVIOUS
  <2>3. QED BY <2>1, <2>2
<1>2. ASSUME NEW d \in Conn, NEW j \in DOMAIN down'[d], down'[d][j].type \in Replies PROVE FALSE
  <2>1. CASE d # c
    <3>1. down'[d] = down[d]
      BY <2>1, TakenElements DEF VInv
    <3>2. QED BY <1>2, <2>1, <3>1 DEF VInv, Answered, Replies
  <2>2. CASE d = c
    <3>1. PICK k \in DOMAIN down[c] : k # i /\ down'[c][j] = down[c][k]
      BY <1>2, <2>2, TakenElements DEF VInv
    <3>2. k = 1
      BY <1>2, <2>2, <3>1 DEF VInv, Answered
    <3>3. QED BY <3>1, <3>2
  <2>3. QED BY <2>1, <2>2
<1>3. QED BY <1>1, <1>2

LEMMA JoinedVInv ==
    ASSUME VInv, NEW c \in Conn, NEW i \in Readable(c), Taken(c, i),
           down[c][i].type = "JoinedSuccessfully",
           RecvJoinedSuccessfully(c, down[c][i].latest, down[c][i].role),
           UNCHANGED <<wire, serves, events, session, granted>>
    PROVE  VInv'
<1>1. /\ UNCHANGED <<alive, joining, retry, reauthVars, inputVars, txVars, proxy, sock, join_failed>>
      /\ Delivers(c) /\ id' = TRUE /\ stage' = "JoinedSuccessfully"
      /\ NewEventLoop(down[c][i].latest, down[c][i].role)
  BY DEF RecvJoinedSuccessfully
<1>2. /\ i \in DOMAIN down[c] /\ i = 1 /\ alive /\ sock[c] = "open" /\ down[c][i] \in Downstream
  BY <1>1, ReadIs
<1>3. Joining(c) /\ c = 1 /\ stage = "BeforeJoined"
  BY <1>2 DEF VInv, Answered, Joining
<1>4. ~event_loop /\ next_event_no = 0 /\ buffer = {} /\ ws_proxy_tx = 1 /\ retry.phase = "idle" /\ ~joining
  BY <1>2, <1>3 DEF VInv, Loops, Phases
<1>5. PICK n \in EventNo \cup {NoEvent}, r \in Roles : n = down[c][i].latest /\ r = down[c][i].role
  BY <1>2 DEF Downstream, Event, Endings
<1>6. LoopInv'
  BY <1>1, <1>4, <1>5, JoinKeepsLoopInv DEF VInv
<1>7. event_loop' /\ next_event_no' = 0 /\ buffer' = {}
  BY <1>1 DEF NewEventLoop
<1>8. NetworkTypeOK' /\ Loops' /\ Phases'
  <2>1. NetworkTypeOK'
    BY <1>1, <1>6 DEF VInv, NetworkTypeOK, LoopInv, reauthVars, inputVars, txVars, Stages
  <2>2. Loops'
    BY <1>1, <1>4, <1>7 DEF VInv, Loops, SessionTypeOK
  <2>3. Phases'
    BY <1>1, <1>2, <1>3, <1>4 DEF VInv, Phases, Joined, txVars
  <2>4. QED BY <2>1, <2>2, <2>3
<1>9. \A d \in Conn : d # c => ~Waiting(d) /\ ~Joining(d)
  BY <1>3 DEF Waiting, Joining
<1>10. /\ \A d \in Conn : \A j \in DOMAIN proxy'[d] : ~IsInitialize(proxy'[d][j])
       /\ \A d \in Conn : \A j \in DOMAIN down'[d] : down'[d][j].type \notin Replies
  BY <1>1, <1>2, <1>9, AnswerTaken
<1>11. /\ down' \in [Conn -> Seq(Downstream)] /\ DownOld
  BY <1>2, TakenElements DEF VInv
<1>12. SessionTypeOK'
  BY <1>1, <1>11 DEF VInv, SessionTypeOK, inputVars
<1>13. Sockets'
  <2>1. ASSUME NEW d \in Conn, wire[d] = "none" PROVE down'[d] = <<>>
    BY <1>11, <1>12, <2>1, NothingNew DEF VInv, Sockets
  <2>2. QED BY <1>1, <2>1 DEF VInv, Sockets
<1>14. EventsKept
  BY <1>1, <1>2, <1>4, <1>7, NoEventLost
<1>15. next_event_no <= next_event_no'
  BY <1>4, <1>7
<1>16. QED BY <1>1, <1>6, <1>8, <1>10, <1>11, <1>12, <1>13, <1>14, <1>15, SettledVInv

LEMMA RejoinedVInv ==
    ASSUME VInv, NEW c \in Conn, NEW i \in Readable(c), Taken(c, i),
           down[c][i].type = "RejoinedSuccessfully",
           RecvRejoinedSuccessfully(c, down[c][i].role),
           UNCHANGED <<wire, serves, events, session, granted>>
    PROVE  VInv'
<1>1. /\ UNCHANGED <<alive, id, joining, retry, reauthVars, next_buffer_seq_no, txVars, sock, join_failed>>
      /\ Delivers(c) /\ stage' = "JoinedSuccessfully"
      /\ proxy' = Queued(pending_input_updates) /\ pending_input_updates' = <<>>
      /\ ChangeRole(down[c][i].role)
  BY DEF RecvRejoinedSuccessfully, ListedRole
<1>2. /\ i \in DOMAIN down[c] /\ i = 1 /\ alive /\ sock[c] = "open" /\ down[c][i] \in Downstream
  BY <1>1, ReadIs
<1>3. Waiting(c) /\ c = ws_proxy_tx /\ stage = "Reconnecting" /\ retry.phase = "idle" /\ c # 1
  BY <1>2 DEF VInv, Answered, Waiting
<1>4. PICK r \in Roles : r = down[c][i].role
  BY <1>2 DEF Downstream, Event, Endings
<1>5. LoopInv' /\ UNCHANGED <<event_loop, next_event_no, buffer>>
  BY <1>1, <1>4, RoleKeepsLoopInv DEF VInv, ChangeRole
<1>6. NetworkTypeOK'
  <2>1. DOMAIN pending_input_updates' = {}
    BY <1>1
  <2>2. QED BY <1>1, <1>5, <2>1 DEF VInv, NetworkTypeOK, LoopInv, reauthVars, txVars, Stages
<1>7. Loops'
  BY <1>1, <1>3, <1>5 DEF VInv, Loops
<1>8. Phases'
  BY <1>1, <1>2, <1>3 DEF VInv, Phases, Joined, txVars
<1>9. \A d \in Conn : d # c => ~Waiting(d) /\ ~Joining(d)
  BY <1>2, <1>3 DEF Waiting, Joining
<1>10. /\ \A d \in Conn : \A j \in DOMAIN proxy[d] : ~IsInitialize(proxy[d][j])
       /\ \A d \in Conn : \A j \in DOMAIN down'[d] : down'[d][j].type \notin Replies
  BY <1>2, <1>9, AnswerTaken
<1>11. PICK q \in Seq(Plain) : q = pending_input_updates
  BY DEF VInv, SessionTypeOK, Plain
<1>12. /\ proxy' \in [Conn -> Seq(Upstream)]
       /\ \A d \in Conn : \A j \in DOMAIN proxy'[d] : ~IsInitialize(proxy'[d][j])
       /\ \A d \in Conn : sock[d] = "none" => proxy'[d] = <<>>
  BY <1>1, <1>2, <1>3, <1>10, <1>11, SentPlain
<1>13. /\ down' \in [Conn -> Seq(Downstream)] /\ DownOld
  BY <1>2, TakenElements DEF VInv
<1>14. SessionTypeOK'
  <2>1. pending_input_updates' \in Seq(InputMessage)
    BY <1>1
  <2>2. QED BY <1>12, <1>13, <2>1 DEF VInv, SessionTypeOK
<1>15. Sockets'
  <2>1. ASSUME NEW d \in Conn, wire[d] = "none" PROVE down'[d] = <<>>
    BY <1>13, <1>14, <2>1, NothingNew DEF VInv, Sockets
  <2>2. QED BY <1>1, <1>12, <2>1 DEF VInv, Sockets
<1>16. EventsKept
  BY <1>1, <1>2, <1>5, NoEventLost
<1>17. next_event_no <= next_event_no'
  BY <1>5 DEF VInv, LoopInv, LoopTypeOK
<1>18. QED BY <1>1, <1>5, <1>6, <1>7, <1>8, <1>10, <1>12, <1>13, <1>14, <1>15, <1>16, <1>17, SettledVInv

LEMMA DeliverVInv == ASSUME VInv, NEW c \in Conn, Deliver(c) PROVE VInv'
<1>1. PICK i \in Readable(c) :
         LET m == down[c][i] IN
         /\ down' = [down EXCEPT ![c] = RemoveAt(@, i)]
         /\ \/ m.type = "JoinedSuccessfully" /\ RecvJoinedSuccessfully(c, m.latest, m.role)
            \/ m.type = "RejoinedSuccessfully" /\ RecvRejoinedSuccessfully(c, m.role)
            \/ m.type = "OrderedTerminalEvent" /\ RecvOrderedTerminalEvent(c, m.no)
            \/ m.type \in {"SessionEnded", "ViewerRemoved"} /\ RecvEnded(c)
            \/ m.type = "FailedToJoin" /\ RecvFailedToJoin(c)
            \/ m.type = "ParticipantRoleChanged" /\ RecvRoleChanged(c, m.role)
  BY DEF Deliver
<1>2. Taken(c, i) /\ UNCHANGED <<wire, serves, events, session, granted>>
  BY <1>1 DEF Taken, Deliver, roleVars
<1>3. QED BY <1>1, <1>2, JoinedVInv, RejoinedVInv, EventVInv, EndedVInv, FailedToJoinVInv, RoleVInv
          DEF Endings

LEMMA DiscardVInv == ASSUME VInv, NEW c \in Conn, Discard(c) PROVE VInv'
<1>1. /\ down[c] # <<>> /\ down' = [down EXCEPT ![c] = Tail(@)]
      /\ ~Delivers(c) \/ (Joined /\ Head(down[c]).type \in {"JoinedSuccessfully", "RejoinedSuccessfully"})
      /\ UNCHANGED <<vars, wire, serves, events, session, granted>>
  BY DEF Discard, roleVars
<1>2. PICK q \in Seq(Downstream) : q = down[c]
  BY DEF VInv, SessionTypeOK
<1>3. 1 \in DOMAIN down[c] /\ Tail(down[c]) = RemoveAt(down[c], 1) /\ Head(down[c]) = down[c][1]
  <2>1. q # <<>>
    BY <1>1, <1>2
  <2>2. Tail(q) = RemoveAt(q, 1) /\ 1 \in DOMAIN q /\ Head(q) = q[1]
    BY <2>1, TailRemoves
  <2>3. QED BY <1>2, <2>2
<1>4. PICK i \in DOMAIN down[c] : i = 1 /\ Taken(c, i)
  BY <1>1, <1>3 DEF Taken
<1>5. /\ UNCHANGED <<loopVars, alive, stage, id, joining, retry, reauthVars, inputVars, txVars,
                     proxy, sock, join_failed>>
      /\ UNCHANGED <<next_event_no, buffer, pending_input_updates>>
  BY <1>1 DEF vars, loopVars, inputVars
<1>6. LoopInv'
  BY <1>5, LoopStays DEF VInv
<1>7. NetworkTypeOK' /\ Loops' /\ Phases'
  BY <1>1, <1>5, <1>6 DEF VInv, NetworkTypeOK, LoopInv, Loops, Phases, Joined,
                          loopVars, reauthVars, inputVars, txVars
<1>8. /\ down' \in [Conn -> Seq(Downstream)] /\ DownOld
      /\ \A d \in Conn : d # c => down'[d] = down[d]
  BY <1>4, TakenElements DEF VInv
<1>9. StillWaiting
  BY <1>5 DEF StillWaiting, Waiting, Joining, txVars
<1>10. AnswerFirst'
  <2>1. SUFFICES ASSUME alive, stage = "BeforeJoined", sock[1] = "open"
                 PROVE  (1 \in serves => down'[1] # <<>>) /\ (down'[1] # <<>> => down'[1][1].type \in Replies)
    BY <1>1, <1>5 DEF AnswerFirst
  <2>2. c # 1
    BY <1>1, <2>1 DEF Delivers, Joined
  <2>3. QED BY <1>8, <2>1, <2>2, Connections DEF VInv, AnswerFirst
<1>11. NotFinished
  BY <1>1, <1>5, <1>8, ProxySame, FinishedStays
<1>12. ASSUME alive, c \in serves PROVE down[c][i].type # "OrderedTerminalEvent"
  <2>1. Delivers(c)
    BY <1>12 DEF Delivers, VInv, Sockets
  <2>2. QED BY <1>1, <1>3, <1>4, <2>1
<1>13. EventsKept
  BY <1>1, <1>4, <1>5, <1>12, NoEventLost
<1>14. next_event_no <= next_event_no'
  BY <1>5 DEF VInv, LoopInv, LoopTypeOK
<1>15. QED BY <1>1, <1>5, <1>6, <1>7, <1>8, <1>9, <1>10, <1>11, <1>13, <1>14, BroughtVInv

\* The server's end of connection c goes down; what is on its way may be lost.
LEMMA DropVInv ==
    ASSUME VInv, NEW c \in Conn, wire[c] = "up", wire' = [wire EXCEPT ![c] = "down"],
           serves' = serves \ {c}, NEW kept \in {<<>>, down[c]}, down' = [down EXCEPT ![c] = kept],
           UNCHANGED <<vars, events, session, granted>>
    PROVE  VInv'
<1>1. /\ UNCHANGED <<loopVars, alive, stage, id, joining, retry, reauthVars, inputVars, txVars,
                     proxy, sock, join_failed>>
      /\ UNCHANGED <<next_event_no, buffer, pending_input_updates>>
  BY DEF vars, loopVars, inputVars
<1>2. LoopInv'
  BY <1>1, LoopStays DEF VInv
<1>3. NetworkTypeOK' /\ Loops' /\ Phases'
  BY <1>1, <1>2 DEF VInv, NetworkTypeOK, LoopInv, Loops, Phases, Joined,
                    loopVars, reauthVars, inputVars, txVars
<1>4. /\ down \in [Conn -> Seq(Downstream)] /\ <<>> \in Seq(Downstream)
      /\ wire \in [Conn -> {"none", "up", "down"}]
  BY DEF VInv, SessionTypeOK
<1>5. /\ down' \in [Conn -> Seq(Downstream)] /\ wire' \in [Conn -> {"none", "up", "down"}]
      /\ \A d \in Conn : d # c => down'[d] = down[d] /\ wire'[d] = wire[d]
      /\ wire'[c] = "down" /\ (down'[c] = <<>> \/ down'[c] = down[c])
  BY <1>4
<1>6. DownOld
  <2>1. SUFFICES ASSUME NEW d \in Conn, NEW i \in DOMAIN down'[d]
                 PROVE  \E k \in DOMAIN down[d] : k >= i /\ down'[d][i] = down[d][k]
    BY DEF DownOld
  <2>2. DOMAIN <<>> = {}
    OBVIOUS
  <2>3. down'[d] = down[d]
    BY <1>5, <2>1, <2>2
  <2>4. i \in DOMAIN down[d] /\ i \in Nat
    BY <2>3, Positions DEF VInv
  <2>5. i >= i
    BY <2>4
  <2>6. QED BY <2>3, <2>4, <2>5
<1>7. SessionTypeOK'
  BY <1>1, <1>5 DEF VInv, SessionTypeOK
<1>8. Sockets'
  <2>1. ASSUME NEW d \in Conn
        PROVE  /\ sock[d] = "none" => wire'[d] = "none" /\ proxy[d] = <<>>
               /\ wire'[d] = "none" => down'[d] = <<>>
               /\ wire'[d] = "up" => sock[d] = "open"
    <3>1. CASE d = c
      BY <1>5, <3>1 DEF VInv, Sockets
    <3>2. CASE d # c
      BY <1>5, <3>2 DEF VInv, Sockets
    <3>3. QED BY <3>1, <3>2
  <2>2. \A d \in serves' : d \in Conn /\ wire'[d] = "up"
    BY <1>5 DEF VInv, Sockets, SessionTypeOK
  <2>3. QED BY <1>1, <2>1, <2>2 DEF Sockets
<1>9. AnswerFirst'
  <2>1. SUFFICES ASSUME alive, stage = "BeforeJoined", sock[1] = "open"
                 PROVE  (1 \in serves' => down'[1] # <<>>) /\ (down'[1] # <<>> => down'[1][1].type \in Replies)
    BY <1>1 DEF AnswerFirst
  <2>2. (1 \in serves => down[1] # <<>>) /\ (down[1] # <<>> => down[1][1].type \in Replies)
    BY <2>1 DEF VInv, AnswerFirst
  <2>3. QED BY <1>5, <2>2, Connections
<1>10. StillWaiting
  BY <1>1 DEF StillWaiting, Waiting, Joining, txVars
<1>11. ProxyOld /\ NotFinished
  BY <1>1, <1>6, ProxySame, FinishedStays
<1>12. EventsKept
  BY <1>1, <1>5 DEF EventsKept, VInv, SessionTypeOK
<1>13. next_event_no <= next_event_no' /\ serves' \subseteq serves
  BY <1>1 DEF VInv, LoopInv, LoopTypeOK
<1>14. QED BY <1>2, <1>3, <1>6, <1>7, <1>8, <1>9, <1>10, <1>11, <1>12, <1>13, QuietVInv

LEMMA TransportVInv == ASSUME VInv, NEW c \in Conn, Hangup(c) \/ Break(c) PROVE VInv'
<1>1. CASE Hangup(c)
  <2>1. /\ wire[c] = "up" /\ wire' = [wire EXCEPT ![c] = "down"]
        /\ serves' = serves \ {c} /\ UNCHANGED <<vars, down, events, session, granted>>
    BY <1>1 DEF Hangup, roleVars
  <2>2. PICK kept \in {<<>>, down[c]} : kept = down[c]
    OBVIOUS
  <2>3. down' = [down EXCEPT ![c] = kept]
    BY <2>1, <2>2 DEF VInv, SessionTypeOK
  <2>4. QED BY <2>1, <2>3, DropVInv
<1>2. CASE Break(c)
  BY <1>2, DropVInv DEF Break, roleVars
<1>3. QED BY <1>1, <1>2

LEMMA SocketGoneVInv == ASSUME VInv, NEW c \in Conn, SocketGone(c) PROVE VInv'
<1>1. /\ UNCHANGED <<loopVars, alive, id, joining, reauthVars, inputVars, proxy, join_failed>>
      /\ wire[c] = "down" /\ alive /\ sock[c] = "open" /\ sock' = [sock EXCEPT ![c] = "done"]
      /\ \/ Joined /\ ReconnectWebsocket
         \/ /\ stage \in {"BeforeJoined", "Finished"}
            /\ Close
            /\ UNCHANGED stage
         \/ /\ stage = "Reconnecting"
            /\ UNCHANGED <<stage, retry, txVars>>
      /\ UNCHANGED <<wire, down, serves, events, session, granted>>
  BY DEF SocketGone, StreamDone, Delivers, serverVars, roleVars
<1>2. LoopInv' /\ UNCHANGED <<next_event_no, buffer, event_loop, pending_input_updates>>
  BY <1>1, LoopStays DEF VInv, loopVars, inputVars
<1>3. /\ UNCHANGED ws_proxy_tx /\ retry' \in RetryState /\ stage' \in Stages /\ tx_open' \in BOOLEAN
      /\ retry'.phase = "backoff" => retry'.left > 0
      /\ \/ Joined /\ stage' = "Reconnecting"
         \/ ~Joined /\ UNCHANGED <<stage, retry>>
  <2>1. CASE Joined /\ ReconnectWebsocket
    <3>1. UNCHANGED ws_proxy_tx
      BY <2>1 DEF ReconnectWebsocket, txVars
    <3>2. QED BY <1>1, <1>2, <2>1, <3>1, ReconnectBegins
  <2>2. CASE stage \in {"BeforeJoined", "Finished"} /\ Close /\ UNCHANGED stage
    BY <2>2 DEF Close, VInv, NetworkTypeOK, Phases, Joined
  <2>3. CASE stage = "Reconnecting" /\ UNCHANGED <<stage, retry, txVars>>
    BY <2>3 DEF VInv, NetworkTypeOK, Phases, txVars, Joined
  <2>4. QED BY <1>1, <2>1, <2>2, <2>3
<1>4. /\ sock' \in [Conn -> {"none", "open", "done"}] /\ sock'[c] = "done"
      /\ \A d \in Conn : d # c => sock'[d] = sock[d]
  BY <1>1 DEF VInv, NetworkTypeOK
<1>5. NetworkTypeOK'
  BY <1>1, <1>2, <1>3, <1>4 DEF VInv, NetworkTypeOK, LoopInv, reauthVars, inputVars
<1>6. Loops'
  BY <1>1, <1>2, <1>3 DEF VInv, Loops, Joined
<1>7. Phases'
  <2>1. joining => c # 1
    BY <1>1 DEF VInv, Phases
  <2>2. QED BY <1>1, <1>3, <1>4, <2>1, Connections DEF VInv, Phases, Joined
<1>8. SessionTypeOK'
  BY <1>1, <1>2 DEF VInv, SessionTypeOK
<1>9. Sockets'
  <2>1. ASSUME NEW d \in Conn
        PROVE  /\ sock'[d] = "none" => wire[d] = "none" /\ proxy[d] = <<>>
               /\ wire[d] = "none" => down[d] = <<>>
               /\ wire[d] = "up" => sock'[d] = "open"
    <3>1. CASE d = c
      BY <1>1, <1>4, <3>1
    <3>2. CASE d # c
      BY <1>4, <3>2 DEF VInv, Sockets
    <3>3. QED BY <3>1, <3>2
  <2>2. QED BY <1>1, <2>1 DEF VInv, Sockets
<1>10. AnswerFirst'
  <2>1. SUFFICES ASSUME alive, stage' = "BeforeJoined", sock'[1] = "open"
                 PROVE  (1 \in serves => down[1] # <<>>) /\ (down[1] # <<>> => down[1][1].type \in Replies)
    BY <1>1 DEF AnswerFirst
  <2>2. stage = "BeforeJoined" /\ sock[1] = "open"
    BY <1>3, <1>4, <2>1, Connections
  <2>3. QED BY <2>1, <2>2 DEF VInv, AnswerFirst
<1>11. StillWaiting
  BY <1>1, <1>3, <1>4 DEF StillWaiting, Waiting, Joining, Joined
<1>12. ProxyOld /\ DownOld
  BY <1>1, ProxySame, DownSame DEF VInv
<1>13. NotFinished
  BY <1>1, <1>3, <1>12, FinishedStays
<1>14. EventsKept
  BY <1>1, <1>2 DEF EventsKept
<1>15. next_event_no <= next_event_no' /\ serves' \subseteq serves
  BY <1>1, <1>2 DEF VInv, LoopInv, LoopTypeOK
<1>16. QED BY <1>1, <1>2, <1>5, <1>6, <1>7, <1>8, <1>9, <1>10, <1>11, <1>12, <1>13, <1>14, <1>15, QuietVInv

-----------------------------------------------------------------------------
LEMMA StutterVInv == ASSUME VInv, UNCHANGED allVars PROVE VInv'
<1>1. UNCHANGED <<vars, wire, down, serves, events, session, granted>>
  BY DEF allVars, serverVars, roleVars
<1>2. /\ UNCHANGED <<loopVars, alive, stage, id, joining, retry, reauthVars, inputVars, txVars,
                     proxy, sock, join_failed>>
      /\ UNCHANGED <<next_event_no, buffer, pending_input_updates>>
  BY <1>1 DEF vars, loopVars, inputVars
<1>3. LoopInv'
  BY <1>2, LoopStays DEF VInv
<1>4. NetworkTypeOK' /\ Loops' /\ Phases' /\ AnswerFirst'
  BY <1>1, <1>2, <1>3 DEF VInv, NetworkTypeOK, LoopInv, Loops, Phases, Joined, AnswerFirst,
                          loopVars, reauthVars, inputVars, txVars
<1>5. StillWaiting
  BY <1>2 DEF StillWaiting, Waiting, Joining, txVars
<1>6. DownOld /\ down' \in [Conn -> Seq(Downstream)]
  BY <1>1, DownSame DEF VInv, SessionTypeOK
<1>7. NotFinished
  BY <1>1, <1>2, <1>6, ProxySame, FinishedStays
<1>8. EventsKept /\ next_event_no <= next_event_no'
  BY <1>1, <1>2 DEF EventsKept, VInv, LoopInv, LoopTypeOK
<1>9. QED BY <1>1, <1>2, <1>3, <1>4, <1>5, <1>6, <1>7, <1>8, BroughtVInv

LEMMA SessionNextVInv == VInv /\ [SessionNext]_allVars => VInv'
<1> SUFFICES ASSUME VInv, [SessionNext]_allVars PROVE VInv'
  OBVIOUS
<1>1. CASE UNCHANGED allVars
  BY <1>1, StutterVInv
<1>2. CASE ClientStep
  BY <1>2, ClientVInv
<1>3. ASSUME NEW c \in Conn,
             \/ Deliver(c) \/ Discard(c) \/ SocketGone(c)
             \/ Server(c) \/ Hangup(c) \/ Break(c) \/ Lose(c)
      PROVE  VInv'
  BY <1>3, DeliverVInv, DiscardVInv, SocketGoneVInv, ServerInitializeVInv, ReadsVInv, TransportVInv
     DEF Server
<1>4. CASE ServerEvent
  BY <1>4, ServerEventVInv
<1>5. CASE \E r \in Roles : ServerRole(r)
  BY <1>5, ServerRoleVInv
<1>6. CASE \E why \in {"ended", "removed"} : ServerEnds(why)
  BY <1>6, ServerEndsVInv
<1>7. QED BY <1>1, <1>2, <1>3, <1>4, <1>5, <1>6 DEF SessionNext

LEMMA SessionInvariant == SessionSpec => []VInv
<1>1. QED BY InitVInv, SessionNextVInv, PTL DEF SessionSpec

\* The viewer's network and its event loop keep their types with the server
\* and the websockets plugged in.
THEOREM NetworkTypesHold == SessionSpec => []NetworkTypeOK
<1>1. VInv => NetworkTypeOK
  BY DEF VInv
<1>2. QED BY <1>1, SessionInvariant, PTL

\* Whichever connections break, overlap or deliver out of order, the terminal
\* processes the session's events in order, each once.
THEOREM SessionAppliedInOrder == SessionSpec => []AppliedInOrder
<1>1. VInv => AppliedInOrder
  BY DEF VInv, LoopInv
<1>2. QED BY <1>1, SessionInvariant, PTL

\* The viewer is active exactly when it has caught up, across reconnects, and
\* not once its session is over.
THEOREM SessionActiveOnceCaughtUp == SessionSpec => []ActiveIffCaughtUp
<1>1. VInv => ActiveIffCaughtUp
  BY DEF VInv, LoopInv
<1>2. QED BY <1>1, SessionInvariant, PTL

\* A reconnect leaves no gap: what the server sends on a connection continues
\* what the viewer has.
THEOREM ReconnectLeavesNoGap == SessionSpec => []StreamsContinue
<1>1. VInv => StreamsContinue
  BY DEF VInv, NoGap, StreamsContinue
<1>2. QED BY <1>1, SessionInvariant, PTL

-----------------------------------------------------------------------------
\* The refinement of OrderedLog.

LEMMA OverIs ==
    ASSUME alive, Over
    PROVE  stage = "Finished" \/ (stage = "BeforeJoined" /\ ~joining /\ sock[1] # "open")
BY DEF Over, StillJoining

LEMMA SameOver ==
    ASSUME UNCHANGED <<alive, stage, joining, sock>>
    PROVE  Over' = Over
BY DEF Over, StillJoining

\* A callback of the viewer does not show in the log, but may end the session.
LEMMA ClientLog ==
    ASSUME VInv, ClientStep
    PROVE  UNCHANGED <<applied, events>> /\ (Over => Over')
<1>1. UNCHANGED events /\ Client
  BY DEF ClientStep
<1>2. CASE JoinConnected \/ JoinNotConnected
  <2>1. UNCHANGED loopVars /\ alive /\ joining
    BY <1>2 DEF JoinConnected, JoinNotConnected
  <2>2. stage = "BeforeJoined"
    BY <2>1 DEF VInv, Phases
  <2>3. ~Over
    BY <2>1, <2>2, OverIs
  <2>4. QED BY <1>1, <2>1, <2>3 DEF loopVars
<1>3. ASSUME NEW c \in Conn, ReconnectOk(c)
      PROVE  UNCHANGED <<applied, events>> /\ (Over => Over')
  <2>1. UNCHANGED <<loopVars, alive, stage>> /\ alive /\ retry.phase = "dialing"
    BY <1>3 DEF ReconnectOk
  <2>2. stage # "BeforeJoined"
    BY <2>1 DEF VInv, Phases
  <2>3. Over => Over'
    BY <2>1, <2>2, OverIs DEF Over
  <2>4. QED BY <1>1, <2>1, <2>3 DEF loopVars
<1>4. CASE ReconnectErr
  <2>1. /\ UNCHANGED <<alive, joining, sock>> /\ (UNCHANGED stage \/ stage' = "Finished")
        /\ UNCHANGED applied
    BY <1>4 DEF ReconnectErr, SharedSessionEnded, loopVars
  <2>2. Over => Over'
    BY <2>1, SameOver DEF Over
  <2>3. QED BY <1>1, <2>1, <2>2
<1>5. CASE ReconnectTimer \/ Reauthenticate \/ \E b \in 0..MaxBlocks : SendInputUpdate(b)
  <2>1. UNCHANGED <<loopVars, alive, stage, joining, sock>>
    BY <1>5 DEF ReconnectTimer, Reauthenticate, SendInputUpdate
  <2>2. QED BY <1>1, <2>1, SameOver DEF loopVars
<1>6. CASE ReauthDone
  <2>1. /\ UNCHANGED <<loopVars, alive, joining, sock>> /\ alive
        /\ ReconnectWebsocket \/ UNCHANGED stage
    BY <1>6 DEF ReauthDone
  <2>2. UNCHANGED event_loop
    BY <2>1 DEF loopVars
  <2>3. Joined \/ UNCHANGED stage
    <3>1. CASE MayReconnect /\ event_loop
      BY <2>1, <3>1 DEF VInv, Loops, NetworkTypeOK, Stages, MayReconnect, Joined
    <3>2. CASE ~(MayReconnect /\ event_loop)
      BY <2>1, <3>2 DEF ReconnectWebsocket
    <3>3. QED BY <3>1, <3>2
  <2>4. Over => Over'
    BY <2>1, <2>3, OverIs, SameOver DEF Joined
  <2>5. QED BY <1>1, <2>1, <2>4 DEF loopVars
<1>7. CASE ClosePane
  BY <1>1, <1>7 DEF ClosePane, SharedSessionEnded, Over
<1>8. QED BY <1>1, <1>2, <1>3, <1>4, <1>5, <1>6, <1>7 DEF Client

LEMMA SocketGoneLog ==
    ASSUME VInv, NEW c \in Conn, SocketGone(c)
    PROVE  UNCHANGED <<applied, events>> /\ (Over => Over')
<1>1. /\ UNCHANGED <<loopVars, alive, joining, events>> /\ alive
      /\ sock' = [sock EXCEPT ![c] = "done"] /\ (Joined \/ UNCHANGED stage)
  BY DEF SocketGone, StreamDone, Delivers, serverVars
<1>2. sock[1] # "open" => sock'[1] # "open"
  BY <1>1, Connections DEF VInv, NetworkTypeOK
<1>3. Over => Over'
  BY <1>1, <1>2, OverIs DEF Over, StillJoining, Joined
<1>4. QED BY <1>1, <1>3 DEF loopVars

\* What the viewer is brought delivers the next events, or may end the session.
LEMMA DeliverLog ==
    ASSUME VInv, NEW c \in Conn, Deliver(c)
    PROVE  /\ UNCHANGED events
           /\ \/ UNCHANGED applied /\ (Over => Over')
              \/ Log!Deliver
<1>1. VInv' /\ UNCHANGED events
  BY DeliverVInv DEF Deliver
<1>2. PICK i \in Readable(c) :
         LET m == down[c][i] IN
         \/ m.type = "JoinedSuccessfully" /\ RecvJoinedSuccessfully(c, m.latest, m.role)
         \/ m.type = "RejoinedSuccessfully" /\ RecvRejoinedSuccessfully(c, m.role)
         \/ m.type = "OrderedTerminalEvent" /\ RecvOrderedTerminalEvent(c, m.no)
         \/ m.type \in {"SessionEnded", "ViewerRemoved"} /\ RecvEnded(c)
         \/ m.type = "FailedToJoin" /\ RecvFailedToJoin(c)
         \/ m.type = "ParticipantRoleChanged" /\ RecvRoleChanged(c, m.role)
  BY DEF Deliver
<1> DEFINE m == down[c][i]
<1>3. Delivers(c)
  BY <1>2 DEF RecvJoinedSuccessfully, RecvRejoinedSuccessfully, RecvOrderedTerminalEvent,
     RecvEnded, RecvFailedToJoin, RecvRoleChanged
<1>4. /\ i \in DOMAIN down[c] /\ m \in Downstream
      /\ stage = "BeforeJoined" => c = 1
      /\ alive /\ sock[c] = "open"
  BY <1>3, ReadIs
<1>5. Over => stage = "Finished"
  BY <1>4, OverIs
<1>6. CASE m.type = "JoinedSuccessfully" /\ RecvJoinedSuccessfully(c, m.latest, m.role)
  <2>1. Joining(c)
    BY <1>4, <1>6 DEF VInv, Answered
  <2>2. stage = "BeforeJoined" /\ next_event_no = 0
    BY <1>4, <2>1 DEF Joining, VInv, Loops
  <2>3. applied = <<>>
    <3>1. applied \in Seq(EventNo) /\ Len(applied) = 0
      BY <2>2 DEF VInv, LoopInv, LoopTypeOK, AppliedInOrder
    <3>2. QED BY <3>1, EmptySeq
  <2>4. applied' = <<>>
    BY <1>6 DEF RecvJoinedSuccessfully, NewEventLoop
  <2>5. QED BY <1>1, <1>5, <2>2, <2>3, <2>4
<1>7. CASE m.type = "RejoinedSuccessfully" /\ RecvRejoinedSuccessfully(c, m.role)
  <2>1. stage # "Finished"
    BY <1>4, <1>7 DEF VInv, Answered
  <2>2. UNCHANGED applied
    BY <1>7 DEF RecvRejoinedSuccessfully, ListedRole, ChangeRole
  <2>3. QED BY <1>1, <1>5, <2>1, <2>2
<1>8. CASE m.type \in {"SessionEnded", "ViewerRemoved"} /\ RecvEnded(c)
  <2>1. stage' = "Finished" /\ UNCHANGED applied
    BY <1>8 DEF RecvEnded, CloseWithoutReconnection, SharedSessionEnded
  <2>2. QED BY <1>1, <2>1 DEF Over
<1>9. CASE m.type = "FailedToJoin" /\ RecvFailedToJoin(c)
  <2>1. (stage' = "Finished" \/ UNCHANGED stage) /\ UNCHANGED applied
    BY <1>9 DEF RecvFailedToJoin, CloseWithoutReconnection, SharedSessionEnded, loopVars
  <2>2. QED BY <1>1, <1>5, <2>1 DEF Over
<1>10. CASE m.type = "ParticipantRoleChanged" /\ RecvRoleChanged(c, m.role)
  <2>1. UNCHANGED <<stage, applied>>
    BY <1>10 DEF RecvRoleChanged, ChangeRole, loopVars
  <2>2. QED BY <1>1, <1>5, <2>1 DEF Over
<1>11. CASE m.type = "OrderedTerminalEvent" /\ RecvOrderedTerminalEvent(c, m.no)
  <2>1. UNCHANGED <<alive, stage, joining, sock>>
    BY <1>11 DEF RecvOrderedTerminalEvent
  <2>2. Over' = Over
    BY <2>1, SameOver
  <2>3. CASE UNCHANGED loopVars
    BY <1>1, <2>2, <2>3 DEF loopVars
  <2>4. CASE ProcessOrderedTerminalEvent(m.no)
    <3>1. /\ applied' = applied \o [k \in 1..(next_event_no' - next_event_no) |-> next_event_no + k - 1]
      BY <2>4 DEF ProcessOrderedTerminalEvent
    <3>2. PICK log \in Seq(EventNo), n \in Nat, to \in Nat, e \in Nat :
             /\ log = applied /\ n = next_event_no /\ to = next_event_no' /\ e = events
             /\ Len(log) = n /\ to <= e
      BY <1>1 DEF VInv, LoopInv, LoopTypeOK, AppliedInOrder, Loops, SessionTypeOK
    <3>3. to - n \in 1..(e - n) \/ to - n < 1
      <4>1. to <= e
        BY <3>2
      <4>2. QED BY <4>1
    <3>4. CASE to - n \in 1..(e - n)
      BY <1>1, <2>2, <3>1, <3>2, <3>4 DEF Log!Deliver
    <3>5. CASE to - n < 1
      <4>1. 1..(to - n) = {}
        BY <3>5
      <4>2. [k \in 1..(to - n) |-> n + k - 1] = <<>>
        BY <4>1
      <4>3. applied' = applied
        <5>1. log \o <<>> = log
          OBVIOUS
        <5>2. QED BY <3>1, <3>2, <4>2, <5>1
      <4>4. QED BY <1>1, <2>2, <4>3
    <3>6. QED BY <3>3, <3>4, <3>5
  <2>5. QED BY <1>11, <2>3, <2>4 DEF RecvOrderedTerminalEvent
<1>12. QED BY <1>2, <1>6, <1>7, <1>8, <1>9, <1>10, <1>11

LEMMA OtherLog ==
    ASSUME VInv, NEW c \in Conn,
           \/ Discard(c) \/ Server(c) \/ Hangup(c) \/ Break(c) \/ Lose(c)
           \/ \E r \in Roles : ServerRole(r)
           \/ \E why \in {"ended", "removed"} : ServerEnds(why)
    PROVE  UNCHANGED <<applied, events, Over>>
<1>1. UNCHANGED <<loopVars, alive, stage, joining, sock, events>>
  <2>1. CASE \/ Discard(c) \/ Hangup(c) \/ Break(c)
             \/ \E r \in Roles : ServerRole(r)
             \/ \E why \in {"ended", "removed"} : ServerEnds(why)
    BY <2>1 DEF Discard, Hangup, Break, ServerRole, ServerEnds, vars
  <2>2. CASE Server(c) \/ Lose(c)
    BY <2>2 DEF Server, Lose, ServerInitialize, ServerInput, ServerReauthenticated, Reads, Drain, serverVars
  <2>3. QED BY <2>1, <2>2
<1>2. QED BY <1>1, SameOver DEF loopVars

LEMMA LogStep ==
    ASSUME VInv, [SessionNext]_allVars
    PROVE  [Log!Next]_(Log!vars)
<1>1. ASSUME UNCHANGED <<applied, events>>, Over => Over'
      PROVE  [Log!Next]_(Log!vars)
  <2>1. CASE Over' = TRUE
    BY <1>1, <2>1 DEF Log!Next, Log!End
  <2>2. CASE Over' # TRUE
    <3>1. Over' = Over
      BY <1>1, <2>2 DEF Over
    <3>2. QED BY <1>1, <3>1 DEF Log!vars
  <2>3. QED BY <2>1, <2>2
<1>2. CASE UNCHANGED allVars
  <2>1. UNCHANGED <<loopVars, alive, stage, joining, sock, events>>
    BY <1>2 DEF allVars, vars, serverVars
  <2>2. QED BY <1>1, <2>1, SameOver DEF loopVars
<1>3. CASE ClientStep
  BY <1>1, <1>3, ClientLog
<1>4. ASSUME NEW c \in Conn, Deliver(c) PROVE [Log!Next]_(Log!vars)
  BY <1>1, <1>4, DeliverLog DEF Log!Next
<1>5. ASSUME NEW c \in Conn, SocketGone(c) PROVE [Log!Next]_(Log!vars)
  BY <1>1, <1>5, SocketGoneLog
<1>6. ASSUME NEW c \in Conn, Discard(c) \/ Server(c) \/ Hangup(c) \/ Break(c) \/ Lose(c)
      PROVE  [Log!Next]_(Log!vars)
  BY <1>1, <1>6, OtherLog
<1>7. CASE (\E r \in Roles : ServerRole(r)) \/ \E why \in {"ended", "removed"} : ServerEnds(why)
  BY <1>1, <1>7, OtherLog, Connections
<1>8. CASE ServerEvent
  <2>1. UNCHANGED <<loopVars, alive, stage, joining, sock>> /\ events' = events + 1
    BY <1>8 DEF ServerEvent, vars
  <2>2. UNCHANGED applied /\ Over' = Over
    BY <2>1, SameOver DEF loopVars
  <2>3. QED BY <2>1, <2>2 DEF Log!Next, Log!Record
<1>9. QED BY <1>2, <1>3, <1>4, <1>5, <1>6, <1>7, <1>8 DEF SessionNext

\* The viewer, its connections and the server implement OrderedLog: what the
\* terminal processes is the session's events 0, 1, 2, ..., each once, and
\* once the session is over for the viewer it stays over.
THEOREM SessionImplementsLog == SessionSpec => ImplementsOrderedLog
<1>1. SessionInit => Log!Init
  BY DEF SessionInit, Init, LoopInit, Log!Init, Over, StillJoining
<1>2. VInv /\ [SessionNext]_allVars => [Log!Next]_(Log!vars)
  BY LogStep
<1>3. QED BY <1>1, <1>2, SessionInvariant, PTL DEF SessionSpec, ImplementsOrderedLog, Log!Spec

-----------------------------------------------------------------------------
(* The viewer's role *)

\* The messages that tell the viewer its role.
BearsRole(m) == m.type \in {"JoinedSuccessfully", "RejoinedSuccessfully", "ParticipantRoleChanged"}

\* A viewer of role `now' has role r once it has read q: the newest message
\* that bears a role says so, and without one it has it already.
Brings(q, now, r) ==
    /\ \A i \in DOMAIN q :
          BearsRole(q[i]) /\ (\A j \in DOMAIN q : BearsRole(q[j]) => j <= i) => q[i].role = r
    /\ (\A i \in DOMAIN q : ~BearsRole(q[i])) => now = r

LEMMA RoleTypes ==
    /\ \A m \in Downstream : BearsRole(m) => m.role \in Roles
    /\ \A m : m.type = "OrderedTerminalEvent" => ~BearsRole(m)
<1>1. \A m : m.type = "OrderedTerminalEvent" => ~BearsRole(m)
  BY DEF BearsRole
<1>2. ASSUME NEW m \in Downstream, BearsRole(m) PROVE m.role \in Roles
  BY <1>2 DEF Downstream, BearsRole, Event, Endings
<1>3. QED BY <1>1, <1>2

LEMMA BringsAfterAppend ==
    ASSUME NEW q \in Seq(Downstream), NEW m \in Downstream, NEW now, NEW r,
           BearsRole(m) => m.role = r, ~BearsRole(m) => Brings(q, now, r)
    PROVE  Brings(Append(q, m), now, r)
<1> DEFINE p == Append(q, m)
           n == Len(q) + 1
<1>1. /\ Len(q) \in Nat /\ DOMAIN q = 1..Len(q) /\ DOMAIN p = 1..n
      /\ \A i \in DOMAIN q : p[i] = q[i]
      /\ p[n] = m
  OBVIOUS
<1> HIDE DEF p
<1>2. n \in DOMAIN p /\ \A i \in DOMAIN p : i = n \/ (i \in DOMAIN q /\ i < n)
  BY <1>1
<1>3. \A i \in DOMAIN q : i \in DOMAIN p
  BY <1>1
<1> HIDE DEF n
<1>4. CASE BearsRole(m)
  <2>1. ASSUME NEW i \in DOMAIN p, \A j \in DOMAIN p : BearsRole(p[j]) => j <= i
        PROVE  i = n
    <3>1. n <= i
      BY <1>1, <1>2, <1>4, <2>1
    <3>2. i \in Int /\ n \in Int
      BY <1>1 DEF n
    <3>3. QED BY <1>2, <3>1, <3>2
  <2>2. QED BY <1>1, <1>2, <1>4, <2>1 DEF Brings, p
<1>5. CASE ~BearsRole(m)
  <2>1. ASSUME NEW i \in DOMAIN p, BearsRole(p[i]), \A j \in DOMAIN p : BearsRole(p[j]) => j <= i
        PROVE  p[i].role = r
    <3>1. i \in DOMAIN q /\ p[i] = q[i]
      BY <1>1, <1>2, <1>5, <2>1
    <3>2. \A j \in DOMAIN q : BearsRole(q[j]) => j <= i
      BY <1>1, <1>3, <2>1
    <3>3. QED BY <1>5, <2>1, <3>1, <3>2 DEF Brings
  <2>2. ASSUME \A i \in DOMAIN p : ~BearsRole(p[i]) PROVE now = r
    <3>1. \A i \in DOMAIN q : ~BearsRole(q[i])
      BY <1>1, <1>3, <2>2
    <3>2. QED BY <1>5, <3>1 DEF Brings
  <2>3. QED BY <2>1, <2>2 DEF Brings, p
<1>6. QED BY <1>4, <1>5

\* Taking a message that bears no role, or the oldest one, which does.
LEMMA BringsAfterTaking ==
    ASSUME NEW q \in Seq(Downstream), NEW i \in DOMAIN q, NEW now, NEW next, NEW r,
           Brings(q, now, r),
           IF BearsRole(q[i]) THEN i = 1 /\ next = q[i].role ELSE next = now
    PROVE  Brings(RemoveAt(q, i), next, r)
<1> DEFINE p == RemoveAt(q, i)
           was(j) == IF j < i THEN j ELSE j + 1
<1>1. /\ i \in 1..Len(q) /\ Len(q) \in Nat /\ DOMAIN q = 1..Len(q)
      /\ DOMAIN p = 1..(Len(q) - 1)
      /\ \A j \in 1..(Len(q) - 1) : p[j] = IF j < i THEN q[j] ELSE q[j + 1]
  BY RemovedPositions
<1> HIDE DEF p
<1>2. \A j \in DOMAIN p : was(j) \in DOMAIN q /\ was(j) # i /\ p[j] = q[was(j)]
  BY <1>1
<1>3. ASSUME NEW k \in DOMAIN q, k # i PROVE \E j \in DOMAIN p : was(j) = k
  <2>1. CASE k < i
    <3>1. k \in DOMAIN p /\ was(k) = k
      BY <1>1, <2>1
    <3>2. QED BY <3>1
  <2>2. CASE ~(k < i)
    <3>1. k - 1 \in DOMAIN p /\ was(k - 1) = k
      BY <1>1, <1>3, <2>2
    <3>2. QED BY <3>1
  <2>3. QED BY <2>1, <2>2
<1>4. \A j, k \in DOMAIN p : (j <= k) <=> (was(j) <= was(k))
  BY <1>1
<1>5. i = 1 => \A k \in DOMAIN q : i <= k
  BY <1>1
<1> HIDE DEF was
<1>6. ASSUME NEW j \in DOMAIN p, BearsRole(p[j]), \A k \in DOMAIN p : BearsRole(p[k]) => k <= j
      PROVE  p[j].role = r
  <2>1. was(j) \in DOMAIN q /\ p[j] = q[was(j)]
    BY <1>2
  <2>2. ASSUME NEW k \in DOMAIN q, BearsRole(q[k]) PROVE k <= was(j)
    <3>1. CASE k = i
      BY <1>5, <2>1, <2>2, <3>1
    <3>2. CASE k # i
      <4>1. PICK l \in DOMAIN p : was(l) = k
        BY <1>3, <3>2
      <4>2. l <= j
        BY <1>2, <1>6, <2>2, <4>1
      <4>3. QED BY <1>4, <4>1, <4>2
    <3>3. QED BY <3>1, <3>2
  <2>3. QED BY <1>6, <2>1, <2>2 DEF Brings
<1>7. ASSUME \A j \in DOMAIN p : ~BearsRole(p[j]) PROVE next = r
  <2>1. ASSUME NEW k \in DOMAIN q, BearsRole(q[k]) PROVE k = i
    BY <1>2, <1>3, <1>7, <2>1
  <2>2. CASE BearsRole(q[i])
    <3>1. \A k \in DOMAIN q : BearsRole(q[k]) => k <= i
      BY <1>1, <2>1
    <3>2. QED BY <2>2, <3>1 DEF Brings
  <2>3. CASE ~BearsRole(q[i])
    BY <2>1, <2>3 DEF Brings
  <2>4. QED BY <2>2, <2>3
<1>8. QED BY <1>6, <1>7 DEF Brings, p

\* An answer that bears the role, with events after it.
LEMMA BringsAfterAnswer ==
    ASSUME NEW m \in Downstream, NEW rest \in Seq(Downstream), NEW now,
           BearsRole(m), \A k \in DOMAIN rest : rest[k].type = "OrderedTerminalEvent"
    PROVE  Brings(<<m>> \o rest, now, m.role)
<1> DEFINE q == <<m>> \o rest
<1>1. /\ q[1] = m /\ 1 \in DOMAIN q
      /\ \A i \in DOMAIN q : i = 1 \/ (i - 1 \in DOMAIN rest /\ q[i] = rest[i - 1])
  <2>1. q # <<>> /\ q \in Seq(Downstream)
    BY AnswerElements
  <2>2. QED BY <2>1, AnswerElements, TailRemoves
<1> HIDE DEF q
<1>2. \A i \in DOMAIN q : BearsRole(q[i]) => i = 1
  BY <1>1, RoleTypes
<1>3. QED BY <1>1, <1>2 DEF Brings, q

\* While the session lasts and no reauthentication has begun ...
Undisturbed == alive /\ stage # "Finished" /\ reauths = 0

\* ... one connection is open at most, the one in use, and none during a
\* reconnect;
OneOpen == \A c \in Conn : sock[c] = "open" => c = ws_proxy_tx /\ retry.phase = "idle"

HasRole == stage # "BeforeJoined" => role # NoRole

\* what it still brings ends with the role the viewer was given.
RoleComes ==
    \A c \in serves :
       /\ ~Joined => down[c] # <<>> /\ down[c][1].type \in Replies
       /\ Brings(down[c], role, granted)

RoleInv == Undisturbed => OneOpen /\ HasRole /\ RoleComes

LEMMA InitRoleInv == SessionInit => RoleInv
BY DEF SessionInit, Init, RoleInv, OneOpen, HasRole, RoleComes

\* The viewer is served on the open connection only.
LEMMA ServedOnOpen ==
    ASSUME VInv, RoleInv, Undisturbed
    PROVE  \A c \in serves : /\ c \in Conn /\ sock[c] = "open" /\ wire[c] = "up"
                             /\ c = ws_proxy_tx /\ retry.phase = "idle"
BY DEF VInv, Sockets, SessionTypeOK, RoleInv, OneOpen

LEMMA SameRoleComes ==
    ASSUME RoleComes, UNCHANGED <<stage, role, down, granted>>, serves' \subseteq serves
    PROVE  RoleComes'
BY DEF RoleComes, Joined

LEMMA ClientRoles == ASSUME VInv, RoleInv, ClientStep PROVE RoleInv'
<1>1. Client /\ UNCHANGED <<down, serves, granted>>
  BY DEF ClientStep, roleVars
<1>2. SUFFICES ASSUME Undisturbed' PROVE OneOpen' /\ HasRole' /\ RoleComes'
  BY DEF RoleInv
<1>3. CASE JoinConnected
  <2>1. UNCHANGED <<alive, stage, reauths, retry, ws_proxy_tx, role>> /\ alive /\ joining
        /\ \A d \in Conn : d # 1 => sock'[d] = sock[d]
    BY <1>3 DEF JoinConnected, loopVars, reauthVars, txVars, VInv, NetworkTypeOK
  <2>2. stage = "BeforeJoined" /\ Undisturbed
    BY <1>2, <2>1 DEF VInv, Phases, Undisturbed
  <2>3. OneOpen'
    BY <2>1, <2>2 DEF VInv, Phases, OneOpen
  <2>4. QED BY <1>1, <2>1, <2>2, <2>3, SameRoleComes DEF RoleInv, HasRole
<1>4. CASE JoinNotConnected \/ ReconnectTimer \/ \E b \in 0..MaxBlocks : SendInputUpdate(b)
  <2>1. /\ UNCHANGED <<alive, stage, reauths, ws_proxy_tx, role, sock>>
        /\ retry.phase = "idle" => UNCHANGED retry
    BY <1>4 DEF JoinNotConnected, ReconnectTimer, SendInputUpdate, loopVars, reauthVars, txVars
  <2>2. Undisturbed
    BY <1>2, <2>1 DEF Undisturbed
  <2>3. OneOpen'
    BY <2>1, <2>2 DEF RoleInv, OneOpen
  <2>4. QED BY <1>1, <2>1, <2>2, <2>3, SameRoleComes DEF RoleInv, HasRole
<1>5. ASSUME NEW c \in Conn, ReconnectOk(c) PROVE OneOpen' /\ HasRole' /\ RoleComes'
  <2>1. /\ UNCHANGED <<alive, stage, reauths, role>> /\ retry.phase = "dialing"
        /\ ws_proxy_tx' = c /\ retry'.phase = "idle"
        /\ \A d \in Conn : d # c => sock'[d] = sock[d]
    BY <1>5 DEF ReconnectOk, loopVars, reauthVars, Idle, VInv, NetworkTypeOK
  <2>2. Undisturbed
    BY <1>2, <2>1 DEF Undisturbed
  <2>3. serves = {} /\ \A d \in Conn : sock[d] # "open"
    BY <2>1, <2>2, ServedOnOpen DEF RoleInv, OneOpen
  <2>4. QED BY <1>1, <2>1, <2>2, <2>3 DEF RoleInv, OneOpen, HasRole, RoleComes
<1>6. CASE ReconnectErr
  <2>1. /\ UNCHANGED <<alive, stage, reauths, ws_proxy_tx, role, sock>>
        /\ retry.phase = "dialing"
    BY <1>2, <1>6 DEF ReconnectErr, Undisturbed, loopVars, reauthVars
  <2>2. Undisturbed
    BY <1>2, <2>1 DEF Undisturbed
  <2>3. OneOpen'
    BY <2>1, <2>2 DEF RoleInv, OneOpen
  <2>4. QED BY <1>1, <2>1, <2>2, <2>3, SameRoleComes DEF RoleInv, HasRole
<1>7. CASE Reauthenticate \/ ReauthDone \/ ClosePane
  <2>1. ~Undisturbed'
    BY <1>7 DEF Reauthenticate, ReauthDone, ClosePane, Undisturbed, VInv, NetworkTypeOK
  <2>2. QED BY <1>2, <2>1
<1>8. QED BY <1>1, <1>3, <1>4, <1>5, <1>6, <1>7 DEF Client

\* A step that lets the viewer and what connections bring as they are.
LEMMA QuietRoles ==
    ASSUME RoleInv, UNCHANGED <<alive, stage, reauths, ws_proxy_tx, role, sock, retry, granted>>,
           serves' \subseteq serves, \A c \in serves' : down'[c] = down[c]
    PROVE  RoleInv'
BY DEF RoleInv, Undisturbed, OneOpen, HasRole, RoleComes, Joined

\* A message to every connection the viewer is served on; one that bears a
\* role has the role the viewer is given with it.
LEMMA SendAllRoles ==
    ASSUME VInv, RoleInv, NEW m \in Downstream, SendAll(m), UNCHANGED <<vars, serves>>,
           IF BearsRole(m) THEN granted' = m.role ELSE UNCHANGED granted
    PROVE  RoleInv'
<1>1. UNCHANGED <<alive, stage, reauths, ws_proxy_tx, role, sock, retry>>
  BY DEF vars, loopVars, reauthVars, txVars
<1>2. SUFFICES ASSUME Undisturbed PROVE RoleComes'
  BY <1>1 DEF RoleInv, Undisturbed, OneOpen, HasRole
<1>3. SUFFICES ASSUME NEW c \in serves
               PROVE  /\ ~Joined => down'[c] # <<>> /\ down'[c][1].type \in Replies
                      /\ Brings(down'[c], role, granted')
  BY <1>1 DEF RoleComes, Joined
<1>4. PICK q \in Seq(Downstream) : q = down[c]
  BY Positions DEF VInv, SessionTypeOK
<1>5. down'[c] = Append(q, m)
  BY <1>4 DEF SendAll, VInv, SessionTypeOK
<1>6. /\ ~Joined => q # <<>> /\ q[1].type \in Replies
      /\ Brings(q, role, granted)
  BY <1>2, <1>4 DEF RoleInv, RoleComes
<1>7. ASSUME ~Joined PROVE Append(q, m) # <<>> /\ Append(q, m)[1].type \in Replies
  <2>1. 1 \in DOMAIN q
    BY <1>6, <1>7, TailRemoves
  <2>2. QED BY <1>6, <1>7, <2>1, AppendElements
<1>8. Brings(Append(q, m), role, granted')
  BY <1>6, BringsAfterAppend
<1>9. QED BY <1>5, <1>7, <1>8

LEMMA ServerEventRoles == ASSUME VInv, RoleInv, ServerEvent PROVE RoleInv'
<1> DEFINE m == Event(events)
<1>1. events \in EventNo
  BY EventLoopAssumption DEF ServerEvent, VInv, SessionTypeOK, EventNo
<1>2. m \in Downstream /\ m.type = "OrderedTerminalEvent"
  BY <1>1, EventTypes DEF EventNo
<1>3. SendAll(m) /\ UNCHANGED <<vars, serves, granted>>
  BY DEF ServerEvent, roleVars
<1> HIDE DEF m
<1>4. QED BY <1>2, <1>3, SendAllRoles, RoleTypes

LEMMA ServerRoleRoles == ASSUME VInv, RoleInv, NEW r \in Roles, ServerRole(r) PROVE RoleInv'
<1> DEFINE m == [type |-> "ParticipantRoleChanged", role |-> r]
<1>1. m \in Downstream /\ BearsRole(m) /\ m.role = r
  BY DEF Downstream, BearsRole
<1>2. SendAll(m) /\ UNCHANGED <<vars, serves>> /\ granted' = r
  BY DEF ServerRole
<1> HIDE DEF m
<1>3. QED BY <1>1, <1>2, SendAllRoles

\* The server serves the viewer on the connection that asks, and tells it
\* its role; or does not serve it.
LEMMA ServerInitializeRoles ==
    ASSUME VInv, RoleInv, NEW c \in Conn, ServerInitialize(c) PROVE RoleInv'
<1> DEFINE m == Head(proxy[c])
<1>1. /\ wire[c] = "up" /\ 1 \in DOMAIN proxy[c] /\ IsInitialize(proxy[c][1])
      /\ m \in Upstream /\ m.from \in Nat
      /\ UNCHANGED <<loopVars, alive, stage, reauthVars, txVars, sock, retry, granted>>
  <2>1. /\ Drain(c) /\ wire[c] = "up" /\ proxy[c] # <<>> /\ m.type = "Initialize" /\ UNCHANGED granted
    BY DEF ServerInitialize, Reads, roleVars
  <2>2. 1 \in DOMAIN proxy[c] /\ m = proxy[c][1] /\ m \in Upstream
    BY <2>1, Positions DEF VInv
  <2>3. QED BY <2>1, <2>2, PlainTypes DEF IsInitialize, Drain
<1>2. UNCHANGED <<alive, stage, reauths, ws_proxy_tx, role, sock, retry, granted>>
  BY <1>1 DEF loopVars, reauthVars, txVars
<1>3. SUFFICES ASSUME Undisturbed PROVE RoleComes'
  BY <1>2 DEF RoleInv, Undisturbed, OneOpen, HasRole
<1>4. down[c] = <<>> /\ c \notin serves
  BY <1>1 DEF VInv, Asking
<1>5. serves = {}
  BY <1>1, <1>3, <1>4, ServedOnOpen DEF VInv, Sockets, RoleInv, OneOpen
<1>6. PICK from \in Nat : from = m.from
  BY <1>1
<1>7. /\ EventsFrom(from) \in Seq(Downstream)
      /\ \A i \in DOMAIN EventsFrom(from) : EventsFrom(from)[i].type = "OrderedTerminalEvent"
  BY EventsFromElements DEF VInv
<1>8. PICK rest \in Seq(Downstream) : rest = EventsFrom(from)
  BY <1>7
<1>9. events - 1 \in EventNo \cup {NoEvent} /\ granted \in Roles
  BY EventLoopAssumption DEF VInv, SessionTypeOK, EventNo, NoEvent
<1>10. CASE UNCHANGED serves
  BY <1>5, <1>10 DEF RoleComes
<1>11. ASSUME NEW a \in Downstream, a.type \in {"JoinedSuccessfully", "RejoinedSuccessfully"},
              a.role = granted, Send(c, <<a>> \o rest), serves' = {c}
       PROVE  RoleComes'
  <2>1. down'[c] = <<a>> \o rest
    <3>1. <<>> \o (<<a>> \o rest) = <<a>> \o rest
      BY AnswerElements
    <3>2. QED BY <1>4, <1>11, <3>1 DEF Send, VInv, SessionTypeOK
  <2>2. <<a>> \o rest # <<>> /\ (<<a>> \o rest)[1] = a
    BY AnswerElements
  <2>3. BearsRole(a) /\ a.type \in Replies
    BY <1>11 DEF BearsRole, Replies
  <2>4. Brings(<<a>> \o rest, role, granted)
    BY <1>7, <1>8, <1>11, <2>3, BringsAfterAnswer
  <2>5. QED BY <1>2, <1>11, <2>1, <2>2, <2>3, <2>4 DEF RoleComes
<1>12. CASE /\ Send(c, <<[type |-> "JoinedSuccessfully", latest |-> events - 1, role |-> granted]>>
                       \o EventsFrom(m.from))
            /\ serves' = {c}
  <2>1. PICK a \in Downstream :
           /\ a = [type |-> "JoinedSuccessfully", latest |-> events - 1, role |-> granted]
           /\ a.type = "JoinedSuccessfully"
    BY <1>9, ReplyTypes
  <2>2. a.role = granted
    BY <2>1
  <2>3. QED BY <1>6, <1>8, <1>11, <1>12, <2>1, <2>2
<1>13. CASE /\ Send(c, <<[type |-> "RejoinedSuccessfully", role |-> granted]>> \o EventsFrom(m.from))
            /\ serves' = {c}
  <2>1. PICK a \in Downstream :
           /\ a = [type |-> "RejoinedSuccessfully", role |-> granted]
           /\ a.type = "RejoinedSuccessfully"
    BY <1>9, ReplyTypes
  <2>2. a.role = granted
    BY <2>1
  <2>3. QED BY <1>6, <1>8, <1>11, <1>13, <2>1, <2>2
<1>14. QED BY <1>10, <1>12, <1>13 DEF ServerInitialize

\* The server ends the session or reads something else; a connection breaks
\* or loses what is sent.
LEMMA OtherRoles ==
    ASSUME VInv, RoleInv, NEW c \in Conn,
           \/ ServerInput(c) \/ ServerReauthenticated(c) \/ Hangup(c) \/ Break(c) \/ Lose(c)
           \/ \E why \in {"ended", "removed"} : ServerEnds(why)
    PROVE  RoleInv'
<1>1. CASE ServerInput(c) \/ ServerReauthenticated(c) \/ Lose(c)
  <2>1. /\ UNCHANGED <<loopVars, alive, stage, reauthVars, txVars, sock, retry>>
        /\ UNCHANGED <<granted, serves, down>>
    BY <1>1 DEF ServerInput, ServerReauthenticated, Lose, Reads, Drain, serverVars, roleVars
  <2>2. QED BY <2>1, QuietRoles DEF loopVars, reauthVars, txVars
<1>2. CASE Hangup(c) \/ Break(c) \/ \E why \in {"ended", "removed"} : ServerEnds(why)
  <2>1. UNCHANGED <<vars, granted>>
    BY <1>2 DEF Hangup, Break, ServerEnds, roleVars
  <2>2. serves' \subseteq serves /\ \A d \in serves' : down'[d] = down[d]
    <3>1. CASE Hangup(c)
      BY <3>1 DEF Hangup
    <3>2. CASE Break(c)
      BY <3>2 DEF Break, VInv, SessionTypeOK
    <3>3. CASE \E why \in {"ended", "removed"} : ServerEnds(why)
      BY <3>3 DEF ServerEnds
    <3>4. QED BY <1>2, <3>1, <3>2, <3>3
  <2>3. QED BY <2>1, <2>2, QuietRoles DEF vars, loopVars, reauthVars, txVars
<1>3. QED BY <1>1, <1>2

\* A message that finds nobody to read it, which is none while the viewer is
\* served.
LEMMA DiscardRoles == ASSUME VInv, RoleInv, NEW c \in Conn, Discard(c) PROVE RoleInv'
<1>1. /\ UNCHANGED <<vars, serves, granted>> /\ down[c] # <<>>
      /\ \/ ~Delivers(c)
         \/ Joined /\ Head(down[c]).type \in {"JoinedSuccessfully", "RejoinedSuccessfully"}
      /\ \A d \in Conn : d # c => down'[d] = down[d]
  BY DEF Discard, roleVars, VInv, SessionTypeOK
<1>2. UNCHANGED <<alive, stage, reauths, ws_proxy_tx, role, sock, retry>>
  BY <1>1 DEF vars, loopVars, reauthVars, txVars
<1>3. CASE ~Undisturbed
  BY <1>2, <1>3 DEF RoleInv, Undisturbed
<1>4. CASE Undisturbed
  <2>1. ASSUME c \in serves PROVE FALSE
    <3>1. Delivers(c)
      BY <1>4, <2>1, ServedOnOpen DEF Delivers, Undisturbed
    <3>2. /\ Joined /\ 1 \in DOMAIN down[c]
          /\ down[c][1].type \in {"JoinedSuccessfully", "RejoinedSuccessfully"}
      BY <1>1, <3>1, Positions DEF VInv
    <3>3. Joining(c) \/ Waiting(c)
      BY <3>2 DEF VInv, Answered
    <3>4. QED BY <1>4, <3>2, <3>3 DEF Joining, Waiting, Joined, Undisturbed
  <2>2. \A d \in serves : down'[d] = down[d]
    BY <1>1, <1>4, <2>1, ServedOnOpen
  <2>3. QED BY <1>1, <1>2, <2>2, QuietRoles
<1>5. QED BY <1>3, <1>4

\* The end of the connection in use leaves none.
LEMMA SocketGoneRoles == ASSUME VInv, RoleInv, NEW c \in Conn, SocketGone(c) PROVE RoleInv'
<1>1. /\ UNCHANGED <<loopVars, alive, reauthVars, serves>>
      /\ wire[c] = "down" /\ alive /\ sock[c] = "open"
      /\ sock' = [sock EXCEPT ![c] = "done"]
      /\ \/ Joined /\ ReconnectWebsocket
         \/ UNCHANGED stage
  BY DEF SocketGone, StreamDone, Delivers, serverVars
<1>2. UNCHANGED <<reauths, role>>
  BY <1>1 DEF loopVars, reauthVars
<1>3. SUFFICES ASSUME Undisturbed' PROVE OneOpen' /\ HasRole' /\ RoleComes'
  BY DEF RoleInv
<1>4. Undisturbed
  BY <1>1, <1>2, <1>3 DEF Undisturbed, Joined
<1>5. serves = {} /\ \A d \in Conn : sock[d] = "open" => d = c
  <2>1. \A d \in Conn : sock[d] = "open" => d = c
    BY <1>1, <1>4 DEF RoleInv, OneOpen
  <2>2. QED BY <1>1, <1>4, <2>1, ServedOnOpen
<1>6. \A d \in Conn : sock'[d] # "open"
  BY <1>1, <1>5 DEF VInv, NetworkTypeOK
<1>7. stage = "BeforeJoined" => stage' = "BeforeJoined"
  BY <1>1 DEF Joined
<1>8. QED BY <1>1, <1>2, <1>4, <1>5, <1>6, <1>7 DEF RoleInv, OneOpen, HasRole, RoleComes

\* What a message does to the viewer's role while nothing disturbs it.
LEMMA RoleRead ==
    ASSUME VInv, RoleInv, NEW c \in Conn, NEW i \in Readable(c), Taken(c, i), Undisturbed',
           LET m == down[c][i] IN
           \/ m.type = "JoinedSuccessfully" /\ RecvJoinedSuccessfully(c, m.latest, m.role)
           \/ m.type = "RejoinedSuccessfully" /\ RecvRejoinedSuccessfully(c, m.role)
           \/ m.type = "OrderedTerminalEvent" /\ RecvOrderedTerminalEvent(c, m.no)
           \/ m.type \in {"SessionEnded", "ViewerRemoved"} /\ RecvEnded(c)
           \/ m.type = "FailedToJoin" /\ RecvFailedToJoin(c)
           \/ m.type = "ParticipantRoleChanged" /\ RecvRoleChanged(c, m.role)
    PROVE  /\ Undisturbed /\ UNCHANGED <<retry, ws_proxy_tx, sock>>
           /\ i \in DOMAIN down[c] /\ sock[c] = "open"
           /\ HasRole'
           /\ IF BearsRole(down[c][i])
                THEN i = 1 /\ (c \in serves => role' = down[c][i].role /\ Joined')
                ELSE UNCHANGED role /\ (c \in serves => Joined /\ Joined')
<1> DEFINE m == down[c][i]
<1>1. Delivers(c)
  BY DEF RecvJoinedSuccessfully, RecvRejoinedSuccessfully, RecvOrderedTerminalEvent,
     RecvEnded, RecvFailedToJoin, RecvRoleChanged
<1>2. /\ i \in DOMAIN down[c] /\ m \in Downstream
      /\ m.type # "OrderedTerminalEvent" => i = 1
      /\ stage = "BeforeJoined" => i = 1 /\ m.type \in Replies
      /\ alive /\ sock[c] = "open"
  BY <1>1, ReadIs
<1>3. BearsRole(m) => m.role \in Roles /\ m.role # NoRole
  BY <1>2, RoleTypes, EventLoopAssumption
<1>4. CASE m.type = "JoinedSuccessfully" /\ RecvJoinedSuccessfully(c, m.latest, m.role)
  <2>1. /\ UNCHANGED <<alive, reauths, retry, ws_proxy_tx, sock>> /\ stage' = "JoinedSuccessfully"
        /\ role' = m.role
    BY <1>4 DEF RecvJoinedSuccessfully, NewEventLoop, reauthVars, txVars
  <2>2. BearsRole(m) /\ stage = "BeforeJoined"
    BY <1>2, <1>4 DEF BearsRole, VInv, Answered, Joining
  <2>3. QED BY <1>2, <1>3, <2>1, <2>2 DEF Undisturbed, HasRole, Joined
<1>5. CASE m.type = "RejoinedSuccessfully" /\ RecvRejoinedSuccessfully(c, m.role)
  <2>1. /\ UNCHANGED <<alive, reauths, retry, ws_proxy_tx, sock>> /\ stage' = "JoinedSuccessfully"
        /\ role' = IF role = NoRole THEN NoRole ELSE m.role
    BY <1>5 DEF RecvRejoinedSuccessfully, ListedRole, ChangeRole, reauthVars, txVars
  <2>2. BearsRole(m) /\ stage = "Reconnecting"
    BY <1>2, <1>5 DEF BearsRole, VInv, Answered, Waiting
  <2>3. Undisturbed
    BY <2>1, <2>2 DEF Undisturbed
  <2>4. role # NoRole
    BY <2>2, <2>3 DEF RoleInv, HasRole
  <2>5. QED BY <1>2, <1>3, <1>5, <2>1, <2>2, <2>3, <2>4 DEF HasRole, Joined
<1>6. CASE m.type = "OrderedTerminalEvent" /\ RecvOrderedTerminalEvent(c, m.no)
  <2>1. UNCHANGED <<alive, stage, reauths, retry, ws_proxy_tx, sock, role>>
    BY <1>6 DEF RecvOrderedTerminalEvent, ProcessOrderedTerminalEvent, loopVars, reauthVars, txVars
  <2>2. ~BearsRole(m) /\ Undisturbed
    BY <1>6, <2>1, RoleTypes DEF Undisturbed
  <2>3. ASSUME c \in serves PROVE Joined
    <3>1. down[c][1].type # "OrderedTerminalEvent" => i = 1
      <4>1. i \in Nat /\ i > 0
        BY <1>2, Positions DEF VInv
      <4>2. 1 \in 1..i
        BY <4>1
      <4>3. QED BY <4>2 DEF Readable
    <3>2. ~Joined => down[c][1].type \in Replies
      BY <2>2, <2>3 DEF RoleInv, RoleComes
    <3>3. QED BY <1>6, <3>1, <3>2 DEF Replies
  <2>4. QED BY <1>2, <2>1, <2>2, <2>3 DEF RoleInv, HasRole, Joined
<1>7. CASE m.type \in {"SessionEnded", "ViewerRemoved"} /\ RecvEnded(c)
  BY <1>7 DEF RecvEnded, CloseWithoutReconnection, Undisturbed
<1>8. CASE m.type = "FailedToJoin" /\ RecvFailedToJoin(c)
  <2>1. UNCHANGED <<alive, stage, reauths, retry, ws_proxy_tx, sock, role>>
    BY <1>8 DEF RecvFailedToJoin, CloseWithoutReconnection, Undisturbed, loopVars, reauthVars, txVars
  <2>2. ~BearsRole(m) /\ Undisturbed /\ c \notin serves
    BY <1>2, <1>8, <2>1 DEF BearsRole, Undisturbed, VInv, Answered
  <2>3. QED BY <1>2, <2>1, <2>2 DEF RoleInv, HasRole
<1>9. CASE m.type = "ParticipantRoleChanged" /\ RecvRoleChanged(c, m.role)
  <2>1. /\ UNCHANGED <<alive, stage, reauths, retry, ws_proxy_tx, sock>>
        /\ IF event_loop
             THEN role' = IF role = NoRole THEN NoRole ELSE m.role
             ELSE UNCHANGED role
    BY <1>9 DEF RecvRoleChanged, ChangeRole, loopVars, reauthVars, txVars
  <2>2. BearsRole(m) /\ Undisturbed /\ stage # "BeforeJoined"
    BY <1>2, <1>9, <2>1 DEF BearsRole, Undisturbed, Replies
  <2>3. role # NoRole /\ event_loop
    BY <1>2, <2>2 DEF RoleInv, HasRole, VInv, Loops
  <2>4. i = 1 /\ (c \in serves => Joined)
    BY <1>2, <1>9, <2>2 DEF RoleInv, RoleComes, Replies
  <2>5. QED BY <1>2, <1>3, <2>1, <2>2, <2>3, <2>4 DEF HasRole, Joined
<1>10. QED BY <1>4, <1>5, <1>6, <1>7, <1>8, <1>9

LEMMA DeliverRoles == ASSUME VInv, RoleInv, NEW c \in Conn, Deliver(c) PROVE RoleInv'
<1>1. PICK i \in Readable(c) :
         LET m == down[c][i] IN
         /\ down' = [down EXCEPT ![c] = RemoveAt(@, i)]
         /\ \/ m.type = "JoinedSuccessfully" /\ RecvJoinedSuccessfully(c, m.latest, m.role)
            \/ m.type = "RejoinedSuccessfully" /\ RecvRejoinedSuccessfully(c, m.role)
            \/ m.type = "OrderedTerminalEvent" /\ RecvOrderedTerminalEvent(c, m.no)
            \/ m.type \in {"SessionEnded", "ViewerRemoved"} /\ RecvEnded(c)
            \/ m.type = "FailedToJoin" /\ RecvFailedToJoin(c)
            \/ m.type = "ParticipantRoleChanged" /\ RecvRoleChanged(c, m.role)
  BY DEF Deliver
<1>2. Taken(c, i) /\ UNCHANGED <<serves, granted>>
  BY <1>1 DEF Taken, Deliver, roleVars
<1>3. SUFFICES ASSUME Undisturbed' PROVE OneOpen' /\ HasRole' /\ RoleComes'
  BY DEF RoleInv
<1>4. /\ Undisturbed /\ UNCHANGED <<retry, ws_proxy_tx, sock>>
      /\ i \in DOMAIN down[c] /\ sock[c] = "open"
      /\ HasRole'
      /\ IF BearsRole(down[c][i])
           THEN i = 1 /\ (c \in serves => role' = down[c][i].role /\ Joined')
           ELSE UNCHANGED role /\ (c \in serves => Joined /\ Joined')
  BY <1>1, <1>2, <1>3, RoleRead
<1>5. OneOpen'
  BY <1>4 DEF RoleInv, OneOpen
<1>6. ASSUME NEW d \in serves
      PROVE  Joined' /\ Brings(down'[d], role', granted)
  <2>1. d = c
    BY <1>4, ServedOnOpen DEF RoleInv, OneOpen, VInv, SessionTypeOK
  <2>2. PICK q \in Seq(Downstream) : q = down[c]
    BY Positions DEF VInv
  <2>3. i \in DOMAIN q /\ Brings(q, role, granted)
    BY <1>4, <2>1, <2>2 DEF RoleInv, RoleComes
  <2>4. Brings(RemoveAt(q, i), role', granted)
    BY <1>4, <2>1, <2>2, <2>3, BringsAfterTaking
  <2>5. down'[c] = RemoveAt(q, i)
    BY <1>2, <2>2 DEF Taken, VInv, SessionTypeOK
  <2>6. QED BY <1>4, <2>1, <2>4, <2>5
<1>7. RoleComes'
  BY <1>2, <1>6 DEF RoleComes
<1>8. QED BY <1>4, <1>5, <1>7

LEMMA SessionNextRoles == VInv /\ RoleInv /\ [SessionNext]_allVars => RoleInv'
<1> SUFFICES ASSUME VInv, RoleInv, [SessionNext]_allVars PROVE RoleInv'
  OBVIOUS
<1>1. CASE UNCHANGED allVars
  BY <1>1, QuietRoles DEF allVars, vars, loopVars, reauthVars, txVars, serverVars, roleVars
<1>2. CASE ClientStep
  BY <1>2, ClientRoles
<1>3. ASSUME NEW c \in Conn,
             \/ Deliver(c) \/ Discard(c) \/ SocketGone(c)
             \/ Server(c) \/ Hangup(c) \/ Break(c) \/ Lose(c)
      PROVE  RoleInv'
  BY <1>3, DeliverRoles, DiscardRoles, SocketGoneRoles, ServerInitializeRoles, OtherRoles DEF Server
<1>4. CASE ServerEvent
  BY <1>4, ServerEventRoles
<1>5. CASE \E r \in Roles : ServerRole(r)
  BY <1>5, ServerRoleRoles
<1>6. CASE \E why \in {"ended", "removed"} : ServerEnds(why)
  BY <1>6, OtherRoles, Connections
<1>7. QED BY <1>1, <1>2, <1>3, <1>4, <1>5, <1>6 DEF SessionNext

\* A role change is never lost: whichever connections break and whatever the
\* order events are delivered in, a viewer that has read all its connection
\* brought has the role it was given, unless it has reauthenticated.
THEOREM ViewerCatchesUpRole == SessionSpec => []RoleCaughtUp
<1>1. VInv /\ RoleInv => RoleCaughtUp
  <2>1. SUFFICES ASSUME VInv, RoleInv, alive, Joined, reauths = 0,
                        ws_proxy_tx \in serves, down[ws_proxy_tx] = <<>>
                 PROVE  role = granted
    BY DEF RoleCaughtUp
  <2>2. Brings(<<>>, role, granted)
    BY <2>1 DEF RoleInv, RoleComes, Undisturbed, Joined
  <2>3. \A i \in DOMAIN <<>> : ~BearsRole(<<>>[i])
    OBVIOUS
  <2>4. QED BY <2>2, <2>3, Zenon DEF Brings
<1>2. SessionInit => VInv /\ RoleInv
  BY InitVInv, InitRoleInv
<1>3. VInv /\ RoleInv /\ [SessionNext]_allVars => VInv' /\ RoleInv'
  BY SessionNextVInv, SessionNextRoles
<1>4. QED BY <1>1, <1>2, <1>3, PTL DEF SessionSpec
=============================================================================
