-------------------------- MODULE ViewerEventLoop --------------------------
(***************************************************************************)
(* The viewer's event loop: `struct EventLoop' of                          *)
(* app/src/terminal/shared_session/viewer/event_loop.rs, with the viewer's *)
(* status and role it keeps in step.  Ordered terminal events come in any  *)
(* order and more than once; the terminal model must process each once, in *)
(* the order of their numbers.  An event is its number.                    *)
(***************************************************************************)
EXTENDS Integers, Sequences

CONSTANTS
    MaxEvents,   \* bound: the session's ordered terminal events
    Roles,       \* Role
    Reader,      \* Role::default()
    NoRole       \* None

ASSUME EventLoopAssumption ==
    /\ MaxEvents \in Nat
    /\ Reader \in Roles
    /\ NoRole \notin Roles

EventNo == 0..(MaxEvents - 1)
NoEvent == -1

VARIABLES
    event_loop,               \* the event loop has been created
    next_event_no,
    buffer,                   \* the keys of the buffer
    catching_up_to_event_no,  \* NoEvent is None
    status,                   \* the terminal model's SharedSessionStatus
    role,                     \* the presence manager's own role, NoRole when the
                              \* view has no shared session
    applied                   \* the events the terminal model has processed

loopVars == <<event_loop, next_event_no, buffer, catching_up_to_event_no, status,
              role, applied>>

Pending   == [kind |-> "ViewPending", role |-> Reader]
Active(r) == [kind |-> "ActiveViewer", role |-> r]
Ended     == [kind |-> "FinishedViewer", role |-> Reader]
Status    == {Pending, Ended} \cup {Active(r) : r \in Roles}

IsActive == status.kind = "ActiveViewer"

LoopInit ==
    /\ event_loop = FALSE
    /\ next_event_no = 0
    /\ buffer = {}
    /\ catching_up_to_event_no = NoEvent
    /\ status = Pending
    /\ role = NoRole
    /\ applied = <<>>

CatchingUpTo(latest) == latest

\* The session is joined with role r when its newest event is `latest': a new
\* event loop, and what the view does on JoinedSuccessfully.
NewEventLoop(latest, r) ==
    /\ event_loop' = TRUE
    /\ next_event_no' = 0
    /\ buffer' = {}
    /\ catching_up_to_event_no' = CatchingUpTo(latest)
    /\ applied' = <<>>
    /\ role' = r
    /\ status' = IF latest = NoEvent \/ IsActive THEN Active(r) ELSE status

\* The first event from next_event_no on that has not been received.
FlushedUpTo(held) ==
    CHOOSE n \in next_event_no..MaxEvents :
        n \notin held /\ next_event_no..(n - 1) \subseteq held

\* The role is asked of the presence manager when the viewer has caught up;
\* there is none once the view's shared session has ended.
StatusOnceCaughtUp == IF role = NoRole THEN status ELSE Active(role)

CatchesUp(to) == catching_up_to_event_no \in next_event_no..(to - 1)

\* Mutant: an event that is new is processed when it is received, without
\* waiting for the ones before it.
ProcessOrderedTerminalEvent_AsReceived(n) ==
    /\ n >= next_event_no
    /\ next_event_no' = n + 1
    /\ applied' = Append(applied, n)
    /\ status' = IF CatchesUp(n + 1) THEN StatusOnceCaughtUp ELSE status
    /\ UNCHANGED <<event_loop, buffer, catching_up_to_event_no, role>>

\* process_ordered_terminal_event
ProcessOrderedTerminalEvent(n) ==
    LET held == buffer \cup {n}
        to   == FlushedUpTo(held)
    IN  /\ next_event_no' = to
        /\ buffer' = held \ (next_event_no..(to - 1))
        /\ applied' = applied \o [i \in 1..(to - next_event_no) |-> next_event_no + i - 1]
        /\ status' = IF CatchesUp(to) THEN StatusOnceCaughtUp ELSE status
        /\ UNCHANGED <<event_loop, catching_up_to_event_no, role>>

\* Mutant: a role change makes the viewer active, caught up or not.
RoleShownNow_Always == TRUE

\* on_self_role_updated leaves the status alone until the viewer is active.
RoleShownNow == IsActive

\* The server or the sharer changes this viewer's role: on_self_role_updated.
ChangeRole(r) ==
    /\ role' = IF role = NoRole THEN NoRole ELSE r
    /\ status' = IF role # NoRole /\ RoleShownNow THEN Active(r) ELSE status
    /\ UNCHANGED <<event_loop, next_event_no, buffer, catching_up_to_event_no, applied>>

-----------------------------------------------------------------------------
\* One event loop whose events arrive in any order, any number of times.
LoopNext ==
    \/ ~event_loop /\ \E latest \in EventNo \cup {NoEvent}, r \in Roles : NewEventLoop(latest, r)
    \/ event_loop /\ \E n \in EventNo : ProcessOrderedTerminalEvent(n)
    \/ event_loop /\ \E r \in Roles : ChangeRole(r)

LoopSpec == LoopInit /\ [][LoopNext]_loopVars

-----------------------------------------------------------------------------
\* Properties.

LoopTypeOK ==
    /\ event_loop \in BOOLEAN
    /\ next_event_no \in 0..MaxEvents
    /\ buffer \subseteq EventNo
    /\ catching_up_to_event_no \in EventNo \cup {NoEvent}
    /\ status \in Status
    /\ role \in Roles \cup {NoRole}
    /\ applied \in Seq(EventNo)

\* The terminal model processes events 0, 1, 2, ... each once and without a
\* gap, whatever the order and the repeats they are received in.
AppliedInOrder ==
    /\ Len(applied) = next_event_no
    /\ \A i \in DOMAIN applied : applied[i] = i - 1

\* No event waits in the buffer once all before it have been processed.
NothingHeldBack == next_event_no \notin buffer

\* As long as its session lasts the viewer is active exactly when every event
\* from before it joined has been processed (SharedSessionStatus::ActiveViewer:
\* "We have received all the scrollback and events for the shared session that
\* occurred before the viewer joined, and are caught up"), with the role last
\* given to it, also when that changed while it was catching up.  Once the
\* session is over events still on their way do not make it active again.
ActiveIffCaughtUp ==
    event_loop =>
        IF role # NoRole /\ next_event_no > catching_up_to_event_no
          THEN status = Active(role)
          ELSE ~IsActive
=============================================================================
