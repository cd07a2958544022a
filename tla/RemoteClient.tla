---------------------------- MODULE RemoteClient ----------------------------
(***************************************************************************)
(* A session's connection to the remote server's daemon: `struct           *)
(* RemoteServerClient` of crates/remote_server/src/client/mod.rs, its      *)
(* reader and writer tasks, and the callers of send_request_internal, each *)
(* a thread of its own.  A session has one client at a time, so the        *)
(* client's fields are functions of the session.                           *)
(***************************************************************************)
EXTENDS Naturals, FiniteSets, SequencesExt

CONSTANTS
    Sessions,   \* terminal sessions, each with a client while it is connected
    Calls,      \* session-scoped requests: the client tracks their answers
    Requests,   \* host-scoped requests: the manager tracks their answers
    Abort,      \* a notification: nobody waits for an answer to it
    None

ASSUME ClientAssumption ==
    /\ Calls \cap Requests = {}
    /\ Abort \notin Calls \cup Requests
    /\ None \notin Sessions

VARIABLES
    wire,              \* the transport: can still carry bytes both ways
    reader,            \* reader_task
    writer,            \* writer_task; "gone" once outbound_rx is dropped
    outbound,          \* outbound_rx
    pending_requests,  \* the callers' entries
    event_rx,          \* ClientEvents not yet drained
    call,              \* where a caller is in send_request_internal
    at_daemon,         \* messages the daemon has read and not answered
    too_large          \* the messages write_client_message refuses

clientVars == <<wire, reader, writer, outbound, pending_requests, event_rx, call, at_daemon, too_large>>
connVars == <<wire, reader, writer, too_large>>

\* Client events.  Pushes from the server are data and are left out.
WriteFailed(r) == [kind |-> "HostScopedWriteFailed", request |-> r]
DecodeFailed(r) == [kind |-> "HostScopedDecodeFailed", request |-> r]
Disconnected == [kind |-> "Disconnected"]
Events == {Disconnected} \cup {WriteFailed(r) : r \in Requests}
                         \cup {DecodeFailed(r) : r \in Requests}

Messages == Calls \cup Requests \cup {Abort}

NoCall == [pc |-> "idle", session |-> None]

ClientTypeOK ==
    /\ wire \in [Sessions -> BOOLEAN]
    /\ reader \in [Sessions -> {"none", "reading", "flagged", "cleared", "ended"}]
    /\ writer \in [Sessions -> {"none", "writing", "failed", "gone"}]
    /\ outbound \in [Sessions -> Seq(Messages)]
    /\ pending_requests \in [Sessions -> SUBSET Calls]
    /\ event_rx \in [Sessions -> Seq(Events)]
    /\ call \in [Calls -> [pc : {"idle", "inserted", "checked", "waiting", "ended"},
                           session : Sessions \cup {None}]]
    /\ at_daemon \subseteq Calls \cup Requests
    /\ too_large \subseteq Calls \cup Requests

ClientInit ==
    /\ wire = [s \in Sessions |-> FALSE]
    /\ reader = [s \in Sessions |-> "none"]
    /\ writer = [s \in Sessions |-> "none"]
    /\ outbound = [s \in Sessions |-> <<>>]
    /\ pending_requests = [s \in Sessions |-> {}]
    /\ event_rx = [s \in Sessions |-> <<>>]
    /\ call = [c \in Calls |-> NoCall]
    /\ at_daemon = {}
    /\ too_large \in SUBSET (Calls \cup Requests)

-----------------------------------------------------------------------------
(* What the manager does to a client. *)

\* RemoteServerClient::new: both tasks are spawned.  Nothing of a client is
\* used before its session is connected, and what happens to the connection
\* until then is as if it happened right after: the client starts there.
\* Whoever is still in a call on the previous client, both of whose tasks are
\* over, gets an error.
NewClient(s) ==
    /\ wire' = [wire EXCEPT ![s] = TRUE]
    /\ reader' = [reader EXCEPT ![s] = "reading"]
    /\ writer' = [writer EXCEPT ![s] = "writing"]
    /\ outbound' = [outbound EXCEPT ![s] = <<>>]
    /\ pending_requests' = [pending_requests EXCEPT ![s] = {}]
    /\ event_rx' = [event_rx EXCEPT ![s] = <<>>]
    /\ call' = [c \in Calls |-> IF call[c].session = s THEN [call[c] EXCEPT !.pc = "ended"] ELSE call[c]]
    /\ UNCHANGED <<at_daemon, too_large>>

\* The state that owned the connection is dropped, and with it the child.
KillChild(s) == wire' = [wire EXCEPT ![s] = FALSE]

\* send_host_scoped succeeds until the writer has dropped the receiver.
MayQueue(s) == writer[s] \in {"writing", "failed"}

-----------------------------------------------------------------------------
(* The connection. *)

\* The connection breaks: the process or the network is gone.
ConnectionLost(s) ==
    /\ wire[s]
    /\ wire' = [wire EXCEPT ![s] = FALSE]
    /\ UNCHANGED <<reader, writer, outbound, pending_requests, event_rx, call, at_daemon, too_large>>

\* reader_task: the end of the stream, or a fatal error while the connection
\* still works; the flag is set before the callers' entries are dropped.
ReaderStops(s) ==
    /\ reader[s] = "reading"
    /\ reader' = [reader EXCEPT ![s] = "flagged"]
    /\ UNCHANGED <<wire, writer, outbound, pending_requests, event_rx, call, at_daemon, too_large>>

ReaderClears(s) ==
    /\ reader[s] = "flagged"
    /\ reader' = [reader EXCEPT ![s] = "cleared"]
    /\ pending_requests' = [pending_requests EXCEPT ![s] = {}]
    /\ UNCHANGED <<wire, writer, outbound, event_rx, call, at_daemon, too_large>>

ReaderEnds(s) ==
    /\ reader[s] = "cleared"
    /\ reader' = [reader EXCEPT ![s] = "ended"]
    /\ event_rx' = [event_rx EXCEPT ![s] = Append(@, Disconnected)]
    /\ UNCHANGED <<wire, writer, outbound, pending_requests, call, at_daemon, too_large>>

\* writer_task: the message reaches the daemon.
WriterWrites(s) ==
    /\ writer[s] = "writing" /\ wire[s]
    /\ outbound[s] # <<>> /\ Head(outbound[s]) \notin too_large
    /\ outbound' = [outbound EXCEPT ![s] = Tail(@)]
    /\ at_daemon' = at_daemon \cup ({Head(outbound[s])} \ {Abort})
    /\ UNCHANGED <<connVars, pending_requests, event_rx, call>>

\* The events a failed write of m causes.
FailureEvents(m) == IF m \in Requests THEN <<WriteFailed(m)>> ELSE <<>>

\* A message that is too large: nothing was written, the writer goes on.
WriterRefuses(s) ==
    /\ writer[s] = "writing"
    /\ outbound[s] # <<>> /\ Head(outbound[s]) \in too_large
    /\ outbound' = [outbound EXCEPT ![s] = Tail(@)]
    /\ event_rx' = [event_rx EXCEPT ![s] = @ \o FailureEvents(Head(outbound[s]))]
    /\ pending_requests' = [pending_requests EXCEPT ![s] = @ \ {Head(outbound[s])}]
    /\ UNCHANGED <<connVars, call, at_daemon>>

\* A fatal error: the entries of all callers are dropped, then the receiver
\* and what was still in it.
WriterFails(s) ==
    /\ writer[s] = "writing" /\ ~wire[s]
    /\ outbound[s] # <<>> /\ Head(outbound[s]) \notin too_large
    /\ outbound' = [outbound EXCEPT ![s] = Tail(@)]
    /\ event_rx' = [event_rx EXCEPT ![s] = @ \o FailureEvents(Head(outbound[s]))]
    /\ pending_requests' = [pending_requests EXCEPT ![s] = {}]
    /\ writer' = [writer EXCEPT ![s] = "failed"]
    /\ UNCHANGED <<wire, reader, call, at_daemon, too_large>>

WriterGone(s) ==
    /\ writer[s] = "failed"
    /\ writer' = [writer EXCEPT ![s] = "gone"]
    /\ outbound' = [outbound EXCEPT ![s] = <<>>]
    /\ UNCHANGED <<wire, reader, pending_requests, event_rx, call, at_daemon, too_large>>

\* Nobody holds the client any more: its outbound_tx is dropped.
WriterReleased(s) ==
    /\ writer[s] = "writing" /\ outbound[s] = <<>>
    /\ \A c \in Calls : call[c].session = s => call[c].pc \in {"idle", "ended"}
    /\ writer' = [writer EXCEPT ![s] = "gone"]
    /\ UNCHANGED <<wire, reader, outbound, pending_requests, event_rx, call, at_daemon, too_large>>

-----------------------------------------------------------------------------
(* send_request_internal, between two of whose steps anything may happen. *)

CallInserts(c, s) ==
    /\ call[c].pc = "idle"
    /\ call' = [call EXCEPT ![c] = [pc |-> "inserted", session |-> s]]
    /\ pending_requests' = [pending_requests EXCEPT ![s] = @ \cup {c}]
    /\ UNCHANGED <<connVars, outbound, event_rx, at_daemon>>

\* Mutant: the flag is set only when the entries have been dropped.
disconnected_AfterClear(s) == reader[s] = "ended"
\* reader_task's flag.
disconnected(s) == reader[s] \in {"flagged", "cleared", "ended"}

CallChecks(c, s) ==
    /\ call[c] = [pc |-> "inserted", session |-> s]
    /\ IF disconnected(s)
       THEN /\ call' = [call EXCEPT ![c].pc = "ended"]
            /\ pending_requests' = [pending_requests EXCEPT ![s] = {}]
       ELSE /\ call' = [call EXCEPT ![c].pc = "checked"]
            /\ UNCHANGED pending_requests
    /\ UNCHANGED <<connVars, outbound, event_rx, at_daemon>>

CallSends(c, s) ==
    /\ call[c] = [pc |-> "checked", session |-> s]
    /\ IF MayQueue(s)
       THEN /\ call' = [call EXCEPT ![c].pc = "waiting"]
            /\ outbound' = [outbound EXCEPT ![s] = Append(@, c)]
            /\ UNCHANGED pending_requests
       ELSE /\ call' = [call EXCEPT ![c].pc = "ended"]
            /\ pending_requests' = [pending_requests EXCEPT ![s] = @ \ {c}]
            /\ UNCHANGED outbound
    /\ UNCHANGED <<connVars, event_rx, at_daemon>>

\* The answer, or an answer that cannot be decoded, reaches the entry.
CallAnswered(c, s) ==
    /\ c \in at_daemon /\ reader[s] = "reading" /\ wire[s]
    /\ call[c] = [pc |-> "waiting", session |-> s]
    /\ at_daemon' = at_daemon \ {c}
    /\ pending_requests' = [pending_requests EXCEPT ![s] = @ \ {c}]
    /\ UNCHANGED <<connVars, outbound, event_rx, call>>

\* The entry is gone: answered, or its sender was dropped.
CallEnds(c, s) ==
    /\ call[c] = [pc |-> "waiting", session |-> s]
    /\ c \notin pending_requests[s]
    /\ call' = [call EXCEPT ![c].pc = "ended"]
    /\ UNCHANGED <<connVars, outbound, pending_requests, event_rx, at_daemon>>

\* REQUEST_TIMEOUT: the entry is removed and the daemon told to abort.
CallTimesOut(c, s) ==
    /\ call[c] = [pc |-> "waiting", session |-> s]
    /\ c \in pending_requests[s]
    /\ call' = [call EXCEPT ![c].pc = "ended"]
    /\ pending_requests' = [pending_requests EXCEPT ![s] = @ \ {c}]
    /\ outbound' = [outbound EXCEPT ![s] = IF MayQueue(s) THEN Append(@, Abort) ELSE @]
    /\ UNCHANGED <<connVars, event_rx, at_daemon>>

-----------------------------------------------------------------------------
\* Once the reader task is over no caller waits for an answer nobody reads:
\* whoever passed the check of `disconnected` has had its entry dropped.
NoCallOutlivesReader ==
    \A c \in Calls : \A s \in Sessions :
        call[c] = [pc |-> "waiting", session |-> s] /\ reader[s] \in {"cleared", "ended"}
            => c \notin pending_requests[s]
=============================================================================
