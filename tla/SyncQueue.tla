------------------------------ MODULE SyncQueue ------------------------------
(***************************************************************************)
(* The queue that brings changes of Warp Drive objects to the server:      *)
(* `struct SyncQueue' of app/src/server/sync_queue.rs, with what the       *)
(* update manager puts into it and the server it talks to.                 *)
(*                                                                         *)
(* An object is known by its client id, and by a server id too once it has *)
(* been created: Client(o) and Server(o).  Every call and every callback   *)
(* of a request runs to completion on the main thread and is an action;    *)
(* the queue's methods are functions on its struct.                        *)
(***************************************************************************)
EXTENDS Integers, SequenceHelpers

CONSTANTS
    Enums, Workflows,    \* workflow enums, and the workflows that refer to them
    Preferences,         \* objects created in bulk
    Folders,
    None,
    MaxItems,            \* bound: items enqueued
    MaxMishaps,          \* bound: answers of the server that are lost, and logouts
    MaxRetries           \* retries of a request: DEFAULT_RETRY_OPTION (3)

Object == Enums \cup Workflows \cup Preferences \cup Folders

ASSUME SyncQueueAssumption ==
    /\ MaxItems \in Nat /\ MaxMishaps \in Nat /\ MaxRetries \in Nat
    /\ None \notin Object /\ None \notin {"done", "denied", "failed"}
    /\ IsFiniteSet(Object)

VARIABLES
    sync_queue,  \* the struct, with the items it has emitted an event for (answered)
                 \* what the last event since it was enqueued told of each object (told),
                 \* the objects that an event has told a failure or denial of since their
                 \* last change (failed), and the items skipped without an event (dropped)
    futures,     \* the requests spawned and not called back
    log,         \* the server's history of each object: the edits it applied
    latest,      \* the revision of each object in the cloud model
    content,     \* its content: the last edit and the enums it refers to; its folder
    local,       \* the objects the cloud model knows by their client id
    enqueued,    \* how many items have been enqueued
    cleared,     \* how many of them a logout has cleared
    halted,      \* the last request failed for a reason that concerns every item
    lost, logouts

appVars == <<latest, content, local, enqueued, cleared, logouts>>
vars == <<sync_queue, futures, log, lost, halted, appVars>>

ItemNo == 1..MaxItems
Client(o) == <<"client", o>>
Server(o) == <<"server", o>>
SyncId == {Client(o) : o \in Object} \cup {Server(o) : o \in Object}

\* A QueueItem: its payload is the edit it carries, the client ids a workflow
\* refers to are in refs, no revision is 0.  The two creations and the updates
\* differ in payload only.
Item == [no : ItemNo, op : {"create", "bulk", "update", "action"}, ids : SUBSET SyncId,
         edit : ItemNo, refs : SUBSET Enums, folder : Folders \cup {None}, rev : Nat]

The(set) == CHOOSE x \in set : TRUE
IdOf(item) == The(item.ids)
ObjectOf(item) == IdOf(item)[2]
Objects(item) == {id[2] : id \in item.ids}

\* QueueDependency::QueueItem and ::BulkCreateGenericStringObject.
OnItem(n) == <<n, None>>
OnObject(n, o) == <<n, o>>

\* What the user is shown of some objects.
Told(s, kind, objects) ==
    [s EXCEPT !.told = [o \in Object |-> IF o \in objects THEN kind ELSE @[o]],
              !.failed = CASE kind \in {"failed", "denied"} -> @ \cup objects
                           [] kind = None -> @ \ objects
                           [] OTHER -> @]

\* Actions say nothing of their objects.
Shown(items) == UNION {Objects(i) : i \in {i \in items : i.op # "action"}}

\* A SyncQueueEvent for these objects of an item, and one for each of some
\* items, that they have failed.
Emitted(s, kind, item, objects) ==
    [Told(s, kind, objects \cap Shown({item})) EXCEPT !.answered = @ \cup {item.no}]
Failed(s, items) ==
    [Told(s, "failed", Shown(items)) EXCEPT !.answered = @ \cup {i.no : i \in items}]

-----------------------------------------------------------------------------
\* Dependencies.

\* try_server_id
HasServerId(s, id) == id[1] = "server" \/ id[2] \in s.client_id_to_server

\* get_items_with_object_id
ItemsWith(s, id) ==
    {OnItem(i.no) : i \in {i \in ToSet(s.queue) : i.op \in {"create", "update"} /\ id \in i.ids}}
    \cup {OnObject(i.no, id[2]) : i \in {i \in ToSet(s.queue) : i.op = "bulk" /\ id \in i.ids}}
    \cup {IF id[1] = "client" /\ id[2] \in s.in_flight_bulk_create_objects[n]
            THEN OnObject(n, id[2]) ELSE OnItem(n) : n \in s.waiting_response[id]}

\* get_update_dependencies
UpdateDependencies(s, id) ==
    LET o == id[2] IN
    ItemsWith(s, id) \cup
    (IF o \in s.client_id_to_server
     THEN ItemsWith(s, Client(o)) \cup ItemsWith(s, Server(o)) ELSE {})

\* get_workflow_object_dependencies: what the references of a workflow wait
\* for, nothing when one of them will never be created.
Unresolved(s, item) == item.refs \ s.client_id_to_server
Hopeless(s, item) == \E e \in Unresolved(s, item) : ItemsWith(s, Client(e)) = {}
ReferenceDependencies(s, item) ==
    IF Hopeless(s, item) THEN {}
    ELSE UNION {ItemsWith(s, Client(e)) : e \in Unresolved(s, item)}

\* add_inferred_dependencies; no item depends on itself. A hopeless workflow
\* is reported as failed and enqueued all the same.
InferredDependencies(s, item) ==
    (ReferenceDependencies(s, item) \cup
     (IF item.op = "update" THEN UpdateDependencies(s, IdOf(item)) ELSE {}))
    \ {OnItem(item.no)}

Pushed(s, item) ==
    LET told == Told(s, IF Hopeless(s, item) THEN "failed" ELSE None, Shown({item})) IN
    [told EXCEPT !.queue = Append(@, [item EXCEPT !.refs = Unresolved(s, item)]),
                  !.queue_dependencies[item.no] = InferredDependencies(s, item)]

-----------------------------------------------------------------------------
\* What the end of a request does to the items that wait for it.

\* handle_dependency_success
DependencySucceeded(s, d) ==
    [s EXCEPT !.queue_dependencies = [n \in ItemNo |-> @[n] \ {d}]]

Removed(s, items) ==
    LET gone == {i.no : i \in items} IN
    [s EXCEPT !.queue = Keep(@, ToSet(@) \ items),
              !.queue_dependencies = [n \in ItemNo |-> IF n \in gone THEN {} ELSE @[n]]]

\* Mutant: the items that depend on a failed item's dependents stay.
Fallout_Direct(s, ds) ==
    {i \in ToSet(s.queue) : s.queue_dependencies[i.no] \cap ds # {}}

\* The queued items that depend on one of ds, on one of these, and so on.
Fallout(s, ds) ==
    LET queued == ToSet(s.queue)
        Closed(set) == \A i \in queued :
            s.queue_dependencies[i.no] \cap (ds \cup {OnItem(j.no) : j \in set}) # {} => i \in set
    IN  {i \in queued : \A set \in SUBSET queued : Closed(set) => i \in set}

\* Mutants: the items that fail with it are dropped without an event; their
\* dependencies are kept.
DependencyFailed_Silent(s, ds) == Removed(s, Fallout(s, ds))

DependencyFailed_Keeps(s, ds) ==
    LET fallout == Fallout(s, ds)
    IN  [Failed(s, fallout) EXCEPT !.queue = Keep(@, ToSet(@) \ fallout)]

\* handle_dependency_failure, for each of ds: the order makes no difference.
\* No request was sent for the items that fail with it.
DependencyFailed(s, ds) ==
    LET fallout == Fallout(s, ds) IN Removed(Failed(s, fallout), fallout)

\* An event for an item that was waited for under these ids.
Answered(s, kind, item, ids) ==
    [Emitted(s, kind, item, {id[2] : id \in ids}) EXCEPT
        !.waiting_response = [id \in SyncId |-> IF id \in ids THEN @[id] \ {item.no} ELSE @[id]]]

\* creation_dependency_for_client_id, and the objects taken out of the bulk.
CreationDependency(s, item, o) ==
    IF o \in s.in_flight_bulk_create_objects[item.no] THEN OnObject(item.no, o) ELSE OnItem(item.no)

Uncounted(s, item, objects) ==
    [s EXCEPT !.in_flight_bulk_create_objects[item.no] = @ \ objects]

\* handle_creation_failure, for each object of the item.
CreationFailed(s, item) ==
    DependencyFailed(Uncounted(Answered(s, "failed", item, item.ids), item, Objects(item)),
                     {CreationDependency(s, item, o) : o \in Objects(item)})

\* handle_update_failure_response and handle_object_action_failure_response,
\* of a request that was sent under the server id.
OtherFailed(s, item) ==
    DependencyFailed(Answered(s, "failed", item, {Server(ObjectOf(item))}), {OnItem(item.no)})

\* Mutant: an update that names its object by the client id is left alone.
IsOf_ServerIdOnly(s, item, o) == item.op = "update" /\ item.ids = {Server(o)}

\* maybe_update_queue_item_with_new_revision; a folder has no revision.
IsOf(s, item, o) ==
    /\ item.op = "update" /\ ObjectOf(item) = o /\ o \notin Folders
    /\ HasServerId(s, IdOf(item))

\* update_items_with_new_revision
Revised(s, o, rev) ==
    LET Now(i) == IF IsOf(s, i, o) THEN [i EXCEPT !.rev = rev] ELSE i
    IN  [s EXCEPT !.queue = [k \in DOMAIN @ |-> Now(@[k])]]

\* update_dependencies_on_creation
Replaced(s, item, o) ==
    LET Now(i) == IF OnItem(item.no) \in s.queue_dependencies[i.no]
                    THEN [i EXCEPT !.refs = @ \ {o}] ELSE i
    IN  [s EXCEPT !.queue = [k \in DOMAIN @ |-> Now(@[k])]]

-----------------------------------------------------------------------------
\* dequeue: the first item that waits for nothing is sent. One whose object
\* or folder has no server id is skipped, an update with a failure, and the
\* next one is tried.

\* Where in the queue the items are that wait for nothing.
Ready(s) == {k \in DOMAIN s.queue : s.queue_dependencies[s.queue[k].no] = {}}

Resolved(s, item) ==
    IF item.op \in {"create", "bulk"}
      THEN item.folder = None \/ item.folder \in s.client_id_to_server
      ELSE HasServerId(s, IdOf(item))

Sendable(s) == {k \in Ready(s) : Resolved(s, s.queue[k])}

\* Mutant: when an item is skipped the next one is not tried.
NextSent_GivesUp(s) == {s.queue[k] : k \in {k \in Sendable(s) : \A j \in Ready(s) : k <= j}}

\* The item that is sent, if any, and those that are tried before it.
NextSent(s) == {s.queue[k] : k \in {k \in Sendable(s) : \A j \in Sendable(s) : k <= j}}
Tried(s) == {s.queue[k] : k \in {k \in Ready(s) : \A j \in Sendable(s) : k < j}}

\* The ids a request is waited for under.
AwaitedIds(item) ==
    CASE item.op = "action" -> {}
      [] item.op = "update" -> {Server(ObjectOf(item))}
      [] OTHER -> item.ids

Awaited(s, items) ==
    LET Of(n) == {i \in items : i.op = "bulk" /\ i.no = n} IN
    [s EXCEPT !.waiting_response =
                  [id \in SyncId |-> @[id] \cup {i.no : i \in {i \in items : id \in AwaitedIds(i)}}],
              !.in_flight_bulk_create_objects =
                  [n \in ItemNo |-> IF Of(n) = {} THEN @[n] ELSE Objects(The(Of(n)))]]

\* Mutant: an update that cannot be sent is dropped without an event.
Skipped_Silent(s, items) ==
    Awaited(Removed(s, items), {i \in items : i.op \in {"create", "bulk"}})

\* An update that was never sent fails with what depends on it; an action is
\* dropped; so is a creation, which is waited for as if it had been sent.
Skipped(s, items) ==
    LET updates == {i \in items : i.op = "update"}
        failed == DependencyFailed(Failed(Removed(s, items), updates), {OnItem(i.no) : i \in updates})
    IN  [Awaited(failed, {i \in items : i.op \in {"create", "bulk"}}) EXCEPT
            !.dropped = @ \cup (items \ updates)]

Request(item) == [item |-> item, at |-> "sent", retries |-> MaxRetries, rev |-> 0]

Dequeued(s) ==
    IF ~s.should_dequeue THEN s
    ELSE LET sent == NextSent(s)
         IN  [Awaited(Removed(Skipped(s, Tried(s)), sent), sent) EXCEPT
                 !.spawned = @ \cup {Request(i) : i \in sent}]

\* The struct after a call, and the requests it has spawned.
Becomes(s, left) ==
    /\ sync_queue' = [s EXCEPT !.spawned = {}]
    /\ futures' = left \cup s.spawned

-----------------------------------------------------------------------------
\* The update manager enqueues.

Create(o, f) == [no |-> enqueued + 1, op |-> "create", ids |-> {Client(o)},
                 edit |-> enqueued + 1, refs |-> {}, folder |-> f, rev |-> 0]
Change(op, id) == [Create(id[2], None) EXCEPT !.op = op, !.ids = {id}, !.rev = latest[id[2]]]

EmptyQueue ==
    [queue |-> <<>>,
     waiting_response |-> [id \in SyncId |-> {}],
     in_flight_bulk_create_objects |-> [n \in ItemNo |-> {}],
     client_id_to_server |-> {},      \* and server_id_to_client_hash, its inverse
     should_dequeue |-> FALSE,
     queue_dependencies |-> [n \in ItemNo |-> {}],
     spawned |-> {}, answered |-> {}, dropped |-> {}, failed |-> {}, told |-> [o \in Object |-> None]]

NoContent == [edit |-> 0, refs |-> {}, folder |-> None]

\* The objects of an earlier run that were never created, in any order: a
\* workflow may come before the enums it refers to and before its folder.
Unsynced == SetToAllKPermutations(Enums \cup Workflows \cup Folders)

Init ==
    \E q \in Unsynced : \E place \in [Workflows -> {None} \cup (Folders \cap ToSet(q))] :
        LET Refs(o) == IF o \in Workflows THEN Enums \cap ToSet(q) ELSE {}
            Place(o) == IF o \in Workflows THEN place[o] ELSE None
            items == [k \in DOMAIN q |->
                        [no |-> k, op |-> "create", ids |-> {Client(q[k])}, edit |-> k,
                         refs |-> Refs(q[k]), folder |-> Place(q[k]), rev |-> 0]]
            loaded == [EmptyQueue EXCEPT !.queue = items]
        IN  /\ Len(q) <= MaxItems
            \* initialize_queue_dependencies
            /\ sync_queue = [loaded EXCEPT !.queue_dependencies =
                   [n \in ItemNo |-> IF n <= Len(q) THEN InferredDependencies(loaded, items[n]) ELSE {}]]
            /\ futures = {}
            /\ log = [o \in Object |-> <<>>]
            /\ latest = [o \in Object |-> 0]
            /\ content = [o \in Object |->
                   IF o \in ToSet(q)
                     THEN [edit |-> CHOOSE k \in DOMAIN q : q[k] = o, refs |-> Refs(o), folder |-> Place(o)]
                   ELSE NoContent]
            /\ local = ToSet(q)
            /\ enqueued = Len(q)
            /\ cleared = 0 /\ lost = 0 /\ logouts = 0 /\ halted = FALSE

\* What the cloud model holds once the item is made from it.
Edited(item) ==
    /\ enqueued' = enqueued + 1
    /\ content' = [o \in Object |->
          IF item.op = "action" \/ o \notin Objects(item) THEN content[o]
          ELSE [edit |-> item.edit, refs |-> item.refs,
                folder |-> IF item.op = "update" THEN content[o].folder ELSE item.folder]]

Enqueue(item) ==
    /\ enqueued < MaxItems
    /\ Edited(item)
    /\ local' = local \cup {id[2] : id \in {id \in item.ids : id[1] = "client"}}
    /\ Becomes(Dequeued(Pushed(sync_queue, item)), futures)
    /\ halted' = FALSE
    /\ UNCHANGED <<log, lost, latest, cleared, logouts>>

Pending(o) ==
    \E i \in ToSet(sync_queue.queue) \cup {r.item : r \in futures} : i.op # "action" /\ o \in Objects(i)

\* An object nobody has heard of.
Fresh(o) == o \notin local /\ log[o] = <<>> /\ ~Pending(o)

FolderChoices == {None} \cup (Folders \cap local)

EnqueueCreate(o) ==
    /\ Fresh(o)
    /\ \E f \in FolderChoices : Enqueue(Create(o, f))

EnqueueCreateWorkflow(w) ==
    /\ Fresh(w)
    /\ \E refs \in SUBSET (Enums \cap local), f \in FolderChoices :
          Enqueue([Create(w, f) EXCEPT !.refs = refs])

EnqueueBulkCreate(set) ==
    /\ set # {} /\ \A o \in set : Fresh(o)
    /\ Enqueue([Create(The(set), None) EXCEPT !.op = "bulk", !.ids = {Client(o) : o \in set}])

\* An object goes by its client id until it has been created, and some
\* callers keep that id.
Ids(o) == {id \in {Client(o), Server(o)} : IF id[1] = "client" THEN o \in local ELSE latest[o] > 0}

EnqueueUpdate(o) ==
    \E id \in Ids(o), refs \in SUBSET (IF o \in Workflows THEN Enums \cap local ELSE {}) :
        Enqueue([Change("update", id) EXCEPT !.refs = refs])

EnqueueAction(o) == \E id \in Ids(o) : Enqueue(Change("action", id))

\* What the cloud model holds, sent again.
Unchanged(item) ==
    LET o == ObjectOf(item)
    IN  [item EXCEPT !.edit = content[o].edit, !.refs = content[o].refs, !.rev = 0]

\* resync_object, for an object whose last request has failed: it is created,
\* or updated whatever its revision.
Resync(o) ==
    /\ ~Pending(o) /\ sync_queue.told[o] = "failed" /\ content[o] # NoContent
    /\ Enqueue(Unchanged(IF latest[o] > 0 THEN Change("update", Server(o))
                          ELSE Create(o, content[o].folder)))

StartDequeueing ==
    /\ Becomes(Dequeued([sync_queue EXCEPT !.should_dequeue = TRUE]), futures)
    /\ halted' = FALSE
    /\ UNCHANGED <<log, lost, appVars>>

StopDequeueing ==
    /\ sync_queue.should_dequeue
    /\ Becomes([sync_queue EXCEPT !.should_dequeue = FALSE], futures)
    /\ UNCHANGED <<log, lost, halted, appVars>>

\* clear, on logout: the requests in flight keep their callbacks. The next
\* login gets the objects from the server.
Clear ==
    /\ lost + logouts < MaxMishaps
    /\ logouts' = logouts + 1
    /\ Becomes([EmptyQueue EXCEPT !.should_dequeue = sync_queue.should_dequeue,
                                  !.answered = sync_queue.answered], futures)
    /\ cleared' = enqueued
    /\ latest' = [o \in Object |-> Len(log[o])]
    /\ content' = [o \in Object |-> NoContent]
    /\ local' = {}
    /\ UNCHANGED <<log, lost, halted, enqueued>>

-----------------------------------------------------------------------------
\* The server. An update that does not come from the current revision is
\* refused; a creation that is repeated finds its object.

Applied(r) ==
    /\ log' = [o \in Object |->
          IF o \in Objects(r.item) /\ (r.item.op = "update" \/ (r.item.op # "action" /\ log[o] = <<>>))
            THEN Append(log[o], r.item.edit) ELSE log[o]]
    /\ futures' = (futures \ {r}) \cup {[r EXCEPT !.at = "applied",
                                                 !.rev = Len(log'[ObjectOf(r.item)])]}

IsCurrent(item) ==
    item.op = "update" => item.rev = 0 \/ item.rev = Len(log[ObjectOf(item)])
                          \/ ObjectOf(item) \in Folders

ServerReceives(r) ==
    /\ r.at = "sent"
    /\ \/ IsCurrent(r.item) /\ Applied(r)
       \/ /\ ~IsCurrent(r.item)
          /\ futures' = (futures \ {r}) \cup {[r EXCEPT !.at = "refused"]}
          /\ UNCHANGED log
    /\ UNCHANGED <<sync_queue, lost, halted, appVars>>

\* The request, or the answer to it, does not arrive.
Unanswered(r) == IF r.at = "sent" THEN UNCHANGED lost ELSE lost + logouts < MaxMishaps /\ lost' = lost + 1

-----------------------------------------------------------------------------
\* The callbacks of the requests.

CallBack(r, s) ==
    /\ Becomes(Dequeued(s), futures \ {r})
    /\ halted' = FALSE

CreationSucceeded(s, item, o) ==
    LET known == [Answered(s, "done", item, {Client(o)}) EXCEPT !.client_id_to_server = @ \cup {o}]
        freed == DependencySucceeded(Uncounted(known, item, {o}), CreationDependency(known, item, o))
    IN  Revised(freed, o, 1)

\* The cloud model learns the revision of what it still has.
Learns(r) ==
    latest' = [o \in Object |->
        IF o \in Objects(r.item) /\ r.item.no > cleared THEN r.rev ELSE latest[o]]

CreateSucceeded(r) ==
    /\ r.at = "applied" /\ r.item.op = "create"
    /\ LET o == ObjectOf(r.item)
           s == IF o \in Enums THEN Replaced(sync_queue, r.item, o) ELSE sync_queue
       IN  CallBack(r, CreationSucceeded(s, r.item, o))
    /\ Learns(r)
    /\ UNCHANGED <<log, lost, content, local, enqueued, cleared, logouts>>

\* The objects come one by one, and after each the queue is asked for an item.
AllCreated(s, item, created) ==
    LET after[k \in 0..Len(created)] ==
            IF k = 0 THEN s ELSE Dequeued(CreationSucceeded(after[k - 1], item, created[k]))
    IN  after[Len(created)]

BulkCreateSucceeded(r) ==
    /\ r.at = "applied" /\ r.item.op = "bulk"
    /\ \E created \in SetToSeqs(Objects(r.item)) :
          Becomes(AllCreated(sync_queue, r.item, created), futures \ {r})
    /\ halted' = FALSE
    /\ Learns(r)
    /\ UNCHANGED <<log, lost, content, local, enqueued, cleared, logouts>>

\* UserFacingError: what waits for the object is let go.
Denied(r) ==
    DependencySucceeded(Answered(sync_queue, "denied", r.item, r.item.ids), OnItem(r.item.no))

CreateDenied(r) ==
    /\ r.at = "sent" /\ r.item.op = "create" /\ log[ObjectOf(r.item)] = <<>>
    /\ CallBack(r, Emitted(Denied(r), "failed", r.item, Objects(r.item)))
    /\ UNCHANGED <<log, lost, appVars>>

\* handle_creation_denied_response: an object of a team goes to the personal
\* drive and is created there.
CreateDeniedToTeam(r) ==
    LET o == ObjectOf(r.item)
        item == Unchanged(Create(o, None))
    IN
    /\ r.at = "sent" /\ r.item.op = "create" /\ log[o] = <<>> /\ o \in local
    /\ enqueued < MaxItems
    /\ LET pushed == Pushed(Dequeued(Denied(r)), item)
       IN  CallBack(r, [pushed EXCEPT !.failed = @ \cup {o}])
    /\ Edited(item)
    /\ UNCHANGED <<log, lost, latest, local, cleared, logouts>>

\* The object is kept, or deleted (should_clear_on_unique_key_conflict).
UniqueKeyConflict(r) ==
    /\ r.at = "sent" /\ r.item.op \in {"create", "bulk"}
    /\ CallBack(r, CreationFailed(sync_queue, r.item))
    /\ local' \in {local, local \ Objects(r.item)}
    /\ content' = [o \in Object |->
          IF o \in local \ local' THEN NoContent ELSE content[o]]
    /\ UNCHANGED <<log, lost, latest, enqueued, cleared, logouts>>

OtherSucceeded(r, kind) ==
    DependencySucceeded(Answered(sync_queue, kind, r.item, {Server(ObjectOf(r.item))}),
                        OnItem(r.item.no))

UpdateSucceeded(r) ==
    /\ r.at = "applied" /\ r.item.op = "update"
    /\ CallBack(r, Revised(OtherSucceeded(r, "done"), ObjectOf(r.item), r.rev))
    /\ Learns(r)
    /\ UNCHANGED <<log, lost, content, local, enqueued, cleared, logouts>>

\* UpdateCloudObjectResult::Rejected, and an action that was recorded.
UpdateRejected(r) ==
    /\ r.at = "refused"
    /\ CallBack(r, OtherSucceeded(r, "failed"))
    /\ UNCHANGED <<log, lost, appVars>>

ActionRecorded(r) ==
    /\ r.at = "applied" /\ r.item.op = "action"
    /\ CallBack(r, OtherSucceeded(r, "done"))
    /\ UNCHANGED <<log, lost, appVars>>

RequestFailedRetryPending(r) ==
    /\ r.retries > 0
    /\ Unanswered(r)
    /\ futures' = (futures \ {r}) \cup {[r EXCEPT !.at = "sent", !.retries = @ - 1, !.rev = 0]}
    /\ UNCHANGED <<sync_queue, log, halted, appVars>>

\* maybe_dequeue_on_error: no further item after an error that every request
\* would meet.
RequestFailed(r) ==
    /\ r.retries = 0
    /\ Unanswered(r)
    /\ LET s == IF r.item.op \in {"create", "bulk"} THEN CreationFailed(sync_queue, r.item)
                ELSE OtherFailed(sync_queue, r.item)
       IN  \/ CallBack(r, s)
           \/ /\ Becomes(s, futures \ {r})
              /\ halted' = TRUE
    /\ UNCHANGED <<log, appVars>>

-----------------------------------------------------------------------------
Next ==
    \/ \E o \in Enums \cup Folders : EnqueueCreate(o)
    \/ \E w \in Workflows : EnqueueCreateWorkflow(w)
    \/ \E set \in SUBSET Preferences : EnqueueBulkCreate(set)
    \/ \E o \in Object : EnqueueUpdate(o) \/ EnqueueAction(o) \/ Resync(o)
    \/ StartDequeueing \/ StopDequeueing \/ Clear
    \/ \E r \in futures :
         \/ ServerReceives(r)
         \/ CreateSucceeded(r) \/ BulkCreateSucceeded(r)
         \/ CreateDenied(r) \/ CreateDeniedToTeam(r) \/ UniqueKeyConflict(r)
         \/ UpdateSucceeded(r) \/ UpdateRejected(r) \/ ActionRecorded(r)
         \/ RequestFailedRetryPending(r) \/ RequestFailed(r)

Spec == Init /\ [][Next]_vars

-----------------------------------------------------------------------------
\* Properties.

Queued == {i.no : i \in ToSet(sync_queue.queue)}
InFlight == {r.item.no : r \in futures}

TypeOK ==
    /\ sync_queue.queue \in Seq(Item)
    /\ sync_queue.client_id_to_server \subseteq Object
    /\ \A n \in ItemNo :
         /\ sync_queue.queue_dependencies[n] \subseteq ItemNo \X (Object \cup {None})
         /\ n \notin Queued => sync_queue.queue_dependencies[n] = {}
    /\ \A id \in SyncId : sync_queue.waiting_response[id] \subseteq ItemNo
    /\ sync_queue.spawned = {}

\* The client never refuses its own edits: unless an answer was lost or the
\* user logged out in between, an update carries the revision that the
\* updates before it have produced.
OwnEditsAccepted ==
    lost = 0 /\ logouts = 0 => \A r \in futures : r.at # "refused"

\* A creation that was skipped, because its folder had no server id: no event
\* tells of it, and it is waited for as if it had been sent.
DroppedCreations == {i \in sync_queue.dropped : i.op \in {"create", "bulk"}}

\* An item waits only for what may still finish: every dependency is queued
\* or in flight, so no item is stuck behind one that has gone. The exception
\* is a creation that was skipped: what waits for it waits for ever.
WaitsOnlyForPending ==
    \A n \in Queued : \A d \in sync_queue.queue_dependencies[n] :
        d[1] \in Queued \cup InFlight \cup {i.no : i \in DroppedCreations}

\* The queue keeps going: while it is on, an item that is ready is not left
\* alone without a request whose answer will ask for it.
KeepsDraining ==
    sync_queue.should_dequeue /\ ~halted /\ Ready(sync_queue) # {} => futures # {}

\* No queued item is left behind for good, but behind a creation that was
\* skipped.
NothingStuck == WaitsOnlyForPending /\ KeepsDraining

\* No change is forgotten: an item that has left the queue, or was enqueued
\* just now, is in flight, was answered with an event, or was cleared by a
\* logout. The exceptions are what the queue skips with a log line only, an
\* action on an object without a server id and a creation in a folder without
\* one; an update is never one of them.
Enqueued == Queued \cup InFlight \cup (enqueued + 1)..enqueued'

NothingForgotten ==
    [][/\ \A n \in Enqueued \ (Queued' \cup InFlight') :
             n \in sync_queue'.answered \/ n <= cleared'
             \/ \E i \in sync_queue'.dropped : i.no = n
       /\ \A i \in sync_queue'.dropped \ sync_queue.dropped :
             i.op # "update" /\ ~Resolved(sync_queue, i)]_vars

\* "The object's content hasn't changed from what we believe the server's
\* representation to be": of an object without a request left, of which the
\* last event told that a request has succeeded, the server has the last edit.
\* Unless an answer was lost or the user logged out, and but for an object of
\* which a change has failed or been denied since it was last edited: an
\* earlier change may succeed after that.
SyncedMeansSaved ==
    lost = 0 /\ logouts = 0 =>
        \A o \in Object \ sync_queue.failed : ~Pending(o) /\ sync_queue.told[o] = "done"
            => log[o] # <<>> /\ Last(log[o]) = content[o].edit

\* "The object's content has been modified locally, and is currently in the
\* sync queue attempting to sync up with the server": an object that is shown
\* as being saved has a request that is queued or in flight.  Unless the user
\* logged out, and but for an object whose creation was skipped.
InFlightMeansPending ==
    logouts = 0 =>
        \A o \in Object : content[o] # NoContent /\ sync_queue.told[o] \notin {"done", "failed"}
            => Pending(o) \/ \E i \in DroppedCreations : o \in Objects(i)

\* What the user is shown of an object is true.
ShownStatusIsTrue == SyncedMeansSaved /\ InFlightMeansPending
=============================================================================
