------------------------- MODULE SyncQueueInvariants -------------------------
(***************************************************************************)
(* The invariants that the theorems about the sync queue rest on, and what *)
(* they say of its methods.  The invariants are parameterised by a struct  *)
(* (s), the requests that are left beside it (left) and the number of      *)
(* items (m), so that they can be stated of a struct in the middle of a    *)
(* callback; relations are from a struct s to the struct t that a method   *)
(* leaves.                                                                 *)
(***************************************************************************)
EXTENDS SyncQueue

-----------------------------------------------------------------------------
(* Types                                                                   *)

Kinds == {"done", "denied", "failed", None}
Dependency == ItemNo \X (Object \cup {None})

\* What the ids of an item are, by its operation.
Shaped(i) ==
    CASE i.op = "create" -> \E o \in Object : i.ids = {Client(o)}
      [] i.op = "bulk" -> /\ i.refs = {} /\ i.folder = None
                          /\ \E set \in SUBSET Object : set # {} /\ i.ids = {Client(o) : o \in set}
      [] OTHER -> \E id \in SyncId : i.ids = {id}

GoodItem == {i \in Item : Shaped(i)}

\* Only updates are refused.
Requests ==
    {r \in [item : GoodItem, at : {"sent", "applied", "refused"}, retries : 0..MaxRetries, rev : Nat] :
        r.at = "refused" => r.item.op = "update"}

Structs ==
    [queue : Seq(GoodItem),
     waiting_response : [SyncId -> SUBSET ItemNo],
     in_flight_bulk_create_objects : [ItemNo -> SUBSET Object],
     client_id_to_server : SUBSET Object,
     should_dequeue : BOOLEAN,
     queue_dependencies : [ItemNo -> SUBSET Dependency],
     spawned : SUBSET Requests, answered : SUBSET ItemNo, dropped : SUBSET GoodItem, failed : SUBSET Object,
     told : [Object -> Kinds]]

Items(s) == ToSet(s.queue)
Numbers(items) == {i.no : i \in items}

\* The fields that say nothing of what has happened are the same.
Same(s, t) ==
    /\ t.queue = s.queue /\ t.queue_dependencies = s.queue_dependencies
    /\ t.waiting_response = s.waiting_response
    /\ t.in_flight_bulk_create_objects = s.in_flight_bulk_create_objects
    /\ t.client_id_to_server = s.client_id_to_server
    /\ t.should_dequeue = s.should_dequeue /\ t.spawned = s.spawned /\ t.dropped = s.dropped

ObjectsOf(ids) == {id[2] : id \in ids}

\* An event of this kind tells of these objects.
Tells(s, t, kind, objects) ==
    /\ t.told = [o \in Object |-> IF o \in objects THEN kind ELSE s.told[o]]
    /\ t.failed = CASE kind \in {"failed", "denied"} -> s.failed \cup objects
                    [] kind = None -> s.failed \ objects
                    [] OTHER -> s.failed

\* The items gone have fallen out of s with ds, and t is left.
FallsOut(s, t, ds, gone) ==
    /\ gone \subseteq Items(s) /\ Items(t) = Items(s) \ gone
    /\ IsInjective(s.queue) => IsInjective(t.queue)
    /\ \A i \in Items(s) :
          s.queue_dependencies[i.no] \cap (ds \cup {OnItem(j.no) : j \in gone}) # {} => i \in gone
    /\ \A i \in gone : s.queue_dependencies[i.no] # {}
    /\ t.queue_dependencies =
          [n \in ItemNo |-> IF n \in Numbers(gone) THEN {} ELSE s.queue_dependencies[n]]

\* The queue is the same but for revisions and references.
Rewritten(s, t) ==
    /\ DOMAIN t.queue = DOMAIN s.queue
    /\ \A k \in DOMAIN s.queue :
          /\ t.queue[k].no = s.queue[k].no /\ t.queue[k].op = s.queue[k].op
          /\ t.queue[k].ids = s.queue[k].ids /\ t.queue[k].folder = s.queue[k].folder
          /\ t.queue[k].edit = s.queue[k].edit
    /\ t.queue_dependencies = s.queue_dependencies
    /\ t.waiting_response = s.waiting_response
    /\ t.in_flight_bulk_create_objects = s.in_flight_bulk_create_objects
    /\ t.client_id_to_server = s.client_id_to_server
    /\ t.should_dequeue = s.should_dequeue /\ t.spawned = s.spawned /\ t.dropped = s.dropped
    /\ t.answered = s.answered /\ t.told = s.told /\ t.failed = s.failed

\* The creation of o is known, answered and counted, and what waited for it is
\* let go, in f; t has the new revision too.
Created(s, f, t, item, o) ==
    /\ Rewritten(f, t)
    /\ f.queue = s.queue
    /\ f.queue_dependencies =
          [n \in ItemNo |-> s.queue_dependencies[n] \ {CreationDependency(s, item, o)}]
    /\ f.waiting_response =
          [id \in SyncId |-> IF id = Client(o) THEN s.waiting_response[id] \ {item.no}
                             ELSE s.waiting_response[id]]
    /\ f.in_flight_bulk_create_objects =
          [n \in ItemNo |-> IF n = item.no THEN s.in_flight_bulk_create_objects[n] \ {o}
                            ELSE s.in_flight_bulk_create_objects[n]]
    /\ f.client_id_to_server = s.client_id_to_server \cup {o}
    /\ f.should_dequeue = s.should_dequeue /\ f.spawned = s.spawned /\ f.dropped = s.dropped
    /\ f.answered = s.answered \cup {item.no}
    /\ Tells(s, f, "done", {o} \cap Shown({item}))
    /\ t = Revised(f, o, 1)

\* Only queued items have dependencies.
Tidy == {s \in Structs : \A n \in ItemNo : n \notin Numbers(Items(s)) => s.queue_dependencies[n] = {}}

-----------------------------------------------------------------------------
(* The type invariant                                                       *)

Contents == [edit : ItemNo, refs : SUBSET Enums, folder : Folders \cup {None}]

QueueTypes ==
    /\ sync_queue \in Tidy /\ sync_queue.spawned = {}
    /\ futures \subseteq Requests

\* What is known locally has content.
AppTypes ==
    /\ log \in [Object -> Seq(ItemNo)]
    /\ latest \in [Object -> Nat]
    /\ content \in [Object -> Contents \cup {NoContent}]
    /\ local \subseteq Object /\ \A o \in local : content[o] \in Contents
    /\ enqueued \in 0..MaxItems /\ cleared \in Nat

TypeInv == QueueTypes /\ AppTypes

\* The user enqueues an item: what all of these items have in common.
UserEnqueues ==
    \/ \E o \in Enums \cup Folders : EnqueueCreate(o)
    \/ \E w \in Workflows : EnqueueCreateWorkflow(w)
    \/ \E set \in SUBSET Preferences : EnqueueBulkCreate(set)
    \/ \E o \in Object : EnqueueUpdate(o) \/ EnqueueAction(o) \/ Resync(o)

\* A creation is the only item of its objects, and they have not been created; an
\* update has the revision that is known.
Grounded(item) ==
    /\ item.op \in {"create", "bulk"} =>
          \A o \in Objects(item) : ~Pending(o) /\ (log[o] = <<>> \/ latest[o] = 0)
    /\ item.op = "update" =>
          /\ IdOf(item)[1] = "server" => latest[ObjectOf(item)] > 0
          /\ item.rev \in {0, latest[ObjectOf(item)]}

NewItem(item) ==
    /\ item \in GoodItem /\ item.no = enqueued + 1
    /\ Grounded(item)
    /\ item.op = "action" => \A id \in item.ids : id[1] = "client" => id[2] \in local
    /\ \/ item.folder \in FolderChoices
       \/ \E o \in Object : content[o] # NoContent /\ item.folder = content[o].folder

\* An item is answered under its ids, and what waits for it is let go.
LetGo(s, kind, item, ids) == DependencySucceeded(Answered(s, kind, item, ids), OnItem(item.no))

\* Logged out, nothing is left but what the queue has answered.
Cleared(s) == [EmptyQueue EXCEPT !.should_dequeue = s.should_dequeue, !.answered = s.answered]

\* The items of an earlier run are creations, numbered in their order, that
\* nothing is in flight for.
Loaded(loaded) ==
    /\ loaded \in Structs /\ loaded.queue = sync_queue.queue
    /\ loaded.spawned = {} /\ \A n \in ItemNo : loaded.queue_dependencies[n] = {}
    /\ Len(loaded.queue) = enqueued /\ ~sync_queue.should_dequeue
    /\ \A k \in DOMAIN loaded.queue :
          /\ loaded.queue[k].no = k /\ loaded.queue[k].op = "create"
          /\ sync_queue.queue_dependencies[k] = InferredDependencies(loaded, loaded.queue[k])
    /\ \A id \in SyncId : loaded.waiting_response[id] = {} /\ sync_queue.waiting_response[id] = {}
    /\ \A n \in ItemNo : /\ loaded.in_flight_bulk_create_objects[n] = {}
                         /\ sync_queue.in_flight_bulk_create_objects[n] = {}
    /\ loaded.client_id_to_server = {} /\ sync_queue.client_id_to_server = {}
    /\ futures = {} /\ cleared = 0
    /\ loaded.dropped = {} /\ sync_queue.dropped = {}
    /\ \A i, j \in Items(loaded) : Objects(i) \cap Objects(j) # {} => i.no = j.no

\* The item that brings a denied object to the personal drive, and the struct
\* that remembers the denial.
Again(r) == Unchanged(Create(ObjectOf(r.item), None))
Noted(s, set) == [s EXCEPT !.failed = @ \cup set]

-----------------------------------------------------------------------------
(* Nothing is stuck                                                         *)
(*                                                                          *)
(* Every item has a number of its own, and what an item waits for is in the *)
(* queue or in flight, under the name that its end will let go.             *)

\* The items that are waited for: those of the requests that there will be, and
\* the creations that were skipped.
Flying(s, left) ==
    {r.item : r \in left \cup s.spawned} \cup {i \in s.dropped : i.op \in {"create", "bulk"}}

Numbered(s, left, m) ==
    /\ IsInjective(s.queue)
    /\ \A i, j \in Items(s) : i.no = j.no => i = j
    /\ \A r, q \in left \cup s.spawned : r.item.no = q.item.no => r = q
    /\ \A i, j \in Flying(s, left) : i.no = j.no => i = j
    /\ \A i \in Items(s), j \in Flying(s, left) : i.no # j.no
    /\ \A i \in Items(s) \cup Flying(s, left) : i.no <= m

\* A dependency names an item that will be answered, or an object of a bulk
\* that is still counted.
Names(s, d, i) ==
    \/ i.op \in {"create", "update"} /\ d = OnItem(i.no)
    \/ /\ i.op = "bulk"
       /\ \E o \in Objects(i) :
             d = OnObject(i.no, o) /\ (i \in Items(s) \/ o \in s.in_flight_bulk_create_objects[i.no])

Live(s, left, d) == \E i \in Items(s) \cup Flying(s, left) : Names(s, d, i)

DependenciesLive(s, left) == \A n \in ItemNo : \A d \in s.queue_dependencies[n] : Live(s, left, d)

WaitingLive(s, left) ==
    \A id \in SyncId : \A n \in s.waiting_response[id] :
        \E i \in Flying(s, left) :
            /\ i.no = n /\ id \in AwaitedIds(i)
            /\ i.op = "bulk" => id[2] \in s.in_flight_bulk_create_objects[n]

CountedLive(s, left) ==
    \A n \in ItemNo : \A o \in s.in_flight_bulk_create_objects[n] :
        \E i \in Flying(s, left) : i.no = n /\ i.op = "bulk" /\ o \in Objects(i)

BulksWaitForNothing(s) == \A i \in Items(s) : i.op = "bulk" => s.queue_dependencies[i.no] = {}

\* With these requests left, up to this number.
Well(s, left, m) ==
    /\ s \in Tidy /\ left \subseteq Requests
    /\ Numbered(s, left, m)
    /\ DependenciesLive(s, left) /\ WaitingLive(s, left) /\ CountedLive(s, left)
    /\ BulksWaitForNothing(s)

\* Nothing waits for the item with this number, under any name.
Traceless(s, n) ==
    /\ \A k \in ItemNo : \A d \in s.queue_dependencies[k] : d[1] # n
    /\ \A id \in SyncId : n \notin s.waiting_response[id]
    /\ s.in_flight_bulk_create_objects[n] = {}

\* An item has been sent, and t is left.
Sent(s, t, sent) ==
    /\ Items(t) = Items(s) \ sent /\ IsInjective(t.queue)
    /\ t.queue_dependencies =
          [n \in ItemNo |-> IF n \in Numbers(sent) THEN {} ELSE s.queue_dependencies[n]]
    /\ \A id \in SyncId :
          t.waiting_response[id] =
             s.waiting_response[id] \cup {i.no : i \in {i \in sent : id \in AwaitedIds(i)}}
    /\ \A n \in ItemNo :
          \/ /\ \A i \in sent : i.op = "bulk" => i.no # n
             /\ t.in_flight_bulk_create_objects[n] = s.in_flight_bulk_create_objects[n]
          \/ \E i \in sent : /\ i.op = "bulk" /\ i.no = n
                             /\ t.in_flight_bulk_create_objects[n] = Objects(i)
    /\ t.client_id_to_server = s.client_id_to_server
    /\ t.should_dequeue = s.should_dequeue
    /\ t.spawned = s.spawned \cup {Request(i) : i \in sent} /\ t.dropped = s.dropped
    /\ t.answered = s.answered /\ t.told = s.told /\ t.failed = s.failed

-----------------------------------------------------------------------------
(* Nothing is forgotten                                                     *)

\* The item with this number is queued or sent, or has been answered or skipped.
Placed(s, n) ==
    \/ n \in Numbers(Items(s))
    \/ \E r \in s.spawned : r.item.no = n
    \/ n \in s.answered
    \/ \E i \in s.dropped : i.no = n

\* From s to t no item is lost sight of, and what is skipped is not an update
\* and was not resolved.
Progress(s, t) ==
    /\ s.answered \subseteq t.answered /\ s.client_id_to_server \subseteq t.client_id_to_server
    /\ s.spawned \subseteq t.spawned /\ s.dropped \subseteq t.dropped
    /\ \A i \in t.dropped \ s.dropped : i.op # "update" /\ ~Resolved(s, i)
    /\ \A i \in Items(s) : Placed(t, i.no)

QueueInv ==
    /\ TypeInv /\ Well(sync_queue, futures, enqueued)
    /\ KeepsDraining

\* What NothingForgotten says of a step.
Remembered ==
    /\ \A n \in Enqueued \ (Queued' \cup InFlight') :
          n \in sync_queue'.answered \/ n <= cleared'
          \/ \E i \in sync_queue'.dropped : i.no = n
    /\ \A i \in sync_queue'.dropped \ sync_queue.dropped :
          i.op # "update" /\ ~Resolved(sync_queue, i)

\* What a step does for the invariant and for NothingForgotten.
GoodStep == Well(sync_queue', futures', enqueued') /\ KeepsDraining' /\ Remembered

\* What the creation of an object leaves before dequeue is called.
AfterCreation(item) ==
    LET o == ObjectOf(item)
    IN  CreationSucceeded(IF o \in Enums THEN Replaced(sync_queue, item, o) ELSE sync_queue, item, o)

\* After k objects of the bulk: they are not counted any more.
AfterObjects(item, created, k) ==
    {t \in Tidy :
        /\ Well(t, futures, enqueued) /\ Progress(sync_queue, t)
        /\ \A j \in 1..k : created[j] \notin t.in_flight_bulk_create_objects[item.no]
        /\ k > 0 => item.no \in t.answered
        /\ k > 0 /\ t.should_dequeue /\ t.spawned = {} => Ready(t) = {}}

-----------------------------------------------------------------------------
(* One's own edits: the order of the updates of an object, and the revisions *)
(* they carry.                                                               *)

Updates(items) == {i \in items : i.op = "update"}
Creations(items) == {i \in items : i.op \in {"create", "bulk"}}
Requested(s, left) == {r.item : r \in left \cup s.spawned}
Alive(s, left) == Items(s) \cup Requested(s, left)

\* An update waits for every earlier one of its object, and none is sent while
\* another is in flight.
UpdatesWait(s, left) ==
    /\ \A i \in Updates(Alive(s, left)), j \in Updates(Items(s)) :
          ObjectOf(i) = ObjectOf(j) /\ i.no < j.no => OnItem(i.no) \in s.queue_dependencies[j.no]
    /\ \A i \in Updates(Requested(s, left)), j \in Updates(Items(s)) :
          ObjectOf(i) = ObjectOf(j) => i.no < j.no
    /\ \A i, j \in Updates(Requested(s, left)) : ObjectOf(i) = ObjectOf(j) => i.no = j.no

\* Updates are waited for under the server id of their object, and only sent and
\* known by it once the object has been created.
UpdatesKnown(s, left) ==
    /\ \A i \in Updates(Requested(s, left)) :
          /\ i.no \in s.waiting_response[Server(ObjectOf(i))]
          /\ ObjectOf(i) \in s.client_id_to_server
    /\ \A i \in Updates(Items(s)) :
          IdOf(i)[1] = "server" => ObjectOf(i) \in s.client_id_to_server

\* One item at most creates an object, and none creates what has been created.
CreatedOnce(s, left) ==
    /\ \A i, j \in Creations(Alive(s, left)) : Objects(i) \cap Objects(j) # {} => i.no = j.no
    /\ \A i \in Creations(Alive(s, left)) : Objects(i) \cap s.client_id_to_server = {}

\* A request that has been spawned has not been received yet.
JustSent(s) == \A r \in s.spawned : r.at = "sent"

Orderly(s, left) ==
    UpdatesWait(s, left) /\ UpdatesKnown(s, left) /\ CreatedOnce(s, left) /\ JustSent(s)

\* The updates of these objects carry their current revision or, resent, none;
\* a folder has none.
Current(s, left, revision, objects) ==
    \A i \in Updates(Alive(s, left)) :
        ObjectOf(i) \in objects \ Folders => i.rev \in {0, revision[ObjectOf(i)]}

\* The same item but for its references and its revision.
Alike(i, j) == j.no = i.no /\ j.op = i.op /\ j.ids = i.ids /\ j.edit = i.edit

\* From s to t items leave the queue, and item n is not waited for any more.
Eases(s, t, n) ==
    /\ \A j \in Items(t) : \E i \in Items(s) :
          Alike(i, j) /\ \A d \in s.queue_dependencies[i.no] : d[1] = n \/ d \in t.queue_dependencies[i.no]
    /\ \A id \in SyncId : \A k \in s.waiting_response[id] : k = n \/ k \in t.waiting_response[id]
    /\ s.client_id_to_server \subseteq t.client_id_to_server
    /\ t.spawned = s.spawned

SameRevisions(s, t) ==
    /\ \A j \in Items(t) : \E i \in Items(s) : Alike(i, j) /\ i.rev = j.rev
    /\ t.spawned = s.spawned

\* A new item: an update knows the revision of its object, a creation is the only
\* one of its objects.
Timely(s, left, revision, item) ==
    /\ item.op = "update" =>
          /\ IdOf(item)[1] = "server" => ObjectOf(item) \in s.client_id_to_server
          /\ item.rev \in {0, revision[ObjectOf(item)]}
    /\ item.op \in {"create", "bulk"} =>
          /\ Objects(item) \cap s.client_id_to_server = {}
          /\ \A i \in Creations(Alive(s, left)) : Objects(i) \cap Objects(item) = {}

\* The server has applied a creation, or an update, of o that it has not
\* answered yet.
CreationApplied(o) ==
    \E r \in futures : r.at = "applied" /\ r.item.op \in {"create", "bulk"} /\ o \in Objects(r.item)
UpdateApplied(o) ==
    \E r \in futures : r.at = "applied" /\ r.item.op = "update" /\ ObjectOf(r.item) = o

\* What the cloud model knows of the server's history is behind by no more than
\* what is applied and not answered.
Revisions ==
    /\ \A o \in Object \ sync_queue.client_id_to_server :
          latest[o] = 0 /\ (log[o] = <<>> \/ CreationApplied(o))
    /\ \A o \in sync_queue.client_id_to_server :
          log[o] # <<>> /\ (latest[o] = Len(log[o]) \/ UpdateApplied(o))
    /\ \A r \in futures :
          /\ r.at # "refused"
          /\ r.at = "applied" /\ r.item.op \in {"create", "bulk"} =>
                r.rev = 1 /\ \A o \in Objects(r.item) : Len(log[o]) = 1
          /\ r.at = "applied" /\ r.item.op = "update" => r.rev = Len(log[ObjectOf(r.item)])

EditsHold ==
    /\ cleared = 0
    /\ Orderly(sync_queue, futures) /\ Current(sync_queue, futures, latest, Object)
    /\ Revisions

\* After k objects of a bulk: no other item creates its objects, and their
\* updates carry their first revision.
OrderlyAfter(r, created, k) ==
    {t \in AfterObjects(r.item, created, k) :
        LET left == futures \ {r} IN
        /\ Orderly(t, left) /\ Current(t, left, latest', Object)
        /\ t.client_id_to_server = sync_queue.client_id_to_server \cup {created[j] : j \in 1..k}
        /\ \A i \in Alive(t, left) : i.no # r.item.no
        /\ \A i \in Creations(Alive(t, left)) : Objects(i) \cap Objects(r.item) = {}}

EditsInv ==
    /\ lost \in Nat /\ logouts \in Nat
    /\ lost = 0 /\ logouts = 0 => EditsHold

-----------------------------------------------------------------------------
(* What is shown of an object: the changes that are still to be made on the  *)
(* server, and what they will leave there.                                   *)

Job(i) == [no |-> i.no, op |-> i.op, edit |-> i.edit]
Work(s, left, o) == {Job(i) : i \in {i \in Alive(s, left) : i.op # "action" /\ o \in Objects(i)}}

\* The objects of which a creation was skipped.
NotCreated(s) == {o \in Object : \E i \in s.dropped : i.op \in {"create", "bulk"} /\ o \in Objects(i)}

\* An object that is shown as being saved has work to do, or its creation was
\* skipped.
BeingSaved(s, left, contents) ==
    \A o \in Object :
        contents[o] # NoContent /\ s.told[o] \notin {"done", "failed"} =>
            Work(s, left, o) # {} \/ o \in NotCreated(s)

\* Once the changes are made, the last edit is on the server: it is there if none
\* is left of an object that is shown as saved, or the latest of them carries it.
\* There is one creation at most, of an object that is not shown as saved, and it
\* is not the latest of several changes.
LeadsTo(work, history, edit, told) ==
    /\ work = {} /\ told = "done" => history # <<>> /\ Last(history) = edit
    /\ \A w \in work : (\A v \in work : v.no <= w.no) => w.edit = edit
    /\ \A v \in work : v.op # "update" =>
          /\ told # "done"
          /\ \A w \in work : w.op # "update" => w.no = v.no
          /\ (\A w \in work : w.no = v.no) \/ (\E w \in work : v.no < w.no)

WillBeSaved(s, left, contents, history) ==
    \A o \in Object \ s.failed :
        IF contents[o] = NoContent THEN s.told[o] # "done" /\ Work(s, left, o) = {}
        ELSE LeadsTo(Work(s, left, o), history[o], contents[o].edit, s.told[o])

\* A change that is applied and not answered is the last the server knows of.
EditsApplied ==
    \A r \in futures : r.at = "applied" /\ r.item.op # "action" =>
        \A o \in Objects(r.item) : log[o] # <<>> /\ Last(log[o]) = r.item.edit

\* From s to t the work of an object stays, but for a creation that is skipped.
Stays(s, t, left, o) ==
    /\ Work(t, left, o) \subseteq Work(s, left, o)
    /\ \A w \in Work(s, left, o) \ Work(t, left, o) : w.op # "update" /\ o \in NotCreated(t)

\* What is told of the end of a request.
Outcomes == {"done", "denied", "failed"}

\* From s to t these objects are told of, and the work of an object stays unless
\* it fails.
Reports(s, t, left, kind, objects) ==
    /\ s.failed \subseteq t.failed /\ NotCreated(s) \subseteq NotCreated(t)
    /\ kind \in {"failed", "denied"} => objects \cap Object \subseteq t.failed
    /\ \A o \in Object :
          \/ o \in t.failed /\ (t.told[o] = "failed" \/ (o \in objects /\ t.told[o] = kind))
          \/ /\ Stays(s, t, left, o)
             /\ t.told[o] = IF o \in objects THEN kind ELSE s.told[o]

\* What is shown is true.
SavingShown == BeingSaved(sync_queue, futures, content)
SavedShown == WillBeSaved(sync_queue, futures, content, log) /\ EditsApplied
ShownStep == (SavingShown => SavingShown') /\ (EditsHold /\ SavedShown => SavedShown')

\* After k objects of a bulk, these have been told of.
ToldAfter(r, created, k) ==
    {t \in AfterObjects(r.item, created, k) :
        /\ Reports(sync_queue, t, futures \ {r}, "done", {created[j] : j \in 1..k})
        /\ JustSent(t)}

StatusInv ==
    /\ logouts = 0 => SavingShown
    /\ lost = 0 /\ logouts = 0 => SavedShown
=============================================================================
