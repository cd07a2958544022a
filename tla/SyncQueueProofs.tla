--------------------------- MODULE SyncQueueProofs ---------------------------
(***************************************************************************)
(* Theorems about the sync queue, for any objects and any number of items, *)
(* lost answers and logouts.                                               *)
(*                                                                         *)
(* The methods of the queue are operators on its struct, so most lemmas    *)
(* are about an operator: that it keeps the invariants, and which relation *)
(* of SyncQueueInvariants there is between a struct and what it makes of   *)
(* it.                                                                     *)
(***************************************************************************)
EXTENDS SyncQueueInvariants, SequenceLemmas

-----------------------------------------------------------------------------
(* Types                                                                   *)

LEMMA StructFields ==
    ASSUME NEW s \in Structs
    PROVE  /\ s.queue \in Seq(GoodItem) /\ Items(s) \subseteq GoodItem
           /\ s.waiting_response \in [SyncId -> SUBSET ItemNo]
           /\ s.in_flight_bulk_create_objects \in [ItemNo -> SUBSET Object]
           /\ s.client_id_to_server \subseteq Object
           /\ s.should_dequeue \in BOOLEAN
           /\ s.queue_dependencies \in [ItemNo -> SUBSET Dependency]
           /\ s.spawned \subseteq Requests
           /\ s.answered \subseteq ItemNo /\ s.dropped \subseteq GoodItem
           /\ s.failed \subseteq Object
           /\ s.told \in [Object -> Kinds]
<1>1. s.queue \in Seq(GoodItem)
    BY DEF Structs
<1>2. Items(s) \subseteq GoodItem
    BY <1>1, ElementsInSet DEF Items, ToSet
<1>3. QED
    BY <1>1, <1>2 DEF Structs

\* The ids and objects of an item.
LEMMA ItemIds ==
    ASSUME NEW i \in GoodItem
    PROVE  /\ i.ids \subseteq SyncId /\ i.ids # {} /\ IdOf(i) \in i.ids
           /\ Objects(i) \subseteq Object /\ ObjectOf(i) \in Objects(i)
           /\ i.no \in ItemNo /\ i.refs \subseteq Enums /\ i.edit \in ItemNo /\ i.rev \in Nat
           /\ i.op \in {"create", "bulk", "update", "action"}
           /\ i.folder \in Folders \cup {None}
           /\ i.op # "bulk" => i.ids = {IdOf(i)} /\ Objects(i) = {ObjectOf(i)}
           /\ i.op \in {"create", "bulk"} => i.ids = {Client(o) : o \in Objects(i)}
<1>1. i \in Item /\ Shaped(i)
    BY DEF GoodItem
<1>2. /\ i.ids \subseteq SyncId /\ i.no \in ItemNo /\ i.refs \subseteq Enums /\ i.edit \in ItemNo
      /\ i.rev \in Nat /\ i.op \in {"create", "bulk", "update", "action"}
      /\ i.folder \in Folders \cup {None}
    BY <1>1 DEF Item
<1>3. \A id \in SyncId : id[2] \in Object
    BY DEF SyncId, Client, Server
<1>4. \A o : Client(o)[2] = o
    BY DEF Client
<1>5. i.ids # {}
    BY <1>1, <1>2 DEF Shaped
<1>6. IdOf(i) \in i.ids
    BY <1>5 DEF IdOf, The
<1>7. Objects(i) \subseteq Object /\ ObjectOf(i) \in Objects(i)
    BY <1>2, <1>3, <1>6 DEF Objects, ObjectOf
<1>8. i.op # "bulk" => \E id : i.ids = {id}
    BY <1>1, <1>2 DEF Shaped
<1>9. i.op # "bulk" => i.ids = {IdOf(i)}
    BY <1>6, <1>8
<1>10. i.op # "bulk" => Objects(i) = {ObjectOf(i)}
    BY <1>9 DEF Objects, ObjectOf
<1>11. ASSUME i.op \in {"create", "bulk"} PROVE i.ids = {Client(o) : o \in Objects(i)}
    <2>1. PICK set \in SUBSET Object : i.ids = {Client(o) : o \in set}
        <3>1. CASE i.op = "create"
            <4>1. PICK o \in Object : i.ids = {Client(o)}
                BY <1>1, <3>1 DEF Shaped
            <4>2. i.ids = {Client(x) : x \in {o}}
                BY <4>1
            <4>3. QED
                BY <4>2
        <3>2. CASE i.op = "bulk"
            BY <1>1, <3>2 DEF Shaped
        <3>3. QED
            BY <1>11, <3>1, <3>2
    <2>2. Objects(i) = set
        BY <1>4, <2>1 DEF Objects
    <2>3. QED
        BY <2>1, <2>2
<1>12. QED
    BY <1>2, <1>5, <1>6, <1>7, <1>9, <1>10, <1>11

LEMMA TellsMore ==
    ASSUME NEW s, NEW t, NEW u, NEW kind, NEW first, NEW second,
           Tells(s, t, kind, first), Tells(t, u, kind, second)
    PROVE  Tells(s, u, kind, first \cup second)
    BY DEF Tells

LEMMA ToldType ==
    ASSUME NEW s \in Structs, NEW kind \in Kinds, NEW objects \in SUBSET Object
    PROVE  LET t == Told(s, kind, objects) IN
           t \in Structs /\ Same(s, t) /\ t.answered = s.answered /\ Tells(s, t, kind, objects)
    BY DEF Told, Structs, Same, Tells

LEMMA ShownObjects ==
    ASSUME NEW items \in SUBSET GoodItem
    PROVE  Shown(items) \subseteq Object
    BY ItemIds DEF Shown

\* Numbers of items may be answered.
LEMMA AnsweredMore ==
    ASSUME NEW s \in Structs, NEW set \in SUBSET ItemNo
    PROVE  LET t == [s EXCEPT !.answered = @ \cup set] IN
           t \in Structs /\ Same(s, t) /\ t.answered = s.answered \cup set
    BY DEF Structs, Same

LEMMA AnsweredMoreTells ==
    ASSUME NEW s \in Structs, NEW set
    PROVE  LET t == [s EXCEPT !.answered = @ \cup set] IN t.told = s.told /\ t.failed = s.failed
    BY DEF Structs

LEMMA EmittedType ==
    ASSUME NEW s \in Structs, NEW kind \in Kinds, NEW item \in GoodItem, NEW objects
    PROVE  LET t == Emitted(s, kind, item, objects) IN
           t \in Structs /\ Same(s, t) /\ t.answered = s.answered \cup {item.no}
<1> DEFINE told == Told(s, kind, objects \cap Shown({item}))
<1>1. objects \cap Shown({item}) \subseteq Object
    BY ShownObjects
<1>2. told \in Structs /\ Same(s, told) /\ told.answered = s.answered
    BY <1>1, ToldType
<1>3. item.no \in ItemNo
    BY ItemIds
<1> HIDE DEF told
<1>4. LET t == [told EXCEPT !.answered = @ \cup {item.no}] IN
      t \in Structs /\ Same(told, t) /\ t.answered = told.answered \cup {item.no}
    BY <1>2, <1>3, AnsweredMore
<1>5. Emitted(s, kind, item, objects) = [told EXCEPT !.answered = @ \cup {item.no}]
    BY DEF Emitted, told
<1>6. QED
    BY <1>2, <1>4, <1>5 DEF Same

LEMMA EmittedTells ==
    ASSUME NEW s \in Structs, NEW kind \in Kinds, NEW item \in GoodItem, NEW objects
    PROVE  Tells(s, Emitted(s, kind, item, objects), kind, objects \cap Shown({item}))
<1> DEFINE told == Told(s, kind, objects \cap Shown({item}))
<1>1. objects \cap Shown({item}) \subseteq Object /\ item.no \in ItemNo
    BY ShownObjects, ItemIds
<1>2. told \in Structs /\ Tells(s, told, kind, objects \cap Shown({item}))
    BY <1>1, ToldType
<1>3. Emitted(s, kind, item, objects) = [told EXCEPT !.answered = @ \cup {item.no}]
    BY DEF Emitted
<1> HIDE DEF told
<1>4. LET t == [told EXCEPT !.answered = @ \cup {item.no}] IN t.told = told.told /\ t.failed = told.failed
    BY <1>2, AnsweredMoreTells
<1>5. QED
    BY <1>2, <1>3, <1>4 DEF Tells

LEMMA FailedType ==
    ASSUME NEW s \in Structs, NEW items \in SUBSET GoodItem
    PROVE  LET t == Failed(s, items) IN
           t \in Structs /\ Same(s, t) /\ t.answered = s.answered \cup Numbers(items)
           /\ Tells(s, t, "failed", Shown(items))
<1> DEFINE told == Told(s, "failed", Shown(items))
<1>1. Shown(items) \subseteq Object /\ "failed" \in Kinds
    BY ShownObjects DEF Kinds
<1>2. told \in Structs /\ Same(s, told) /\ told.answered = s.answered
      /\ Tells(s, told, "failed", Shown(items))
    BY <1>1, ToldType
<1>3. Numbers(items) \subseteq ItemNo
    BY ItemIds DEF Numbers
<1> HIDE DEF told
<1>4. LET t == [told EXCEPT !.answered = @ \cup Numbers(items)] IN
      t \in Structs /\ Same(told, t) /\ t.answered = told.answered \cup Numbers(items)
    BY <1>2, <1>3, AnsweredMore
<1>5. LET t == [told EXCEPT !.answered = @ \cup Numbers(items)] IN t.told = told.told /\ t.failed = told.failed
    BY <1>2, AnsweredMoreTells
<1>6. Failed(s, items) = [told EXCEPT !.answered = @ \cup Numbers(items)]
    BY DEF Failed, told, Numbers
<1>7. QED
    BY <1>2, <1>4, <1>5, <1>6 DEF Same, Tells

LEMMA AnsweredType ==
    ASSUME NEW s \in Structs, NEW kind \in Kinds, NEW item \in GoodItem, NEW ids
    PROVE  LET t == Answered(s, kind, item, ids) IN
           /\ t \in Structs
           /\ t.queue = s.queue /\ t.queue_dependencies = s.queue_dependencies
           /\ t.waiting_response =
                  [id \in SyncId |-> IF id \in ids THEN s.waiting_response[id] \ {item.no}
                                     ELSE s.waiting_response[id]]
           /\ t.in_flight_bulk_create_objects = s.in_flight_bulk_create_objects
           /\ t.client_id_to_server = s.client_id_to_server
           /\ t.should_dequeue = s.should_dequeue /\ t.spawned = s.spawned /\ t.dropped = s.dropped
           /\ t.answered = s.answered \cup {item.no}
<1> DEFINE e == Emitted(s, kind, item, {id[2] : id \in ids})
<1>1. e \in Structs /\ Same(s, e) /\ e.answered = s.answered \cup {item.no}
    BY EmittedType
<1>2. Answered(s, kind, item, ids) =
      [e EXCEPT !.waiting_response = [id \in SyncId |-> IF id \in ids THEN @[id] \ {item.no} ELSE @[id]]]
    BY DEF Answered
<1> HIDE DEF e
<1>3. e.waiting_response = s.waiting_response /\ s.waiting_response \in [SyncId -> SUBSET ItemNo]
    BY <1>1, StructFields DEF Same
<1> DEFINE waiting == [id \in SyncId |-> IF id \in ids THEN s.waiting_response[id] \ {item.no}
                                         ELSE s.waiting_response[id]]
<1>4. waiting \in [SyncId -> SUBSET ItemNo]
    BY <1>3
<1>5. Answered(s, kind, item, ids) = [e EXCEPT !.waiting_response = waiting]
    BY <1>2, <1>3
<1> HIDE DEF waiting
<1>6. /\ [e EXCEPT !.waiting_response = waiting] \in Structs
      /\ [e EXCEPT !.waiting_response = waiting].waiting_response = waiting
    BY <1>1, <1>4 DEF Structs
<1>7. QED
    BY <1>1, <1>5, <1>6 DEF Structs, Same, waiting

LEMMA AnsweredTells ==
    ASSUME NEW s \in Structs, NEW kind \in Kinds, NEW item \in GoodItem, NEW ids
    PROVE  Tells(s, Answered(s, kind, item, ids), kind, ObjectsOf(ids) \cap Shown({item}))
<1> DEFINE e == Emitted(s, kind, item, ObjectsOf(ids))
           waiting == [id \in SyncId |-> IF id \in ids THEN e.waiting_response[id] \ {item.no}
                                         ELSE e.waiting_response[id]]
<1>1. Tells(s, e, kind, ObjectsOf(ids) \cap Shown({item})) /\ e \in Structs
    BY EmittedTells, EmittedType
<1>2. Answered(s, kind, item, ids) = [e EXCEPT !.waiting_response = waiting]
    BY DEF Answered, ObjectsOf
<1> HIDE DEF e, waiting
<1>3. [e EXCEPT !.waiting_response = waiting].told = e.told
      /\ [e EXCEPT !.waiting_response = waiting].failed = e.failed
    BY <1>1 DEF Structs
<1>4. QED
    BY <1>1, <1>2, <1>3 DEF Tells

LEMMA DependencySucceededType ==
    ASSUME NEW s \in Structs, NEW d
    PROVE  LET t == DependencySucceeded(s, d) IN
           /\ t \in Structs
           /\ t.queue = s.queue
           /\ t.queue_dependencies = [n \in ItemNo |-> s.queue_dependencies[n] \ {d}]
           /\ t.waiting_response = s.waiting_response
           /\ t.in_flight_bulk_create_objects = s.in_flight_bulk_create_objects
           /\ t.client_id_to_server = s.client_id_to_server
           /\ t.should_dequeue = s.should_dequeue /\ t.spawned = s.spawned /\ t.dropped = s.dropped
           /\ t.answered = s.answered /\ t.told = s.told /\ t.failed = s.failed
<1>1. s.queue_dependencies \in [ItemNo -> SUBSET Dependency]
    BY StructFields
<1>2. [n \in ItemNo |-> s.queue_dependencies[n] \ {d}] \in [ItemNo -> SUBSET Dependency]
    BY <1>1
<1>3. QED
    BY <1>2 DEF DependencySucceeded, Structs

LEMMA UncountedType ==
    ASSUME NEW s \in Structs, NEW item \in GoodItem, NEW objects
    PROVE  LET t == Uncounted(s, item, objects) IN
           /\ t \in Structs
           /\ t.queue = s.queue /\ t.queue_dependencies = s.queue_dependencies
           /\ t.waiting_response = s.waiting_response
           /\ t.in_flight_bulk_create_objects =
                 [n \in ItemNo |-> IF n = item.no THEN s.in_flight_bulk_create_objects[n] \ objects
                                   ELSE s.in_flight_bulk_create_objects[n]]
           /\ t.client_id_to_server = s.client_id_to_server
           /\ t.should_dequeue = s.should_dequeue /\ t.spawned = s.spawned /\ t.dropped = s.dropped
           /\ t.answered = s.answered /\ t.told = s.told /\ t.failed = s.failed
<1>1. s.in_flight_bulk_create_objects \in [ItemNo -> SUBSET Object] /\ item.no \in ItemNo
    BY StructFields, ItemIds
<1>2. QED
    BY <1>1 DEF Uncounted, Structs

\* What is left of the queue.
LEMMA RemovedType ==
    ASSUME NEW s \in Structs, NEW items \in SUBSET GoodItem
    PROVE  LET t == Removed(s, items) IN
           /\ t \in Structs
           /\ Items(t) = Items(s) \ items
           /\ IsInjective(s.queue) => IsInjective(t.queue)
           /\ t.queue_dependencies =
                 [n \in ItemNo |-> IF n \in Numbers(items) THEN {} ELSE s.queue_dependencies[n]]
           /\ t.waiting_response = s.waiting_response
           /\ t.in_flight_bulk_create_objects = s.in_flight_bulk_create_objects
           /\ t.client_id_to_server = s.client_id_to_server
           /\ t.should_dequeue = s.should_dequeue /\ t.spawned = s.spawned /\ t.dropped = s.dropped
           /\ t.answered = s.answered /\ t.told = s.told /\ t.failed = s.failed
<1> DEFINE kept == Keep(s.queue, ToSet(s.queue) \ items)
           deps == [n \in ItemNo |-> IF n \in Numbers(items) THEN {} ELSE s.queue_dependencies[n]]
           t == Removed(s, items)
<1>1. s.queue \in Seq(GoodItem) /\ s.queue_dependencies \in [ItemNo -> SUBSET Dependency]
    BY StructFields
<1>2. /\ kept \in Seq(GoodItem) /\ ToSet(kept) = ToSet(s.queue) \ items
      /\ IsInjective(s.queue) => IsInjective(kept)
    BY <1>1, KeepElements
<1>3. deps \in [ItemNo -> SUBSET Dependency]
    BY <1>1
<1>4. t = [s EXCEPT !.queue = kept, !.queue_dependencies = deps]
    BY DEF Removed, Numbers
<1> HIDE DEF kept, deps, t
<1>5. /\ t \in Structs /\ t.queue = kept /\ t.queue_dependencies = deps
      /\ t.waiting_response = s.waiting_response
      /\ t.in_flight_bulk_create_objects = s.in_flight_bulk_create_objects
      /\ t.client_id_to_server = s.client_id_to_server
      /\ t.should_dequeue = s.should_dequeue /\ t.spawned = s.spawned /\ t.dropped = s.dropped
      /\ t.answered = s.answered /\ t.told = s.told /\ t.failed = s.failed
    BY <1>2, <1>3, <1>4 DEF Structs
<1>6. QED
    BY <1>2, <1>5 DEF Items, t, deps

\* What fails with ds is closed: no item is left behind that waits for one that
\* has failed. It does not go beyond the items that wait for something.
LEMMA FalloutClosed ==
    ASSUME NEW s, NEW ds
    PROVE  LET gone == Fallout(s, ds) IN
           /\ gone \subseteq Items(s)
           /\ \A i \in Items(s) :
                 s.queue_dependencies[i.no] \cap (ds \cup {OnItem(j.no) : j \in gone}) # {} => i \in gone
           /\ \A i \in gone : s.queue_dependencies[i.no] # {}
<1> DEFINE Waits(i, set) == s.queue_dependencies[i.no] \cap (ds \cup {OnItem(j.no) : j \in set}) # {}
           Closed(set) == \A i \in Items(s) : Waits(i, set) => i \in set
           gone == {i \in Items(s) : \A set \in SUBSET Items(s) : Closed(set) => i \in set}
<1>1. Fallout(s, ds) = gone
    BY DEF Fallout, Items
<1>2. ASSUME NEW i \in Items(s), Waits(i, gone) PROVE i \in gone
    <2> SUFFICES ASSUME NEW set \in SUBSET Items(s), Closed(set) PROVE i \in set
        OBVIOUS
    <2>1. gone \subseteq set
        OBVIOUS
    <2>2. {OnItem(j.no) : j \in gone} \subseteq {OnItem(j.no) : j \in set}
        BY <2>1
    <2>3. Waits(i, set)
        BY <1>2, <2>2
    <2>4. QED
        BY <2>3
<1>3. ASSUME NEW i \in gone PROVE s.queue_dependencies[i.no] # {}
    <2> DEFINE waiting == {j \in Items(s) : s.queue_dependencies[j.no] # {}}
    <2>1. Closed(waiting)
        OBVIOUS
    <2>2. i \in waiting
        BY <2>1
    <2>3. QED
        BY <2>2
<1>4. QED
    BY <1>1, <1>2, <1>3

LEMMA DependencyFailedType ==
    ASSUME NEW s \in Structs, NEW ds
    PROVE  LET t == DependencyFailed(s, ds) IN
           /\ t \in Structs
           /\ \E gone : FallsOut(s, t, ds, gone) /\ t.answered = s.answered \cup Numbers(gone)
                        /\ Tells(s, t, "failed", Shown(gone))
           /\ t.waiting_response = s.waiting_response
           /\ t.in_flight_bulk_create_objects = s.in_flight_bulk_create_objects
           /\ t.client_id_to_server = s.client_id_to_server
           /\ t.should_dequeue = s.should_dequeue /\ t.spawned = s.spawned /\ t.dropped = s.dropped
<1> DEFINE gone == Fallout(s, ds)
           f == Failed(s, gone)
           t == Removed(f, gone)
<1>1. /\ gone \subseteq Items(s) /\ Items(s) \subseteq GoodItem
      /\ \A i \in Items(s) :
            s.queue_dependencies[i.no] \cap (ds \cup {OnItem(j.no) : j \in gone}) # {} => i \in gone
      /\ \A i \in gone : s.queue_dependencies[i.no] # {}
    BY FalloutClosed, StructFields
<1>2. f \in Structs /\ Same(s, f) /\ f.answered = s.answered \cup Numbers(gone)
      /\ Tells(s, f, "failed", Shown(gone))
    BY <1>1, FailedType
<1>3. Items(f) = Items(s) /\ f.queue = s.queue
    BY <1>2 DEF Same, Items
<1>4. DependencyFailed(s, ds) = t
    BY DEF DependencyFailed
<1> HIDE DEF f, gone
<1>5. /\ t \in Structs
      /\ Items(t) = Items(f) \ gone
      /\ IsInjective(f.queue) => IsInjective(t.queue)
      /\ t.queue_dependencies =
            [n \in ItemNo |-> IF n \in Numbers(gone) THEN {} ELSE f.queue_dependencies[n]]
      /\ t.waiting_response = f.waiting_response
      /\ t.in_flight_bulk_create_objects = f.in_flight_bulk_create_objects
      /\ t.client_id_to_server = f.client_id_to_server
      /\ t.should_dequeue = f.should_dequeue /\ t.spawned = f.spawned /\ t.dropped = f.dropped
      /\ t.answered = f.answered /\ t.told = f.told /\ t.failed = f.failed
    BY <1>1, <1>2, <1>3, RemovedType
<1> HIDE DEF t
<1>6. FallsOut(s, t, ds, gone)
    BY <1>1, <1>2, <1>3, <1>5 DEF Same, FallsOut
<1>7. QED
    BY <1>2, <1>4, <1>5, <1>6 DEF Same, Tells

LEMMA CreationFailedType ==
    ASSUME NEW s \in Structs, NEW item \in GoodItem
    PROVE  LET t == CreationFailed(s, item)
               ds == {CreationDependency(s, item, o) : o \in Objects(item)}
           IN  /\ t \in Structs
               /\ \E gone : /\ FallsOut(s, t, ds, gone)
                            /\ t.answered = s.answered \cup {item.no} \cup Numbers(gone)
                            /\ Tells(s, t, "failed", (ObjectsOf(item.ids) \cap Shown({item})) \cup Shown(gone))
               /\ t.waiting_response =
                     [id \in SyncId |-> IF id \in item.ids THEN s.waiting_response[id] \ {item.no}
                                        ELSE s.waiting_response[id]]
               /\ t.in_flight_bulk_create_objects =
                     [n \in ItemNo |->
                        IF n = item.no THEN s.in_flight_bulk_create_objects[n] \ Objects(item)
                        ELSE s.in_flight_bulk_create_objects[n]]
               /\ t.client_id_to_server = s.client_id_to_server
               /\ t.should_dequeue = s.should_dequeue /\ t.spawned = s.spawned /\ t.dropped = s.dropped
<1> DEFINE a == Answered(s, "failed", item, item.ids)
           u == Uncounted(a, item, Objects(item))
           ds == {CreationDependency(s, item, o) : o \in Objects(item)}
           t == DependencyFailed(u, ds)
<1>1. /\ a \in Structs
      /\ a.queue = s.queue /\ a.queue_dependencies = s.queue_dependencies
      /\ a.waiting_response =
             [id \in SyncId |-> IF id \in item.ids THEN s.waiting_response[id] \ {item.no}
                                ELSE s.waiting_response[id]]
      /\ a.in_flight_bulk_create_objects = s.in_flight_bulk_create_objects
      /\ a.client_id_to_server = s.client_id_to_server
      /\ a.should_dequeue = s.should_dequeue /\ a.spawned = s.spawned /\ a.dropped = s.dropped
      /\ a.answered = s.answered \cup {item.no}
    <2>1. "failed" \in Kinds
        BY DEF Kinds
    <2>2. QED
        BY <2>1, AnsweredType
<1>told. Tells(s, a, "failed", ObjectsOf(item.ids) \cap Shown({item}))
    BY AnsweredTells DEF Kinds
<1> HIDE DEF a
<1>2. /\ u \in Structs
      /\ u.queue = a.queue /\ u.queue_dependencies = a.queue_dependencies
      /\ u.waiting_response = a.waiting_response
      /\ u.in_flight_bulk_create_objects =
             [n \in ItemNo |-> IF n = item.no THEN a.in_flight_bulk_create_objects[n] \ Objects(item)
                               ELSE a.in_flight_bulk_create_objects[n]]
      /\ u.client_id_to_server = a.client_id_to_server
      /\ u.should_dequeue = a.should_dequeue /\ u.spawned = a.spawned /\ u.dropped = a.dropped
      /\ u.answered = a.answered /\ u.told = a.told /\ u.failed = a.failed
    BY <1>1, UncountedType
<1> HIDE DEF u, ds
<1>3. /\ t \in Structs
      /\ \E gone : FallsOut(u, t, ds, gone) /\ t.answered = u.answered \cup Numbers(gone)
                   /\ Tells(u, t, "failed", Shown(gone))
      /\ t.waiting_response = u.waiting_response
      /\ t.in_flight_bulk_create_objects = u.in_flight_bulk_create_objects
      /\ t.client_id_to_server = u.client_id_to_server
      /\ t.should_dequeue = u.should_dequeue /\ t.spawned = u.spawned /\ t.dropped = u.dropped
    BY <1>2, DependencyFailedType
<1>4. CreationFailed(s, item) = t
    BY DEF CreationFailed, a, u, ds
<1> HIDE DEF t
<1>5. ASSUME NEW gone, FallsOut(u, t, ds, gone), t.answered = u.answered \cup Numbers(gone),
             Tells(u, t, "failed", Shown(gone))
      PROVE  /\ FallsOut(s, t, ds, gone)
             /\ t.answered = s.answered \cup {item.no} \cup Numbers(gone)
             /\ Tells(s, t, "failed", (ObjectsOf(item.ids) \cap Shown({item})) \cup Shown(gone))
    <2>1. Tells(a, t, "failed", Shown(gone))
        BY <1>2, <1>5 DEF Tells
    <2>2. Tells(s, t, "failed", (ObjectsOf(item.ids) \cap Shown({item})) \cup Shown(gone))
        BY <1>told, <2>1, TellsMore
    <2>3. QED
        BY <1>1, <1>2, <1>5, <2>2 DEF FallsOut, Items
<1>6. \E gone : /\ FallsOut(s, t, ds, gone)
                /\ t.answered = s.answered \cup {item.no} \cup Numbers(gone)
                /\ Tells(s, t, "failed", (ObjectsOf(item.ids) \cap Shown({item})) \cup Shown(gone))
    BY <1>3, <1>5
<1>7. /\ t.waiting_response = a.waiting_response
      /\ t.in_flight_bulk_create_objects =
             [n \in ItemNo |-> IF n = item.no THEN s.in_flight_bulk_create_objects[n] \ Objects(item)
                               ELSE s.in_flight_bulk_create_objects[n]]
      /\ t.client_id_to_server = s.client_id_to_server
      /\ t.should_dequeue = s.should_dequeue /\ t.spawned = s.spawned /\ t.dropped = s.dropped
    BY <1>1, <1>2, <1>3
<1>8. QED
    BY <1>1, <1>3, <1>4, <1>6, <1>7 DEF ds

LEMMA OtherFailedType ==
    ASSUME NEW s \in Structs, NEW item \in GoodItem
    PROVE  LET t == OtherFailed(s, item) IN
           /\ t \in Structs
           /\ \E gone : /\ FallsOut(s, t, {OnItem(item.no)}, gone)
                        /\ t.answered = s.answered \cup {item.no} \cup Numbers(gone)
                        /\ Tells(s, t, "failed", ({ObjectOf(item)} \cap Shown({item})) \cup Shown(gone))
           /\ t.waiting_response =
                 [id \in SyncId |-> IF id = Server(ObjectOf(item)) THEN s.waiting_response[id] \ {item.no}
                                    ELSE s.waiting_response[id]]
           /\ t.in_flight_bulk_create_objects = s.in_flight_bulk_create_objects
           /\ t.client_id_to_server = s.client_id_to_server
           /\ t.should_dequeue = s.should_dequeue /\ t.spawned = s.spawned /\ t.dropped = s.dropped
<1> DEFINE ids == {Server(ObjectOf(item))}
           a == Answered(s, "failed", item, ids)
           ds == {OnItem(item.no)}
           t == DependencyFailed(a, ds)
<1>1. /\ a \in Structs
      /\ a.queue = s.queue /\ a.queue_dependencies = s.queue_dependencies
      /\ a.waiting_response =
             [id \in SyncId |-> IF id \in ids THEN s.waiting_response[id] \ {item.no}
                                ELSE s.waiting_response[id]]
      /\ a.in_flight_bulk_create_objects = s.in_flight_bulk_create_objects
      /\ a.client_id_to_server = s.client_id_to_server
      /\ a.should_dequeue = s.should_dequeue /\ a.spawned = s.spawned /\ a.dropped = s.dropped
      /\ a.answered = s.answered \cup {item.no}
    <2>1. "failed" \in Kinds
        BY DEF Kinds
    <2> HIDE DEF ids
    <2>2. QED
        BY <2>1, AnsweredType
<1>told. Tells(s, a, "failed", {ObjectOf(item)} \cap Shown({item}))
    <2>1. ObjectsOf(ids) = {ObjectOf(item)}
        BY DEF Server, ObjectsOf
    <2> HIDE DEF ids
    <2>2. QED
        BY <2>1, AnsweredTells DEF Kinds
<1> HIDE DEF a, ds
<1>2. /\ t \in Structs
      /\ \E gone : FallsOut(a, t, ds, gone) /\ t.answered = a.answered \cup Numbers(gone)
                   /\ Tells(a, t, "failed", Shown(gone))
      /\ t.waiting_response = a.waiting_response
      /\ t.in_flight_bulk_create_objects = a.in_flight_bulk_create_objects
      /\ t.client_id_to_server = a.client_id_to_server
      /\ t.should_dequeue = a.should_dequeue /\ t.spawned = a.spawned /\ t.dropped = a.dropped
    BY <1>1, DependencyFailedType
<1>3. OtherFailed(s, item) = t
    BY DEF OtherFailed, a, ds
<1> HIDE DEF t
<1>4. ASSUME NEW gone, FallsOut(a, t, ds, gone), t.answered = a.answered \cup Numbers(gone),
             Tells(a, t, "failed", Shown(gone))
      PROVE  /\ FallsOut(s, t, ds, gone)
             /\ t.answered = s.answered \cup {item.no} \cup Numbers(gone)
             /\ Tells(s, t, "failed", ({ObjectOf(item)} \cap Shown({item})) \cup Shown(gone))
    <2>1. Tells(s, t, "failed", ({ObjectOf(item)} \cap Shown({item})) \cup Shown(gone))
        BY <1>told, <1>4, TellsMore
    <2>2. QED
        BY <1>1, <1>4, <2>1 DEF FallsOut, Items
<1>5. \E gone : /\ FallsOut(s, t, ds, gone)
                /\ t.answered = s.answered \cup {item.no} \cup Numbers(gone)
                /\ Tells(s, t, "failed", ({ObjectOf(item)} \cap Shown({item})) \cup Shown(gone))
    BY <1>2, <1>4
<1>6. t.waiting_response =
         [id \in SyncId |-> IF id = Server(ObjectOf(item)) THEN s.waiting_response[id] \ {item.no}
                            ELSE s.waiting_response[id]]
    BY <1>1, <1>2
<1>7. QED
    BY <1>1, <1>2, <1>3, <1>5, <1>6 DEF ds

LEMMA NewRevision ==
    ASSUME NEW i \in GoodItem, NEW rev \in Nat
    PROVE  LET j == [i EXCEPT !.rev = rev]
           IN  j \in GoodItem /\ j.no = i.no /\ j.op = i.op /\ j.ids = i.ids /\ j.folder = i.folder /\ j.edit = i.edit
    BY DEF GoodItem, Item, Shaped

LEMMA FewerReferences ==
    ASSUME NEW i \in GoodItem, NEW refs, refs \subseteq i.refs
    PROVE  LET j == [i EXCEPT !.refs = refs]
           IN  /\ j \in GoodItem /\ j.no = i.no /\ j.op = i.op /\ j.ids = i.ids /\ j.folder = i.folder
               /\ j.edit = i.edit /\ j.rev = i.rev
<1> DEFINE j == [i EXCEPT !.refs = refs]
<1>1. i \in Item /\ Shaped(i)
    BY DEF GoodItem
<1>2. /\ j \in Item /\ j.no = i.no /\ j.op = i.op /\ j.ids = i.ids /\ j.folder = i.folder
      /\ j.refs = refs /\ j.edit = i.edit /\ j.rev = i.rev
    BY <1>1 DEF Item
<1>3. Shaped(j)
    BY <1>1, <1>2 DEF Shaped
<1>4. QED
    BY <1>2, <1>3 DEF GoodItem

LEMMA RewrittenQueue ==
    ASSUME NEW s \in Structs, NEW queue \in [DOMAIN s.queue -> GoodItem],
           \A k \in DOMAIN s.queue :
              /\ queue[k].no = s.queue[k].no /\ queue[k].op = s.queue[k].op
              /\ queue[k].ids = s.queue[k].ids /\ queue[k].folder = s.queue[k].folder
              /\ queue[k].edit = s.queue[k].edit
    PROVE  LET t == [s EXCEPT !.queue = queue] IN t \in Structs /\ Rewritten(s, t)
<1>1. s.queue \in Seq(GoodItem) /\ DOMAIN s.queue = 1..Len(s.queue) /\ Len(s.queue) \in Nat
    BY StructFields
<1>2. queue \in Seq(GoodItem)
    BY <1>1, IsASeq
<1>3. [s EXCEPT !.queue = queue] \in Structs
    BY <1>2 DEF Structs
<1>4. QED
    BY <1>3 DEF Rewritten, Structs

LEMMA RevisedType ==
    ASSUME NEW s \in Structs, NEW o, NEW rev \in Nat
    PROVE  Revised(s, o, rev) \in Structs /\ Rewritten(s, Revised(s, o, rev))
<1> DEFINE Now(i) == IF IsOf(s, i, o) THEN [i EXCEPT !.rev = rev] ELSE i
           queue == [k \in DOMAIN s.queue |-> Now(s.queue[k])]
<1>1. \A k \in DOMAIN s.queue : s.queue[k] \in GoodItem
    BY StructFields, ElementsInSet
<1>2. ASSUME NEW i \in GoodItem
      PROVE  Now(i) \in GoodItem /\ Now(i).no = i.no /\ Now(i).op = i.op /\ Now(i).ids = i.ids
             /\ Now(i).folder = i.folder /\ Now(i).edit = i.edit
    BY NewRevision
<1>3. Revised(s, o, rev) = [s EXCEPT !.queue = queue]
    BY DEF Revised, Structs
<1> HIDE DEF Now
<1>4. queue \in [DOMAIN s.queue -> GoodItem]
    BY <1>1, <1>2
<1>5. \A k \in DOMAIN s.queue :
         /\ queue[k].no = s.queue[k].no /\ queue[k].op = s.queue[k].op
         /\ queue[k].ids = s.queue[k].ids /\ queue[k].folder = s.queue[k].folder
         /\ queue[k].edit = s.queue[k].edit
    BY <1>1, <1>2
<1> HIDE DEF queue
<1>6. QED
    BY <1>3, <1>4, <1>5, RewrittenQueue

LEMMA ReplacedType ==
    ASSUME NEW s \in Structs, NEW item, NEW o
    PROVE  Replaced(s, item, o) \in Structs /\ Rewritten(s, Replaced(s, item, o))
<1> DEFINE Now(i) == IF OnItem(item.no) \in s.queue_dependencies[i.no]
                       THEN [i EXCEPT !.refs = @ \ {o}] ELSE i
           queue == [k \in DOMAIN s.queue |-> Now(s.queue[k])]
<1>1. \A k \in DOMAIN s.queue : s.queue[k] \in GoodItem
    BY StructFields, ElementsInSet
<1>2. ASSUME NEW i \in GoodItem
      PROVE  Now(i) \in GoodItem /\ Now(i).no = i.no /\ Now(i).op = i.op /\ Now(i).ids = i.ids
             /\ Now(i).folder = i.folder /\ Now(i).edit = i.edit
    <2>1. i.refs \ {o} \subseteq i.refs
        OBVIOUS
    <2>2. LET j == [i EXCEPT !.refs = i.refs \ {o}]
          IN  /\ j \in GoodItem /\ j.no = i.no /\ j.op = i.op /\ j.ids = i.ids /\ j.folder = i.folder
              /\ j.edit = i.edit
        BY <2>1, FewerReferences
    <2>3. Now(i) = i \/ Now(i) = [i EXCEPT !.refs = i.refs \ {o}]
        OBVIOUS
    <2>4. QED
        BY <2>2, <2>3
<1>3. Replaced(s, item, o) = [s EXCEPT !.queue = queue]
    BY DEF Replaced, Structs
<1> HIDE DEF Now
<1>4. queue \in [DOMAIN s.queue -> GoodItem]
    BY <1>1, <1>2
<1>5. \A k \in DOMAIN s.queue :
         /\ queue[k].no = s.queue[k].no /\ queue[k].op = s.queue[k].op
         /\ queue[k].ids = s.queue[k].ids /\ queue[k].folder = s.queue[k].folder
         /\ queue[k].edit = s.queue[k].edit
    BY <1>1, <1>2
<1> HIDE DEF queue
<1>6. QED
    BY <1>3, <1>4, <1>5, RewrittenQueue

\* Items are waited for under their ids; a bulk counts its objects.
LEMMA AwaitedType ==
    ASSUME NEW s \in Structs, NEW items \in SUBSET GoodItem
    PROVE  LET t == Awaited(s, items) IN
           /\ t \in Structs
           /\ t.queue = s.queue /\ t.queue_dependencies = s.queue_dependencies
           /\ \A id \in SyncId :
                 t.waiting_response[id] =
                    s.waiting_response[id] \cup {i.no : i \in {i \in items : id \in AwaitedIds(i)}}
           /\ \A n \in ItemNo :
                 \/ /\ \A i \in items : i.op = "bulk" => i.no # n
                    /\ t.in_flight_bulk_create_objects[n] = s.in_flight_bulk_create_objects[n]
                 \/ \E i \in items : /\ i.op = "bulk" /\ i.no = n
                                     /\ t.in_flight_bulk_create_objects[n] = Objects(i)
           /\ t.client_id_to_server = s.client_id_to_server
           /\ t.should_dequeue = s.should_dequeue /\ t.spawned = s.spawned /\ t.dropped = s.dropped
           /\ t.answered = s.answered /\ t.told = s.told /\ t.failed = s.failed
<1> DEFINE Of(n) == {i \in items : i.op = "bulk" /\ i.no = n}
           In(n) == IF Of(n) = {} THEN s.in_flight_bulk_create_objects[n] ELSE Objects(The(Of(n)))
           in == [n \in ItemNo |-> In(n)]
           Wait(id) == s.waiting_response[id] \cup {i.no : i \in {i \in items : id \in AwaitedIds(i)}}
           wait == [id \in SyncId |-> Wait(id)]
           t == Awaited(s, items)
<1>1. /\ s.waiting_response \in [SyncId -> SUBSET ItemNo]
      /\ s.in_flight_bulk_create_objects \in [ItemNo -> SUBSET Object]
    BY StructFields
<1>2. ASSUME NEW n \in ItemNo
      PROVE  /\ In(n) \subseteq Object
             /\ \/ /\ \A i \in items : i.op = "bulk" => i.no # n
                   /\ In(n) = s.in_flight_bulk_create_objects[n]
                \/ \E i \in items : i.op = "bulk" /\ i.no = n /\ In(n) = Objects(i)
    <2>1. CASE Of(n) = {}
        BY <1>1, <2>1
    <2>2. CASE Of(n) # {}
        <3>1. The(Of(n)) \in Of(n)
            BY <2>2 DEF The
        <3>2. The(Of(n)) \in items /\ The(Of(n)).op = "bulk" /\ The(Of(n)).no = n
            BY <3>1
        <3>3. In(n) = Objects(The(Of(n)))
            BY <2>2
        <3>4. Objects(The(Of(n))) \subseteq Object
            BY <3>2, ItemIds
        <3> HIDE DEF In
        <3>5. QED
            BY <3>2, <3>3, <3>4
    <2>3. QED
        BY <2>1, <2>2
<1>3. in \in [ItemNo -> SUBSET Object]
    BY <1>2
<1>4. \A id \in SyncId : Wait(id) \subseteq ItemNo
    BY <1>1, ItemIds
<1>5. wait \in [SyncId -> SUBSET ItemNo]
    BY <1>4
<1>6. t = [s EXCEPT !.waiting_response = wait, !.in_flight_bulk_create_objects = in]
    BY DEF Awaited
<1>7. \A id \in SyncId : wait[id] = Wait(id)
    OBVIOUS
<1>8. \A n \in ItemNo : in[n] = In(n)
    OBVIOUS
<1> HIDE DEF in, wait, t, In, Wait
<1>9. /\ t \in Structs /\ t.queue = s.queue /\ t.queue_dependencies = s.queue_dependencies
      /\ t.waiting_response = wait /\ t.in_flight_bulk_create_objects = in
      /\ t.client_id_to_server = s.client_id_to_server
      /\ t.should_dequeue = s.should_dequeue /\ t.spawned = s.spawned /\ t.dropped = s.dropped
      /\ t.answered = s.answered /\ t.told = s.told /\ t.failed = s.failed
    BY <1>3, <1>5, <1>6 DEF Structs
<1>10. QED
    BY <1>2, <1>7, <1>8, <1>9 DEF t, Wait

\* What dequeue sends is one item that is ready and resolved; what it tries
\* before is ready and not resolved, and all that is ready if it sends nothing.
LEMMA NextChosen ==
    ASSUME NEW s \in Structs
    PROVE  /\ \A i \in NextSent(s) :
                 i \in Items(s) /\ s.queue_dependencies[i.no] = {} /\ Resolved(s, i)
           /\ \A i, j \in NextSent(s) : i = j
           /\ \A i \in Tried(s) :
                 i \in Items(s) /\ s.queue_dependencies[i.no] = {} /\ ~Resolved(s, i)
           /\ NextSent(s) = {} =>
                 \A i \in Items(s) : s.queue_dependencies[i.no] = {} => i \in Tried(s)
<1>1. DOMAIN s.queue = 1..Len(s.queue) /\ DOMAIN s.queue \subseteq Nat
    BY StructFields
<1>2. \A k \in DOMAIN s.queue : s.queue[k] \in Items(s)
    BY DEF Items, ToSet
<1>3. Sendable(s) \subseteq Ready(s) /\ Ready(s) \subseteq DOMAIN s.queue
    BY DEF Sendable, Ready
<1>4. \A k \in Ready(s) : s.queue_dependencies[s.queue[k].no] = {}
    BY DEF Ready
<1>5. ASSUME NEW k \in Ready(s), \A j \in Sendable(s) : k < j
      PROVE  ~Resolved(s, s.queue[k])
    <2>1. k \in Nat
        BY <1>1, <1>3
    <2>2. k \notin Sendable(s)
        BY <1>5, <2>1
    <2>3. QED
        BY <2>2 DEF Sendable
<1>6. \A i \in Tried(s) : i \in Items(s) /\ s.queue_dependencies[i.no] = {} /\ ~Resolved(s, i)
    BY <1>2, <1>3, <1>4, <1>5 DEF Tried
<1>7. \A i \in NextSent(s) : i \in Items(s) /\ s.queue_dependencies[i.no] = {} /\ Resolved(s, i)
    BY <1>2, <1>3, <1>4 DEF NextSent, Sendable
<1>8. ASSUME NEW i \in NextSent(s), NEW j \in NextSent(s) PROVE i = j
    <2>1. PICK k \in Sendable(s) : i = s.queue[k] /\ \A l \in Sendable(s) : k <= l
        BY DEF NextSent
    <2>2. PICK m \in Sendable(s) : j = s.queue[m] /\ \A l \in Sendable(s) : m <= l
        BY DEF NextSent
    <2>3. k \in Nat /\ m \in Nat /\ k <= m /\ m <= k
        BY <1>1, <1>3, <2>1, <2>2
    <2>4. QED
        BY <2>1, <2>2, <2>3
<1>9. ASSUME NextSent(s) = {}, NEW i \in Items(s), s.queue_dependencies[i.no] = {} PROVE i \in Tried(s)
    <2>1. Sendable(s) = {}
        <3> SUFFICES ASSUME Sendable(s) # {} PROVE FALSE
            OBVIOUS
        <3>1. Sendable(s) \subseteq Nat
            BY <1>1, <1>3
        <3>2. PICK k \in Sendable(s) : \A l \in Sendable(s) : k <= l
            BY <3>1, LeastNumber
        <3>3. s.queue[k] \in NextSent(s)
            BY <3>2 DEF NextSent
        <3>4. QED
            BY <1>9, <3>3
    <2>2. PICK k \in DOMAIN s.queue : i = s.queue[k]
        BY DEF Items, ToSet
    <2>3. k \in Ready(s)
        BY <1>9, <2>2 DEF Ready
    <2>4. QED
        BY <2>1, <2>2, <2>3 DEF Tried
<1>10. QED
    BY <1>6, <1>7, <1>8, <1>9

\* Items that are skipped leave the queue, with what depends on the updates
\* among them; the creations are waited for all the same.
LEMMA SkippedType ==
    ASSUME NEW s \in Structs, NEW items \in SUBSET GoodItem
    PROVE  LET t == Skipped(s, items)
               updates == {i \in items : i.op = "update"}
               creations == {i \in items : i.op \in {"create", "bulk"}}
           IN  /\ t \in Structs
               /\ \E r \in Structs : \E gone :
                     /\ r = Removed(s, items)
                     /\ FallsOut(r, t, {OnItem(i.no) : i \in updates}, gone)
                     /\ t.answered = s.answered \cup Numbers(updates) \cup Numbers(gone)
                     /\ Tells(s, t, "failed", Shown(updates) \cup Shown(gone))
               /\ \A id \in SyncId :
                     t.waiting_response[id] =
                        s.waiting_response[id] \cup {i.no : i \in {i \in creations : id \in AwaitedIds(i)}}
               /\ \A n \in ItemNo :
                     \/ /\ \A i \in creations : i.op = "bulk" => i.no # n
                        /\ t.in_flight_bulk_create_objects[n] = s.in_flight_bulk_create_objects[n]
                     \/ \E i \in creations : /\ i.op = "bulk" /\ i.no = n
                                             /\ t.in_flight_bulk_create_objects[n] = Objects(i)
               /\ t.dropped = s.dropped \cup (items \ updates)
               /\ t.client_id_to_server = s.client_id_to_server
               /\ t.should_dequeue = s.should_dequeue /\ t.spawned = s.spawned
<1> DEFINE updates == {i \in items : i.op = "update"}
           creations == {i \in items : i.op \in {"create", "bulk"}}
           ds == {OnItem(i.no) : i \in updates}
           r == Removed(s, items)
           f == Failed(r, updates)
           d == DependencyFailed(f, ds)
           w == Awaited(d, creations)
           t == [w EXCEPT !.dropped = @ \cup (items \ updates)]
<1>1. updates \subseteq GoodItem /\ creations \subseteq GoodItem /\ items \ updates \subseteq GoodItem
    OBVIOUS
<1>2. /\ r \in Structs
      /\ r.waiting_response = s.waiting_response
      /\ r.in_flight_bulk_create_objects = s.in_flight_bulk_create_objects
      /\ r.client_id_to_server = s.client_id_to_server
      /\ r.should_dequeue = s.should_dequeue /\ r.spawned = s.spawned /\ r.dropped = s.dropped
      /\ r.answered = s.answered /\ r.told = s.told /\ r.failed = s.failed
    BY RemovedType
<1>3. Skipped(s, items) = t
    BY DEF Skipped
<1> HIDE DEF updates, creations, ds, r
<1>4. f \in Structs /\ Same(r, f) /\ f.answered = r.answered \cup Numbers(updates)
      /\ Tells(r, f, "failed", Shown(updates))
    BY <1>1, <1>2, FailedType
<1> HIDE DEF f
<1>5. /\ d \in Structs
      /\ \E gone : FallsOut(f, d, ds, gone) /\ d.answered = f.answered \cup Numbers(gone)
                   /\ Tells(f, d, "failed", Shown(gone))
      /\ d.waiting_response = f.waiting_response
      /\ d.in_flight_bulk_create_objects = f.in_flight_bulk_create_objects
      /\ d.client_id_to_server = f.client_id_to_server
      /\ d.should_dequeue = f.should_dequeue /\ d.spawned = f.spawned /\ d.dropped = f.dropped
    BY <1>4, DependencyFailedType
<1> HIDE DEF d
<1>6. /\ w \in Structs
      /\ w.queue = d.queue /\ w.queue_dependencies = d.queue_dependencies
      /\ \A id \in SyncId :
            w.waiting_response[id] =
               d.waiting_response[id] \cup {i.no : i \in {i \in creations : id \in AwaitedIds(i)}}
      /\ \A n \in ItemNo :
            \/ /\ \A i \in creations : i.op = "bulk" => i.no # n
               /\ w.in_flight_bulk_create_objects[n] = d.in_flight_bulk_create_objects[n]
            \/ \E i \in creations : /\ i.op = "bulk" /\ i.no = n
                                    /\ w.in_flight_bulk_create_objects[n] = Objects(i)
      /\ w.client_id_to_server = d.client_id_to_server
      /\ w.should_dequeue = d.should_dequeue /\ w.spawned = d.spawned /\ w.dropped = d.dropped
      /\ w.answered = d.answered /\ w.told = d.told /\ w.failed = d.failed
    BY <1>1, <1>5, AwaitedType
<1> HIDE DEF w
<1>7. /\ t \in Structs
      /\ t.queue = w.queue /\ t.queue_dependencies = w.queue_dependencies
      /\ t.waiting_response = w.waiting_response
      /\ t.in_flight_bulk_create_objects = w.in_flight_bulk_create_objects
      /\ t.client_id_to_server = w.client_id_to_server
      /\ t.should_dequeue = w.should_dequeue /\ t.spawned = w.spawned
      /\ t.dropped = w.dropped \cup (items \ updates)
      /\ t.answered = w.answered /\ t.told = w.told /\ t.failed = w.failed
    BY <1>1, <1>6 DEF Structs
<1> HIDE DEF t
<1>8. /\ d.waiting_response = s.waiting_response
      /\ d.in_flight_bulk_create_objects = s.in_flight_bulk_create_objects
      /\ t.dropped = s.dropped \cup (items \ updates)
    BY <1>2, <1>4, <1>5, <1>6, <1>7 DEF Same
<1>9. /\ \A id \in SyncId :
            t.waiting_response[id] =
               s.waiting_response[id] \cup {i.no : i \in {i \in creations : id \in AwaitedIds(i)}}
      /\ \A n \in ItemNo :
            \/ /\ \A i \in creations : i.op = "bulk" => i.no # n
               /\ t.in_flight_bulk_create_objects[n] = s.in_flight_bulk_create_objects[n]
            \/ \E i \in creations : /\ i.op = "bulk" /\ i.no = n
                                    /\ t.in_flight_bulk_create_objects[n] = Objects(i)
    BY <1>6, <1>7, <1>8
<1>10. ASSUME NEW gone, FallsOut(f, d, ds, gone), d.answered = f.answered \cup Numbers(gone),
              Tells(f, d, "failed", Shown(gone))
       PROVE  /\ FallsOut(r, t, ds, gone)
              /\ t.answered = s.answered \cup Numbers(updates) \cup Numbers(gone)
              /\ Tells(s, t, "failed", Shown(updates) \cup Shown(gone))
    <2>1. Tells(s, f, "failed", Shown(updates)) /\ Tells(f, t, "failed", Shown(gone))
        BY <1>2, <1>4, <1>6, <1>7, <1>10 DEF Tells
    <2>2. Tells(s, t, "failed", Shown(updates) \cup Shown(gone))
        BY <2>1, TellsMore
    <2>3. QED
        BY <1>2, <1>4, <1>6, <1>7, <1>10, <2>2 DEF FallsOut, Items, Same
<1>11. \E gone : /\ FallsOut(r, t, ds, gone)
                 /\ t.answered = s.answered \cup Numbers(updates) \cup Numbers(gone)
                 /\ Tells(s, t, "failed", Shown(updates) \cup Shown(gone))
    BY <1>5, <1>10
<1>12. /\ t.client_id_to_server = s.client_id_to_server
       /\ t.should_dequeue = s.should_dequeue /\ t.spawned = s.spawned
    BY <1>2, <1>4, <1>5, <1>6, <1>7 DEF Same
<1>13. QED
    BY <1>2, <1>3, <1>7, <1>8, <1>9, <1>11, <1>12 DEF updates, creations, ds, r

LEMMA RequestType ==
    ASSUME NEW i \in GoodItem
    PROVE  Request(i) \in Requests /\ Request(i).item = i
    BY SyncQueueAssumption DEF Request, Requests

LEMMA SpawnedMore ==
    ASSUME NEW s \in Structs, NEW items \in SUBSET GoodItem
    PROVE  LET t == [s EXCEPT !.spawned = @ \cup {Request(i) : i \in items}] IN
           /\ t \in Structs
           /\ t.queue = s.queue /\ t.queue_dependencies = s.queue_dependencies
           /\ t.waiting_response = s.waiting_response
           /\ t.in_flight_bulk_create_objects = s.in_flight_bulk_create_objects
           /\ t.client_id_to_server = s.client_id_to_server
           /\ t.should_dequeue = s.should_dequeue
           /\ t.spawned = s.spawned \cup {Request(i) : i \in items}
           /\ t.answered = s.answered /\ t.dropped = s.dropped
           /\ t.told = s.told /\ t.failed = s.failed
<1>1. {Request(i) : i \in items} \subseteq Requests
    BY RequestType
<1>2. QED
    BY <1>1 DEF Structs

\* A call of dequeue in its steps: items are skipped, one is taken out, and its
\* request is waited for.
LEMMA DequeuedType ==
    ASSUME NEW s \in Structs
    PROVE  LET t == Dequeued(s)
               sent == NextSent(s)
               k == Skipped(s, Tried(s))
               q == Removed(k, sent)
               w == Awaited(q, sent)
           IN  /\ t \in Structs
               /\ ~s.should_dequeue => t = s
               /\ s.should_dequeue =>
                     /\ sent \subseteq GoodItem /\ Tried(s) \subseteq GoodItem
                     /\ k \in Structs /\ q \in Structs /\ w \in Structs
                     /\ t.queue = w.queue /\ t.queue_dependencies = w.queue_dependencies
                     /\ t.waiting_response = w.waiting_response
                     /\ t.in_flight_bulk_create_objects = w.in_flight_bulk_create_objects
                     /\ t.client_id_to_server = s.client_id_to_server
                     /\ t.should_dequeue = s.should_dequeue
                     /\ t.spawned = s.spawned \cup {Request(i) : i \in sent}
                     /\ t.answered = k.answered /\ t.told = k.told /\ t.failed = k.failed
                     /\ t.dropped = k.dropped
<1> DEFINE sent == NextSent(s)
           k == Skipped(s, Tried(s))
           q == Removed(k, sent)
           w == Awaited(q, sent)
           t == [w EXCEPT !.spawned = @ \cup {Request(i) : i \in sent}]
<1>1. sent \subseteq GoodItem /\ Tried(s) \subseteq GoodItem
    BY NextChosen, StructFields
<1>2. /\ k \in Structs
      /\ k.client_id_to_server = s.client_id_to_server
      /\ k.should_dequeue = s.should_dequeue /\ k.spawned = s.spawned
    BY <1>1, SkippedType
<1>3. s.should_dequeue => Dequeued(s) = t
    BY DEF Dequeued
<1>4. ~s.should_dequeue => Dequeued(s) = s
    BY DEF Dequeued
<1> HIDE DEF k, sent
<1>5. /\ q \in Structs
      /\ q.client_id_to_server = k.client_id_to_server
      /\ q.should_dequeue = k.should_dequeue /\ q.spawned = k.spawned /\ q.dropped = k.dropped
      /\ q.answered = k.answered /\ q.told = k.told /\ q.failed = k.failed
    BY <1>1, <1>2, RemovedType
<1> HIDE DEF q
<1>6. /\ w \in Structs
      /\ w.client_id_to_server = q.client_id_to_server
      /\ w.should_dequeue = q.should_dequeue /\ w.spawned = q.spawned /\ w.dropped = q.dropped
      /\ w.answered = q.answered /\ w.told = q.told /\ w.failed = q.failed
    BY <1>1, <1>5, AwaitedType
<1> HIDE DEF w
<1>7. /\ t \in Structs
      /\ t.queue = w.queue /\ t.queue_dependencies = w.queue_dependencies
      /\ t.waiting_response = w.waiting_response
      /\ t.in_flight_bulk_create_objects = w.in_flight_bulk_create_objects
      /\ t.client_id_to_server = w.client_id_to_server
      /\ t.should_dequeue = w.should_dequeue
      /\ t.spawned = w.spawned \cup {Request(i) : i \in sent}
      /\ t.answered = w.answered /\ t.dropped = w.dropped
      /\ t.told = w.told /\ t.failed = w.failed
    BY <1>1, <1>6, SpawnedMore
<1> HIDE DEF t
<1>8. QED
    BY <1>1, <1>2, <1>3, <1>4, <1>5, <1>6, <1>7 DEF sent, k, q, w

LEMMA CreationSucceededType ==
    ASSUME NEW s \in Structs, NEW item \in GoodItem, NEW o \in Object
    PROVE  LET t == CreationSucceeded(s, item, o) IN
           t \in Structs /\ \E f \in Structs : Created(s, f, t, item, o)
<1> DEFINE ids == {Client(o)}
           a == Answered(s, "done", item, ids)
           known == [a EXCEPT !.client_id_to_server = @ \cup {o}]
           d == CreationDependency(known, item, o)
           u == Uncounted(known, item, {o})
           f == DependencySucceeded(u, d)
           t == Revised(f, o, 1)
<1>1. /\ a \in Structs
      /\ a.queue = s.queue /\ a.queue_dependencies = s.queue_dependencies
      /\ a.waiting_response =
             [id \in SyncId |-> IF id \in ids THEN s.waiting_response[id] \ {item.no}
                                ELSE s.waiting_response[id]]
      /\ a.in_flight_bulk_create_objects = s.in_flight_bulk_create_objects
      /\ a.client_id_to_server = s.client_id_to_server
      /\ a.should_dequeue = s.should_dequeue /\ a.spawned = s.spawned /\ a.dropped = s.dropped
      /\ a.answered = s.answered \cup {item.no}
    <2>1. "done" \in Kinds
        BY DEF Kinds
    <2>2. QED
        BY <2>1, AnsweredType
<1>told. Tells(s, a, "done", {o} \cap Shown({item}))
    <2>1. ObjectsOf(ids) = {o}
        BY DEF Client, ObjectsOf
    <2> HIDE DEF ids
    <2>2. QED
        BY <2>1, AnsweredTells DEF Kinds
<1>2. CreationSucceeded(s, item, o) = t
    BY DEF CreationSucceeded
<1> HIDE DEF a
<1>3. /\ known \in Structs
      /\ known.queue = a.queue /\ known.queue_dependencies = a.queue_dependencies
      /\ known.waiting_response = a.waiting_response
      /\ known.in_flight_bulk_create_objects = a.in_flight_bulk_create_objects
      /\ known.client_id_to_server = a.client_id_to_server \cup {o}
      /\ known.should_dequeue = a.should_dequeue /\ known.spawned = a.spawned /\ known.dropped = a.dropped
      /\ known.answered = a.answered /\ known.told = a.told /\ known.failed = a.failed
    BY <1>1 DEF Structs
<1> HIDE DEF known
<1>4. d = CreationDependency(s, item, o)
    BY <1>1, <1>3 DEF CreationDependency
<1>5. /\ u \in Structs
      /\ u.queue = known.queue /\ u.queue_dependencies = known.queue_dependencies
      /\ u.waiting_response = known.waiting_response
      /\ u.in_flight_bulk_create_objects =
             [n \in ItemNo |-> IF n = item.no THEN known.in_flight_bulk_create_objects[n] \ {o}
                               ELSE known.in_flight_bulk_create_objects[n]]
      /\ u.client_id_to_server = known.client_id_to_server
      /\ u.should_dequeue = known.should_dequeue /\ u.spawned = known.spawned /\ u.dropped = known.dropped
      /\ u.answered = known.answered /\ u.told = known.told /\ u.failed = known.failed
    BY <1>3, UncountedType
<1> HIDE DEF u, d
<1>6. /\ f \in Structs
      /\ f.queue = u.queue
      /\ f.queue_dependencies = [n \in ItemNo |-> u.queue_dependencies[n] \ {d}]
      /\ f.waiting_response = u.waiting_response
      /\ f.in_flight_bulk_create_objects = u.in_flight_bulk_create_objects
      /\ f.client_id_to_server = u.client_id_to_server
      /\ f.should_dequeue = u.should_dequeue /\ f.spawned = u.spawned /\ f.dropped = u.dropped
      /\ f.answered = u.answered /\ f.told = u.told /\ f.failed = u.failed
    BY <1>5, DependencySucceededType
<1> HIDE DEF f
<1>7. t \in Structs /\ Rewritten(f, t) /\ t = Revised(f, o, 1)
    BY <1>6, RevisedType
<1> HIDE DEF t
<1>8. f.waiting_response =
         [id \in SyncId |-> IF id = Client(o) THEN s.waiting_response[id] \ {item.no}
                            ELSE s.waiting_response[id]]
    BY <1>1, <1>3, <1>5, <1>6
<1>9. f.in_flight_bulk_create_objects =
         [n \in ItemNo |-> IF n = item.no THEN s.in_flight_bulk_create_objects[n] \ {o}
                           ELSE s.in_flight_bulk_create_objects[n]]
    BY <1>1, <1>3, <1>5, <1>6
<1>10. f.queue_dependencies =
          [n \in ItemNo |-> s.queue_dependencies[n] \ {CreationDependency(s, item, o)}]
    BY <1>1, <1>3, <1>4, <1>5, <1>6
<1>11. /\ f.queue = s.queue
       /\ f.client_id_to_server = s.client_id_to_server \cup {o}
       /\ f.should_dequeue = s.should_dequeue /\ f.spawned = s.spawned /\ f.dropped = s.dropped
       /\ f.answered = s.answered \cup {item.no}
       /\ Tells(s, f, "done", {o} \cap Shown({item}))
    BY <1>1, <1>told, <1>3, <1>5, <1>6 DEF Tells
<1>12. f \in Structs
    BY <1>6
<1>13. Created(s, f, t, item, o)
    BY <1>7, <1>8, <1>9, <1>10, <1>11 DEF Created
<1>14. QED
    BY <1>2, <1>7, <1>12, <1>13

\* The items with an object are numbered.
LEMMA ItemsWithType ==
    ASSUME NEW s \in Structs, NEW id \in SyncId
    PROVE  ItemsWith(s, id) \subseteq Dependency
<1>1. id[2] \in Object
    BY DEF SyncId, Client, Server
<1>2. \A i \in Items(s) : i.no \in ItemNo
    BY StructFields, ItemIds
<1>3. s.waiting_response[id] \subseteq ItemNo
    BY StructFields
<1>4. \A n \in ItemNo : OnItem(n) \in Dependency /\ OnObject(n, id[2]) \in Dependency
    BY <1>1 DEF OnItem, OnObject, Dependency
<1>5. {OnItem(i.no) : i \in {i \in Items(s) : i.op \in {"create", "update"} /\ id \in i.ids}} \subseteq Dependency
    BY <1>2, <1>4
<1>6. {OnObject(i.no, id[2]) : i \in {i \in Items(s) : i.op = "bulk" /\ id \in i.ids}} \subseteq Dependency
    BY <1>2, <1>4
<1>7. {IF id[1] = "client" /\ id[2] \in s.in_flight_bulk_create_objects[n]
         THEN OnObject(n, id[2]) ELSE OnItem(n) : n \in s.waiting_response[id]} \subseteq Dependency
    BY <1>3, <1>4
<1>8. QED
    BY <1>5, <1>6, <1>7 DEF ItemsWith, Items

LEMMA InferredType ==
    ASSUME NEW s \in Structs, NEW item \in GoodItem
    PROVE  InferredDependencies(s, item) \subseteq Dependency
<1>1. \A o \in Object : Client(o) \in SyncId /\ Server(o) \in SyncId
    BY DEF SyncId
<1>2. \A id \in SyncId : id[2] \in Object
    BY DEF SyncId, Client, Server
<1>3. IdOf(item) \in SyncId /\ Unresolved(s, item) \subseteq Object
    BY ItemIds DEF Unresolved, Object
<1>4. ReferenceDependencies(s, item) \subseteq Dependency
    <2>1. \A e \in Unresolved(s, item) : ItemsWith(s, Client(e)) \subseteq Dependency
        BY <1>1, <1>3, ItemsWithType
    <2>2. QED
        BY <2>1 DEF ReferenceDependencies
<1>5. UpdateDependencies(s, IdOf(item)) \subseteq Dependency
    BY <1>1, <1>2, <1>3, ItemsWithType DEF UpdateDependencies
<1>6. QED
    BY <1>4, <1>5 DEF InferredDependencies

\* An item is enqueued.
LEMMA PushedType ==
    ASSUME NEW s \in Structs, NEW item \in GoodItem
    PROVE  LET t == Pushed(s, item) IN
           /\ t \in Structs
           /\ \E i \in GoodItem :
                 /\ i.no = item.no /\ i.op = item.op /\ i.ids = item.ids /\ i.folder = item.folder
                 /\ i.edit = item.edit /\ i.rev = item.rev
                 /\ t.queue = Append(s.queue, i)
           /\ t.queue_dependencies =
                 [n \in ItemNo |-> IF n = item.no THEN InferredDependencies(s, item)
                                   ELSE s.queue_dependencies[n]]
           /\ t.waiting_response = s.waiting_response
           /\ t.in_flight_bulk_create_objects = s.in_flight_bulk_create_objects
           /\ t.client_id_to_server = s.client_id_to_server
           /\ t.should_dequeue = s.should_dequeue /\ t.spawned = s.spawned /\ t.dropped = s.dropped
           /\ t.answered = s.answered
           /\ Tells(s, t, IF Hopeless(s, item) THEN "failed" ELSE None, Shown({item}))
<1> DEFINE kind == IF Hopeless(s, item) THEN "failed" ELSE None
           told == Told(s, kind, Shown({item}))
           i == [item EXCEPT !.refs = Unresolved(s, item)]
           inferred == InferredDependencies(s, item)
           deps == [n \in ItemNo |-> IF n = item.no THEN inferred ELSE s.queue_dependencies[n]]
           t == [told EXCEPT !.queue = Append(@, i), !.queue_dependencies[item.no] = inferred]
<1>1. kind \in Kinds /\ Shown({item}) \subseteq Object
    BY ShownObjects DEF Kinds
<1>2. told \in Structs /\ Same(s, told) /\ told.answered = s.answered
      /\ Tells(s, told, kind, Shown({item}))
    BY <1>1, ToldType
<1>3. /\ i \in GoodItem /\ i.no = item.no /\ i.op = item.op /\ i.ids = item.ids /\ i.folder = item.folder
      /\ i.edit = item.edit /\ i.rev = item.rev
    BY FewerReferences DEF Unresolved
<1>4. inferred \subseteq Dependency
    BY InferredType
<1>5. Pushed(s, item) = t
    BY DEF Pushed
<1> HIDE DEF told, i, inferred
<1>6. told.queue = s.queue /\ told.queue_dependencies = s.queue_dependencies
    BY <1>2 DEF Same
<1>7. item.no \in ItemNo /\ s.queue_dependencies \in [ItemNo -> SUBSET Dependency] /\ s.queue \in Seq(GoodItem)
    BY ItemIds, StructFields
<1>8. deps \in [ItemNo -> SUBSET Dependency] /\ Append(s.queue, i) \in Seq(GoodItem)
    BY <1>3, <1>4, <1>7
<1>9. [s.queue_dependencies EXCEPT ![item.no] = inferred] = deps
    BY <1>7
<1>10. t = [told EXCEPT !.queue = Append(s.queue, i), !.queue_dependencies = deps]
    BY <1>2, <1>6, <1>9 DEF Structs
<1> HIDE DEF t, deps
<1>11. /\ t \in Structs /\ t.queue = Append(s.queue, i) /\ t.queue_dependencies = deps
       /\ t.waiting_response = told.waiting_response
       /\ t.in_flight_bulk_create_objects = told.in_flight_bulk_create_objects
       /\ t.client_id_to_server = told.client_id_to_server
       /\ t.should_dequeue = told.should_dequeue /\ t.spawned = told.spawned /\ t.dropped = told.dropped
       /\ t.answered = told.answered /\ t.told = told.told /\ t.failed = told.failed
    BY <1>2, <1>8, <1>10 DEF Structs
<1>12. QED
    BY <1>2, <1>3, <1>5, <1>11 DEF Same, Tells, deps, inferred

\* What each object of a bulk that has been created carries from one set of
\* structs to the next, the last one carries to the last set.
LEMMA AllCreatedIn ==
    ASSUME NEW s, NEW item, NEW n \in Nat, NEW created, Len(created) = n,
           NEW G, s \in G[0],
           \A k \in 1..n : \A t \in G[k - 1] : Dequeued(CreationSucceeded(t, item, created[k])) \in G[k]
    PROVE  AllCreated(s, item, created) \in G[n]
<1> DEFINE Step(t, k) == Dequeued(CreationSucceeded(t, item, created[k]))
           Value(g, k) == IF k = 0 THEN s ELSE Step(g[k - 1], k)
           Runs(g, m) == g = [k \in 0..m |-> Value(g, k)]
           P(m) == \E g : Runs(g, m)
           T == {m \in Nat : P(m)}
           after == CHOOSE g : Runs(g, n)
<1>1. AllCreated(s, item, created) = after[n]
    BY DEF AllCreated
<1> HIDE DEF Step
<1>2. 0 \in T
    <2> DEFINE g == [k \in 0..0 |-> s]
    <2>1. g = [k \in 0..0 |-> Value(g, k)]
        OBVIOUS
    <2>2. QED
        BY <2>1
<1>3. ASSUME NEW m \in Nat, m \in T PROVE m + 1 \in T
    <2>1. PICK g : Runs(g, m)
        BY <1>3
    <2> DEFINE h == [k \in 0..(m + 1) |-> IF k <= m THEN g[k] ELSE Step(g[m], m + 1)]
    <2>2. ASSUME NEW k \in 0..(m + 1) PROVE h[k] = Value(h, k)
        <3>1. CASE k = 0
            <4>1. h[0] = g[0] /\ g[0] = Value(g, 0)
                <5>1. 0 \in 0..m /\ 0 \in 0..(m + 1) /\ 0 <= m
                    OBVIOUS
                <5>2. g[0] = Value(g, 0)
                    <6> HIDE DEF Value
                    <6>1. QED
                        BY <2>1, <5>1
                <5>3. QED
                    BY <5>1, <5>2
            <4>2. QED
                BY <3>1, <4>1
        <3>2. CASE k # 0 /\ k <= m
            <4>1. k \in 0..m /\ k - 1 \in 0..(m + 1) /\ k - 1 <= m
                BY <3>2
            <4>2. h[k] = g[k] /\ h[k - 1] = g[k - 1]
                BY <3>2, <4>1
            <4>3. g[k] = Value(g, k)
                <5> HIDE DEF Value
                <5>1. QED
                    BY <2>1, <4>1
            <4>4. QED
                BY <3>2, <4>2, <4>3
        <3>3. CASE k = m + 1
            <4>1. h[k] = Step(g[m], m + 1) /\ h[m] = g[m] /\ k # 0 /\ k - 1 = m
                BY <3>3
            <4>2. QED
                BY <3>3, <4>1
        <3>4. k = 0 \/ (k # 0 /\ k <= m) \/ k = m + 1
            OBVIOUS
        <3>5. QED
            BY <3>1, <3>2, <3>3, <3>4
    <2>3. Runs(h, m + 1)
        BY <2>2
    <2> HIDE DEF Runs
    <2>4. QED
        BY <2>3
<1>4. n \in T
    <2> HIDE DEF T
    <2>1. QED
        BY <1>2, <1>3, InductionOnASet
<1>5. Runs(after, n)
    <2> HIDE DEF Runs
    <2>1. QED
        BY <1>4
<1>6. \A k \in 0..n : after[k] = Value(after, k)
    <2> HIDE DEF Value, after
    <2>1. QED
        BY <1>5
<1> HIDE DEF after
<1> DEFINE U == {m \in Nat : m <= n => after[m] \in G[m]}
<1>7. 0 \in U
    BY <1>6
<1>8. ASSUME NEW m \in Nat, m \in U PROVE m + 1 \in U
    <2> SUFFICES ASSUME m + 1 <= n PROVE after[m + 1] \in G[m + 1]
        OBVIOUS
    <2>1. m + 1 \in 0..n /\ m + 1 \in 1..n /\ m + 1 # 0 /\ (m + 1) - 1 = m /\ m <= n
        OBVIOUS
    <2>2. after[m + 1] = Step(after[m], m + 1)
        BY <1>6, <2>1
    <2>3. after[m] \in G[m]
        BY <1>8, <2>1
    <2>4. \A t \in G[(m + 1) - 1] : Step(t, m + 1) \in G[m + 1]
        BY <2>1 DEF Step
    <2>5. QED
        BY <2>1, <2>2, <2>3, <2>4
<1>9. n \in U
    <2> HIDE DEF U
    <2>1. QED
        BY <1>7, <1>8, InductionOnASet
<1>10. QED
    BY <1>1, <1>9

LEMMA SameTidy ==
    ASSUME NEW s \in Tidy, NEW t \in Structs, t.queue = s.queue,
           \A n \in ItemNo : t.queue_dependencies[n] \subseteq s.queue_dependencies[n]
    PROVE  t \in Tidy
<1>1. Items(t) = Items(s)
    BY DEF Items
<1>2. \A n \in ItemNo : n \notin Numbers(Items(s)) => s.queue_dependencies[n] = {}
    BY DEF Tidy
<1>3. \A n \in ItemNo : n \notin Numbers(Items(t)) => t.queue_dependencies[n] = {}
    BY <1>1, <1>2
<1>4. QED
    BY <1>3 DEF Tidy

LEMMA RewrittenTidy ==
    ASSUME NEW s \in Tidy, NEW t \in Structs, Rewritten(s, t)
    PROVE  t \in Tidy
<1>1. Numbers(Items(s)) = {s.queue[k].no : k \in DOMAIN s.queue}
    BY DEF Numbers, Items, ToSet
<1>2. Numbers(Items(t)) = {t.queue[k].no : k \in DOMAIN t.queue}
    BY DEF Numbers, Items, ToSet
<1>3. \A k \in DOMAIN s.queue : t.queue[k].no = s.queue[k].no
    BY DEF Rewritten
<1>4. DOMAIN t.queue = DOMAIN s.queue /\ t.queue_dependencies = s.queue_dependencies
    BY DEF Rewritten
<1>5. Numbers(Items(t)) = Numbers(Items(s))
    BY <1>1, <1>2, <1>3, <1>4
<1>6. QED
    BY <1>4, <1>5 DEF Tidy

\* Items leave, and their dependencies with them.
LEMMA LeftTidy ==
    ASSUME NEW s \in Tidy, NEW t \in Structs, NEW gone,
           Items(t) = Items(s) \ gone,
           t.queue_dependencies =
              [n \in ItemNo |-> IF n \in Numbers(gone) THEN {} ELSE s.queue_dependencies[n]]
    PROVE  t \in Tidy
<1>1. ASSUME NEW n \in ItemNo, n \notin Numbers(Items(t)), n \notin Numbers(gone)
      PROVE  s.queue_dependencies[n] = {}
    <2>1. n \notin Numbers(Items(s))
        BY <1>1 DEF Numbers
    <2>2. QED
        BY <2>1 DEF Tidy
<1>2. QED
    BY <1>1 DEF Tidy

LEMMA FallsOutTidy ==
    ASSUME NEW s \in Tidy, NEW t \in Structs, NEW ds, NEW gone, FallsOut(s, t, ds, gone)
    PROVE  t \in Tidy
    BY LeftTidy DEF FallsOut

LEMMA RemovedTidy ==
    ASSUME NEW s \in Tidy, NEW items \in SUBSET GoodItem
    PROVE  Removed(s, items) \in Tidy
<1> DEFINE t == Removed(s, items)
<1>1. s \in Structs
    BY DEF Tidy
<1>2. /\ t \in Structs /\ Items(t) = Items(s) \ items
      /\ t.queue_dependencies =
            [n \in ItemNo |-> IF n \in Numbers(items) THEN {} ELSE s.queue_dependencies[n]]
    BY <1>1, RemovedType
<1> HIDE DEF t
<1>3. t \in Tidy
    BY <1>2, LeftTidy
<1>4. QED
    BY <1>3 DEF t

LEMMA CreationFailedTidy ==
    ASSUME NEW s \in Tidy, NEW item \in GoodItem
    PROVE  CreationFailed(s, item) \in Tidy
<1>1. s \in Structs
    BY DEF Tidy
<1>2. QED
    BY <1>1, CreationFailedType, FallsOutTidy

LEMMA OtherFailedTidy ==
    ASSUME NEW s \in Tidy, NEW item \in GoodItem
    PROVE  OtherFailed(s, item) \in Tidy
<1>1. s \in Structs
    BY DEF Tidy
<1>2. QED
    BY <1>1, OtherFailedType, FallsOutTidy

LEMMA DequeuedTidy ==
    ASSUME NEW s \in Tidy
    PROVE  Dequeued(s) \in Tidy
<1> DEFINE sent == NextSent(s)
           k == Skipped(s, Tried(s))
           q == Removed(k, sent)
           w == Awaited(q, sent)
           t == Dequeued(s)
<1>1. s \in Structs
    BY DEF Tidy
<1>2. CASE ~s.should_dequeue
    BY <1>1, <1>2, DequeuedType
<1>3. CASE s.should_dequeue
    <2>1. /\ t \in Structs /\ sent \subseteq GoodItem /\ Tried(s) \subseteq GoodItem
          /\ k \in Structs /\ q \in Structs /\ w \in Structs
          /\ t.queue = w.queue /\ t.queue_dependencies = w.queue_dependencies
        BY <1>1, <1>3, DequeuedType
    <2>2. Removed(s, Tried(s)) \in Tidy
        BY <2>1, RemovedTidy
    <2>3. \E gone : FallsOut(Removed(s, Tried(s)), k, {OnItem(i.no) : i \in {i \in Tried(s) : i.op = "update"}}, gone)
        <3> DEFINE updates == {i \in Tried(s) : i.op = "update"}
        <3>1. \E r \in Structs : \E gone :
                 /\ r = Removed(s, Tried(s))
                 /\ FallsOut(r, k, {OnItem(i.no) : i \in updates}, gone)
                 /\ k.answered = s.answered \cup Numbers(updates) \cup Numbers(gone)
                 /\ Tells(s, k, "failed", Shown(updates) \cup Shown(gone))
            BY <1>1, <2>1, SkippedType
        <3>2. QED
            BY <3>1
    <2>4. k \in Tidy
        BY <2>1, <2>2, <2>3, FallsOutTidy
    <2> HIDE DEF k, sent
    <2>5. q \in Tidy
        BY <2>1, <2>4, RemovedTidy
    <2> HIDE DEF q
    <2>6. w.queue = q.queue /\ w.queue_dependencies = q.queue_dependencies
        BY <2>1, AwaitedType
    <2> HIDE DEF w, t
    <2>7. t.queue = q.queue /\ t.queue_dependencies = q.queue_dependencies /\ t \in Structs
        BY <2>1, <2>6
    <2>8. t \in Tidy
        BY <2>5, <2>7, SameTidy
    <2>9. QED
        BY <2>8 DEF t
<1>4. QED
    BY <1>2, <1>3

LEMMA CreationSucceededTidy ==
    ASSUME NEW s \in Tidy, NEW item \in GoodItem, NEW o \in Object
    PROVE  CreationSucceeded(s, item, o) \in Tidy
<1> DEFINE t == CreationSucceeded(s, item, o)
<1>1. s \in Structs
    BY DEF Tidy
<1>2. t \in Structs /\ \E f \in Structs : Created(s, f, t, item, o)
    BY <1>1, CreationSucceededType
<1> HIDE DEF t
<1>3. PICK f \in Structs : Created(s, f, t, item, o)
    BY <1>2
<1>4. f \in Tidy
    BY <1>3, SameTidy DEF Created
<1>5. t \in Tidy
    BY <1>2, <1>3, <1>4, RewrittenTidy DEF Created
<1>6. QED
    BY <1>5 DEF t

LEMMA PushedTidy ==
    ASSUME NEW s \in Tidy, NEW item \in GoodItem
    PROVE  Pushed(s, item) \in Tidy
<1> DEFINE t == Pushed(s, item)
<1>1. s \in Structs
    BY DEF Tidy
<1>2. /\ t \in Structs
      /\ t.queue_dependencies =
            [n \in ItemNo |-> IF n = item.no THEN InferredDependencies(s, item)
                              ELSE s.queue_dependencies[n]]
    BY <1>1, PushedType
<1>3. PICK i \in GoodItem : i.no = item.no /\ t.queue = Append(s.queue, i)
    BY <1>1, PushedType
<1> HIDE DEF t
<1>4. Items(t) = Items(s) \cup {i}
    <2>1. s.queue \in Seq(GoodItem)
        BY <1>1, StructFields
    <2>2. ToSet(t.queue) = ToSet(s.queue) \cup {i}
        BY <1>3, <2>1, AppendedElements
    <2>3. QED
        BY <2>2 DEF Items
<1>5. item.no \in Numbers(Items(t)) /\ Numbers(Items(s)) \subseteq Numbers(Items(t))
    BY <1>3, <1>4 DEF Numbers
<1>6. \A n \in ItemNo : n \notin Numbers(Items(t)) => t.queue_dependencies[n] = {}
    BY <1>2, <1>5 DEF Tidy
<1>7. QED
    BY <1>2, <1>6 DEF Tidy, t

LEMMA AllCreatedTidy ==
    ASSUME NEW s \in Tidy, NEW item \in GoodItem, NEW created \in Seq(Object)
    PROVE  AllCreated(s, item, created) \in Tidy
<1> DEFINE n == Len(created)
           G == [k \in 0..n |-> Tidy]
<1>1. n \in Nat /\ \A k \in 1..n : created[k] \in Object /\ k - 1 \in 0..n /\ k \in 0..n
    OBVIOUS
<1>2. ASSUME NEW k \in 1..n, NEW t \in G[k - 1]
      PROVE  Dequeued(CreationSucceeded(t, item, created[k])) \in G[k]
    <2>1. CreationSucceeded(t, item, created[k]) \in Tidy
        BY <1>1, CreationSucceededTidy
    <2>2. QED
        BY <1>1, <2>1, DequeuedTidy
<1>3. s \in G[0]
    BY <1>1
<1> HIDE DEF G
<1>4. AllCreated(s, item, created) \in G[n]
    BY <1>1, <1>2, <1>3, AllCreatedIn
<1>5. QED
    BY <1>1, <1>4 DEF G

-----------------------------------------------------------------------------
(* The type invariant                                                       *)

LEMMA BecomesStruct ==
    ASSUME NEW s \in Tidy, NEW left, left \subseteq Requests, Becomes(s, left)
    PROVE  /\ QueueTypes'
           /\ futures' = left \cup s.spawned
           /\ sync_queue'.queue = s.queue /\ sync_queue'.queue_dependencies = s.queue_dependencies
           /\ sync_queue'.waiting_response = s.waiting_response
           /\ sync_queue'.in_flight_bulk_create_objects = s.in_flight_bulk_create_objects
           /\ sync_queue'.client_id_to_server = s.client_id_to_server
           /\ sync_queue'.should_dequeue = s.should_dequeue
           /\ sync_queue'.answered = s.answered /\ sync_queue'.dropped = s.dropped
           /\ sync_queue'.told = s.told /\ sync_queue'.failed = s.failed
<1>1. s \in Structs
    BY DEF Tidy
<1>2. sync_queue' = [s EXCEPT !.spawned = {}] /\ futures' = left \cup s.spawned
    BY DEF Becomes
<1>3. /\ sync_queue' \in Structs /\ sync_queue'.spawned = {}
      /\ sync_queue'.queue = s.queue /\ sync_queue'.queue_dependencies = s.queue_dependencies
      /\ sync_queue'.waiting_response = s.waiting_response
      /\ sync_queue'.in_flight_bulk_create_objects = s.in_flight_bulk_create_objects
      /\ sync_queue'.client_id_to_server = s.client_id_to_server
      /\ sync_queue'.should_dequeue = s.should_dequeue
      /\ sync_queue'.answered = s.answered /\ sync_queue'.dropped = s.dropped
      /\ sync_queue'.told = s.told /\ sync_queue'.failed = s.failed
    BY <1>1, <1>2 DEF Structs
<1>4. sync_queue' \in Tidy
    BY <1>3, SameTidy
<1>5. s.spawned \subseteq Requests
    BY <1>1, StructFields
<1>6. QED
    BY <1>2, <1>3, <1>4, <1>5 DEF QueueTypes

LEMMA IdsOfObjects ==
    /\ \A o \in Object : Client(o) \in SyncId /\ Server(o) \in SyncId
    /\ \A o : Client(o)[2] = o /\ Server(o)[2] = o /\ Client(o)[1] = "client" /\ Server(o)[1] = "server"
    /\ \A id \in SyncId : id[2] \in Object /\ id \in {Client(id[2]), Server(id[2])}
    BY DEF SyncId, Client, Server

LEMMA CreateType ==
    ASSUME AppTypes, enqueued < MaxItems, NEW o \in Object, NEW f \in Folders \cup {None}
    PROVE  LET i == Create(o, f) IN
           i \in GoodItem /\ i.no = enqueued + 1 /\ i.op = "create" /\ i.ids = {Client(o)} /\ i.folder = f
<1> DEFINE i == Create(o, f)
<1>1. enqueued + 1 \in ItemNo
    BY SyncQueueAssumption DEF AppTypes, ItemNo
<1>2. Client(o) \in SyncId
    BY IdsOfObjects
<1>3. i \in Item /\ i.no = enqueued + 1 /\ i.op = "create" /\ i.ids = {Client(o)} /\ i.folder = f
    BY <1>1, <1>2 DEF Create, Item
<1>4. Shaped(i)
    BY <1>3 DEF Shaped
<1>5. QED
    BY <1>3, <1>4 DEF GoodItem

LEMMA ChangeType ==
    ASSUME AppTypes, enqueued < MaxItems, NEW op \in {"update", "action"}, NEW id \in SyncId
    PROVE  LET i == Change(op, id) IN
           i \in GoodItem /\ i.no = enqueued + 1 /\ i.op = op /\ i.ids = {id} /\ i.folder = None
<1> DEFINE c == Create(id[2], None)
           rev == latest[id[2]]
           i == [c EXCEPT !.op = op, !.ids = {id}, !.rev = rev]
<1>1. id[2] \in Object /\ rev \in Nat
    BY IdsOfObjects DEF AppTypes
<1>2. c \in GoodItem /\ c.no = enqueued + 1 /\ c.folder = None
    BY <1>1, CreateType
<1>3. Change(op, id) = i
    BY DEF Change
<1> HIDE DEF c, rev
<1>4. i \in Item /\ i.no = enqueued + 1 /\ i.op = op /\ i.ids = {id} /\ i.folder = None
    BY <1>1, <1>2 DEF Item, GoodItem
<1>5. Shaped(i)
    BY <1>4 DEF Shaped
<1>6. QED
    BY <1>3, <1>4, <1>5 DEF GoodItem

\* Items that carry something else of the same object.
LEMMA ItemRefers ==
    ASSUME NEW i \in GoodItem, i.op # "bulk", NEW refs \in SUBSET Enums
    PROVE  LET j == [i EXCEPT !.refs = refs]
           IN  /\ j \in GoodItem /\ j.no = i.no /\ j.op = i.op /\ j.ids = i.ids /\ j.folder = i.folder
               /\ j.rev = i.rev
<1> DEFINE j == [i EXCEPT !.refs = refs]
<1>1. i \in Item /\ Shaped(i)
    BY DEF GoodItem
<1>2. j \in Item /\ j.no = i.no /\ j.op = i.op /\ j.ids = i.ids /\ j.folder = i.folder /\ j.rev = i.rev
    BY <1>1 DEF Item
<1>3. Shaped(j)
    BY <1>1, <1>2 DEF Shaped
<1>4. QED
    BY <1>2, <1>3 DEF GoodItem

LEMMA UnchangedType ==
    ASSUME AppTypes, NEW i \in GoodItem, i.op # "bulk", content[ObjectOf(i)] # NoContent
    PROVE  LET j == Unchanged(i) IN
           /\ j \in GoodItem /\ j.no = i.no /\ j.op = i.op /\ j.ids = i.ids /\ j.folder = i.folder
           /\ j.rev = 0
<1> DEFINE c == content[ObjectOf(i)]
           j == [i EXCEPT !.edit = c.edit, !.refs = c.refs, !.rev = 0]
<1>1. ObjectOf(i) \in Object
    BY ItemIds
<1>2. c \in Contents
    BY <1>1 DEF AppTypes
<1>3. c.edit \in ItemNo /\ c.refs \in SUBSET Enums
    BY <1>2 DEF Contents
<1>4. Unchanged(i) = j
    BY DEF Unchanged
<1>5. i \in Item /\ Shaped(i)
    BY DEF GoodItem
<1> HIDE DEF c
<1>6. /\ j \in Item /\ j.no = i.no /\ j.op = i.op /\ j.ids = i.ids /\ j.folder = i.folder
      /\ j.rev = 0
    BY <1>3, <1>5 DEF Item
<1> HIDE DEF j
<1>7. Shaped(j)
    BY <1>5, <1>6 DEF Shaped
<1>8. QED
    BY <1>4, <1>6, <1>7 DEF GoodItem

\* What is enqueued is content afterwards.
LEMMA EditedTypes ==
    ASSUME AppTypes, NEW item \in GoodItem, enqueued < MaxItems, Edited(item),
           log' \in [Object -> Seq(ItemNo)], latest' \in [Object -> Nat], cleared' \in Nat,
           \E more \in SUBSET Objects(item) :
               local' = local \cup more /\ (item.op = "action" => more \subseteq local)
    PROVE  AppTypes'
<1> DEFINE Now(o) == IF item.op = "action" \/ o \notin Objects(item) THEN content[o]
                     ELSE [edit |-> item.edit, refs |-> item.refs,
                           folder |-> IF item.op = "update" THEN content[o].folder ELSE item.folder]
<1>1. content' = [o \in Object |-> Now(o)] /\ enqueued' = enqueued + 1
    BY DEF Edited
<1>2. /\ item.edit \in ItemNo /\ item.refs \subseteq Enums /\ item.folder \in Folders \cup {None}
      /\ Objects(item) \subseteq Object
    BY ItemIds
<1>3. \A o \in Object : content[o].folder \in Folders \cup {None}
    BY DEF AppTypes, Contents, NoContent
<1>4. ASSUME NEW o \in Object, item.op # "action", o \in Objects(item)
      PROVE  Now(o) \in Contents
    BY <1>2, <1>3, <1>4 DEF Contents
<1>5. ASSUME NEW o \in Object, item.op = "action" \/ o \notin Objects(item)
      PROVE  Now(o) = content[o]
    BY <1>5
<1> HIDE DEF Now
<1>6. content' \in [Object -> Contents \cup {NoContent}]
    BY <1>1, <1>4, <1>5 DEF AppTypes
<1>7. PICK more \in SUBSET Objects(item) :
         local' = local \cup more /\ (item.op = "action" => more \subseteq local)
    OBVIOUS
<1>8. local' \subseteq Object
    BY <1>2, <1>7 DEF AppTypes
<1>9. ASSUME NEW o \in local' PROVE content'[o] \in Contents
    <2>1. o \in Object /\ content'[o] = Now(o)
        BY <1>1, <1>8, <1>9
    <2>2. CASE item.op # "action" /\ o \in Objects(item)
        BY <1>4, <2>1, <2>2
    <2>3. CASE item.op = "action" \/ o \notin Objects(item)
        <3>1. o \in local
            BY <1>7, <2>3
        <3>2. QED
            BY <1>5, <2>1, <2>3, <3>1 DEF AppTypes
    <2>4. QED
        BY <2>2, <2>3
<1>10. enqueued' \in 0..MaxItems
    BY <1>1, SyncQueueAssumption DEF AppTypes
<1>11. QED
    BY <1>6, <1>8, <1>9, <1>10 DEF AppTypes

\* The objects of an item with one id.
LEMMA OneObject ==
    ASSUME NEW item, NEW id, item.ids = {id}
    PROVE  IdOf(item) = id /\ ObjectOf(item) = id[2] /\ Objects(item) = {id[2]}
    BY DEF IdOf, ObjectOf, Objects, The

LEMMA EnqueuesOne ==
    ASSUME TypeInv, UserEnqueues
    PROVE  \E item : NewItem(item) /\ Enqueue(item)
<1>1. AppTypes /\ FolderChoices \subseteq Folders \cup {None} /\ None \in FolderChoices
    BY DEF TypeInv, FolderChoices
<1>2. /\ Enums \subseteq Object /\ Workflows \subseteq Object /\ Preferences \subseteq Object
      /\ Folders \subseteq Object
    BY DEF Object
<1>3. ASSUME NEW o \in Enums \cup Folders, EnqueueCreate(o)
      PROVE  \E item : NewItem(item) /\ Enqueue(item)
    <2>1. PICK f \in FolderChoices : Enqueue(Create(o, f))
        BY <1>3 DEF EnqueueCreate
    <2> DEFINE item == Create(o, f)
    <2>2. enqueued < MaxItems /\ o \in Object /\ f \in Folders \cup {None}
        BY <1>1, <1>2, <2>1 DEF Enqueue
    <2>3. /\ item \in GoodItem /\ item.no = enqueued + 1 /\ item.op = "create"
          /\ item.ids = {Client(o)} /\ item.folder = f
        BY <1>1, <2>2, CreateType
    <2> HIDE DEF item
    <2>4. Grounded(item)
        BY <1>3, <2>3, OneObject, IdsOfObjects DEF EnqueueCreate, Fresh, Grounded
    <2>5. NewItem(item)
        BY <2>1, <2>3, <2>4 DEF NewItem
    <2>6. QED
        BY <2>1, <2>5 DEF item
<1>4. ASSUME NEW w \in Workflows, EnqueueCreateWorkflow(w)
      PROVE  \E item : NewItem(item) /\ Enqueue(item)
    <2>1. PICK refs \in SUBSET (Enums \cap local), f \in FolderChoices :
             Enqueue([Create(w, f) EXCEPT !.refs = refs])
        BY <1>4 DEF EnqueueCreateWorkflow
    <2> DEFINE c == Create(w, f)
               item == [c EXCEPT !.refs = refs]
    <2>2. enqueued < MaxItems /\ w \in Object /\ f \in Folders \cup {None}
        BY <1>1, <1>2, <2>1 DEF Enqueue
    <2>3. /\ c \in GoodItem /\ c.no = enqueued + 1 /\ c.op = "create"
          /\ c.ids = {Client(w)} /\ c.folder = f
        BY <1>1, <2>2, CreateType
    <2> HIDE DEF c
    <2>4. refs \in SUBSET Enums
        OBVIOUS
    <2>5. item \in GoodItem /\ item.no = c.no /\ item.op = c.op /\ item.ids = c.ids /\ item.folder = c.folder
        BY <2>3, <2>4, ItemRefers
    <2> HIDE DEF item
    <2>6. Grounded(item)
        BY <1>4, <2>3, <2>5, OneObject, IdsOfObjects DEF EnqueueCreateWorkflow, Fresh, Grounded
    <2>7. NewItem(item)
        BY <2>1, <2>3, <2>5, <2>6 DEF NewItem
    <2>8. QED
        BY <2>1, <2>7 DEF item, c
<1>5. ASSUME NEW set \in SUBSET Preferences, EnqueueBulkCreate(set)
      PROVE  \E item : NewItem(item) /\ Enqueue(item)
    <2> DEFINE c == Create(The(set), None)
               item == [c EXCEPT !.op = "bulk", !.ids = {Client(o) : o \in set}]
    <2>1. set # {} /\ Enqueue(item) /\ The(set) \in set
        BY <1>5 DEF EnqueueBulkCreate, The
    <2>2. enqueued < MaxItems /\ The(set) \in Object /\ set \in SUBSET Object
        BY <1>2, <2>1 DEF Enqueue
    <2>3. c \in GoodItem /\ c.no = enqueued + 1 /\ c.folder = None
        BY <1>1, <2>2, CreateType
    <2>4. c.refs = {}
        BY DEF Create
    <2>5. {Client(o) : o \in set} \subseteq SyncId
        BY <2>2, IdsOfObjects
    <2> HIDE DEF c
    <2>6. /\ item \in Item /\ item.no = enqueued + 1 /\ item.op = "bulk" /\ item.folder = None
          /\ item.refs = {} /\ item.ids = {Client(o) : o \in set}
        BY <2>3, <2>4, <2>5 DEF GoodItem, Item
    <2> HIDE DEF item
    <2>7. Shaped(item)
        BY <2>1, <2>2, <2>6 DEF Shaped
    <2>8. Objects(item) = set
        BY <2>6, IdsOfObjects DEF Objects
    <2>9. Grounded(item)
        BY <1>5, <2>6, <2>8 DEF EnqueueBulkCreate, Fresh, Grounded
    <2>10. NewItem(item)
        BY <1>1, <2>6, <2>7, <2>9 DEF NewItem, GoodItem
    <2>11. QED
        BY <2>1, <2>10 DEF item, c
<1>6. ASSUME NEW o \in Object, EnqueueUpdate(o)
      PROVE  \E item : NewItem(item) /\ Enqueue(item)
    <2>1. PICK id \in Ids(o), refs \in SUBSET (IF o \in Workflows THEN Enums \cap local ELSE {}) :
             Enqueue([Change("update", id) EXCEPT !.refs = refs])
        BY <1>6 DEF EnqueueUpdate
    <2> DEFINE c == Change("update", id)
               item == [c EXCEPT !.refs = refs]
    <2>2. enqueued < MaxItems /\ id \in SyncId
        BY <2>1, IdsOfObjects DEF Enqueue, Ids
    <2>3. /\ c \in GoodItem /\ c.no = enqueued + 1 /\ c.op = "update" /\ c.ids = {id}
          /\ c.folder = None
        BY <1>1, <2>2, ChangeType
    <2>4. c.rev = latest[o] /\ id[2] = o /\ (id[1] = "server" => latest[o] > 0)
        BY <2>1, IdsOfObjects DEF Change, Create, Ids
    <2> HIDE DEF c
    <2>5. refs \in SUBSET Enums
        OBVIOUS
    <2>6. /\ item \in GoodItem /\ item.no = c.no /\ item.op = c.op /\ item.ids = c.ids
          /\ item.folder = c.folder /\ item.rev = c.rev
        BY <2>3, <2>5, ItemRefers
    <2> HIDE DEF item
    <2>7. Grounded(item)
        BY <2>3, <2>4, <2>6, OneObject DEF Grounded
    <2>8. NewItem(item)
        BY <1>1, <2>3, <2>6, <2>7 DEF NewItem
    <2>9. QED
        BY <2>1, <2>8 DEF item, c
<1>7. ASSUME NEW o \in Object, EnqueueAction(o)
      PROVE  \E item : NewItem(item) /\ Enqueue(item)
    <2>1. PICK id \in Ids(o) : Enqueue(Change("action", id))
        BY <1>7 DEF EnqueueAction
    <2> DEFINE item == Change("action", id)
    <2>2. enqueued < MaxItems /\ id \in SyncId
        BY <2>1, IdsOfObjects DEF Enqueue, Ids
    <2>3. /\ item \in GoodItem /\ item.no = enqueued + 1 /\ item.op = "action" /\ item.ids = {id}
          /\ item.folder = None
        BY <1>1, <2>2, ChangeType
    <2> HIDE DEF item
    <2>4. id[1] = "client" => id[2] \in local
        BY <2>1, IdsOfObjects DEF Ids
    <2>5. NewItem(item)
        BY <1>1, <2>3, <2>4 DEF NewItem, Grounded
    <2>6. QED
        BY <2>1, <2>5 DEF item
<1>8. ASSUME NEW o \in Object, Resync(o)
      PROVE  \E item : NewItem(item) /\ Enqueue(item)
    <2> DEFINE c == IF latest[o] > 0 THEN Change("update", Server(o)) ELSE Create(o, content[o].folder)
               item == Unchanged(c)
    <2>1. Enqueue(item) /\ content[o] # NoContent /\ ~Pending(o)
        BY <1>8 DEF Resync
    <2>2. enqueued < MaxItems /\ Server(o) \in SyncId /\ content[o].folder \in Folders \cup {None}
        BY <1>1, <2>1, IdsOfObjects DEF Enqueue, AppTypes, Contents
    <2>3. /\ c \in GoodItem /\ c.no = enqueued + 1 /\ c.op \in {"update", "create"}
          /\ c.ids \in {{Client(o)}, {Server(o)}} /\ c.folder \in {None, content[o].folder}
          /\ (c.op = "update" <=> latest[o] > 0)
        BY <1>1, <2>2, ChangeType, CreateType
    <2> HIDE DEF c
    <2>4. ObjectOf(c) = o
        BY <2>3, IdsOfObjects DEF ObjectOf, IdOf, The
    <2>5. /\ item \in GoodItem /\ item.no = c.no /\ item.op = c.op /\ item.ids = c.ids
          /\ item.folder = c.folder /\ item.rev = 0
        BY <1>1, <2>1, <2>3, <2>4, UnchangedType
    <2> HIDE DEF item
    <2>6. ObjectOf(item) = o /\ Objects(item) = {o}
        <3>1. PICK id \in {Client(o), Server(o)} : item.ids = {id}
            BY <2>3, <2>5
        <3>2. id[2] = o
            BY <3>1, IdsOfObjects
        <3>3. QED
            BY <3>1, <3>2, OneObject
    <2>7. latest[o] \in Nat
        BY <1>1 DEF AppTypes
    <2>8. Grounded(item)
        BY <2>1, <2>3, <2>5, <2>6, <2>7 DEF Grounded
    <2>9. NewItem(item)
        BY <1>1, <2>1, <2>3, <2>5, <2>8 DEF NewItem
    <2>10. QED
        BY <2>1, <2>9 DEF item, c
<1>9. QED
    BY <1>3, <1>4, <1>5, <1>6, <1>7, <1>8 DEF UserEnqueues

LEMMA LetGoType ==
    ASSUME NEW s \in Tidy, NEW kind \in Kinds, NEW item \in GoodItem, NEW ids
    PROVE  LET t == LetGo(s, kind, item, ids) IN
           /\ t \in Tidy
           /\ t.queue = s.queue
           /\ t.queue_dependencies = [n \in ItemNo |-> s.queue_dependencies[n] \ {OnItem(item.no)}]
           /\ t.waiting_response =
                  [id \in SyncId |-> IF id \in ids THEN s.waiting_response[id] \ {item.no}
                                     ELSE s.waiting_response[id]]
           /\ t.in_flight_bulk_create_objects = s.in_flight_bulk_create_objects
           /\ t.client_id_to_server = s.client_id_to_server
           /\ t.should_dequeue = s.should_dequeue /\ t.spawned = s.spawned /\ t.dropped = s.dropped
           /\ t.answered = s.answered \cup {item.no}
<1> DEFINE a == Answered(s, kind, item, ids)
           t == DependencySucceeded(a, OnItem(item.no))
<1>1. s \in Structs
    BY DEF Tidy
<1>2. /\ a \in Structs
      /\ a.queue = s.queue /\ a.queue_dependencies = s.queue_dependencies
      /\ a.waiting_response =
             [id \in SyncId |-> IF id \in ids THEN s.waiting_response[id] \ {item.no}
                                ELSE s.waiting_response[id]]
      /\ a.in_flight_bulk_create_objects = s.in_flight_bulk_create_objects
      /\ a.client_id_to_server = s.client_id_to_server
      /\ a.should_dequeue = s.should_dequeue /\ a.spawned = s.spawned /\ a.dropped = s.dropped
      /\ a.answered = s.answered \cup {item.no}
    BY <1>1, AnsweredType
<1>3. LetGo(s, kind, item, ids) = t
    BY DEF LetGo
<1> HIDE DEF a
<1>4. /\ t \in Structs
      /\ t.queue = a.queue
      /\ t.queue_dependencies = [n \in ItemNo |-> a.queue_dependencies[n] \ {OnItem(item.no)}]
      /\ t.waiting_response = a.waiting_response
      /\ t.in_flight_bulk_create_objects = a.in_flight_bulk_create_objects
      /\ t.client_id_to_server = a.client_id_to_server
      /\ t.should_dequeue = a.should_dequeue /\ t.spawned = a.spawned /\ t.dropped = a.dropped
      /\ t.answered = a.answered
    BY <1>2, DependencySucceededType
<1> HIDE DEF t
<1>5. t.queue_dependencies = [n \in ItemNo |-> s.queue_dependencies[n] \ {OnItem(item.no)}]
    BY <1>2, <1>4
<1>6. t \in Tidy
    BY <1>2, <1>4, <1>5, SameTidy
<1>7. QED
    BY <1>2, <1>3, <1>4, <1>5, <1>6

LEMMA LetGoTells ==
    ASSUME NEW s \in Tidy, NEW kind \in Kinds, NEW item \in GoodItem, NEW ids
    PROVE  Tells(s, LetGo(s, kind, item, ids), kind, ObjectsOf(ids) \cap Shown({item}))
<1> DEFINE a == Answered(s, kind, item, ids)
           t == DependencySucceeded(a, OnItem(item.no))
<1>1. s \in Structs
    BY DEF Tidy
<1>2. a \in Structs
    BY <1>1, AnsweredType
<1>3. Tells(s, a, kind, ObjectsOf(ids) \cap Shown({item}))
    BY <1>1, AnsweredTells
<1>4. LetGo(s, kind, item, ids) = t
    BY DEF LetGo
<1> HIDE DEF a
<1>5. t.told = a.told /\ t.failed = a.failed
    BY <1>2, DependencySucceededType
<1>6. QED
    BY <1>3, <1>4, <1>5 DEF Tells

LEMMA EmittedTidy ==
    ASSUME NEW s \in Tidy, NEW kind \in Kinds, NEW item \in GoodItem, NEW objects
    PROVE  Emitted(s, kind, item, objects) \in Tidy
<1>1. s \in Structs
    BY DEF Tidy
<1>2. QED
    BY <1>1, EmittedType, SameTidy DEF Same

LEMMA ReplacedTidy ==
    ASSUME NEW s \in Tidy, NEW item, NEW o
    PROVE  Replaced(s, item, o) \in Tidy
<1>1. s \in Structs
    BY DEF Tidy
<1>2. QED
    BY <1>1, ReplacedType, RewrittenTidy

LEMMA RevisedTidy ==
    ASSUME NEW s \in Tidy, NEW o, NEW rev \in Nat
    PROVE  Revised(s, o, rev) \in Tidy
<1>1. s \in Structs
    BY DEF Tidy
<1>2. QED
    BY <1>1, RevisedType, RewrittenTidy

\* Dequeueing may be switched on or off at any time.
LEMMA SwitchedTidy ==
    ASSUME NEW s \in Tidy, NEW b \in BOOLEAN
    PROVE  LET t == [s EXCEPT !.should_dequeue = b] IN
           /\ t \in Tidy /\ t.should_dequeue = b
           /\ t.queue = s.queue /\ t.queue_dependencies = s.queue_dependencies
           /\ t.waiting_response = s.waiting_response
           /\ t.in_flight_bulk_create_objects = s.in_flight_bulk_create_objects
           /\ t.client_id_to_server = s.client_id_to_server
           /\ t.spawned = s.spawned /\ t.dropped = s.dropped /\ t.answered = s.answered /\ t.told = s.told /\ t.failed = s.failed
<1> DEFINE t == [s EXCEPT !.should_dequeue = b]
<1>1. s \in Structs
    BY DEF Tidy
<1>2. /\ t \in Structs /\ t.should_dequeue = b
      /\ t.queue = s.queue /\ t.queue_dependencies = s.queue_dependencies
      /\ t.waiting_response = s.waiting_response
      /\ t.in_flight_bulk_create_objects = s.in_flight_bulk_create_objects
      /\ t.client_id_to_server = s.client_id_to_server
      /\ t.spawned = s.spawned /\ t.dropped = s.dropped /\ t.answered = s.answered /\ t.told = s.told /\ t.failed = s.failed
    BY <1>1 DEF Structs
<1> HIDE DEF t
<1>3. t \in Tidy
    BY <1>2, SameTidy
<1>4. QED
    BY <1>2, <1>3 DEF t

LEMMA EmptyType ==
    /\ EmptyQueue \in Structs /\ EmptyQueue.queue = <<>>
    /\ EmptyQueue.spawned = {} /\ EmptyQueue.dropped = {}
    /\ \A n \in ItemNo : EmptyQueue.queue_dependencies[n] = {}
    /\ \A id \in SyncId : EmptyQueue.waiting_response[id] = {}
    /\ \A n \in ItemNo : EmptyQueue.in_flight_bulk_create_objects[n] = {}
    /\ EmptyQueue.client_id_to_server = {} /\ ~EmptyQueue.should_dequeue
<1>1. <<>> \in Seq(GoodItem) /\ None \in Kinds
    BY DEF Kinds
<1>2. QED
    BY <1>1 DEF EmptyQueue, Structs

LEMMA ClearedType ==
    ASSUME NEW s \in Tidy
    PROVE  LET t == Cleared(s) IN
           /\ t \in Tidy /\ t.queue = <<>> /\ t.spawned = {} /\ t.dropped = {}
           /\ \A n \in ItemNo : t.queue_dependencies[n] = {}
           /\ \A id \in SyncId : t.waiting_response[id] = {}
           /\ \A n \in ItemNo : t.in_flight_bulk_create_objects[n] = {}
           /\ t.should_dequeue = s.should_dequeue
           /\ t.answered = s.answered
<1> DEFINE t == Cleared(s)
<1>1. s.should_dequeue \in BOOLEAN /\ s.answered \subseteq ItemNo
    BY StructFields DEF Tidy
<1>2. /\ t \in Structs /\ t.queue = <<>> /\ t.spawned = {} /\ t.dropped = {}
      /\ \A n \in ItemNo : t.queue_dependencies[n] = {}
      /\ \A id \in SyncId : t.waiting_response[id] = {}
      /\ \A n \in ItemNo : t.in_flight_bulk_create_objects[n] = {}
      /\ t.should_dequeue = s.should_dequeue /\ t.answered = s.answered
    BY <1>1, EmptyType DEF Cleared, Structs
<1>3. t \in Tidy
    BY <1>2 DEF Tidy
<1>4. QED
    BY <1>2, <1>3

LEMMA RequestGoesOn ==
    ASSUME NEW r \in Requests, NEW at \in {"sent", "applied"}, NEW rev \in Nat
    PROVE  LET q == [r EXCEPT !.at = at, !.rev = rev] IN q \in Requests /\ q.item = r.item
    BY DEF Requests

LEMMA EnqueueTypes ==
    ASSUME TypeInv, NEW item, NewItem(item), Enqueue(item)
    PROVE  TypeInv'
<1>1. item \in GoodItem /\ QueueTypes /\ AppTypes /\ enqueued < MaxItems
    BY DEF NewItem, TypeInv, Enqueue
<1>2. Dequeued(Pushed(sync_queue, item)) \in Tidy
    BY <1>1, PushedTidy, DequeuedTidy DEF QueueTypes
<1>3. Becomes(Dequeued(Pushed(sync_queue, item)), futures)
    BY DEF Enqueue
<1>4. QueueTypes'
    BY <1>1, <1>2, <1>3, BecomesStruct DEF QueueTypes
<1> DEFINE more == {id[2] : id \in {id \in item.ids : id[1] = "client"}}
<1>5. more \subseteq Objects(item) /\ (item.op = "action" => more \subseteq local)
    BY DEF Objects, NewItem
<1>6. local' = local \cup more /\ Edited(item) /\ UNCHANGED <<log, latest, cleared>>
    BY DEF Enqueue
<1> HIDE DEF more
<1>7. AppTypes'
    BY <1>1, <1>5, <1>6, EditedTypes DEF AppTypes
<1>8. QED
    BY <1>4, <1>7 DEF TypeInv

LEMMA ServerReceivesTypes ==
    ASSUME TypeInv, NEW r \in futures, ServerReceives(r)
    PROVE  TypeInv'
<1>1. r \in Requests /\ r.item \in GoodItem /\ QueueTypes /\ AppTypes
    BY DEF TypeInv, QueueTypes, Requests
<1>2. UNCHANGED <<sync_queue, lost, halted, appVars>>
    BY DEF ServerReceives
<1>3. CASE IsCurrent(r.item) /\ Applied(r)
    <2>1. log' \in [Object -> Seq(ItemNo)]
        <3>1. r.item.edit \in ItemNo
            BY <1>1, ItemIds
        <3>2. \A o \in Object : Append(log[o], r.item.edit) \in Seq(ItemNo) /\ log[o] \in Seq(ItemNo)
            BY <1>1, <3>1 DEF AppTypes
        <3>3. QED
            BY <1>3, <3>2 DEF Applied
    <2>2. Len(log'[ObjectOf(r.item)]) \in Nat
        <3>1. ObjectOf(r.item) \in Object
            BY <1>1, ItemIds
        <3>2. log'[ObjectOf(r.item)] \in Seq(ItemNo)
            BY <2>1, <3>1
        <3>3. QED
            BY <3>2
    <2>3. futures' \subseteq Requests
        <3> DEFINE rev == Len(log'[ObjectOf(r.item)])
        <3>1. futures' = (futures \ {r}) \cup {[r EXCEPT !.at = "applied", !.rev = rev]}
            BY <1>3 DEF Applied
        <3> HIDE DEF rev
        <3>2. [r EXCEPT !.at = "applied", !.rev = rev] \in Requests
            BY <1>1, <2>2, RequestGoesOn DEF rev
        <3>3. QED
            BY <1>1, <3>1, <3>2 DEF QueueTypes
    <2>4. QED
        BY <1>1, <1>2, <2>1, <2>3 DEF TypeInv, QueueTypes, AppTypes, appVars
<1>4. CASE ~IsCurrent(r.item) /\ futures' = (futures \ {r}) \cup {[r EXCEPT !.at = "refused"]} /\ UNCHANGED log
    <2>1. r.item.op = "update"
        BY <1>4 DEF IsCurrent
    <2>2. [r EXCEPT !.at = "refused"] \in Requests
        BY <1>1, <2>1 DEF Requests
    <2>3. QED
        BY <1>1, <1>2, <1>4, <2>2 DEF TypeInv, QueueTypes, AppTypes, appVars
<1>5. QED
    BY <1>3, <1>4 DEF ServerReceives

LEMMA InitTypes ==
    ASSUME Init
    PROVE  TypeInv /\ \E loaded : Loaded(loaded)
<1> DEFINE Places(q) == [Workflows -> {None} \cup (Folders \cap ToSet(q))]
           Refs(q, o) == IF o \in Workflows THEN Enums \cap ToSet(q) ELSE {}
           Place(p, o) == IF o \in Workflows THEN p[o] ELSE None
           New(q, p, k) == [no |-> k, op |-> "create", ids |-> {Client(q[k])}, edit |-> k,
                            refs |-> Refs(q, q[k]), folder |-> Place(p, q[k]), rev |-> 0]
           Start(q, p) == [EmptyQueue EXCEPT !.queue = [k \in DOMAIN q |-> New(q, p, k)]]
           Deps(q, p) == [n \in ItemNo |->
               IF n <= Len(q) THEN InferredDependencies(Start(q, p), New(q, p, n)) ELSE {}]
           Initially(q, p) ==
               /\ Len(q) <= MaxItems
               /\ sync_queue = [Start(q, p) EXCEPT !.queue_dependencies =
                     [n \in ItemNo |-> IF n <= Len(q)
                        THEN InferredDependencies(Start(q, p), [k \in DOMAIN q |-> New(q, p, k)][n]) ELSE {}]]
               /\ futures = {}
               /\ log = [o \in Object |-> <<>>]
               /\ latest = [o \in Object |-> 0]
               /\ content = [o \in Object |->
                      IF o \in ToSet(q)
                        THEN [edit |-> CHOOSE k \in DOMAIN q : q[k] = o, refs |-> Refs(q, o),
                              folder |-> Place(p, o)]
                        ELSE NoContent]
               /\ local = ToSet(q)
               /\ enqueued = Len(q)
               /\ cleared = 0
<1>0. PICK q \in Unsynced : \E p \in Places(q) : Initially(q, p)
    BY DEF Init
<1>1. PICK p \in Places(q) : Initially(q, p)
    BY <1>0
<1>2. PICK S \in SUBSET (Enums \cup Workflows \cup Folders) : q \in SetToSeqs(S)
    BY DEF Unsynced, SetToAllKPermutations
<1>3. S \subseteq Object /\ IsFiniteSet(S)
    BY SyncQueueAssumption, FS_Subset DEF Object
<1>4. q \in Seq(S) /\ ToSet(q) = S /\ IsInjective(q)
    BY <1>2, <1>3, SequencesOfASet
<1>5. Len(q) \in Nat /\ DOMAIN q = 1..Len(q) /\ DOMAIN q \subseteq ItemNo
    BY <1>1, <1>4, SyncQueueAssumption DEF ItemNo
<1>6. \A k \in DOMAIN q : q[k] \in Object
    BY <1>3, <1>4, ElementsInSet
<1> DEFINE items == [k \in DOMAIN q |-> New(q, p, k)]
           loaded == Start(q, p)
           deps == Deps(q, p)
<1>7. ASSUME NEW k \in DOMAIN q
      PROVE  New(q, p, k) \in GoodItem
    <2> DEFINE i == New(q, p, k)
    <2>1. /\ Client(q[k]) \in SyncId /\ Refs(q, q[k]) \subseteq Enums /\ k \in ItemNo
          /\ Place(p, q[k]) \in Folders \cup {None}
        BY <1>5, <1>6, IdsOfObjects
    <2> HIDE DEF Refs, Place
    <2>2. i \in Item /\ i.op = "create" /\ i.ids = {Client(q[k])}
        BY <2>1 DEF Item
    <2>3. Shaped(i)
        BY <1>6, <2>2 DEF Shaped
    <2>4. QED
        BY <2>2, <2>3 DEF GoodItem
<1>8. items \in Seq(GoodItem) /\ Len(items) = Len(q)
    <2> HIDE DEF New
    <2>1. items \in [1..Len(q) -> GoodItem]
        BY <1>5, <1>7
    <2>2. QED
        BY <1>5, <2>1, IsASeq
<1>9. \A k \in DOMAIN q : items[k] = New(q, p, k)
    OBVIOUS
<1>10. \A k \in DOMAIN q :
          /\ New(q, p, k).no = k /\ New(q, p, k).op = "create"
          /\ Objects(New(q, p, k)) = {q[k]}
    BY OneObject, IdsOfObjects
<1> HIDE DEF New
<1>11. /\ loaded \in Structs /\ loaded.queue = items /\ loaded.spawned = {}
       /\ loaded.dropped = {} /\ ~loaded.should_dequeue
       /\ \A n \in ItemNo : loaded.queue_dependencies[n] = {}
       /\ \A id \in SyncId : loaded.waiting_response[id] = {}
       /\ \A n \in ItemNo : loaded.in_flight_bulk_create_objects[n] = {}
       /\ loaded.client_id_to_server = {}
    <2> HIDE DEF items
    <2>1. loaded = [EmptyQueue EXCEPT !.queue = items]
        BY DEF items
    <2>2. QED
        BY <1>8, <2>1, EmptyType DEF Structs
<1>12. sync_queue = [loaded EXCEPT !.queue_dependencies = deps]
    <2>1. \A n \in ItemNo : n <= Len(q) => [k \in DOMAIN q |-> New(q, p, k)][n] = New(q, p, n)
        BY <1>5 DEF ItemNo
    <2>2. [n \in ItemNo |-> IF n <= Len(q)
              THEN InferredDependencies(Start(q, p), [k \in DOMAIN q |-> New(q, p, k)][n]) ELSE {}] = deps
        <3> HIDE DEF Start
        <3>1. QED
            BY <2>1
    <2> HIDE DEF loaded, deps
    <2>3. QED
        BY <1>1, <2>2 DEF loaded
<1> HIDE DEF loaded, items
<1>13. /\ deps \in [ItemNo -> SUBSET Dependency]
       /\ \A k \in DOMAIN q : deps[k] = InferredDependencies(loaded, items[k])
       /\ \A n \in ItemNo : ~(n <= Len(q)) => deps[n] = {}
    <2>1. \A k \in DOMAIN q : InferredDependencies(loaded, New(q, p, k)) \subseteq Dependency
        BY <1>7, <1>11, InferredType
    <2>2. \A n \in ItemNo : n <= Len(q) => n \in DOMAIN q
        BY <1>5 DEF ItemNo
    <2>3. deps = [n \in ItemNo |-> IF n <= Len(q) THEN InferredDependencies(loaded, New(q, p, n)) ELSE {}]
        BY DEF loaded
    <2> HIDE DEF deps
    <2>4. \A k \in DOMAIN q : k \in ItemNo /\ k <= Len(q)
        BY <1>5
    <2>5. QED
        BY <1>9, <2>1, <2>2, <2>3, <2>4
<1> HIDE DEF deps
<1>14. /\ sync_queue \in Structs /\ sync_queue.queue = items /\ sync_queue.spawned = {}
       /\ sync_queue.dropped = {} /\ ~sync_queue.should_dequeue
       /\ sync_queue.queue_dependencies = deps
       /\ \A id \in SyncId : sync_queue.waiting_response[id] = {}
       /\ \A n \in ItemNo : sync_queue.in_flight_bulk_create_objects[n] = {}
       /\ sync_queue.client_id_to_server = {}
    BY <1>11, <1>12, <1>13 DEF Structs
<1>15. sync_queue \in Tidy
    <2>1. \A k \in DOMAIN q : items[k] \in Items(sync_queue)
        BY <1>14 DEF Items, ToSet, items
    <2>2. \A k \in DOMAIN q : k \in Numbers(Items(sync_queue))
        BY <1>9, <1>10, <2>1 DEF Numbers
    <2>3. \A n \in ItemNo : n <= Len(q) => n \in DOMAIN q
        BY <1>5 DEF ItemNo
    <2>4. QED
        BY <1>13, <1>14, <2>2, <2>3 DEF Tidy
<1>16. ASSUME NEW o \in Object
       PROVE  /\ content[o] \in Contents \cup {NoContent}
              /\ o \in ToSet(q) => content[o] \in Contents
    <2>1. CASE o \in ToSet(q)
        <3> DEFINE k == CHOOSE k \in DOMAIN q : q[k] = o
        <3>1. k \in ItemNo /\ Refs(q, o) \subseteq Enums /\ Place(p, o) \in Folders \cup {None}
            BY <1>5, <2>1 DEF ToSet
        <3> HIDE DEF k, Refs, Place
        <3>2. content[o] = [edit |-> k, refs |-> Refs(q, o), folder |-> Place(p, o)]
            BY <1>1, <2>1 DEF k, Refs, Place
        <3>3. QED
            BY <3>1, <3>2 DEF Contents
    <2>2. CASE o \notin ToSet(q)
        BY <1>1, <2>2 DEF NoContent
    <2>3. QED
        BY <2>1, <2>2
<1>17. AppTypes
    <2>1. log \in [Object -> Seq(ItemNo)] /\ latest \in [Object -> Nat]
        BY <1>1
    <2>2. content \in [Object -> Contents \cup {NoContent}]
        BY <1>1, <1>16
    <2>3. local \subseteq Object /\ \A o \in local : content[o] \in Contents
        BY <1>1, <1>3, <1>4, <1>16
    <2>4. enqueued \in 0..MaxItems /\ cleared \in Nat
        BY <1>1, <1>5, SyncQueueAssumption
    <2>5. QED
        BY <2>1, <2>2, <2>3, <2>4 DEF AppTypes
<1>18. Loaded(loaded)
    <2>1. \A k \in DOMAIN loaded.queue :
             /\ loaded.queue[k].no = k /\ loaded.queue[k].op = "create"
             /\ sync_queue.queue_dependencies[k] = InferredDependencies(loaded, loaded.queue[k])
        BY <1>9, <1>10, <1>11, <1>13, <1>14 DEF items
    <2>2. Len(loaded.queue) = enqueued
        BY <1>1, <1>8, <1>11
    <2>3. \A i, j \in Items(loaded) : Objects(i) \cap Objects(j) # {} => i.no = j.no
        <3>1. \A i \in Items(loaded) : \E k \in DOMAIN q : i = New(q, p, k)
            BY <1>9, <1>11 DEF Items, ToSet, items
        <3>2. \A k, l \in DOMAIN q : Objects(New(q, p, k)) \cap Objects(New(q, p, l)) # {} => k = l
            BY <1>4, <1>10 DEF IsInjective
        <3>3. QED
            BY <1>10, <3>1, <3>2
    <2>4. QED
        BY <1>1, <1>11, <1>14, <1>16, <2>1, <2>2, <2>3 DEF Loaded
<1>19. QED
    BY <1>1, <1>14, <1>15, <1>17, <1>18 DEF TypeInv, QueueTypes

\* A struct that a callback leaves, and what it does to the rest.
LEMMA CallBackTypes ==
    ASSUME TypeInv, NEW r \in futures, NEW s \in Tidy, CallBack(r, s)
    PROVE  QueueTypes'
<1>1. Dequeued(s) \in Tidy
    BY DequeuedTidy
<1>2. futures \ {r} \subseteq Requests
    BY DEF TypeInv, QueueTypes
<1>3. QED
    BY <1>1, <1>2, BecomesStruct DEF CallBack

LEMMA LearnsTypes ==
    ASSUME TypeInv, NEW r \in Requests, Learns(r)
    PROVE  latest' \in [Object -> Nat]
<1>1. r.rev \in Nat /\ latest \in [Object -> Nat]
    BY DEF Requests, TypeInv, AppTypes
<1>2. QED
    BY <1>1 DEF Learns

LEMMA CreateSucceededTypes ==
    ASSUME TypeInv, NEW r \in futures, CreateSucceeded(r)
    PROVE  TypeInv'
<1> DEFINE o == ObjectOf(r.item)
           s == IF o \in Enums THEN Replaced(sync_queue, r.item, o) ELSE sync_queue
<1>1. r \in Requests /\ r.item \in GoodItem /\ sync_queue \in Tidy
    BY DEF TypeInv, QueueTypes, Requests
<1>2. o \in Object
    BY <1>1, ItemIds
<1>3. s \in Tidy
    BY <1>1, ReplacedTidy
<1>4. CallBack(r, CreationSucceeded(s, r.item, o))
    BY DEF CreateSucceeded
<1> HIDE DEF s, o
<1>5. QueueTypes'
    BY <1>1, <1>2, <1>3, <1>4, CreationSucceededTidy, CallBackTypes
<1>6. latest' \in [Object -> Nat] /\ UNCHANGED <<log, content, local, enqueued, cleared>>
    BY <1>1, LearnsTypes DEF CreateSucceeded
<1>7. QED
    BY <1>5, <1>6 DEF TypeInv, AppTypes

LEMMA BulkCreateSucceededTypes ==
    ASSUME TypeInv, NEW r \in futures, BulkCreateSucceeded(r)
    PROVE  /\ TypeInv'
           /\ \E created \in Seq(Object) : /\ ToSet(created) = Objects(r.item) /\ IsInjective(created)
                                           /\ Becomes(AllCreated(sync_queue, r.item, created), futures \ {r})
<1>1. r \in Requests /\ r.item \in GoodItem /\ sync_queue \in Tidy /\ futures \subseteq Requests
    BY DEF TypeInv, QueueTypes, Requests
<1>2. PICK created \in SetToSeqs(Objects(r.item)) :
         Becomes(AllCreated(sync_queue, r.item, created), futures \ {r})
    BY DEF BulkCreateSucceeded
<1>3. Objects(r.item) \subseteq Object
    BY <1>1, ItemIds
<1>4. IsFiniteSet(Objects(r.item))
    BY <1>3, SyncQueueAssumption, FS_Subset
<1>5. created \in Seq(Objects(r.item)) /\ ToSet(created) = Objects(r.item) /\ IsInjective(created)
    BY <1>2, <1>4, SequencesOfASet
<1>6. created \in Seq(Object)
    BY <1>3, <1>5
<1>7. AllCreated(sync_queue, r.item, created) \in Tidy
    BY <1>1, <1>6, AllCreatedTidy
<1>8. QueueTypes'
    BY <1>1, <1>2, <1>7, BecomesStruct
<1>9. latest' \in [Object -> Nat] /\ UNCHANGED <<log, content, local, enqueued, cleared>>
    BY <1>1, LearnsTypes DEF BulkCreateSucceeded
<1>10. TypeInv'
    BY <1>8, <1>9 DEF TypeInv, AppTypes
<1>11. QED
    BY <1>2, <1>5, <1>6, <1>10

LEMMA DeniedType ==
    ASSUME TypeInv, NEW r \in futures
    PROVE  Denied(r) = LetGo(sync_queue, "denied", r.item, r.item.ids) /\ Denied(r) \in Tidy
<1>1. r.item \in GoodItem /\ sync_queue \in Tidy /\ "denied" \in Kinds
    BY DEF TypeInv, QueueTypes, Requests, Kinds
<1>2. Denied(r) = LetGo(sync_queue, "denied", r.item, r.item.ids)
    BY DEF Denied, LetGo
<1>3. LetGo(sync_queue, "denied", r.item, r.item.ids) \in Tidy
    BY <1>1, LetGoType
<1>4. QED
    BY <1>2, <1>3

LEMMA CreateDeniedTypes ==
    ASSUME TypeInv, NEW r \in futures, CreateDenied(r)
    PROVE  TypeInv'
<1>1. r.item \in GoodItem /\ "failed" \in Kinds
    BY DEF TypeInv, QueueTypes, Requests, Kinds
<1>2. Denied(r) \in Tidy
    BY DeniedType
<1>3. Emitted(Denied(r), "failed", r.item, Objects(r.item)) \in Tidy
    BY <1>1, <1>2, EmittedTidy
<1>4. QueueTypes'
    BY <1>3, CallBackTypes DEF CreateDenied
<1>5. QED
    BY <1>4 DEF TypeInv, AppTypes, CreateDenied, appVars

LEMMA NotedType ==
    ASSUME NEW s \in Structs, NEW set \in SUBSET Object
    PROVE  LET t == Noted(s, set) IN
           /\ t \in Structs /\ Same(s, t) /\ t.answered = s.answered
           /\ t.told = s.told /\ t.failed = s.failed \cup set
           /\ s \in Tidy => t \in Tidy
<1> DEFINE t == Noted(s, set)
<1>1. t \in Structs /\ Same(s, t) /\ t.answered = s.answered /\ t.told = s.told
      /\ t.failed = s.failed \cup set
    BY DEF Noted, Structs, Same
<1>2. s \in Tidy => t \in Tidy
    BY <1>1 DEF Tidy, Same, Items
<1>3. QED
    BY <1>1, <1>2

LEMMA CreateDeniedToTeamTypes ==
    ASSUME TypeInv, NEW r \in futures, CreateDeniedToTeam(r)
    PROVE  /\ TypeInv'
           /\ Again(r) \in GoodItem /\ Again(r).no = enqueued + 1 /\ Again(r).op = "create"
           /\ Again(r).folder = None /\ Again(r).ids = {Client(ObjectOf(r.item))}
<1> DEFINE o == ObjectOf(r.item)
           c == Create(o, None)
           item == Unchanged(c)
<1>1. r.item \in GoodItem /\ AppTypes /\ enqueued < MaxItems /\ o \in local
    BY DEF TypeInv, QueueTypes, Requests, CreateDeniedToTeam
<1>2. o \in Object /\ content[o] \in Contents
    BY <1>1, ItemIds DEF AppTypes
<1>3. content[o] # NoContent
    <2>1. NoContent.edit = 0
        BY DEF NoContent
    <2>2. content[o].edit \in ItemNo
        BY <1>2 DEF Contents
    <2>3. QED
        BY <2>1, <2>2 DEF ItemNo
<1>4. c \in GoodItem /\ c.no = enqueued + 1 /\ c.op = "create" /\ c.ids = {Client(o)} /\ c.folder = None
    BY <1>1, <1>2, CreateType
<1> HIDE DEF c
<1>5. ObjectOf(c) = o
    BY <1>4, IdsOfObjects DEF ObjectOf, IdOf, The
<1>6. item \in GoodItem /\ item.no = c.no /\ item.op = c.op /\ item.ids = c.ids /\ item.folder = c.folder
    BY <1>1, <1>3, <1>4, <1>5, UnchangedType
<1>7. Again(r) = item
    BY DEF Again, c
<1>8. CallBack(r, Noted(Pushed(Dequeued(Denied(r)), item), {o})) /\ Edited(item)
      /\ UNCHANGED <<log, latest, local, cleared>>
    BY DEF CreateDeniedToTeam, Noted, c
<1> HIDE DEF item, o
<1>9. Noted(Pushed(Dequeued(Denied(r)), item), {o}) \in Tidy
    <2>1. Pushed(Dequeued(Denied(r)), item) \in Tidy
        BY <1>6, DeniedType, DequeuedTidy, PushedTidy
    <2>2. Pushed(Dequeued(Denied(r)), item) \in Structs /\ {o} \in SUBSET Object
        BY <1>2, <2>1 DEF Tidy
    <2>3. QED
        BY <2>1, <2>2, NotedType
<1>10. QueueTypes'
    BY <1>8, <1>9, CallBackTypes
<1>11. AppTypes'
    <2>1. \E more \in SUBSET Objects(item) :
              local' = local \cup more /\ (item.op = "action" => more \subseteq local)
        <3>1. local' = local \cup {} /\ {} \in SUBSET Objects(item) /\ {} \subseteq local
            BY <1>8
        <3>2. QED
            BY <3>1
    <2>2. log' \in [Object -> Seq(ItemNo)] /\ latest' \in [Object -> Nat] /\ cleared' \in Nat
        BY <1>1, <1>8 DEF AppTypes
    <2>3. QED
        BY <1>1, <1>6, <1>8, <2>1, <2>2, EditedTypes
<1>12. QED
    BY <1>4, <1>6, <1>7, <1>10, <1>11 DEF TypeInv, o

LEMMA UniqueKeyConflictTypes ==
    ASSUME TypeInv, NEW r \in futures, UniqueKeyConflict(r)
    PROVE  TypeInv'
<1>1. r.item \in GoodItem /\ sync_queue \in Tidy /\ AppTypes
    BY DEF TypeInv, QueueTypes, Requests
<1>2. QueueTypes'
    BY <1>1, CreationFailedTidy, CallBackTypes DEF UniqueKeyConflict
<1>3. /\ local' \subseteq local
      /\ content' = [o \in Object |-> IF o \in local \ local' THEN NoContent ELSE content[o]]
    BY DEF UniqueKeyConflict
<1>4. content' \in [Object -> Contents \cup {NoContent}]
    BY <1>1, <1>3 DEF AppTypes
<1>5. \A o \in local' : content'[o] \in Contents
    BY <1>1, <1>3 DEF AppTypes
<1>6. AppTypes'
    BY <1>1, <1>3, <1>4, <1>5 DEF AppTypes, UniqueKeyConflict
<1>7. QED
    BY <1>2, <1>6 DEF TypeInv

LEMMA OtherSucceededType ==
    ASSUME TypeInv, NEW r \in futures, NEW kind \in Kinds
    PROVE  /\ OtherSucceeded(r, kind) = LetGo(sync_queue, kind, r.item, {Server(ObjectOf(r.item))})
           /\ OtherSucceeded(r, kind) \in Tidy
<1>1. r.item \in GoodItem /\ sync_queue \in Tidy
    BY DEF TypeInv, QueueTypes, Requests
<1> DEFINE ids == {Server(ObjectOf(r.item))}
<1>2. OtherSucceeded(r, kind) = LetGo(sync_queue, kind, r.item, ids)
    BY DEF OtherSucceeded, LetGo
<1> HIDE DEF ids
<1>3. LetGo(sync_queue, kind, r.item, ids) \in Tidy
    BY <1>1, LetGoType
<1>4. QED
    BY <1>2, <1>3 DEF ids

LEMMA UpdateSucceededTypes ==
    ASSUME TypeInv, NEW r \in futures, UpdateSucceeded(r)
    PROVE  TypeInv'
<1>1. r \in Requests /\ r.rev \in Nat /\ "done" \in Kinds
    BY DEF TypeInv, QueueTypes, Requests, Kinds
<1>2. OtherSucceeded(r, "done") \in Tidy
    BY <1>1, OtherSucceededType
<1>3. QueueTypes'
    BY <1>1, <1>2, RevisedTidy, CallBackTypes DEF UpdateSucceeded
<1>4. latest' \in [Object -> Nat] /\ UNCHANGED <<log, content, local, enqueued, cleared>>
    BY <1>1, LearnsTypes DEF UpdateSucceeded
<1>5. QED
    BY <1>3, <1>4 DEF TypeInv, AppTypes

LEMMA RequestFailsTypes ==
    ASSUME TypeInv, NEW r \in futures,
           UpdateRejected(r) \/ ActionRecorded(r) \/ RequestFailedRetryPending(r) \/ RequestFailed(r)
    PROVE  TypeInv'
<1>1. r \in Requests /\ r.item \in GoodItem /\ sync_queue \in Tidy /\ QueueTypes
    BY DEF TypeInv, QueueTypes, Requests
<1>2. {"done", "failed"} \subseteq Kinds
    BY DEF Kinds
<1>3. CASE UpdateRejected(r) \/ ActionRecorded(r)
    <2>1. OtherSucceeded(r, "failed") \in Tidy /\ OtherSucceeded(r, "done") \in Tidy
        BY <1>2, OtherSucceededType
    <2>2. QueueTypes'
        BY <1>3, <2>1, CallBackTypes DEF UpdateRejected, ActionRecorded
    <2>3. QED
        BY <1>3, <2>2 DEF TypeInv, AppTypes, UpdateRejected, ActionRecorded, appVars
<1>4. CASE RequestFailedRetryPending(r)
    <2> DEFINE q == [r EXCEPT !.at = "sent", !.retries = @ - 1, !.rev = 0]
    <2>1. r.retries > 0 /\ futures' = (futures \ {r}) \cup {q} /\ UNCHANGED <<sync_queue, appVars, log>>
        BY <1>4 DEF RequestFailedRetryPending
    <2>2. r.retries \in 0..MaxRetries /\ r.retries - 1 \in 0..MaxRetries
        BY <1>1, <2>1, SyncQueueAssumption DEF Requests
    <2>3. q \in Requests
        BY <1>1, <2>2 DEF Requests
    <2>4. QED
        BY <1>1, <2>1, <2>3 DEF TypeInv, QueueTypes, AppTypes, appVars
<1>5. CASE RequestFailed(r)
    <2> DEFINE s == IF r.item.op \in {"create", "bulk"} THEN CreationFailed(sync_queue, r.item)
                    ELSE OtherFailed(sync_queue, r.item)
    <2>1. s \in Tidy
        BY <1>1, CreationFailedTidy, OtherFailedTidy
    <2>2. CallBack(r, s) \/ Becomes(s, futures \ {r})
        BY <1>5 DEF RequestFailed
    <2> HIDE DEF s
    <2>3. futures \ {r} \subseteq Requests
        BY <1>1 DEF QueueTypes
    <2>4. QueueTypes'
        BY <2>1, <2>2, <2>3, CallBackTypes, BecomesStruct
    <2>5. QED
        BY <1>5, <2>4 DEF TypeInv, AppTypes, RequestFailed, appVars
<1>6. QED
    BY <1>3, <1>4, <1>5

LEMMA SwitchTypes ==
    ASSUME TypeInv, StartDequeueing \/ StopDequeueing \/ Clear
    PROVE  TypeInv'
<1>1. sync_queue \in Tidy /\ futures \subseteq Requests /\ AppTypes
    BY DEF TypeInv, QueueTypes
<1>2. CASE StartDequeueing
    <2>1. [sync_queue EXCEPT !.should_dequeue = TRUE] \in Tidy
        BY <1>1, SwitchedTidy
    <2>2. QueueTypes'
        BY <1>1, <1>2, <2>1, DequeuedTidy, BecomesStruct DEF StartDequeueing
    <2>3. QED
        BY <1>1, <1>2, <2>2 DEF StartDequeueing, TypeInv, AppTypes, appVars
<1>3. CASE StopDequeueing
    <2>1. [sync_queue EXCEPT !.should_dequeue = FALSE] \in Tidy
        BY <1>1, SwitchedTidy
    <2>2. QueueTypes'
        BY <1>1, <1>3, <2>1, BecomesStruct DEF StopDequeueing
    <2>3. QED
        BY <1>1, <1>3, <2>2 DEF StopDequeueing, TypeInv, AppTypes, appVars
<1>4. CASE Clear
    <2>1. Cleared(sync_queue) \in Tidy
        BY <1>1, ClearedType
    <2>2. Becomes(Cleared(sync_queue), futures)
        BY <1>4 DEF Clear, Cleared
    <2>3. QueueTypes'
        BY <1>1, <2>1, <2>2, BecomesStruct
    <2>4. latest' \in [Object -> Nat]
        BY <1>1, <1>4 DEF Clear, AppTypes
    <2>5. AppTypes'
        BY <1>1, <1>4, <2>4, SyncQueueAssumption DEF Clear, AppTypes
    <2>6. QED
        BY <2>3, <2>5 DEF TypeInv
<1>5. QED
    BY <1>2, <1>3, <1>4

LEMMA NextTypes ==
    ASSUME TypeInv, [Next]_vars
    PROVE  TypeInv'
<1>1. CASE UserEnqueues
    BY <1>1, EnqueuesOne, EnqueueTypes
<1>2. CASE StartDequeueing \/ StopDequeueing \/ Clear
    BY <1>2, SwitchTypes
<1>3. ASSUME NEW r \in futures,
             \/ ServerReceives(r)
             \/ CreateSucceeded(r) \/ BulkCreateSucceeded(r)
             \/ CreateDenied(r) \/ CreateDeniedToTeam(r) \/ UniqueKeyConflict(r)
             \/ UpdateSucceeded(r) \/ UpdateRejected(r) \/ ActionRecorded(r)
             \/ RequestFailedRetryPending(r) \/ RequestFailed(r)
      PROVE  TypeInv'
    BY <1>3, ServerReceivesTypes, CreateSucceededTypes, BulkCreateSucceededTypes, CreateDeniedTypes,
       CreateDeniedToTeamTypes, UniqueKeyConflictTypes, UpdateSucceededTypes, RequestFailsTypes
<1>4. CASE UNCHANGED vars
    BY <1>4 DEF vars, appVars, TypeInv, QueueTypes, AppTypes
<1>5. QED
    BY <1>1, <1>2, <1>3, <1>4 DEF Next, UserEnqueues

LEMMA TypesAlways == Spec => []TypeInv
<1>1. Init => TypeInv
    BY InitTypes
<1>2. QED
    BY <1>1, NextTypes, PTL DEF Spec

\* The queue is a sequence of items with one set of dependencies each, on items
\* and on objects of bulks, and only queued items wait for anything.
THEOREM TypeCorrect == Spec => []TypeOK
<1>1. TypeInv => TypeOK
    <2> SUFFICES ASSUME TypeInv PROVE TypeOK
        OBVIOUS
    <2>1. sync_queue \in Structs /\ sync_queue.spawned = {}
        BY DEF TypeInv, QueueTypes, Tidy
    <2>2. sync_queue.queue \in Seq(GoodItem)
        BY <2>1, StructFields
    <2>3. sync_queue.queue \in Seq(Item)
        BY <2>2 DEF GoodItem
    <2>4. sync_queue.client_id_to_server \subseteq Object
        BY <2>1, StructFields
    <2>5. \A n \in ItemNo : sync_queue.queue_dependencies[n] \subseteq ItemNo \X (Object \cup {None})
        BY <2>1, StructFields DEF Dependency
    <2>6. \A n \in ItemNo : n \notin Queued => sync_queue.queue_dependencies[n] = {}
        BY DEF TypeInv, QueueTypes, Tidy, Queued, Items, Numbers
    <2>7. \A id \in SyncId : sync_queue.waiting_response[id] \subseteq ItemNo
        BY <2>1, StructFields
    <2>8. QED
        BY <2>1, <2>3, <2>4, <2>5, <2>6, <2>7 DEF TypeOK
<1>2. QED
    BY <1>1, TypesAlways, PTL

-----------------------------------------------------------------------------
(* Nothing is stuck                                                         *)
(*                                                                          *)
(* Every item has a number of its own, and what an item waits for is in the *)
(* queue or in flight, under the name that its end will let go.             *)

LEMMA WellTypes ==
    ASSUME NEW s, NEW left, NEW m, Well(s, left, m)
    PROVE  /\ s \in Structs /\ s \in Tidy /\ left \cup s.spawned \subseteq Requests
           /\ Items(s) \subseteq GoodItem /\ Flying(s, left) \subseteq GoodItem
           /\ s.queue_dependencies \in [ItemNo -> SUBSET Dependency]
           /\ \A n \in ItemNo : \A d \in s.queue_dependencies[n] : \E i \in Items(s) : i.no = n
<1>1. s \in Structs /\ s \in Tidy /\ left \subseteq Requests
    BY DEF Well, Tidy
<1>2. s.spawned \subseteq Requests /\ Items(s) \subseteq GoodItem /\ s.dropped \subseteq GoodItem
      /\ s.queue_dependencies \in [ItemNo -> SUBSET Dependency]
    BY <1>1, StructFields
<1>3. Flying(s, left) \subseteq GoodItem
    BY <1>1, <1>2 DEF Flying, Requests
<1>4. \A n \in ItemNo : \A d \in s.queue_dependencies[n] : \E i \in Items(s) : i.no = n
    BY <1>1 DEF Tidy, Numbers
<1>5. QED
    BY <1>1, <1>2, <1>3, <1>4

\* Less is left: items, dependencies, items that are waited for or counted.
LEMMA LessKeepsWell ==
    ASSUME NEW s, NEW left, NEW m, Well(s, left, m), NEW t \in Tidy,
           Items(t) \subseteq Items(s), IsInjective(t.queue), t.spawned = s.spawned /\ t.dropped = s.dropped,
           \A n \in ItemNo : /\ t.queue_dependencies[n] \subseteq s.queue_dependencies[n]
                             /\ t.in_flight_bulk_create_objects[n] \subseteq s.in_flight_bulk_create_objects[n],
           \A id \in SyncId : t.waiting_response[id] \subseteq s.waiting_response[id],
           \A id \in SyncId : \A n \in t.waiting_response[id] :
               id[2] \in s.in_flight_bulk_create_objects[n] => id[2] \in t.in_flight_bulk_create_objects[n],
           DependenciesLive(t, left)
    PROVE  Well(t, left, m)
<1>1. Flying(t, left) = Flying(s, left)
    BY DEF Flying
<1>2. Numbered(t, left, m)
    BY <1>1 DEF Well, Numbered
<1>3. WaitingLive(t, left)
    BY <1>1 DEF Well, WaitingLive
<1>4. CountedLive(t, left)
    BY <1>1 DEF Well, CountedLive
<1>5. BulksWaitForNothing(t)
    <2>1. \A i \in Items(s) : i.no \in ItemNo
        BY WellTypes, ItemIds
    <2>2. QED
        BY <2>1 DEF Well, BulksWaitForNothing
<1>6. QED
    BY <1>2, <1>3, <1>4, <1>5 DEF Well

\* The same items, with the objects that are counted: the same is live.
LEMMA SameLive ==
    ASSUME NEW s, NEW t, NEW left, NEW d, Items(t) = Items(s), t.spawned = s.spawned /\ t.dropped = s.dropped,
           t.in_flight_bulk_create_objects = s.in_flight_bulk_create_objects,
           Live(s, left, d)
    PROVE  Live(t, left, d)
    BY DEF Live, Names, Flying

\* An item has been answered, or its dependants have failed.
LEMMA LetGoKeepsWell ==
    ASSUME NEW s, NEW left, NEW m, Well(s, left, m),
           NEW kind \in Kinds, NEW item \in GoodItem, NEW ids
    PROVE  Well(LetGo(s, kind, item, ids), left, m)
<1> DEFINE t == LetGo(s, kind, item, ids)
<1>1. s \in Tidy /\ s.queue_dependencies \in [ItemNo -> SUBSET Dependency]
    BY WellTypes
<1>2. /\ t \in Tidy
      /\ t.queue = s.queue
      /\ t.queue_dependencies = [n \in ItemNo |-> s.queue_dependencies[n] \ {OnItem(item.no)}]
      /\ t.waiting_response =
             [id \in SyncId |-> IF id \in ids THEN s.waiting_response[id] \ {item.no}
                                ELSE s.waiting_response[id]]
      /\ t.in_flight_bulk_create_objects = s.in_flight_bulk_create_objects
      /\ t.client_id_to_server = s.client_id_to_server
      /\ t.spawned = s.spawned /\ t.dropped = s.dropped
    BY <1>1, LetGoType
<1> HIDE DEF t
<1>3. Items(t) = Items(s) /\ IsInjective(t.queue)
    BY <1>2 DEF Items, Well, Numbered
<1>4. \A n \in ItemNo : t.queue_dependencies[n] \subseteq s.queue_dependencies[n]
    BY <1>2
<1>5. \A id \in SyncId : t.waiting_response[id] \subseteq s.waiting_response[id]
    BY <1>2
<1>6. DependenciesLive(t, left)
    BY <1>2, <1>3, <1>4, SameLive DEF Well, DependenciesLive
<1>7. Well(t, left, m)
    BY <1>2, <1>3, <1>4, <1>5, <1>6, LessKeepsWell
<1>8. QED
    BY <1>7 DEF t

\* What falls out leaves nobody behind that waits for it.
LEMMA FallsOutLive ==
    ASSUME NEW s, NEW left, NEW m, Well(s, left, m), NEW t, NEW ds, NEW gone,
           FallsOut(s, t, ds, gone), t.spawned = s.spawned /\ t.dropped = s.dropped,
           NEW n \in ItemNo, NEW d \in t.queue_dependencies[n],
           NEW i \in Items(s) \cup Flying(s, left), Names(s, d, i)
    PROVE  i \in Items(t) \cup Flying(t, left) /\ d \notin ds
<1>1. d \in s.queue_dependencies[n] /\ n \notin Numbers(gone)
    BY DEF FallsOut
<1>2. PICK j \in Items(s) : j.no = n
    BY <1>1, WellTypes
<1>3. j \notin gone
    BY <1>1, <1>2 DEF Numbers
<1>4. d \notin ds /\ \A k \in gone : d # OnItem(k.no)
    BY <1>1, <1>2, <1>3 DEF FallsOut
<1>5. i \notin gone
    <2>1. SUFFICES ASSUME i \in gone PROVE FALSE
        OBVIOUS
    <2>2. i \in Items(s) /\ s.queue_dependencies[i.no] # {}
        BY <2>1 DEF FallsOut
    <2>3. i.op # "bulk"
        BY <2>2 DEF Well, BulksWaitForNothing
    <2>4. QED
        BY <1>4, <2>1, <2>3 DEF Names
<1>6. i \in Items(t) \/ i \in Flying(s, left)
    BY <1>5 DEF FallsOut
<1>7. QED
    BY <1>4, <1>6 DEF Flying

LEMMA OneFlying ==
    ASSUME NEW s, NEW left, NEW m, Well(s, left, m),
           NEW i \in Flying(s, left), NEW j \in Items(s) \cup Flying(s, left), i.no = j.no
    PROVE  i = j
    BY DEF Well, Numbered, Flying

LEMMA EndedKeepsWell ==
    ASSUME NEW s, NEW left, NEW m, Well(s, left, m), NEW r \in left, Traceless(s, r.item.no)
    PROVE  Well(s, left \ {r}, m)
<1> DEFINE rest == left \ {r}
<1>1. Flying(s, rest) \subseteq Flying(s, left) /\ rest \subseteq left
    BY DEF Flying
<1>2. ASSUME NEW i \in Flying(s, left), i.no # r.item.no PROVE i \in Flying(s, rest)
    BY <1>2 DEF Flying
<1> HIDE DEF rest
<1>3. Numbered(s, rest, m)
    BY <1>1 DEF Well, Numbered
<1>4. DependenciesLive(s, rest)
    <2> SUFFICES ASSUME NEW n \in ItemNo, NEW d \in s.queue_dependencies[n] PROVE Live(s, rest, d)
        BY DEF DependenciesLive
    <2>1. PICK i \in Items(s) \cup Flying(s, left) : Names(s, d, i)
        BY DEF Well, DependenciesLive, Live
    <2>2. d[1] = i.no /\ d[1] # r.item.no
        BY <2>1 DEF Names, OnItem, OnObject, Traceless
    <2>3. QED
        BY <1>2, <2>1, <2>2 DEF Live
<1>5. WaitingLive(s, rest)
    BY <1>2 DEF Well, WaitingLive, Traceless
<1>6. CountedLive(s, rest)
    BY <1>2 DEF Well, CountedLive, Traceless
<1>7. QED
    BY <1>1, <1>3, <1>4, <1>5, <1>6 DEF Well, rest

LEMMA LetGoTraceless ==
    ASSUME NEW s, NEW left, NEW m, Well(s, left, m), NEW kind \in Kinds,
           NEW item \in Flying(s, left), item.op # "bulk", NEW ids, AwaitedIds(item) \subseteq ids
    PROVE  Traceless(LetGo(s, kind, item, ids), item.no)
<1> DEFINE t == LetGo(s, kind, item, ids)
<1>1. s \in Tidy /\ item \in GoodItem /\ item.no \in ItemNo
      /\ s.queue_dependencies \in [ItemNo -> SUBSET Dependency]
    BY WellTypes, ItemIds
<1>2. /\ t.queue_dependencies = [n \in ItemNo |-> s.queue_dependencies[n] \ {OnItem(item.no)}]
      /\ t.waiting_response =
             [id \in SyncId |-> IF id \in ids THEN s.waiting_response[id] \ {item.no}
                                ELSE s.waiting_response[id]]
      /\ t.in_flight_bulk_create_objects = s.in_flight_bulk_create_objects
    BY <1>1, LetGoType
<1> HIDE DEF t
<1>3. ASSUME NEW k \in ItemNo, NEW d \in t.queue_dependencies[k] PROVE d[1] # item.no
    <2>1. d \in s.queue_dependencies[k] /\ d # OnItem(item.no)
        BY <1>2
    <2>2. PICK i \in Items(s) \cup Flying(s, left) : Names(s, d, i)
        BY <2>1 DEF Well, DependenciesLive, Live
    <2>3. d[1] = i.no
        BY <2>2 DEF Names, OnItem, OnObject
    <2>4. i # item
        BY <2>1, <2>2 DEF Names
    <2>5. QED
        BY <2>3, <2>4, OneFlying
<1>4. ASSUME NEW id \in SyncId, item.no \in t.waiting_response[id] PROVE FALSE
    <2>1. item.no \in s.waiting_response[id] /\ id \notin ids
        BY <1>2, <1>4
    <2>2. PICK i \in Flying(s, left) : i.no = item.no /\ id \in AwaitedIds(i)
        BY <2>1 DEF Well, WaitingLive
    <2>3. i = item
        BY <2>2, OneFlying
    <2>4. QED
        BY <2>1, <2>2, <2>3
<1>5. t.in_flight_bulk_create_objects[item.no] = {}
    BY <1>1, <1>2, OneFlying DEF Well, CountedLive
<1>6. QED
    BY <1>3, <1>4, <1>5 DEF Traceless, t

\* The creations of an item have failed.
LEMMA CreationFailedKeepsWell ==
    ASSUME NEW s, NEW left, NEW m, Well(s, left, m),
           NEW item \in Flying(s, left), item.op \in {"create", "bulk"}
    PROVE  /\ Well(CreationFailed(s, item), left, m)
           /\ Traceless(CreationFailed(s, item), item.no)
<1> DEFINE t == CreationFailed(s, item)
           ds == {CreationDependency(s, item, o) : o \in Objects(item)}
<1>1. s \in Structs /\ s \in Tidy /\ item \in GoodItem /\ item.no \in ItemNo
      /\ item.ids = {Client(o) : o \in Objects(item)} /\ ObjectOf(item) \in Objects(item)
      /\ AwaitedIds(item) = item.ids
    BY WellTypes, ItemIds DEF AwaitedIds
<1>2. /\ t \in Structs /\ t \in Tidy
      /\ \E gone : FallsOut(s, t, ds, gone)
      /\ t.waiting_response =
            [id \in SyncId |-> IF id \in item.ids THEN s.waiting_response[id] \ {item.no}
                               ELSE s.waiting_response[id]]
      /\ t.in_flight_bulk_create_objects =
            [n \in ItemNo |->
               IF n = item.no THEN s.in_flight_bulk_create_objects[n] \ Objects(item)
               ELSE s.in_flight_bulk_create_objects[n]]
      /\ t.client_id_to_server = s.client_id_to_server
      /\ t.spawned = s.spawned /\ t.dropped = s.dropped
    BY <1>1, CreationFailedType, CreationFailedTidy
<1> HIDE DEF t, ds
<1>3. PICK gone : FallsOut(s, t, ds, gone)
    BY <1>2
<1>4. ASSUME NEW n \in ItemNo, NEW d \in t.queue_dependencies[n]
      PROVE  Live(t, left, d) /\ d[1] # item.no
    <2>1. d \in s.queue_dependencies[n]
        BY <1>3 DEF FallsOut
    <2>2. PICK i \in Items(s) \cup Flying(s, left) : Names(s, d, i)
        BY <2>1 DEF Well, DependenciesLive, Live
    <2>3. i \in Items(t) \cup Flying(t, left) /\ d \notin ds
        BY <1>2, <1>3, <2>2, FallsOutLive
    <2>4. i # item
        <3> SUFFICES ASSUME i = item PROVE FALSE
            OBVIOUS
        <3>1. \A o \in Objects(item) : CreationDependency(s, item, o) # d
            BY <2>3 DEF ds
        <3>2. item \notin Items(s)
            BY DEF Well, Numbered
        <3>3. CASE item.op = "create"
            <4>1. s.in_flight_bulk_create_objects[item.no] = {}
                BY <1>1, <3>3, OneFlying DEF Well, CountedLive
            <4>2. d = OnItem(item.no)
                BY <2>2, <3>3 DEF Names
            <4>3. QED
                BY <1>1, <3>1, <4>1, <4>2 DEF CreationDependency
        <3>4. CASE item.op = "bulk"
            <4>1. PICK o \in Objects(item) :
                     d = OnObject(item.no, o) /\ o \in s.in_flight_bulk_create_objects[item.no]
                BY <2>2, <3>2, <3>4 DEF Names
            <4>2. QED
                BY <3>1, <4>1 DEF CreationDependency
        <3>5. QED
            BY <3>3, <3>4
    <2>5. i.no # item.no
        BY <2>4, OneFlying
    <2>6. i.no \in ItemNo
        BY WellTypes, ItemIds
    <2>7. t.in_flight_bulk_create_objects[i.no] = s.in_flight_bulk_create_objects[i.no]
        BY <1>2, <2>5, <2>6
    <2>8. Items(t) \subseteq Items(s)
        BY <1>3 DEF FallsOut
    <2>9. Names(t, d, i)
        <3>1. CASE i \in Items(t)
            BY <2>2, <3>1 DEF Names
        <3>2. CASE i \notin Items(t)
            <4>1. i \in Flying(s, left)
                BY <1>2, <2>3, <3>2 DEF Flying
            <4>2. i \notin Items(s)
                BY <4>1 DEF Well, Numbered
            <4>3. QED
                BY <2>2, <2>7, <4>2 DEF Names
        <3>3. QED
            BY <3>1, <3>2
    <2>10. QED
        BY <2>2, <2>3, <2>5, <2>9 DEF Live, Names, OnItem, OnObject
<1>5. ASSUME NEW id \in SyncId, NEW n \in t.waiting_response[id] PROVE n # item.no
    <2> SUFFICES ASSUME n = item.no PROVE FALSE
        OBVIOUS
    <2>1. n \in s.waiting_response[id] /\ id \notin item.ids
        BY <1>2
    <2>2. PICK i \in Flying(s, left) : i.no = item.no /\ id \in AwaitedIds(i)
        BY <2>1 DEF Well, WaitingLive
    <2>3. i = item
        BY <2>2, OneFlying
    <2>4. QED
        BY <1>1, <2>1, <2>2, <2>3
<1>6. t.in_flight_bulk_create_objects[item.no] = {}
    <2>1. \A o \in s.in_flight_bulk_create_objects[item.no] : o \in Objects(item)
        BY <1>1, OneFlying DEF Well, CountedLive
    <2>2. QED
        BY <1>1, <1>2, <2>1
<1>7. Traceless(t, item.no)
    BY <1>4, <1>5, <1>6 DEF Traceless
<1>8. Well(t, left, m)
    <2>1. Items(t) \subseteq Items(s) /\ IsInjective(t.queue)
        BY <1>3 DEF FallsOut, Well, Numbered
    <2>2. \A n \in ItemNo : t.queue_dependencies[n] \subseteq s.queue_dependencies[n]
        BY <1>3 DEF FallsOut
    <2>3. \A n \in ItemNo : t.in_flight_bulk_create_objects[n] \subseteq s.in_flight_bulk_create_objects[n]
        BY <1>2
    <2>4. \A id \in SyncId : t.waiting_response[id] \subseteq s.waiting_response[id]
        BY <1>2
    <2>5. \A id \in SyncId : \A n \in t.waiting_response[id] :
              id[2] \in s.in_flight_bulk_create_objects[n] => id[2] \in t.in_flight_bulk_create_objects[n]
        <3>1. \A id \in SyncId : t.waiting_response[id] \subseteq ItemNo
            BY <1>2, StructFields
        <3>2. QED
            BY <1>2, <1>5, <3>1
    <2>6. DependenciesLive(t, left)
        BY <1>4 DEF DependenciesLive
    <2>7. QED
        BY <1>2, <2>1, <2>2, <2>3, <2>4, <2>5, <2>6, LessKeepsWell
<1>9. QED
    BY <1>7, <1>8 DEF t

LEMMA OtherFailedKeepsWell ==
    ASSUME NEW s, NEW left, NEW m, Well(s, left, m),
           NEW item \in Flying(s, left), item.op \in {"update", "action"}
    PROVE  /\ Well(OtherFailed(s, item), left, m)
           /\ Traceless(OtherFailed(s, item), item.no)
<1> DEFINE t == OtherFailed(s, item)
           ds == {OnItem(item.no)}
<1>1. s \in Structs /\ s \in Tidy /\ item \in GoodItem /\ item.no \in ItemNo
      /\ AwaitedIds(item) \subseteq {Server(ObjectOf(item))}
    BY WellTypes, ItemIds DEF AwaitedIds
<1>2. /\ t \in Structs /\ t \in Tidy
      /\ \E gone : FallsOut(s, t, ds, gone)
      /\ t.waiting_response =
            [id \in SyncId |-> IF id = Server(ObjectOf(item)) THEN s.waiting_response[id] \ {item.no}
                               ELSE s.waiting_response[id]]
      /\ t.in_flight_bulk_create_objects = s.in_flight_bulk_create_objects
      /\ t.client_id_to_server = s.client_id_to_server
      /\ t.spawned = s.spawned /\ t.dropped = s.dropped
    BY <1>1, OtherFailedType, OtherFailedTidy
<1> HIDE DEF t
<1>3. PICK gone : FallsOut(s, t, ds, gone)
    BY <1>2
<1>4. ASSUME NEW n \in ItemNo, NEW d \in t.queue_dependencies[n]
      PROVE  Live(t, left, d) /\ d[1] # item.no
    <2>1. d \in s.queue_dependencies[n]
        BY <1>3 DEF FallsOut
    <2>2. PICK i \in Items(s) \cup Flying(s, left) : Names(s, d, i)
        BY <2>1 DEF Well, DependenciesLive, Live
    <2>3. i \in Items(t) \cup Flying(t, left) /\ d \notin ds
        BY <1>2, <1>3, <2>2, FallsOutLive
    <2>4. i # item
        BY <2>2, <2>3 DEF Names
    <2>5. i.no # item.no
        BY <2>4, OneFlying
    <2>6. i \in Items(s) => i \in Items(t)
        <3>1. i \in Items(s) => i \notin Flying(s, left)
            BY DEF Well, Numbered
        <3>2. QED
            BY <1>2, <2>3, <3>1 DEF Flying
    <2>7. Names(t, d, i)
        BY <1>2, <2>2, <2>6 DEF Names
    <2>8. QED
        BY <2>2, <2>3, <2>5, <2>7 DEF Live, Names, OnItem, OnObject
<1>5. ASSUME NEW id \in SyncId, item.no \in t.waiting_response[id] PROVE FALSE
    <2>1. item.no \in s.waiting_response[id] /\ id # Server(ObjectOf(item))
        BY <1>2, <1>5
    <2>2. PICK i \in Flying(s, left) : i.no = item.no /\ id \in AwaitedIds(i)
        BY <2>1 DEF Well, WaitingLive
    <2>3. i = item
        BY <2>2, OneFlying
    <2>4. QED
        BY <1>1, <2>1, <2>2, <2>3
<1>6. t.in_flight_bulk_create_objects[item.no] = {}
    BY <1>1, <1>2, OneFlying DEF Well, CountedLive
<1>7. Traceless(t, item.no)
    BY <1>4, <1>5, <1>6 DEF Traceless
<1>8. Well(t, left, m)
    <2>1. Items(t) \subseteq Items(s) /\ IsInjective(t.queue)
        BY <1>3 DEF FallsOut, Well, Numbered
    <2>2. \A n \in ItemNo : t.queue_dependencies[n] \subseteq s.queue_dependencies[n]
        BY <1>3 DEF FallsOut
    <2>3. \A id \in SyncId : t.waiting_response[id] \subseteq s.waiting_response[id]
        BY <1>2
    <2>4. DependenciesLive(t, left)
        BY <1>4 DEF DependenciesLive
    <2>5. QED
        BY <1>2, <2>1, <2>2, <2>3, <2>4, LessKeepsWell
<1>9. QED
    BY <1>7, <1>8 DEF t

LEMMA RewrittenKeepsWell ==
    ASSUME NEW s, NEW left, NEW m, Well(s, left, m), NEW t \in Tidy, Rewritten(s, t)
    PROVE  Well(t, left, m)
<1> DEFINE Like(i, j) == i.no = j.no /\ i.op = j.op /\ i.ids = j.ids /\ i.folder = j.folder
<1>1. /\ \A i \in Items(t) : \E j \in Items(s) : Like(i, j)
      /\ \A j \in Items(s) : \E i \in Items(t) : Like(i, j)
    BY DEF Rewritten, Items, ToSet
<1>2. /\ t.queue_dependencies = s.queue_dependencies /\ t.waiting_response = s.waiting_response
      /\ t.in_flight_bulk_create_objects = s.in_flight_bulk_create_objects
      /\ t.client_id_to_server = s.client_id_to_server /\ t.spawned = s.spawned /\ t.dropped = s.dropped
    BY DEF Rewritten
<1>3. Flying(t, left) = Flying(s, left)
    BY <1>2 DEF Flying
<1>4. ASSUME NEW k \in DOMAIN t.queue, NEW l \in DOMAIN t.queue, t.queue[k].no = t.queue[l].no
      PROVE  k = l
    <2>1. k \in DOMAIN s.queue /\ l \in DOMAIN s.queue /\ s.queue[k].no = s.queue[l].no
        BY <1>4 DEF Rewritten
    <2>2. s.queue[k] = s.queue[l]
        BY <2>1 DEF Well, Numbered, Items, ToSet
    <2>3. QED
        BY <2>1, <2>2 DEF Well, Numbered, IsInjective
<1>5. Numbered(t, left, m)
    <2>1. IsInjective(t.queue)
        BY <1>4 DEF IsInjective
    <2>2. \A i, j \in Items(t) : i.no = j.no => i = j
        BY <1>4 DEF Items, ToSet
    <2>3. QED
        BY <1>1, <1>2, <1>3, <2>1, <2>2 DEF Well, Numbered
<1>6. DependenciesLive(t, left)
    <2> SUFFICES ASSUME NEW n \in ItemNo, NEW d \in s.queue_dependencies[n] PROVE Live(t, left, d)
        BY <1>2 DEF DependenciesLive
    <2>1. PICK i \in Items(s) \cup Flying(s, left) : Names(s, d, i)
        BY DEF Well, DependenciesLive, Live
    <2>2. CASE i \in Items(s)
        <3>1. PICK j \in Items(t) : Like(j, i)
            BY <1>1, <2>2
        <3>2. Names(t, d, j)
            BY <2>1, <3>1 DEF Names, Objects
        <3>3. QED
            BY <3>2 DEF Live
    <2>3. CASE i \notin Items(s)
        BY <1>2, <1>3, <2>1, <2>3 DEF Live, Names
    <2>4. QED
        BY <2>2, <2>3
<1>7. WaitingLive(t, left) /\ CountedLive(t, left)
    BY <1>2, <1>3 DEF Well, WaitingLive, CountedLive
<1>8. BulksWaitForNothing(t)
    BY <1>1, <1>2 DEF Well, BulksWaitForNothing
<1>9. QED
    BY <1>5, <1>6, <1>7, <1>8 DEF Well

LEMMA CountedOut ==
    ASSUME NEW s, NEW left, NEW m, Well(s, left, m),
           NEW item \in Flying(s, left), item.op = "bulk",
           s.in_flight_bulk_create_objects[item.no] = {}
    PROVE  Traceless(s, item.no)
<1>1. ASSUME NEW n \in ItemNo, NEW d \in s.queue_dependencies[n], d[1] = item.no PROVE FALSE
    <2>1. PICK i \in Items(s) \cup Flying(s, left) : Names(s, d, i)
        BY DEF Well, DependenciesLive, Live
    <2>2. i = item
        BY <1>1, <2>1, OneFlying DEF Names, OnItem, OnObject
    <2>3. item \notin Items(s)
        BY DEF Well, Numbered
    <2>4. QED
        BY <2>1, <2>2, <2>3 DEF Names
<1>2. ASSUME NEW id \in SyncId, item.no \in s.waiting_response[id] PROVE FALSE
    BY <1>2, OneFlying DEF Well, WaitingLive
<1>3. QED
    BY <1>1, <1>2 DEF Traceless

\* The creation of an object has succeeded: nothing waits for it, and for no
\* item that creates nothing else.
LEMMA CreationSucceededKeepsWell ==
    ASSUME NEW s, NEW left, NEW m, Well(s, left, m),
           NEW item \in Flying(s, left), item.op \in {"create", "bulk"}, NEW o \in Objects(item)
    PROVE  LET t == CreationSucceeded(s, item, o) IN
           /\ Well(t, left, m)
           /\ t.spawned = s.spawned /\ t.dropped = s.dropped
           /\ t.in_flight_bulk_create_objects[item.no] = s.in_flight_bulk_create_objects[item.no] \ {o}
           /\ item.op = "create" => Traceless(t, item.no)
<1> DEFINE t == CreationSucceeded(s, item, o)
<1>1. s \in Structs /\ s \in Tidy /\ item \in GoodItem /\ item.no \in ItemNo
      /\ item.ids = {Client(x) : x \in Objects(item)} /\ o \in Object /\ Objects(item) \subseteq Object
      /\ AwaitedIds(item) = item.ids /\ (item.op = "create" => Objects(item) = {o})
      /\ s.queue_dependencies \in [ItemNo -> SUBSET Dependency]
    BY WellTypes, ItemIds DEF AwaitedIds
<1>2. t \in Tidy /\ \E f \in Structs : Created(s, f, t, item, o)
    BY <1>1, CreationSucceededType, CreationSucceededTidy
<1> HIDE DEF t
<1>3. PICK f \in Structs : Created(s, f, t, item, o)
    BY <1>2
<1>4. f.queue = s.queue /\ Items(f) = Items(s) /\ f.spawned = s.spawned /\ f.dropped = s.dropped
    BY <1>3 DEF Created, Items
<1>5. f \in Tidy
    BY <1>1, <1>3, SameTidy DEF Created
<1>6. \A n \in ItemNo :
         /\ f.queue_dependencies[n] = s.queue_dependencies[n] \ {CreationDependency(s, item, o)}
         /\ f.in_flight_bulk_create_objects[n] =
               IF n = item.no THEN s.in_flight_bulk_create_objects[n] \ {o}
               ELSE s.in_flight_bulk_create_objects[n]
    BY <1>3 DEF Created
<1>7. \A id \in SyncId : f.waiting_response[id] =
         IF id = Client(o) THEN s.waiting_response[id] \ {item.no} ELSE s.waiting_response[id]
    BY <1>3 DEF Created
<1>8. item.op = "create" => s.in_flight_bulk_create_objects[item.no] = {}
    BY <1>1, OneFlying DEF Well, CountedLive
<1>9. item \notin Items(s)
    BY DEF Well, Numbered
<1>10. ASSUME NEW n \in ItemNo, NEW d \in f.queue_dependencies[n]
       PROVE  /\ Live(f, left, d)
              /\ item.op = "create" => d[1] # item.no
    <2>1. d \in s.queue_dependencies[n] /\ d # CreationDependency(s, item, o)
        <3>1. f.queue_dependencies[n] = s.queue_dependencies[n] \ {CreationDependency(s, item, o)}
            BY <1>6
        <3>2. QED
            BY <3>1
    <2>2. PICK i \in Items(s) \cup Flying(s, left) : Names(s, d, i)
        BY <2>1 DEF Well, DependenciesLive, Live
    <2>3. item.op = "create" => i # item
        BY <1>8, <2>1, <2>2 DEF Names, CreationDependency
    <2>4. i \in Items(f) \cup Flying(f, left)
        BY <1>4, <2>2 DEF Flying
    <2>5. Names(f, d, i)
        <3>1. CASE i = item /\ item.op = "bulk"
            <4>1. PICK x \in Objects(item) :
                     d = OnObject(item.no, x) /\ x \in s.in_flight_bulk_create_objects[item.no]
                BY <1>9, <2>2, <3>1 DEF Names
            <4>2. x # o
                BY <2>1, <4>1 DEF CreationDependency
            <4>3. x \in f.in_flight_bulk_create_objects[item.no]
                BY <1>1, <1>6, <4>1, <4>2
            <4>4. QED
                BY <3>1, <4>1, <4>3 DEF Names
        <3>2. CASE i # item
            <4>1. i.no # item.no /\ i.no \in ItemNo
                BY <3>2, OneFlying, WellTypes, ItemIds
            <4>2. f.in_flight_bulk_create_objects[i.no] = s.in_flight_bulk_create_objects[i.no]
                BY <1>6, <4>1
            <4>3. QED
                BY <1>4, <2>2, <4>2 DEF Names
        <3>3. QED
            BY <2>3, <3>1, <3>2
    <2>6. Live(f, left, d)
        BY <2>4, <2>5 DEF Live
    <2>7. item.op = "create" => d[1] # item.no
        <3>1. d[1] = i.no
            BY <2>2 DEF Names, OnItem, OnObject
        <3>2. QED
            BY <2>3, <3>1, OneFlying
    <2>8. QED
        BY <2>6, <2>7
<1>11. Well(f, left, m)
    <2>1. IsInjective(f.queue)
        BY <1>4 DEF Well, Numbered
    <2>2. \A n \in ItemNo :
             /\ f.queue_dependencies[n] \subseteq s.queue_dependencies[n]
             /\ f.in_flight_bulk_create_objects[n] \subseteq s.in_flight_bulk_create_objects[n]
        <3>1. \A n \in ItemNo : f.queue_dependencies[n] \subseteq s.queue_dependencies[n]
            BY <1>6
        <3>2. \A n \in ItemNo :
                 f.in_flight_bulk_create_objects[n] \subseteq s.in_flight_bulk_create_objects[n]
            BY <1>6
        <3>3. QED
            BY <3>1, <3>2
    <2>3. \A id \in SyncId : f.waiting_response[id] \subseteq s.waiting_response[id]
        BY <1>7
    <2>4. ASSUME NEW id \in SyncId, NEW n \in f.waiting_response[id],
                 id[2] \in s.in_flight_bulk_create_objects[n]
          PROVE  id[2] \in f.in_flight_bulk_create_objects[n]
        <3>1. n \in ItemNo /\ n \in s.waiting_response[id] /\ (id = Client(o) => n # item.no)
            BY <1>1, <1>7, <2>4, StructFields
        <3>2. CASE n # item.no
            BY <1>6, <2>4, <3>1, <3>2
        <3>3. CASE n = item.no
            <4>1. PICK i \in Flying(s, left) : i.no = n /\ id \in AwaitedIds(i)
                BY <3>1 DEF Well, WaitingLive
            <4>2. i = item
                BY <3>3, <4>1, OneFlying
            <4>3. PICK x \in Objects(item) : id = Client(x)
                BY <1>1, <4>1, <4>2
            <4>4. x # o /\ id[2] = x
                BY <3>1, <3>3, <4>3, IdsOfObjects
            <4>5. QED
                BY <1>6, <2>4, <3>1, <4>4
        <3>4. QED
            BY <3>2, <3>3
    <2>5. DependenciesLive(f, left)
        BY <1>10 DEF DependenciesLive
    <2>6. Items(f) \subseteq Items(s) /\ f.spawned = s.spawned /\ f.dropped = s.dropped
        BY <1>4
    <2>7. QED
        BY <1>5, <2>1, <2>2, <2>3, <2>4, <2>5, <2>6, LessKeepsWell
<1>12. Rewritten(f, t)
    BY <1>3 DEF Created
<1>13. Well(t, left, m)
    BY <1>2, <1>11, <1>12, RewrittenKeepsWell
<1>14. t.spawned = s.spawned /\ t.dropped = s.dropped /\ t.queue_dependencies = f.queue_dependencies
       /\ t.waiting_response = f.waiting_response
       /\ t.in_flight_bulk_create_objects = f.in_flight_bulk_create_objects
    BY <1>4, <1>12 DEF Rewritten
<1>15. ASSUME item.op = "create" PROVE Traceless(t, item.no)
    <2>1. \A n \in ItemNo : \A d \in t.queue_dependencies[n] : d[1] # item.no
        BY <1>10, <1>14, <1>15
    <2>2. ASSUME NEW id \in SyncId, item.no \in t.waiting_response[id] PROVE FALSE
        <3>1. item.no \in s.waiting_response[id] /\ id # Client(o)
            BY <1>7, <1>14, <2>2
        <3>2. PICK i \in Flying(s, left) : i.no = item.no /\ id \in AwaitedIds(i)
            BY <3>1 DEF Well, WaitingLive
        <3>3. i = item
            BY <3>2, OneFlying
        <3>4. item.ids = {Client(o)}
            BY <1>1, <1>15
        <3>5. QED
            BY <1>1, <3>1, <3>2, <3>3, <3>4
    <2>3. t.in_flight_bulk_create_objects[item.no] = {}
        BY <1>1, <1>6, <1>8, <1>14, <1>15
    <2>4. QED
        BY <2>1, <2>2, <2>3 DEF Traceless
<1>16. t.in_flight_bulk_create_objects[item.no] = s.in_flight_bulk_create_objects[item.no] \ {o}
    BY <1>1, <1>6, <1>14
<1>17. QED
    BY <1>13, <1>14, <1>15, <1>16 DEF t

\* What an item is made to wait for is live.
LEMMA ItemsWithLive ==
    ASSUME NEW s, NEW left, NEW m, Well(s, left, m), NEW id \in SyncId, NEW d \in ItemsWith(s, id)
    PROVE  Live(s, left, d)
<1>1. CASE \E i \in Items(s) : i.op \in {"create", "update"} /\ d = OnItem(i.no)
    BY <1>1 DEF Live, Names
<1>2. CASE \E i \in Items(s) : i.op = "bulk" /\ id \in i.ids /\ d = OnObject(i.no, id[2])
    BY <1>2 DEF Live, Names, Objects
<1>3. ASSUME NEW n \in s.waiting_response[id],
             d = IF id[1] = "client" /\ id[2] \in s.in_flight_bulk_create_objects[n]
                   THEN OnObject(n, id[2]) ELSE OnItem(n)
      PROVE  Live(s, left, d)
    <2>1. PICK i \in Flying(s, left) :
             /\ i.no = n /\ id \in AwaitedIds(i)
             /\ i.op = "bulk" => id[2] \in s.in_flight_bulk_create_objects[n]
        BY DEF Well, WaitingLive
    <2>2. i \in GoodItem /\ i.no \in ItemNo /\ i.op \in {"create", "update", "bulk"}
        BY <2>1, WellTypes, ItemIds DEF AwaitedIds
    <2>3. CASE i.op = "bulk"
        <3>1. id \in i.ids /\ i.ids = {Client(o) : o \in Objects(i)}
            BY <2>1, <2>2, <2>3, ItemIds DEF AwaitedIds
        <3>2. id[1] = "client" /\ id[2] \in Objects(i)
            BY <3>1, IdsOfObjects
        <3>3. d = OnObject(i.no, id[2]) /\ id[2] \in s.in_flight_bulk_create_objects[i.no]
            BY <1>3, <2>1, <2>3, <3>2
        <3>4. QED
            BY <2>3, <3>2, <3>3 DEF Live, Names
    <2>4. CASE i.op # "bulk"
        <3>1. s.in_flight_bulk_create_objects[n] = {}
            BY <2>1, <2>2, <2>4, OneFlying DEF Well, CountedLive
        <3>2. d = OnItem(i.no)
            BY <1>3, <2>1, <3>1
        <3>3. QED
            BY <2>2, <2>4, <3>2 DEF Live, Names
    <2>5. QED
        BY <2>3, <2>4
<1>4. QED
    BY <1>1, <1>2, <1>3 DEF ItemsWith, Items

LEMMA InferredLive ==
    ASSUME NEW s, NEW left, NEW m, Well(s, left, m), NEW item \in GoodItem,
           NEW d \in InferredDependencies(s, item)
    PROVE  Live(s, left, d) /\ item.op # "bulk"
<1>1. IdOf(item) \in SyncId /\ ObjectOf(item) \in Object /\ Unresolved(s, item) \subseteq Object
    BY ItemIds DEF Unresolved, Object
<1>2. \E id \in SyncId : d \in ItemsWith(s, id)
    BY <1>1, IdsOfObjects
       DEF InferredDependencies, ReferenceDependencies, UpdateDependencies, ObjectOf
<1>3. item.op = "bulk" => item.refs = {}
    BY DEF GoodItem, Shaped
<1>4. item.op = "bulk" => InferredDependencies(s, item) = {}
    BY <1>3 DEF InferredDependencies, ReferenceDependencies, Unresolved
<1>5. QED
    BY <1>2, <1>4, ItemsWithLive

\* A new item is enqueued.
LEMMA PushedKeepsWell ==
    ASSUME NEW s, NEW left, NEW m \in Nat, Well(s, left, m), NEW item \in GoodItem, item.no = m + 1
    PROVE  Well(Pushed(s, item), left, m + 1)
<1> DEFINE t == Pushed(s, item)
<1>1. s \in Structs /\ s \in Tidy /\ s.queue_dependencies \in [ItemNo -> SUBSET Dependency]
      /\ s.queue \in Seq(GoodItem)
    BY WellTypes, StructFields
<1>2. /\ t \in Tidy
      /\ \E i \in GoodItem :
            /\ i.no = item.no /\ i.op = item.op /\ i.ids = item.ids /\ i.folder = item.folder
            /\ t.queue = Append(s.queue, i)
      /\ t.queue_dependencies =
            [n \in ItemNo |-> IF n = item.no THEN InferredDependencies(s, item)
                              ELSE s.queue_dependencies[n]]
      /\ t.waiting_response = s.waiting_response
      /\ t.in_flight_bulk_create_objects = s.in_flight_bulk_create_objects
      /\ t.client_id_to_server = s.client_id_to_server
      /\ t.spawned = s.spawned /\ t.dropped = s.dropped
    BY <1>1, PushedType, PushedTidy
<1> HIDE DEF t
<1>3. PICK i \in GoodItem :
         /\ i.no = item.no /\ i.op = item.op /\ i.ids = item.ids /\ i.folder = item.folder
         /\ t.queue = Append(s.queue, i)
    BY <1>2
<1>4. /\ DOMAIN t.queue = 1..(Len(s.queue) + 1) /\ DOMAIN s.queue = 1..Len(s.queue)
      /\ Len(s.queue) \in Nat
      /\ \A k \in 1..Len(s.queue) : t.queue[k] = s.queue[k]
      /\ t.queue[Len(s.queue) + 1] = i
    BY <1>1, <1>3
<1>5. Items(t) = Items(s) \cup {i}
    <2>1. ToSet(t.queue) = ToSet(s.queue) \cup {i}
        BY <1>1, <1>3, AppendedElements
    <2>2. QED
        BY <2>1 DEF Items
<1>6. \A j \in Items(s) \cup Flying(s, left) : j.no \in ItemNo /\ j.no # i.no /\ j.no <= m + 1
    <2> SUFFICES ASSUME NEW j \in Items(s) \cup Flying(s, left)
                 PROVE  j.no \in ItemNo /\ j.no # i.no /\ j.no <= m + 1
        OBVIOUS
    <2>1. j.no \in ItemNo /\ j.no <= m
        BY WellTypes, ItemIds DEF Well, Numbered
    <2>2. j.no \in Nat /\ i.no = m + 1
        BY <1>3, <2>1 DEF ItemNo
    <2>3. QED
        BY <2>1, <2>2
<1>7. Flying(t, left) = Flying(s, left)
    BY <1>2 DEF Flying
<1>8. Numbered(t, left, m + 1)
    <2>1. IsInjective(t.queue)
        <3>1. i \notin Items(s)
            BY <1>6
        <3>2. \A k \in 1..Len(s.queue) : t.queue[k] # i
            BY <1>4, <3>1 DEF Items, ToSet
        <3>3. \A k, l \in 1..Len(s.queue) : t.queue[k] = t.queue[l] => k = l
            BY <1>4 DEF Well, Numbered, IsInjective
        <3>4. \A k \in 1..(Len(s.queue) + 1) : k \in 1..Len(s.queue) \/ k = Len(s.queue) + 1
            BY <1>4
        <3>5. QED
            BY <1>4, <3>2, <3>3, <3>4 DEF IsInjective
    <2>2. \A j, k \in Items(t) : j.no = k.no => j = k
        BY <1>5, <1>6 DEF Well, Numbered
    <2>3. \A j \in Items(t), k \in Flying(s, left) : j.no # k.no
        BY <1>5, <1>6 DEF Well, Numbered
    <2>4. \A j \in Items(t) \cup Flying(s, left) : j.no <= m + 1
        BY <1>3, <1>5, <1>6
    <2>5. QED
        BY <1>2, <1>7, <2>1, <2>2, <2>3, <2>4 DEF Well, Numbered
<1>9. ASSUME NEW d, Live(s, left, d) PROVE Live(t, left, d)
    BY <1>2, <1>5, <1>7, <1>9 DEF Live, Names
<1>10. DependenciesLive(t, left)
    <2>1. \A d \in InferredDependencies(s, item) : Live(s, left, d)
        BY InferredLive
    <2>2. \A n \in ItemNo : \A d \in t.queue_dependencies[n] : Live(s, left, d)
        BY <1>2, <2>1 DEF Well, DependenciesLive
    <2>3. QED
        BY <1>9, <2>2 DEF DependenciesLive
<1>11. WaitingLive(t, left) /\ CountedLive(t, left)
    BY <1>2, <1>7 DEF Well, WaitingLive, CountedLive
<1>12. BulksWaitForNothing(t)
    <2>1. i.op = "bulk" => t.queue_dependencies[i.no] = {}
        <3>1. i.no \in ItemNo
            BY ItemIds
        <3>2. item.op = "bulk" => InferredDependencies(s, item) = {}
            BY InferredLive
        <3>3. QED
            BY <1>2, <1>3, <3>1, <3>2
    <2>2. \A j \in Items(s) : t.queue_dependencies[j.no] = s.queue_dependencies[j.no]
        BY <1>2, <1>3, <1>6
    <2>3. QED
        BY <1>5, <2>1, <2>2 DEF Well, BulksWaitForNothing
<1>13. QED
    BY <1>2, <1>8, <1>10, <1>11, <1>12 DEF Well, t

\* What is skipped leaves nobody behind that waits for it: an update fails,
\* nothing waits for an action, and a creation goes on as if it were in flight.
\* No bulk is skipped: it has no folder.
LEMMA SkippedKeepsWell ==
    ASSUME NEW s, NEW left, NEW m, Well(s, left, m)
    PROVE  LET k == Skipped(s, Tried(s)) IN
           /\ Well(k, left, m)
           /\ \A id \in SyncId : s.waiting_response[id] \subseteq k.waiting_response[id]
           /\ k.in_flight_bulk_create_objects = s.in_flight_bulk_create_objects
           /\ k.client_id_to_server = s.client_id_to_server
           /\ k.should_dequeue = s.should_dequeue /\ k.spawned = s.spawned
           /\ s.dropped \subseteq k.dropped
           /\ \A i \in k.dropped \ s.dropped :
                 i \in Tried(s) /\ i \in Items(s) /\ i.op \in {"create", "action"} /\ ~Resolved(s, i)
           /\ Items(k) \subseteq Items(s) \ Tried(s)
           /\ \A i \in Items(s) : s.queue_dependencies[i.no] = {} /\ i \notin Tried(s) => i \in Items(k)
           /\ \A i \in Items(k) : k.queue_dependencies[i.no] = s.queue_dependencies[i.no]
           /\ s.answered \subseteq k.answered
           /\ \A i \in Items(s) : i \in Items(k) \/ i.no \in k.answered \/ i \in k.dropped
<1> DEFINE tried == Tried(s)
           k == Skipped(s, tried)
           updates == {i \in tried : i.op = "update"}
           creations == {i \in tried : i.op \in {"create", "bulk"}}
           ds == {OnItem(i.no) : i \in updates}
<1>1. s \in Structs /\ s \in Tidy /\ Items(s) \subseteq GoodItem
    BY WellTypes
<1>2. tried \subseteq Items(s) /\ \A i \in tried : s.queue_dependencies[i.no] = {} /\ ~Resolved(s, i)
    BY <1>1, NextChosen
<1>3. \A i \in tried : i.op \in {"create", "update", "action"}
    <2> SUFFICES ASSUME NEW i \in tried PROVE i.op \in {"create", "update", "action"}
        OBVIOUS
    <2>1. i \in GoodItem /\ ~Resolved(s, i)
        BY <1>1, <1>2
    <2>2. i.op \in {"create", "bulk", "update", "action"}
        BY <2>1, ItemIds
    <2>3. i.op = "bulk" => i.folder = None
        BY <2>1 DEF GoodItem, Shaped
    <2>4. QED
        BY <2>1, <2>2, <2>3 DEF Resolved
<1> HIDE DEF tried
<1>4. tried \in SUBSET GoodItem
    BY <1>1, <1>2
<1>5. /\ k \in Structs
      /\ \E r \in Structs : \E gone :
            /\ r = Removed(s, tried)
            /\ FallsOut(r, k, ds, gone)
            /\ k.answered = s.answered \cup Numbers(updates) \cup Numbers(gone)
      /\ \A id \in SyncId :
            k.waiting_response[id] =
               s.waiting_response[id] \cup {i.no : i \in {i \in creations : id \in AwaitedIds(i)}}
      /\ \A n \in ItemNo :
            \/ /\ \A i \in creations : i.op = "bulk" => i.no # n
               /\ k.in_flight_bulk_create_objects[n] = s.in_flight_bulk_create_objects[n]
            \/ \E i \in creations : /\ i.op = "bulk" /\ i.no = n
                                    /\ k.in_flight_bulk_create_objects[n] = Objects(i)
      /\ k.dropped = s.dropped \cup (tried \ updates)
      /\ k.client_id_to_server = s.client_id_to_server
      /\ k.should_dequeue = s.should_dequeue /\ k.spawned = s.spawned
    <2>1. /\ k \in Structs /\ k.dropped = s.dropped \cup (tried \ updates)
          /\ k.client_id_to_server = s.client_id_to_server
          /\ k.should_dequeue = s.should_dequeue /\ k.spawned = s.spawned
        BY <1>1, <1>4, SkippedType
    <2>2. \E r \in Structs : \E gone :
              /\ r = Removed(s, tried)
              /\ FallsOut(r, k, ds, gone)
              /\ k.answered = s.answered \cup Numbers(updates) \cup Numbers(gone)
        <3>1. \E r \in Structs : \E gone :
                 /\ r = Removed(s, tried)
                 /\ FallsOut(r, k, ds, gone)
                 /\ k.answered = s.answered \cup Numbers(updates) \cup Numbers(gone)
                 /\ Tells(s, k, "failed", Shown(updates) \cup Shown(gone))
            BY <1>1, <1>4, SkippedType, ZenonT(30)
        <3> HIDE DEF k, updates, ds
        <3>2. QED
            BY <3>1
    <2>3. \A id \in SyncId :
             k.waiting_response[id] =
                s.waiting_response[id] \cup {i.no : i \in {i \in creations : id \in AwaitedIds(i)}}
        BY <1>1, <1>4, SkippedType
    <2>4. \A n \in ItemNo :
             \/ /\ \A i \in creations : i.op = "bulk" => i.no # n
                /\ k.in_flight_bulk_create_objects[n] = s.in_flight_bulk_create_objects[n]
             \/ \E i \in creations : /\ i.op = "bulk" /\ i.no = n
                                     /\ k.in_flight_bulk_create_objects[n] = Objects(i)
        BY <1>1, <1>4, SkippedType
    <2> HIDE DEF k, updates, creations, ds
    <2>5. QED
        BY <2>1, <2>2, <2>3, <2>4
<1>6. k.in_flight_bulk_create_objects = s.in_flight_bulk_create_objects
    <2>1. \A n \in ItemNo : k.in_flight_bulk_create_objects[n] = s.in_flight_bulk_create_objects[n]
        BY <1>3, <1>5
    <2>2. k.in_flight_bulk_create_objects \in [ItemNo -> SUBSET Object]
          /\ s.in_flight_bulk_create_objects \in [ItemNo -> SUBSET Object]
        BY <1>1, <1>5, StructFields
    <2>3. QED
        BY <2>1, <2>2
<1> DEFINE dropped == {i \in tried : i.op = "create"}
<1>7. /\ \A i \in creations : i \in dropped
      /\ k.dropped = s.dropped \cup (tried \ updates)
      /\ \A i \in tried \ updates : i.op \in {"create", "action"}
    BY <1>3, <1>5
<1> HIDE DEF k, ds
<1>8. PICK r, gone :
            /\ r \in Structs
            /\ r = Removed(s, tried)
            /\ FallsOut(r, k, ds, gone)
            /\ k.answered = s.answered \cup Numbers(updates) \cup Numbers(gone)
    BY <1>5
<1>9. /\ Items(r) = Items(s) \ tried
      /\ IsInjective(r.queue)
      /\ r.queue_dependencies =
            [n \in ItemNo |-> IF n \in Numbers(tried) THEN {} ELSE s.queue_dependencies[n]]
    <2>1. IsInjective(s.queue)
        BY DEF Well, Numbered
    <2>2. QED
        BY <1>1, <1>4, <1>8, <2>1, RemovedType
<1>10. k \in Tidy
    <2>1. r \in Tidy
        BY <1>1, <1>4, <1>8, RemovedTidy
    <2>2. QED
        BY <1>5, <1>8, <2>1, FallsOutTidy
<1>11. Items(k) = (Items(s) \ tried) \ gone /\ IsInjective(k.queue) /\ gone \subseteq Items(s) \ tried
    BY <1>8, <1>9 DEF FallsOut
<1>12. ASSUME NEW i \in Items(s), NEW j \in Items(s), i.no = j.no PROVE i = j
    BY <1>12 DEF Well, Numbered
<1>13. ASSUME NEW i \in Items(s), i \notin tried PROVE r.queue_dependencies[i.no] = s.queue_dependencies[i.no]
    <2>1. i.no \in ItemNo
        BY <1>1, ItemIds
    <2>2. i.no \notin Numbers(tried)
        BY <1>2, <1>12, <1>13 DEF Numbers
    <2>3. QED
        BY <1>9, <2>1, <2>2
<1>14. ASSUME NEW i \in Items(k) PROVE k.queue_dependencies[i.no] = s.queue_dependencies[i.no]
    <2>1. i \in Items(s) /\ i \notin tried /\ i \notin gone /\ i.no \in ItemNo
        BY <1>1, <1>11, ItemIds
    <2>2. i.no \notin Numbers(gone)
        BY <1>11, <1>12, <2>1 DEF Numbers
    <2>3. k.queue_dependencies[i.no] = r.queue_dependencies[i.no]
        BY <1>8, <2>1, <2>2 DEF FallsOut
    <2>4. QED
        BY <1>13, <2>1, <2>3
<1>15. ASSUME NEW i \in gone PROVE s.queue_dependencies[i.no] # {}
    BY <1>8, <1>11, <1>13 DEF FallsOut
<1>16. Flying(k, left) = Flying(s, left) \cup dropped
    <2>1. \A i : i \in k.dropped /\ i.op \in {"create", "bulk"}
                 <=> (i \in s.dropped /\ i.op \in {"create", "bulk"}) \/ i \in dropped
        BY <1>3, <1>5
    <2>2. k.spawned = s.spawned
        BY <1>5
    <2> HIDE DEF dropped
    <2>3. QED
        BY <2>1, <2>2 DEF Flying
<1>17. dropped \subseteq Items(s) \ Items(k)
    BY <1>2, <1>11
<1> HIDE DEF updates, creations, dropped
<1>18. DependenciesLive(k, left)
    <2> SUFFICES ASSUME NEW n \in ItemNo, NEW d \in k.queue_dependencies[n] PROVE Live(k, left, d)
        BY DEF DependenciesLive
    <2>1. PICK j \in Items(k) : j.no = n
        BY <1>10 DEF Tidy, Numbers
    <2>2. d \in s.queue_dependencies[n] /\ d \in r.queue_dependencies[n]
          /\ j \in Items(s) /\ j \notin tried /\ j \notin gone
        BY <1>11, <1>13, <1>14, <2>1
    <2>3. d \notin ds /\ \A i \in gone : d # OnItem(i.no)
        BY <1>8, <1>9, <2>1, <2>2 DEF FallsOut
    <2>4. PICK i \in Items(s) \cup Flying(s, left) : Names(s, d, i)
        BY <2>2 DEF Well, DependenciesLive, Live
    <2>5. i \in tried => i \in dropped
        BY <1>3, <2>3, <2>4 DEF Names, ds, updates, dropped
    <2>6. i \notin gone
        <3> SUFFICES ASSUME i \in gone PROVE FALSE
            OBVIOUS
        <3>1. i \in Items(s) /\ i.op # "bulk"
            BY <1>11, <1>15 DEF Well, BulksWaitForNothing
        <3>2. QED
            BY <2>3, <2>4, <3>1 DEF Names
    <2>7. i \in Items(k) \cup Flying(k, left) /\ (i \in Items(s) => i \in Items(k) \/ i \in dropped)
        BY <1>11, <1>16, <2>4, <2>5, <2>6
    <2>8. i \in dropped => i.op = "create"
        BY DEF dropped
    <2>9. Names(k, d, i)
        BY <1>6, <2>4, <2>7, <2>8 DEF Names
    <2>10. QED
        BY <2>7, <2>9 DEF Live
<1>19. WaitingLive(k, left)
    <2> SUFFICES ASSUME NEW id \in SyncId, NEW n \in k.waiting_response[id]
                 PROVE  \E i \in Flying(k, left) :
                           /\ i.no = n /\ id \in AwaitedIds(i)
                           /\ i.op = "bulk" => id[2] \in k.in_flight_bulk_create_objects[n]
        BY DEF WaitingLive
    <2>1. CASE n \in s.waiting_response[id]
        <3>1. PICK i \in Flying(s, left) :
                 /\ i.no = n /\ id \in AwaitedIds(i)
                 /\ i.op = "bulk" => id[2] \in s.in_flight_bulk_create_objects[n]
            BY <2>1 DEF Well, WaitingLive
        <3>2. QED
            BY <1>6, <1>16, <3>1
    <2>2. CASE n \notin s.waiting_response[id]
        <3>1. PICK i \in creations : id \in AwaitedIds(i) /\ n = i.no
            BY <1>5, <2>2
        <3>2. i \in dropped /\ i.op = "create"
            BY <1>7 DEF dropped
        <3>3. QED
            BY <1>16, <3>1, <3>2
    <2>3. QED
        BY <2>1, <2>2
<1>20. CountedLive(k, left)
    BY <1>6, <1>16 DEF Well, CountedLive
<1>21. Numbered(k, left, m)
    <2>1. \A i \in Items(s), j \in Flying(s, left) : i.no # j.no
        BY DEF Well, Numbered
    <2>2. \A i, j \in Flying(k, left) : i.no = j.no => i = j
        <3>1. \A i, j \in Flying(s, left) : i.no = j.no => i = j
            BY DEF Well, Numbered
        <3>2. QED
            BY <1>12, <1>16, <1>17, <2>1, <3>1
    <2>3. \A i \in Items(k), j \in Flying(k, left) : i.no # j.no
        BY <1>11, <1>12, <1>16, <1>17, <2>1
    <2>4. \A i \in Items(k) \cup Flying(k, left) : i.no <= m
        BY <1>11, <1>16, <1>17 DEF Well, Numbered
    <2>5. \A i, j \in Items(k) : i.no = j.no => i = j
        BY <1>11, <1>12
    <2>6. k.spawned = s.spawned
        BY <1>5
    <2>7. QED
        BY <1>11, <2>2, <2>3, <2>4, <2>5, <2>6 DEF Well, Numbered
<1>22. Well(k, left, m)
    <2>1. BulksWaitForNothing(k)
        BY <1>11, <1>14 DEF Well, BulksWaitForNothing
    <2>2. QED
        BY <1>10, <1>18, <1>19, <1>20, <1>21, <2>1 DEF Well
<1>23. \A i \in Items(s) : s.queue_dependencies[i.no] = {} /\ i \notin tried => i \in Items(k)
    BY <1>11, <1>15
<1>24. ASSUME NEW i \in Items(s), i \notin Items(k), i.no \notin k.answered
       PROVE  i \in k.dropped
    <2>1. i \in tried
        BY <1>8, <1>11, <1>24 DEF Numbers
    <2>2. i \notin updates
        BY <1>8, <1>24 DEF Numbers
    <2>3. QED
        BY <1>7, <2>1, <2>2
<1>25. /\ s.answered \subseteq k.answered
       /\ \A id \in SyncId : s.waiting_response[id] \subseteq k.waiting_response[id]
       /\ s.dropped \subseteq k.dropped
       /\ \A i \in k.dropped \ s.dropped :
             i \in tried /\ i \in Items(s) /\ i.op \in {"create", "action"} /\ ~Resolved(s, i)
    <2>1. s.answered \subseteq k.answered
        BY <1>8
    <2>2. \A id \in SyncId : s.waiting_response[id] \subseteq k.waiting_response[id]
        BY <1>5
    <2>3. \A i \in k.dropped \ s.dropped : i \in tried \ updates
        BY <1>7
    <2>4. QED
        BY <1>2, <1>7, <2>1, <2>2, <2>3
<1>26. Items(k) \subseteq Items(s) \ tried
    BY <1>11
<1>27. /\ k.client_id_to_server = s.client_id_to_server
       /\ k.should_dequeue = s.should_dequeue /\ k.spawned = s.spawned
    BY <1>5
<1>28. QED
    BY <1>6, <1>14, <1>22, <1>23, <1>24, <1>25, <1>26, <1>27 DEF k, tried

LEMMA DequeuedSends ==
    ASSUME NEW s, NEW left, NEW m, Well(s, left, m), s.should_dequeue
    PROVE  Sent(Skipped(s, Tried(s)), Dequeued(s), NextSent(s))
<1> DEFINE sent == NextSent(s)
           k == Skipped(s, Tried(s))
           q == Removed(k, sent)
           w == Awaited(q, sent)
           t == Dequeued(s)
<1>1. s \in Structs
    BY WellTypes
<1>2. /\ sent \subseteq GoodItem
      /\ k \in Structs /\ q \in Structs /\ w \in Structs
      /\ t.queue = w.queue /\ t.queue_dependencies = w.queue_dependencies
      /\ t.waiting_response = w.waiting_response
      /\ t.in_flight_bulk_create_objects = w.in_flight_bulk_create_objects
      /\ t.client_id_to_server = s.client_id_to_server
      /\ t.should_dequeue = s.should_dequeue
      /\ t.spawned = s.spawned \cup {Request(i) : i \in sent}
      /\ t.answered = k.answered /\ t.told = k.told /\ t.failed = k.failed
      /\ t.dropped = k.dropped
    BY <1>1, DequeuedType
<1>3. /\ k.client_id_to_server = s.client_id_to_server
      /\ k.should_dequeue = s.should_dequeue /\ k.spawned = s.spawned
      /\ IsInjective(k.queue)
    BY SkippedKeepsWell DEF Well, Numbered
<1> HIDE DEF k, sent, t
<1>4. /\ Items(q) = Items(k) \ sent
      /\ IsInjective(q.queue)
      /\ q.queue_dependencies =
            [n \in ItemNo |-> IF n \in Numbers(sent) THEN {} ELSE k.queue_dependencies[n]]
      /\ q.waiting_response = k.waiting_response
      /\ q.in_flight_bulk_create_objects = k.in_flight_bulk_create_objects
    BY <1>2, <1>3, RemovedType
<1> HIDE DEF q
<1>5. /\ w.queue = q.queue /\ w.queue_dependencies = q.queue_dependencies
      /\ \A id \in SyncId :
            w.waiting_response[id] =
               q.waiting_response[id] \cup {i.no : i \in {i \in sent : id \in AwaitedIds(i)}}
      /\ \A n \in ItemNo :
            \/ /\ \A i \in sent : i.op = "bulk" => i.no # n
               /\ w.in_flight_bulk_create_objects[n] = q.in_flight_bulk_create_objects[n]
            \/ \E i \in sent : /\ i.op = "bulk" /\ i.no = n
                               /\ w.in_flight_bulk_create_objects[n] = Objects(i)
    BY <1>2, AwaitedType
<1> HIDE DEF w
<1>6. Items(t) = Items(k) \ sent /\ IsInjective(t.queue)
    BY <1>2, <1>4, <1>5 DEF Items
<1>7. t.queue_dependencies =
         [n \in ItemNo |-> IF n \in Numbers(sent) THEN {} ELSE k.queue_dependencies[n]]
    BY <1>2, <1>4, <1>5
<1>8. Sent(k, t, sent)
    BY <1>2, <1>3, <1>4, <1>5, <1>6, <1>7 DEF Sent
<1>9. QED
    BY <1>8 DEF k, t, sent

\* An item that is sent goes on in flight under the same name.
LEMMA SentKeepsWell ==
    ASSUME NEW s, NEW left, NEW m, Well(s, left, m), NEW t \in Tidy, NEW sent \in SUBSET Items(s),
           \A i, j \in sent : i = j, Sent(s, t, sent)
    PROVE  /\ Well(t, left, m)
           /\ \A i \in Flying(s, left) :
                 t.in_flight_bulk_create_objects[i.no] = s.in_flight_bulk_create_objects[i.no]
<1>1. \A i \in Items(s) : i \in GoodItem /\ i.no \in ItemNo
    BY WellTypes, ItemIds
<1>2. Flying(t, left) = Flying(s, left) \cup sent
    <2>1. \A i \in sent : Request(i).item = i
        BY DEF Request
    <2>2. t.spawned = s.spawned \cup {Request(i) : i \in sent} /\ t.dropped = s.dropped
        BY DEF Sent
    <2>3. QED
        BY <2>1, <2>2 DEF Flying
<1>3. Items(t) = Items(s) \ sent
    BY DEF Sent
<1>4. Numbered(t, left, m)
    <2>1. \A r, q \in left \cup t.spawned : r.item.no = q.item.no => r = q
        <3>1. ASSUME NEW r \in left \cup t.spawned
              PROVE  r \in left \cup s.spawned \/ \E i \in sent : r = Request(i) /\ r.item = i
            BY DEF Sent, Request
        <3>2. ASSUME NEW r \in left \cup s.spawned, NEW i \in sent PROVE r.item.no # i.no
            BY DEF Well, Numbered, Flying
        <3>3. QED
            BY <3>1, <3>2 DEF Well, Numbered
    <2>2. \A i \in Items(t), j \in Flying(t, left) : i.no # j.no
        BY <1>2, <1>3 DEF Well, Numbered
    <2>3. \A i \in Items(t) \cup Flying(t, left) : i.no <= m
        BY <1>2, <1>3 DEF Well, Numbered
    <2>4. \A i, j \in Flying(t, left) : i.no = j.no => i = j
        BY <1>2 DEF Well, Numbered
    <2>5. QED
        BY <1>3, <2>1, <2>2, <2>3, <2>4 DEF Well, Numbered, Sent
<1>5. ASSUME NEW i \in Flying(s, left)
      PROVE  i.no \in ItemNo
             /\ t.in_flight_bulk_create_objects[i.no] = s.in_flight_bulk_create_objects[i.no]
    <2>1. i.no \in ItemNo
        BY WellTypes, ItemIds
    <2>2. \A j \in sent : j.no # i.no
        BY DEF Well, Numbered
    <2>3. QED
        BY <2>1, <2>2 DEF Sent
<1>6. ASSUME NEW i \in sent, i.op = "bulk"
      PROVE  t.in_flight_bulk_create_objects[i.no] = Objects(i)
    BY <1>1, <1>6 DEF Sent
<1>7. ASSUME NEW d, Live(s, left, d) PROVE Live(t, left, d)
    <2>1. PICK i \in Items(s) \cup Flying(s, left) : Names(s, d, i)
        BY <1>7 DEF Live
    <2>2. i \in Items(t) \cup Flying(t, left)
        BY <1>2, <1>3, <2>1
    <2>3. Names(t, d, i)
        <3>1. CASE i \in sent
            BY <1>6, <2>1, <3>1 DEF Names
        <3>2. CASE i \in Items(s) /\ i \notin sent
            BY <1>3, <2>1, <3>2 DEF Names
        <3>3. CASE i \notin Items(s)
            BY <1>5, <2>1, <3>3 DEF Names
        <3>4. QED
            BY <3>1, <3>2, <3>3
    <2>4. QED
        BY <2>2, <2>3 DEF Live
<1>8. DependenciesLive(t, left)
    <2>1. \A n \in ItemNo : t.queue_dependencies[n] \subseteq s.queue_dependencies[n]
        BY DEF Sent
    <2>2. QED
        BY <1>7, <2>1 DEF Well, DependenciesLive
<1>9. WaitingLive(t, left)
    <2> SUFFICES ASSUME NEW id \in SyncId, NEW n \in t.waiting_response[id]
                 PROVE  \E i \in Flying(t, left) :
                           /\ i.no = n /\ id \in AwaitedIds(i)
                           /\ i.op = "bulk" => id[2] \in t.in_flight_bulk_create_objects[n]
        BY DEF WaitingLive
    <2>1. CASE n \in s.waiting_response[id]
        <3>1. PICK i \in Flying(s, left) :
                 /\ i.no = n /\ id \in AwaitedIds(i)
                 /\ i.op = "bulk" => id[2] \in s.in_flight_bulk_create_objects[n]
            BY <2>1 DEF Well, WaitingLive
        <3>2. t.in_flight_bulk_create_objects[n] = s.in_flight_bulk_create_objects[n]
            BY <1>5, <3>1
        <3>3. QED
            BY <1>2, <3>1, <3>2
    <2>2. ASSUME NEW i \in sent, id \in AwaitedIds(i), n = i.no
          PROVE  i.op = "bulk" => id[2] \in t.in_flight_bulk_create_objects[n]
        <3> SUFFICES ASSUME i.op = "bulk" PROVE id[2] \in Objects(i)
            BY <1>6, <2>2
        <3>1. id \in i.ids
            BY <2>2 DEF AwaitedIds
        <3>2. QED
            BY <3>1 DEF Objects
    <2>3. n \in s.waiting_response[id] \/ \E i \in sent : id \in AwaitedIds(i) /\ n = i.no
        BY DEF Sent
    <2>4. QED
        BY <1>2, <2>1, <2>2, <2>3
<1>10. CountedLive(t, left)
    <2> SUFFICES ASSUME NEW n \in ItemNo, NEW o \in t.in_flight_bulk_create_objects[n]
                 PROVE  \E i \in Flying(t, left) : i.no = n /\ i.op = "bulk" /\ o \in Objects(i)
        BY DEF CountedLive
    <2>1. CASE \E i \in sent : i.op = "bulk" /\ i.no = n /\ t.in_flight_bulk_create_objects[n] = Objects(i)
        BY <1>2, <2>1
    <2>2. CASE t.in_flight_bulk_create_objects[n] = s.in_flight_bulk_create_objects[n]
        BY <1>2, <2>2 DEF Well, CountedLive
    <2>3. QED
        BY <2>1, <2>2 DEF Sent
<1>11. BulksWaitForNothing(t)
    <2>1. \A i \in Items(t) : i \in Items(s) /\ i.no \in ItemNo
        BY <1>1, <1>3
    <2>2. \A i \in Items(t) : t.queue_dependencies[i.no] \subseteq s.queue_dependencies[i.no]
        BY <2>1 DEF Sent
    <2>3. QED
        BY <2>1, <2>2 DEF Well, BulksWaitForNothing
<1>12. QED
    BY <1>4, <1>5, <1>8, <1>9, <1>10, <1>11 DEF Well

\* A call of dequeue leaves nothing that is ready, unless it has sent something.
LEMMA DequeuedKeepsWell ==
    ASSUME NEW s, NEW left, NEW m, Well(s, left, m)
    PROVE  LET t == Dequeued(s) IN
           /\ Well(t, left, m)
           /\ t.should_dequeue = s.should_dequeue
           /\ s.should_dequeue /\ t.spawned = {} => Ready(t) = {}
           /\ \A i \in Flying(s, left) :
                 t.in_flight_bulk_create_objects[i.no] = s.in_flight_bulk_create_objects[i.no]
<1> DEFINE t == Dequeued(s)
           k == Skipped(s, Tried(s))
           sent == NextSent(s)
<1>1. s \in Structs /\ s \in Tidy
    BY WellTypes
<1>2. t \in Tidy
    BY <1>1, DequeuedTidy
<1>3. CASE ~s.should_dequeue
    <2>1. t = s
        BY <1>1, <1>3, DequeuedType
    <2>2. QED
        BY <1>3, <2>1
<1>4. CASE s.should_dequeue
    <2>1. /\ Well(k, left, m)
          /\ k.in_flight_bulk_create_objects = s.in_flight_bulk_create_objects
          /\ k.should_dequeue = s.should_dequeue /\ k.spawned = s.spawned
          /\ Items(k) \subseteq Items(s) \ Tried(s)
          /\ \A i \in Items(s) : s.queue_dependencies[i.no] = {} /\ i \notin Tried(s) => i \in Items(k)
          /\ \A i \in Items(k) : k.queue_dependencies[i.no] = s.queue_dependencies[i.no]
          /\ s.dropped \subseteq k.dropped
        BY SkippedKeepsWell
    <2>2. /\ \A i \in sent : i \in Items(s) /\ s.queue_dependencies[i.no] = {} /\ i \notin Tried(s)
          /\ \A i, j \in sent : i = j
          /\ sent = {} => \A i \in Items(s) : s.queue_dependencies[i.no] = {} => i \in Tried(s)
        BY <1>1, NextChosen
    <2>3. Sent(k, t, sent)
        BY <1>4, DequeuedSends
    <2> HIDE DEF k, t, sent
    <2>4. sent \subseteq Items(k)
        BY <2>1, <2>2
    <2>5. /\ Well(t, left, m)
          /\ \A i \in Flying(k, left) :
                t.in_flight_bulk_create_objects[i.no] = k.in_flight_bulk_create_objects[i.no]
        BY <1>2, <2>1, <2>2, <2>3, <2>4, SentKeepsWell
    <2>6. ASSUME t.spawned = {} PROVE Ready(t) = {}
        <3>1. sent = {}
            BY <2>3, <2>6 DEF Sent
        <3>2. Items(t) = Items(k) /\ \A n \in ItemNo : t.queue_dependencies[n] = k.queue_dependencies[n]
            BY <2>3, <3>1 DEF Sent, Numbers
        <3>3. ASSUME NEW i \in Items(t) PROVE t.queue_dependencies[i.no] # {}
            <4>1. i \in Items(s) /\ i \notin Tried(s) /\ i.no \in ItemNo
                BY <2>1, <3>2, WellTypes, ItemIds
            <4>2. t.queue_dependencies[i.no] = s.queue_dependencies[i.no]
                BY <2>1, <3>2, <4>1
            <4>3. QED
                BY <2>2, <3>1, <4>1, <4>2
        <3>4. QED
            BY <3>3 DEF Ready, Items, ToSet
    <2>7. t.should_dequeue = s.should_dequeue
        BY <2>1, <2>3 DEF Sent
    <2>8. \A i \in Flying(s, left) :
             t.in_flight_bulk_create_objects[i.no] = s.in_flight_bulk_create_objects[i.no]
        BY <2>1, <2>5 DEF Flying
    <2>9. QED
        BY <2>5, <2>6, <2>7, <2>8 DEF t
<1>5. QED
    BY <1>3, <1>4

-----------------------------------------------------------------------------
(* Nothing is forgotten                                                     *)

LEMMA PlacedStays ==
    ASSUME NEW s, NEW t, Progress(s, t), NEW n, Placed(s, n)
    PROVE  Placed(t, n)
    BY DEF Progress, Placed, Numbers

LEMMA ProgressGoesOn ==
    ASSUME NEW s, NEW t, NEW u, Progress(s, t), Progress(t, u)
    PROVE  Progress(s, u)
<1>1. ASSUME NEW i \in Items(s) PROVE Placed(u, i.no)
    BY PlacedStays DEF Progress
<1>2. ASSUME NEW i \in u.dropped \ s.dropped PROVE i.op # "update" /\ ~Resolved(s, i)
    <2>1. CASE i \in t.dropped
        BY <2>1 DEF Progress
    <2>2. CASE i \notin t.dropped
        BY <2>2 DEF Progress, Resolved, HasServerId
    <2>3. QED
        BY <2>1, <2>2
<1>3. QED
    BY <1>1, <1>2 DEF Progress

\* The queue is the same.
LEMMA SameProgress ==
    ASSUME NEW s, NEW t, t.queue = s.queue, s.answered \subseteq t.answered,
           s.client_id_to_server \subseteq t.client_id_to_server, s.spawned \subseteq t.spawned,
           t.dropped = s.dropped
    PROVE  Progress(s, t)
    BY DEF Progress, Placed, Numbers, Items

LEMMA RewrittenProgress ==
    ASSUME NEW s, NEW t, Rewritten(s, t)
    PROVE  Progress(s, t)
    BY DEF Rewritten, Progress, Placed, Numbers, Items, ToSet

LEMMA FallsOutProgress ==
    ASSUME NEW s, NEW t, NEW ds, NEW gone, FallsOut(s, t, ds, gone),
           s.answered \cup Numbers(gone) \subseteq t.answered,
           s.client_id_to_server \subseteq t.client_id_to_server, s.spawned \subseteq t.spawned,
           t.dropped = s.dropped
    PROVE  Progress(s, t)
    BY DEF FallsOut, Progress, Placed, Numbers

LEMMA LetGoProgress ==
    ASSUME NEW s \in Tidy, NEW kind \in Kinds, NEW item \in GoodItem, NEW ids
    PROVE  Progress(s, LetGo(s, kind, item, ids)) /\ item.no \in LetGo(s, kind, item, ids).answered
<1> DEFINE t == LetGo(s, kind, item, ids)
<1>1. /\ t \in Tidy
      /\ t.queue = s.queue
      /\ t.queue_dependencies = [n \in ItemNo |-> s.queue_dependencies[n] \ {OnItem(item.no)}]
      /\ t.waiting_response =
             [id \in SyncId |-> IF id \in ids THEN s.waiting_response[id] \ {item.no}
                                ELSE s.waiting_response[id]]
      /\ t.in_flight_bulk_create_objects = s.in_flight_bulk_create_objects
      /\ t.client_id_to_server = s.client_id_to_server
      /\ t.should_dequeue = s.should_dequeue /\ t.spawned = s.spawned /\ t.dropped = s.dropped
      /\ t.answered = s.answered \cup {item.no}
    BY LetGoType
<1> HIDE DEF t
<1>2. Progress(s, t) /\ item.no \in t.answered
    BY <1>1, SameProgress
<1>3. QED
    BY <1>2 DEF t

LEMMA CreationFailedProgress ==
    ASSUME NEW s \in Structs, NEW item \in GoodItem
    PROVE  Progress(s, CreationFailed(s, item)) /\ item.no \in CreationFailed(s, item).answered
<1> DEFINE t == CreationFailed(s, item)
           ds == {CreationDependency(s, item, o) : o \in Objects(item)}
<1>1. /\ \E gone : /\ FallsOut(s, t, ds, gone)
                   /\ t.answered = s.answered \cup {item.no} \cup Numbers(gone)
      /\ t.client_id_to_server = s.client_id_to_server /\ t.spawned = s.spawned /\ t.dropped = s.dropped
    BY CreationFailedType
<1> HIDE DEF t, ds
<1>2. PICK gone : FallsOut(s, t, ds, gone) /\ t.answered = s.answered \cup {item.no} \cup Numbers(gone)
    BY <1>1
<1>3. Progress(s, t) /\ item.no \in t.answered
    BY <1>1, <1>2, FallsOutProgress
<1>4. QED
    BY <1>3 DEF t

LEMMA OtherFailedProgress ==
    ASSUME NEW s \in Structs, NEW item \in GoodItem
    PROVE  Progress(s, OtherFailed(s, item)) /\ item.no \in OtherFailed(s, item).answered
<1> DEFINE t == OtherFailed(s, item)
           ds == {OnItem(item.no)}
<1>1. /\ \E gone : /\ FallsOut(s, t, ds, gone)
                   /\ t.answered = s.answered \cup {item.no} \cup Numbers(gone)
      /\ t.client_id_to_server = s.client_id_to_server /\ t.spawned = s.spawned /\ t.dropped = s.dropped
    BY OtherFailedType
<1> HIDE DEF t, ds
<1>2. PICK gone : FallsOut(s, t, ds, gone) /\ t.answered = s.answered \cup {item.no} \cup Numbers(gone)
    BY <1>1
<1>3. Progress(s, t) /\ item.no \in t.answered
    BY <1>1, <1>2, FallsOutProgress
<1>4. QED
    BY <1>3 DEF t

LEMMA CreationSucceededProgress ==
    ASSUME NEW s \in Structs, NEW item \in GoodItem, NEW o \in Object
    PROVE  Progress(s, CreationSucceeded(s, item, o)) /\ item.no \in CreationSucceeded(s, item, o).answered
<1> DEFINE t == CreationSucceeded(s, item, o)
<1>1. PICK f \in Structs : Created(s, f, t, item, o)
    BY CreationSucceededType
<1> HIDE DEF t
<1>2. Progress(s, f) /\ item.no \in f.answered
    BY <1>1, SameProgress DEF Created
<1>3. Rewritten(f, t)
    BY <1>1 DEF Created
<1>4. Progress(f, t) /\ t.answered = f.answered
    BY <1>3, RewrittenProgress DEF Rewritten
<1>5. Progress(s, t) /\ item.no \in t.answered
    BY <1>2, <1>4, ProgressGoesOn
<1>6. QED
    BY <1>5 DEF t

LEMMA PushedProgress ==
    ASSUME NEW s \in Structs, NEW item \in GoodItem
    PROVE  Progress(s, Pushed(s, item)) /\ Placed(Pushed(s, item), item.no)
<1> DEFINE t == Pushed(s, item)
<1>1. /\ \E i \in GoodItem : i.no = item.no /\ t.queue = Append(s.queue, i)
      /\ t.client_id_to_server = s.client_id_to_server
      /\ t.spawned = s.spawned /\ t.dropped = s.dropped /\ t.answered = s.answered
    BY PushedType
<1> HIDE DEF t
<1>2. s.queue \in Seq(GoodItem)
    BY StructFields
<1>3. \A k \in DOMAIN s.queue : k \in DOMAIN t.queue /\ t.queue[k] = s.queue[k]
    BY <1>1, <1>2
<1>4. Items(s) \subseteq Items(t)
    BY <1>3 DEF Items, ToSet
<1>5. Progress(s, t)
    BY <1>1, <1>4 DEF Progress, Placed, Numbers
<1>6. PICK i \in GoodItem : i.no = item.no /\ t.queue = Append(s.queue, i)
    BY <1>1
<1>7. i \in Items(t)
    <2>1. ToSet(t.queue) = ToSet(s.queue) \cup {i}
        BY <1>2, <1>6, AppendedElements
    <2>2. QED
        BY <2>1 DEF Items
<1>8. Placed(t, item.no)
    BY <1>6, <1>7 DEF Placed, Numbers
<1>9. QED
    BY <1>5, <1>8 DEF t

LEMMA DequeuedProgress ==
    ASSUME NEW s, NEW left, NEW m, Well(s, left, m)
    PROVE  Progress(s, Dequeued(s))
<1> DEFINE t == Dequeued(s)
           k == Skipped(s, Tried(s))
           sent == NextSent(s)
<1>1. s \in Structs
    BY WellTypes
<1>2. CASE ~s.should_dequeue
    <2>1. t = s
        BY <1>1, <1>2, DequeuedType
    <2>2. QED
        BY <2>1, SameProgress
<1>3. CASE s.should_dequeue
    <2>1. /\ k.client_id_to_server = s.client_id_to_server
          /\ k.spawned = s.spawned
          /\ s.answered \subseteq k.answered
          /\ s.dropped \subseteq k.dropped
          /\ \A i \in k.dropped \ s.dropped : i.op \in {"create", "action"} /\ ~Resolved(s, i)
          /\ \A i \in Items(s) : i \in Items(k) \/ i.no \in k.answered \/ i \in k.dropped
        BY SkippedKeepsWell
    <2>2. Sent(k, t, sent)
        BY <1>3, DequeuedSends
    <2> HIDE DEF k, t, sent
    <2>3. Progress(s, k)
        BY <2>1 DEF Progress, Placed, Numbers
    <2>4. Progress(k, t)
        <3>1. ASSUME NEW i \in Items(k), i \notin Items(t) PROVE \E r \in t.spawned : r.item.no = i.no
            <4>1. i \in sent
                BY <2>2, <3>1 DEF Sent
            <4>2. Request(i) \in t.spawned /\ Request(i).item = i
                BY <2>2, <4>1 DEF Sent, Request
            <4>3. QED
                BY <4>2
        <3>2. QED
            BY <2>2, <3>1 DEF Sent, Progress, Placed, Numbers
    <2>5. Progress(s, t)
        BY <2>3, <2>4, ProgressGoesOn
    <2>6. QED
        BY <2>5 DEF t
<1>4. QED
    BY <1>2, <1>3

-----------------------------------------------------------------------------
(* The actions                                                              *)

LEMMA BecomesWell ==
    ASSUME NEW s, NEW left, NEW m, Well(s, left, m), Becomes(s, left), TypeInv,
           Progress(sync_queue, s), \A n \in (enqueued + 1)..enqueued' : Placed(s, n),
           \A r \in futures : r \in left \/ r.item.no \in s.answered
    PROVE  Well(sync_queue', futures', m) /\ Remembered
<1> DEFINE t == sync_queue'
<1>1. s \in Tidy /\ left \subseteq Requests
    BY DEF Well
<1>2. /\ QueueTypes'
      /\ futures' = left \cup s.spawned
      /\ t.queue = s.queue /\ t.queue_dependencies = s.queue_dependencies
      /\ t.waiting_response = s.waiting_response
      /\ t.in_flight_bulk_create_objects = s.in_flight_bulk_create_objects
      /\ t.client_id_to_server = s.client_id_to_server
      /\ t.should_dequeue = s.should_dequeue
      /\ t.answered = s.answered /\ t.dropped = s.dropped
    BY <1>1, BecomesStruct
<1>3. t \in Tidy /\ t.spawned = {} /\ futures' \subseteq Requests
    BY <1>2 DEF QueueTypes
<1>4. sync_queue.spawned = {}
    BY DEF TypeInv, QueueTypes
<1> HIDE DEF t
<1>5. Items(t) = Items(s) /\ futures' \cup t.spawned = left \cup s.spawned
    BY <1>2, <1>3 DEF Items
<1>6. Flying(t, futures') = Flying(s, left)
    BY <1>2, <1>5 DEF Flying
<1>7. Numbered(t, futures', m)
    BY <1>2, <1>5, <1>6 DEF Well, Numbered
<1>8. DependenciesLive(t, futures')
    BY <1>2, <1>5, <1>6 DEF Well, DependenciesLive, Live, Names
<1>9. WaitingLive(t, futures') /\ CountedLive(t, futures')
    BY <1>2, <1>6 DEF Well, WaitingLive, CountedLive
<1>10. BulksWaitForNothing(t)
    BY <1>2, <1>5 DEF Well, BulksWaitForNothing
<1>11. Well(t, futures', m)
    BY <1>3, <1>7, <1>8, <1>9, <1>10 DEF Well
<1>12. Remembered
    <2>1. Queued' = Numbers(Items(s))
        BY <1>2 DEF Queued, Items, Numbers, t
    <2>2. InFlight' = {r.item.no : r \in left \cup s.spawned}
        BY <1>2 DEF InFlight
    <2>3. sync_queue'.answered = s.answered /\ sync_queue'.dropped = s.dropped
        BY <1>2 DEF t
    <2>4. ASSUME NEW n \in Enqueued, n \notin Queued', n \notin InFlight', n \notin sync_queue'.answered
          PROVE  \E i \in sync_queue'.dropped : i.no = n
        <3>1. n \notin InFlight
            BY <2>2, <2>3, <2>4 DEF InFlight
        <3>2. Placed(s, n)
            BY <2>4, <3>1 DEF Enqueued, Progress, Queued, Items
        <3>3. \A r \in s.spawned : r.item.no # n
            BY <2>2, <2>4
        <3>4. QED
            BY <2>1, <2>3, <2>4, <3>2, <3>3 DEF Placed
    <2>5. QED
        BY <2>3, <2>4 DEF Remembered, Progress
<1>13. QED
    BY <1>11, <1>12 DEF t

\* A step that ends with a call of dequeue.
LEMMA DequeuedStep ==
    ASSUME NEW s, NEW left, NEW m, Well(s, left, m), Becomes(Dequeued(s), left), TypeInv,
           Progress(sync_queue, s), \A n \in (enqueued + 1)..enqueued' : Placed(s, n),
           \A r \in futures : r \in left \/ r.item.no \in s.answered
    PROVE  Well(sync_queue', futures', m) /\ KeepsDraining' /\ Remembered
<1> DEFINE t == Dequeued(s)
<1>1. /\ Well(t, left, m)
      /\ t.should_dequeue = s.should_dequeue
      /\ s.should_dequeue /\ t.spawned = {} => Ready(t) = {}
    BY DequeuedKeepsWell
<1>2. Progress(s, t)
    BY DequeuedProgress
<1>3. Becomes(t, left)
    OBVIOUS
<1> HIDE DEF t
<1>4. /\ Progress(sync_queue, t) /\ \A r \in futures : r \in left \/ r.item.no \in t.answered
      /\ \A n \in (enqueued + 1)..enqueued' : Placed(t, n)
    BY <1>2, ProgressGoesOn, PlacedStays DEF Progress
<1>5. Well(sync_queue', futures', m) /\ Remembered
    BY <1>1, <1>3, <1>4, BecomesWell
<1>6. KeepsDraining'
    <2>1. t \in Tidy /\ left \subseteq Requests
        BY <1>1 DEF Well
    <2>2. /\ futures' = left \cup t.spawned
          /\ sync_queue'.queue = t.queue /\ sync_queue'.queue_dependencies = t.queue_dependencies
          /\ sync_queue'.should_dequeue = t.should_dequeue
        BY <1>3, <2>1, BecomesStruct
    <2>3. Ready(sync_queue)' = Ready(t)
        BY <2>2 DEF Ready
    <2>4. QED
        BY <1>1, <2>2, <2>3 DEF KeepsDraining
<1>7. QED
    BY <1>5, <1>6

\* A step that enqueues nothing.
LEMMA NothingEnqueued ==
    ASSUME TypeInv, enqueued' = enqueued, NEW s
    PROVE  \A n \in (enqueued + 1)..enqueued' : Placed(s, n)
<1>1. enqueued \in Nat
    BY DEF TypeInv, AppTypes
<1>2. QED
    BY <1>1

LEMMA InitWell ==
    ASSUME Init
    PROVE  QueueInv
<1>1. TypeInv
    BY InitTypes
<1>2. PICK loaded : Loaded(loaded)
    BY InitTypes
<1>3. /\ loaded \in Structs /\ loaded.queue = sync_queue.queue
      /\ loaded.spawned = {} /\ \A n \in ItemNo : loaded.queue_dependencies[n] = {}
      /\ Len(loaded.queue) = enqueued /\ ~sync_queue.should_dequeue
      /\ \A k \in DOMAIN loaded.queue :
            /\ loaded.queue[k].no = k /\ loaded.queue[k].op = "create"
            /\ sync_queue.queue_dependencies[k] = InferredDependencies(loaded, loaded.queue[k])
      /\ \A id \in SyncId : loaded.waiting_response[id] = {} /\ sync_queue.waiting_response[id] = {}
      /\ \A n \in ItemNo : /\ loaded.in_flight_bulk_create_objects[n] = {}
                           /\ sync_queue.in_flight_bulk_create_objects[n] = {}
      /\ futures = {} /\ loaded.dropped = {} /\ sync_queue.dropped = {}
    BY <1>2 DEF Loaded
<1>4. /\ loaded \in Tidy /\ sync_queue \in Tidy /\ sync_queue.spawned = {}
      /\ loaded.queue \in Seq(GoodItem) /\ DOMAIN loaded.queue = 1..enqueued
    BY <1>1, <1>3, StructFields DEF Tidy, TypeInv, QueueTypes
<1>5. Items(loaded) = {loaded.queue[k] : k \in DOMAIN loaded.queue} /\ Items(sync_queue) = Items(loaded)
    BY <1>3 DEF Items, ToSet
<1>6. Flying(loaded, {}) = {} /\ Flying(sync_queue, {}) = {}
    BY <1>3, <1>4 DEF Flying
<1>7. Numbered(loaded, {}, enqueued) /\ Numbered(sync_queue, {}, enqueued)
    <2>1. IsInjective(loaded.queue)
        BY <1>3 DEF IsInjective
    <2>2. \A i, j \in Items(loaded) : i.no = j.no => i = j
        BY <1>3, <1>5
    <2>3. \A i \in Items(loaded) : i.no <= enqueued
        BY <1>3, <1>4, <1>5
    <2>4. QED
        BY <1>3, <1>4, <1>5, <1>6, <2>1, <2>2, <2>3 DEF Numbered
<1>8. \A i \in Items(sync_queue) : i.op = "create"
    BY <1>3, <1>5
<1>9. BulksWaitForNothing(loaded) /\ BulksWaitForNothing(sync_queue)
    BY <1>5, <1>8 DEF BulksWaitForNothing
<1>10. Well(loaded, {}, enqueued)
    BY <1>3, <1>4, <1>7, <1>9 DEF Well, DependenciesLive, WaitingLive, CountedLive
<1>11. DependenciesLive(sync_queue, {})
    <2> SUFFICES ASSUME NEW n \in ItemNo, NEW d \in sync_queue.queue_dependencies[n]
                 PROVE  Live(sync_queue, {}, d)
        BY DEF DependenciesLive
    <2>1. PICK i \in Items(sync_queue) : i.no = n
        BY <1>4 DEF Tidy, Numbers
    <2>2. n \in DOMAIN loaded.queue
        BY <1>3, <1>5, <2>1
    <2>3. d \in InferredDependencies(loaded, loaded.queue[n]) /\ loaded.queue[n] \in GoodItem
        BY <1>3, <1>4, <2>2, ElementsInSet
    <2>4. Live(loaded, {}, d)
        BY <1>10, <2>3, InferredLive
    <2>5. PICK j \in Items(loaded) : Names(loaded, d, j)
        BY <1>6, <2>4 DEF Live
    <2>6. Names(sync_queue, d, j)
        BY <1>5, <2>5 DEF Names
    <2>7. QED
        BY <1>5, <2>6 DEF Live
<1>12. Well(sync_queue, futures, enqueued)
    BY <1>3, <1>4, <1>7, <1>9, <1>11 DEF Well, WaitingLive, CountedLive
<1>13. KeepsDraining
    BY <1>3 DEF KeepsDraining
<1>14. QED
    BY <1>1, <1>12, <1>13 DEF QueueInv

LEMMA EnqueueStep ==
    ASSUME QueueInv, NEW item, NewItem(item), Enqueue(item)
    PROVE  GoodStep
<1> DEFINE s == Pushed(sync_queue, item)
<1>1. TypeInv /\ Well(sync_queue, futures, enqueued) /\ enqueued \in Nat
    BY DEF QueueInv, TypeInv, AppTypes
<1>2. item \in GoodItem /\ item.no = enqueued + 1
    BY DEF NewItem
<1>3. Well(s, futures, enqueued + 1)
    BY <1>1, <1>2, PushedKeepsWell
<1>4. Progress(sync_queue, s) /\ Placed(s, enqueued + 1)
    BY <1>1, <1>2, WellTypes, PushedProgress
<1>5. Becomes(Dequeued(s), futures) /\ enqueued' = enqueued + 1
    BY DEF Enqueue, Edited
<1> HIDE DEF s
<1>6. \A n \in (enqueued + 1)..enqueued' : Placed(s, n)
    BY <1>1, <1>4, <1>5
<1>7. Well(sync_queue', futures', enqueued + 1) /\ KeepsDraining' /\ Remembered
    BY <1>1, <1>3, <1>4, <1>5, <1>6, DequeuedStep
<1>8. QED
    BY <1>5, <1>7 DEF GoodStep

\* Whether the queue is on says nothing of its items.
LEMMA SwitchedKeepsWell ==
    ASSUME NEW s, NEW left, NEW m, Well(s, left, m), NEW b \in BOOLEAN
    PROVE  LET t == [s EXCEPT !.should_dequeue = b] IN Well(t, left, m) /\ Progress(s, t)
<1> DEFINE t == [s EXCEPT !.should_dequeue = b]
<1>1. s \in Tidy
    BY WellTypes
<1>2. /\ t \in Tidy /\ t.queue = s.queue /\ t.queue_dependencies = s.queue_dependencies
      /\ t.waiting_response = s.waiting_response
      /\ t.in_flight_bulk_create_objects = s.in_flight_bulk_create_objects
      /\ t.client_id_to_server = s.client_id_to_server
      /\ t.spawned = s.spawned /\ t.dropped = s.dropped /\ t.answered = s.answered
    BY <1>1, SwitchedTidy
<1> HIDE DEF t
<1>3. Items(t) = Items(s)
    BY <1>2 DEF Items
<1>4. DependenciesLive(t, left)
    BY <1>2, <1>3, SameLive DEF Well, DependenciesLive
<1>5. IsInjective(t.queue)
    BY <1>2 DEF Well, Numbered
<1>6. Well(t, left, m)
    BY <1>2, <1>3, <1>4, <1>5, LessKeepsWell
<1>7. Progress(s, t)
    BY <1>2, SameProgress
<1>8. QED
    BY <1>6, <1>7 DEF t

LEMMA StartStep ==
    ASSUME QueueInv, StartDequeueing
    PROVE  GoodStep
<1> DEFINE s == [sync_queue EXCEPT !.should_dequeue = TRUE]
<1>1. TypeInv /\ Well(sync_queue, futures, enqueued)
    BY DEF QueueInv
<1>2. Well(s, futures, enqueued) /\ Progress(sync_queue, s)
    BY <1>1, SwitchedKeepsWell
<1>3. Becomes(Dequeued(s), futures) /\ enqueued' = enqueued
    BY DEF StartDequeueing, appVars
<1> HIDE DEF s
<1>4. Well(sync_queue', futures', enqueued) /\ KeepsDraining' /\ Remembered
    BY <1>1, <1>2, <1>3, NothingEnqueued, DequeuedStep
<1>5. QED
    BY <1>3, <1>4 DEF GoodStep

LEMMA StopStep ==
    ASSUME QueueInv, StopDequeueing
    PROVE  GoodStep
<1> DEFINE s == [sync_queue EXCEPT !.should_dequeue = FALSE]
<1>1. TypeInv /\ Well(sync_queue, futures, enqueued) /\ sync_queue \in Tidy
    BY DEF QueueInv, Well
<1>2. Well(s, futures, enqueued) /\ Progress(sync_queue, s)
    BY <1>1, SwitchedKeepsWell
<1>3. ~s.should_dequeue
    BY <1>1, SwitchedTidy
<1>4. Becomes(s, futures) /\ enqueued' = enqueued
    BY DEF StopDequeueing, appVars
<1> HIDE DEF s
<1>5. Well(sync_queue', futures', enqueued) /\ Remembered
    BY <1>1, <1>2, <1>4, NothingEnqueued, BecomesWell
<1>6. KeepsDraining'
    <2>1. s \in Tidy /\ futures \subseteq Requests
        BY <1>2 DEF Well
    <2>2. sync_queue'.should_dequeue = s.should_dequeue
        BY <1>4, <2>1, BecomesStruct
    <2>3. QED
        BY <1>3, <2>2 DEF KeepsDraining
<1>7. QED
    BY <1>4, <1>5, <1>6 DEF GoodStep

LEMMA ClearStep ==
    ASSUME QueueInv, Clear
    PROVE  GoodStep
<1> DEFINE s == Cleared(sync_queue)
           t == sync_queue'
<1>1. TypeInv /\ Well(sync_queue, futures, enqueued) /\ sync_queue \in Tidy /\ futures \subseteq Requests
    BY DEF QueueInv, Well
<1>2. Becomes(s, futures) /\ cleared' = enqueued /\ enqueued' = enqueued
    BY DEF Clear, Cleared
<1>3. /\ s \in Tidy /\ s.queue = <<>> /\ s.spawned = {} /\ s.dropped = {}
      /\ \A n \in ItemNo : s.queue_dependencies[n] = {}
      /\ \A id \in SyncId : s.waiting_response[id] = {}
      /\ \A n \in ItemNo : s.in_flight_bulk_create_objects[n] = {}
    BY <1>1, ClearedType
<1> HIDE DEF s
<1>4. /\ QueueTypes'
      /\ futures' = futures \cup s.spawned
      /\ t.queue = s.queue /\ t.queue_dependencies = s.queue_dependencies
      /\ t.waiting_response = s.waiting_response
      /\ t.in_flight_bulk_create_objects = s.in_flight_bulk_create_objects
      /\ t.client_id_to_server = s.client_id_to_server
      /\ t.should_dequeue = s.should_dequeue
      /\ t.answered = s.answered /\ t.dropped = s.dropped
    BY <1>1, <1>2, <1>3, BecomesStruct
<1>5. t \in Tidy /\ t.spawned = {} /\ futures' = futures /\ sync_queue.spawned = {}
    BY <1>1, <1>3, <1>4 DEF QueueTypes, TypeInv
<1> HIDE DEF t
<1>6. /\ Items(t) = {} /\ IsInjective(t.queue)
      /\ Flying(t, futures') \subseteq Flying(sync_queue, futures)
    BY <1>3, <1>4, <1>5 DEF Items, ToSet, IsInjective, Flying
<1>7. Numbered(t, futures', enqueued)
    BY <1>1, <1>5, <1>6 DEF Well, Numbered
<1>8. Well(t, futures', enqueued)
    BY <1>1, <1>3, <1>4, <1>5, <1>6, <1>7
       DEF Well, DependenciesLive, WaitingLive, CountedLive, BulksWaitForNothing
<1>9. Ready(t) = {}
    BY <1>3, <1>4 DEF Ready
<1>10. Remembered
    <2>1. \A n \in Queued : n <= cleared'
        BY <1>1, <1>2 DEF Queued, Items, Well, Numbered
    <2>2. InFlight' = InFlight /\ sync_queue'.dropped = {}
        BY <1>3, <1>4, <1>5 DEF InFlight, t
    <2>3. (enqueued + 1)..enqueued' = {}
        BY <1>1, <1>2 DEF TypeInv, AppTypes
    <2>4. QED
        BY <2>1, <2>2, <2>3 DEF Remembered, Enqueued
<1>11. KeepsDraining'
    BY <1>9 DEF KeepsDraining, t
<1>12. QED
    BY <1>2, <1>8, <1>10, <1>11 DEF GoodStep, t

\* A request goes on: its item is the same.
LEMMA RequestStep ==
    ASSUME QueueInv, TypeInv', NEW r \in futures, NEW q, q.item = r.item,
           futures' = (futures \ {r}) \cup {q}, UNCHANGED <<sync_queue, enqueued>>
    PROVE  GoodStep
<1>1. Well(sync_queue, futures, enqueued) /\ sync_queue.spawned = {} /\ futures' \subseteq Requests
    BY DEF QueueInv, TypeInv, QueueTypes
<1>2. Flying(sync_queue, futures') = Flying(sync_queue, futures)
    BY DEF Flying
<1>3. Numbered(sync_queue, futures', enqueued)
    <2>1. \A a, b \in futures : a.item.no = b.item.no => a = b
        BY <1>1 DEF Well, Numbered
    <2>2. \A a \in futures \ {r} : a.item.no # q.item.no
        BY <2>1
    <2>3. \A a, b \in futures' \cup sync_queue.spawned : a.item.no = b.item.no => a = b
        BY <1>1, <2>1, <2>2
    <2>4. QED
        BY <1>1, <1>2, <2>3 DEF Well, Numbered
<1>4. Well(sync_queue, futures', enqueued)
    BY <1>1, <1>2, <1>3 DEF Well, DependenciesLive, Live, WaitingLive, CountedLive
<1>5. InFlight' = InFlight /\ Queued' = Queued
    BY DEF InFlight, Queued
<1>6. Remembered
    <2>1. (enqueued + 1)..enqueued' = {}
        BY DEF QueueInv, TypeInv, AppTypes
    <2>2. QED
        BY <1>5, <2>1 DEF Remembered, Enqueued
<1>7. KeepsDraining'
    BY DEF KeepsDraining, QueueInv
<1>8. QED
    BY <1>4, <1>6, <1>7 DEF GoodStep

\* A callback that has answered the item of its request, and let go of it.
LEMMA CallBackStep ==
    ASSUME QueueInv, NEW r \in futures, NEW s, Well(s, futures, enqueued), Traceless(s, r.item.no),
           Progress(sync_queue, s), r.item.no \in s.answered, CallBack(r, s), enqueued' = enqueued
    PROVE  GoodStep
<1>1. Well(s, futures \ {r}, enqueued)
    BY EndedKeepsWell
<1>2. \A q \in futures : q \in futures \ {r} \/ q.item.no \in s.answered
    OBVIOUS
<1>3. TypeInv /\ Becomes(Dequeued(s), futures \ {r})
    BY DEF QueueInv, CallBack
<1>4. \A n \in (enqueued + 1)..enqueued' : Placed(s, n)
    BY <1>3, NothingEnqueued
<1>5. Well(sync_queue', futures', enqueued) /\ KeepsDraining' /\ Remembered
    BY <1>1, <1>2, <1>3, <1>4, DequeuedStep
<1>6. QED
    BY <1>5 DEF GoodStep

LEMMA InFlightItem ==
    ASSUME QueueInv, NEW r \in futures
    PROVE  /\ r.item \in Flying(sync_queue, futures) /\ r.item \in GoodItem /\ r \in Requests
           /\ sync_queue \in Structs /\ sync_queue \in Tidy
           /\ r.item.op \in {"create", "bulk", "update", "action"}
           /\ Well(sync_queue, futures, enqueued)
<1>1. Well(sync_queue, futures, enqueued)
    BY DEF QueueInv
<1>2. r.item \in Flying(sync_queue, futures)
    BY DEF Flying
<1>3. QED
    BY <1>1, <1>2, WellTypes, ItemIds

\* An event more says nothing of what is queued, or waited for.
LEMMA SameKeepsWell ==
    ASSUME NEW s, NEW left, NEW m, Well(s, left, m), NEW t \in Tidy, Same(s, t)
    PROVE  Well(t, left, m)
<1>1. Items(t) = Items(s) /\ IsInjective(t.queue)
    BY DEF Same, Items, Well, Numbered
<1>2. DependenciesLive(t, left)
    BY <1>1, SameLive DEF Same, Well, DependenciesLive
<1>3. QED
    BY <1>1, <1>2, LessKeepsWell DEF Same

LEMMA CreateSucceededOf ==
    ASSUME QueueInv, NEW r \in futures, r.item.op = "create"
    PROVE  LET t == AfterCreation(r.item) IN
           /\ Well(t, futures, enqueued) /\ Traceless(t, r.item.no)
           /\ Progress(sync_queue, t) /\ r.item.no \in t.answered
<1> DEFINE o == ObjectOf(r.item)
           s == IF o \in Enums THEN Replaced(sync_queue, r.item, o) ELSE sync_queue
           t == CreationSucceeded(s, r.item, o)
<1>1. /\ r.item \in Flying(sync_queue, futures) /\ r.item \in GoodItem
      /\ sync_queue \in Structs /\ sync_queue \in Tidy /\ Well(sync_queue, futures, enqueued)
    BY InFlightItem
<1>2. t = AfterCreation(r.item)
    BY DEF AfterCreation
<1>3. o \in Objects(r.item) /\ o \in Object
    BY <1>1, ItemIds
<1>4. Well(s, futures, enqueued) /\ Progress(sync_queue, s) /\ s.spawned = sync_queue.spawned /\ s.dropped = sync_queue.dropped
    <2> DEFINE u == Replaced(sync_queue, r.item, o)
    <2>1. u \in Tidy /\ Rewritten(sync_queue, u)
        BY <1>1, ReplacedType, ReplacedTidy
    <2> HIDE DEF u, o
    <2>2. Well(u, futures, enqueued) /\ Progress(sync_queue, u) /\ u.spawned = sync_queue.spawned /\ u.dropped = sync_queue.dropped
        BY <1>1, <2>1, RewrittenKeepsWell, RewrittenProgress DEF Rewritten
    <2>3. Progress(sync_queue, sync_queue)
        BY SameProgress
    <2>4. QED
        BY <1>1, <2>2, <2>3 DEF u
<1> HIDE DEF s
<1>5. r.item \in Flying(s, futures)
    BY <1>1, <1>4 DEF Flying
<1> HIDE DEF o
<1>6. Well(t, futures, enqueued) /\ Traceless(t, r.item.no)
    BY <1>2, <1>3, <1>4, <1>5, CreationSucceededKeepsWell
<1>7. Progress(s, t) /\ r.item.no \in t.answered
    BY <1>1, <1>3, <1>4, WellTypes, CreationSucceededProgress
<1> HIDE DEF t
<1>8. Progress(sync_queue, t)
    BY <1>4, <1>7, ProgressGoesOn
<1>9. QED
    BY <1>2, <1>6, <1>7, <1>8

LEMMA CreateSucceededStep ==
    ASSUME QueueInv, NEW r \in futures, CreateSucceeded(r)
    PROVE  GoodStep
<1> DEFINE t == AfterCreation(r.item)
<1>1. r.item.op = "create" /\ CallBack(r, t) /\ enqueued' = enqueued
    BY DEF CreateSucceeded, AfterCreation
<1>2. /\ Well(t, futures, enqueued) /\ Traceless(t, r.item.no)
      /\ Progress(sync_queue, t) /\ r.item.no \in t.answered
    BY <1>1, CreateSucceededOf
<1> HIDE DEF t
<1>3. QED
    BY <1>1, <1>2, CallBackStep

LEMMA NextObject ==
    ASSUME QueueInv, NEW r \in futures, r.item.op = "bulk", NEW created \in Seq(Objects(r.item)),
           NEW k \in 1..Len(created), NEW t \in AfterObjects(r.item, created, k - 1)
    PROVE  Dequeued(CreationSucceeded(t, r.item, created[k])) \in AfterObjects(r.item, created, k)
<1> DEFINE item == r.item
           o == created[k]
           c == CreationSucceeded(t, item, o)
           u == Dequeued(c)
<1>1. /\ item \in GoodItem /\ item.op = "bulk" /\ o \in Objects(item) /\ o \in Object
    BY InFlightItem, ItemIds
<1>2. /\ t \in Tidy /\ t \in Structs
      /\ Well(t, futures, enqueued) /\ Progress(sync_queue, t)
      /\ \A j \in 1..(k - 1) : created[j] \notin t.in_flight_bulk_create_objects[item.no]
    BY DEF AfterObjects, Tidy
<1> HIDE DEF o
<1>3. item \in Flying(t, futures)
    BY DEF Flying
<1> HIDE DEF item
<1>4. /\ Well(c, futures, enqueued) /\ c.spawned = t.spawned /\ c.dropped = t.dropped
      /\ c.in_flight_bulk_create_objects[item.no] = t.in_flight_bulk_create_objects[item.no] \ {o}
    BY <1>1, <1>2, <1>3, CreationSucceededKeepsWell
<1>5. Progress(t, c) /\ item.no \in c.answered
    BY <1>1, <1>2, CreationSucceededProgress
<1> HIDE DEF c
<1>6. item \in Flying(c, futures)
    BY <1>3, <1>4 DEF Flying
<1>7. /\ Well(u, futures, enqueued)
      /\ u.should_dequeue = c.should_dequeue
      /\ c.should_dequeue /\ u.spawned = {} => Ready(u) = {}
      /\ u.in_flight_bulk_create_objects[item.no] = c.in_flight_bulk_create_objects[item.no]
    BY <1>4, <1>6, DequeuedKeepsWell
<1>8. Progress(c, u)
    BY <1>4, DequeuedProgress
<1> HIDE DEF u
<1>9. Progress(sync_queue, u) /\ item.no \in u.answered
    <2>1. Progress(sync_queue, c)
        BY <1>2, <1>5, ProgressGoesOn
    <2>2. Progress(sync_queue, u)
        BY <1>8, <2>1, ProgressGoesOn
    <2>3. QED
        BY <1>5, <1>8, <2>2 DEF Progress
<1>10. ASSUME NEW j \in 1..k PROVE created[j] \notin u.in_flight_bulk_create_objects[item.no]
    <2>1. j \in 1..(k - 1) \/ j = k
        OBVIOUS
    <2>2. QED
        BY <1>2, <1>4, <1>7, <2>1 DEF o
<1>11. u \in Tidy
    BY <1>7 DEF Well
<1>12. u \in AfterObjects(item, created, k)
    BY <1>7, <1>9, <1>10, <1>11 DEF AfterObjects
<1>13. QED
    BY <1>12 DEF u, c, o, item

\* A sequence of all the objects of an item.
LEMMA AllOfThem ==
    ASSUME NEW item \in GoodItem, NEW created \in Seq(Object), ToSet(created) = Objects(item)
    PROVE  created \in Seq(Objects(item)) /\ Len(created) \in Nat /\ Len(created) > 0
<1>1. /\ Len(created) \in Nat /\ DOMAIN created = 1..Len(created)
      /\ \A k \in 1..Len(created) : created[k] \in Objects(item)
    BY DEF ToSet
<1>2. created \in Seq(Objects(item))
    BY <1>1, IsASeq
<1>3. Len(created) # 0
    <2>1. Objects(item) # {}
        BY ItemIds
    <2>2. QED
        BY <1>1, <2>1 DEF ToSet
<1>4. QED
    BY <1>1, <1>2, <1>3

\* When all of them have been created the request has left no trace.
LEMMA AllCreatedWell ==
    ASSUME QueueInv, NEW r \in futures, r.item.op = "bulk", NEW created \in Seq(Object),
           ToSet(created) = Objects(r.item), NEW t \in AfterObjects(r.item, created, Len(created))
    PROVE  Well(t, futures \ {r}, enqueued)
<1> DEFINE item == r.item
           n == Len(created)
<1>1. /\ item \in Flying(sync_queue, futures) /\ item \in GoodItem
      /\ sync_queue \in Structs /\ sync_queue \in Tidy /\ Well(sync_queue, futures, enqueued)
    BY InFlightItem
<1>2. /\ t \in Tidy /\ Well(t, futures, enqueued)
      /\ \A k \in 1..n : created[k] \notin t.in_flight_bulk_create_objects[item.no]
    BY DEF AfterObjects
<1>3. item \in Flying(t, futures)
    BY DEF Flying
<1>4. t.in_flight_bulk_create_objects[item.no] = {}
    <2>1. item.no \in ItemNo
        BY <1>1, ItemIds
    <2>2. \A o \in t.in_flight_bulk_create_objects[item.no] : o \in Objects(item)
        BY <1>2, <1>3, <2>1, OneFlying DEF Well, CountedLive
    <2>3. \A o \in Objects(item) : \E k \in 1..n : created[k] = o
        BY DEF ToSet
    <2>4. QED
        BY <1>2, <2>2, <2>3
<1> HIDE DEF item
<1>5. Traceless(t, item.no)
    BY <1>1, <1>2, <1>3, <1>4, CountedOut DEF item
<1>6. QED
    BY <1>2, <1>5, EndedKeepsWell DEF item

LEMMA BulkCreateSucceededStep ==
    ASSUME QueueInv, NEW r \in futures, BulkCreateSucceeded(r)
    PROVE  GoodStep
<1> DEFINE item == r.item
<1>1. /\ item \in GoodItem /\ sync_queue \in Tidy /\ Well(sync_queue, futures, enqueued)
    BY InFlightItem
<1>2. item.op = "bulk" /\ enqueued' = enqueued /\ TypeInv
    BY DEF BulkCreateSucceeded, QueueInv
<1>3. PICK created \in Seq(Object) :
         /\ ToSet(created) = Objects(item)
         /\ Becomes(AllCreated(sync_queue, item, created), futures \ {r})
    BY <1>2, BulkCreateSucceededTypes
<1> DEFINE n == Len(created)
           G == [k \in 0..n |-> AfterObjects(item, created, k)]
           t == AllCreated(sync_queue, item, created)
<1>4. created \in Seq(Objects(item)) /\ n \in Nat /\ n > 0
    BY <1>1, <1>3, AllOfThem
<1> HIDE DEF n
<1>5. sync_queue \in G[0]
    <2>1. Progress(sync_queue, sync_queue)
        BY SameProgress
    <2>2. sync_queue \in AfterObjects(item, created, 0)
        BY <1>1, <2>1 DEF AfterObjects
    <2>3. 0 \in 0..n
        BY <1>4
    <2>4. QED
        BY <2>2, <2>3
<1>6. ASSUME NEW k \in 1..n, NEW u \in G[k - 1]
      PROVE  Dequeued(CreationSucceeded(u, item, created[k])) \in G[k]
    <2>1. k \in 0..n /\ k - 1 \in 0..n /\ k \in 1..Len(created)
        BY <1>4 DEF n
    <2>2. u \in AfterObjects(item, created, k - 1)
        BY <2>1
    <2>3. Dequeued(CreationSucceeded(u, item, created[k])) \in AfterObjects(item, created, k)
        BY <1>2, <1>4, <2>1, <2>2, NextObject
    <2>4. QED
        BY <2>1, <2>3
<1>7. t \in AfterObjects(item, created, n)
    <2>1. Len(created) = n
        BY DEF n
    <2> HIDE DEF G, t
    <2>2. t \in G[n]
        BY <1>4, <1>5, <1>6, <2>1, AllCreatedIn DEF t
    <2>3. n \in 0..n
        BY <1>4
    <2>4. QED
        BY <2>2, <2>3 DEF G
<1>8. Becomes(t, futures \ {r})
    BY <1>3
<1> HIDE DEF t, G
<1>9. /\ t \in Tidy /\ Well(t, futures, enqueued) /\ Progress(sync_queue, t) /\ item.no \in t.answered
      /\ t.should_dequeue /\ t.spawned = {} => Ready(t) = {}
    BY <1>4, <1>7 DEF AfterObjects
<1>10. Well(t, futures \ {r}, enqueued)
    BY <1>2, <1>3, <1>7, AllCreatedWell DEF n
<1>11. \A q \in futures : q \in futures \ {r} \/ q.item.no \in t.answered
    BY <1>9
<1>12. Well(sync_queue', futures', enqueued) /\ Remembered
    BY <1>2, <1>8, <1>9, <1>10, <1>11, NothingEnqueued, BecomesWell
<1>13. KeepsDraining'
    <2>1. futures \ {r} \subseteq Requests
        BY <1>10 DEF Well
    <2>2. /\ futures' = (futures \ {r}) \cup t.spawned
          /\ sync_queue'.queue = t.queue /\ sync_queue'.queue_dependencies = t.queue_dependencies
          /\ sync_queue'.should_dequeue = t.should_dequeue
        BY <1>8, <1>9, <2>1, BecomesStruct
    <2>3. Ready(sync_queue)' = Ready(t)
        BY <2>2 DEF Ready
    <2>4. QED
        BY <1>9, <2>2, <2>3 DEF KeepsDraining
<1>14. QED
    BY <1>2, <1>12, <1>13 DEF GoodStep

\* The item of a request is answered and what waits for it is let go.
LEMMA LetGoOf ==
    ASSUME QueueInv, NEW r \in futures, r.item.op # "bulk", NEW kind \in Kinds, NEW ids,
           AwaitedIds(r.item) \subseteq ids
    PROVE  LET t == LetGo(sync_queue, kind, r.item, ids) IN
           /\ t \in Tidy /\ Well(t, futures, enqueued) /\ Traceless(t, r.item.no)
           /\ Progress(sync_queue, t) /\ r.item.no \in t.answered
<1> DEFINE item == r.item
           t == LetGo(sync_queue, kind, item, ids)
<1>1. /\ item \in Flying(sync_queue, futures) /\ item \in GoodItem
      /\ sync_queue \in Tidy /\ Well(sync_queue, futures, enqueued)
      /\ item.op # "bulk" /\ AwaitedIds(item) \subseteq ids
    BY InFlightItem
<1> HIDE DEF item
<1>2. Well(t, futures, enqueued)
    BY <1>1, LetGoKeepsWell
<1>3. Traceless(t, item.no)
    BY <1>1, LetGoTraceless
<1>4. Progress(sync_queue, t) /\ item.no \in t.answered
    BY <1>1, LetGoProgress
<1>5. t \in Tidy
    BY <1>2 DEF Well
<1>6. QED
    BY <1>2, <1>3, <1>4, <1>5 DEF item

LEMMA DeniedOf ==
    ASSUME QueueInv, NEW r \in futures, r.item.op = "create"
    PROVE  LET t == Denied(r) IN
           /\ t \in Tidy /\ Well(t, futures, enqueued) /\ Traceless(t, r.item.no)
           /\ Progress(sync_queue, t) /\ r.item.no \in t.answered
<1>1. TypeInv /\ "denied" \in Kinds /\ r.item.op # "bulk"
    BY DEF QueueInv, Kinds
<1>2. AwaitedIds(r.item) \subseteq r.item.ids
    BY DEF AwaitedIds
<1>3. Denied(r) = LetGo(sync_queue, "denied", r.item, r.item.ids)
    BY <1>1, DeniedType
<1>4. QED
    BY <1>1, <1>2, <1>3, LetGoOf

LEMMA CreateDeniedStep ==
    ASSUME QueueInv, NEW r \in futures, CreateDenied(r)
    PROVE  GoodStep
<1> DEFINE d == Denied(r)
           t == Emitted(d, "failed", r.item, Objects(r.item))
<1>1. r.item.op = "create" /\ CallBack(r, t) /\ enqueued' = enqueued
    BY DEF CreateDenied, appVars
<1>2. /\ d \in Tidy /\ Well(d, futures, enqueued) /\ Traceless(d, r.item.no)
      /\ Progress(sync_queue, d) /\ r.item.no \in d.answered
    BY <1>1, DeniedOf
<1>3. "failed" \in Kinds /\ r.item \in GoodItem /\ d \in Structs
    BY <1>2, InFlightItem DEF Kinds, Tidy
<1> HIDE DEF d
<1>4. t \in Tidy
    BY <1>2, <1>3, EmittedTidy
<1>5. Same(d, t) /\ t.answered = d.answered \cup {r.item.no}
    BY <1>3, EmittedType
<1> HIDE DEF t
<1>6. Well(t, futures, enqueued)
    BY <1>2, <1>4, <1>5, SameKeepsWell
<1>7. Traceless(t, r.item.no)
    BY <1>2, <1>5 DEF Traceless, Same
<1>8. Progress(d, t)
    BY <1>5, SameProgress DEF Same
<1>9. Progress(sync_queue, t) /\ r.item.no \in t.answered
    BY <1>2, <1>5, <1>8, ProgressGoesOn
<1>10. QED
    BY <1>1, <1>6, <1>7, <1>9, CallBackStep

\* The object is enqueued again, without a folder, and the denial is remembered.
LEMMA CreateDeniedToTeamStep ==
    ASSUME QueueInv, NEW r \in futures, CreateDeniedToTeam(r)
    PROVE  GoodStep
<1> DEFINE item == Again(r)
           d == Denied(r)
           q == Dequeued(d)
           p == Pushed(q, item)
           t == Noted(p, {ObjectOf(r.item)})
           left == futures \ {r}
<1>1. TypeInv /\ enqueued \in Nat
    BY DEF QueueInv, TypeInv, AppTypes
<1>2. r.item.op = "create" /\ CallBack(r, t) /\ enqueued' = enqueued + 1
    BY DEF CreateDeniedToTeam, Again, Edited, Noted
<1>3. item \in GoodItem /\ item.no = enqueued + 1
    BY <1>1, CreateDeniedToTeamTypes
<1>4. /\ d \in Tidy /\ Well(d, futures, enqueued) /\ Traceless(d, r.item.no)
      /\ Progress(sync_queue, d) /\ r.item.no \in d.answered
    BY <1>2, DeniedOf
<1>5. {ObjectOf(r.item)} \in SUBSET Object
    BY InFlightItem, ItemIds
<1> HIDE DEF d, item, left
<1>6. Well(d, left, enqueued)
    BY <1>4, EndedKeepsWell DEF left
<1>7. Well(q, left, enqueued) /\ Progress(d, q)
    BY <1>6, DequeuedKeepsWell, DequeuedProgress
<1> HIDE DEF q
<1>8. Well(p, left, enqueued + 1)
    BY <1>1, <1>3, <1>7, PushedKeepsWell
<1>9. Progress(q, p) /\ Placed(p, enqueued + 1)
    BY <1>3, <1>7, WellTypes, PushedProgress
<1> HIDE DEF p
<1>10. t \in Tidy /\ Same(p, t) /\ t.answered = p.answered
    BY <1>5, <1>8, WellTypes, NotedType
<1> HIDE DEF t
<1>11. Well(t, left, enqueued + 1)
    BY <1>8, <1>10, SameKeepsWell
<1>12. Progress(p, t)
    BY <1>10, SameProgress DEF Same
<1>13. Progress(sync_queue, t) /\ r.item.no \in t.answered /\ Placed(t, enqueued + 1)
    <2>1. Progress(sync_queue, q)
        BY <1>4, <1>7, ProgressGoesOn
    <2>2. Progress(sync_queue, p)
        BY <1>9, <2>1, ProgressGoesOn
    <2>3. Progress(sync_queue, t)
        BY <1>12, <2>2, ProgressGoesOn
    <2>4. QED
        BY <1>4, <1>7, <1>9, <1>12, <2>3, PlacedStays DEF Progress
<1>14. Becomes(Dequeued(t), left) /\ \A x \in futures : x \in left \/ x.item.no \in t.answered
    BY <1>2, <1>13 DEF CallBack, left
<1>15. \A n \in (enqueued + 1)..enqueued' : Placed(t, n)
    BY <1>1, <1>2, <1>13
<1>16. Well(sync_queue', futures', enqueued + 1) /\ KeepsDraining' /\ Remembered
    BY <1>1, <1>11, <1>13, <1>14, <1>15, DequeuedStep
<1>17. QED
    BY <1>2, <1>16 DEF GoodStep

LEMMA CreationFailedOf ==
    ASSUME QueueInv, NEW r \in futures, r.item.op \in {"create", "bulk"}
    PROVE  LET t == CreationFailed(sync_queue, r.item) IN
           /\ Well(t, futures, enqueued) /\ Traceless(t, r.item.no)
           /\ Progress(sync_queue, t) /\ r.item.no \in t.answered
<1>1. /\ r.item \in Flying(sync_queue, futures) /\ r.item \in GoodItem
      /\ sync_queue \in Structs /\ Well(sync_queue, futures, enqueued)
    BY InFlightItem
<1>2. QED
    BY <1>1, CreationFailedKeepsWell, CreationFailedProgress

LEMMA OtherFailedOf ==
    ASSUME QueueInv, NEW r \in futures, r.item.op \in {"update", "action"}
    PROVE  LET t == OtherFailed(sync_queue, r.item) IN
           /\ Well(t, futures, enqueued) /\ Traceless(t, r.item.no)
           /\ Progress(sync_queue, t) /\ r.item.no \in t.answered
<1>1. /\ r.item \in Flying(sync_queue, futures) /\ r.item \in GoodItem
      /\ sync_queue \in Structs /\ Well(sync_queue, futures, enqueued)
    BY InFlightItem
<1>2. QED
    BY <1>1, OtherFailedKeepsWell, OtherFailedProgress

LEMMA UniqueKeyConflictStep ==
    ASSUME QueueInv, NEW r \in futures, UniqueKeyConflict(r)
    PROVE  GoodStep
<1> DEFINE t == CreationFailed(sync_queue, r.item)
<1>1. r.item.op \in {"create", "bulk"} /\ CallBack(r, t) /\ enqueued' = enqueued
    BY DEF UniqueKeyConflict
<1>2. /\ Well(t, futures, enqueued) /\ Traceless(t, r.item.no)
      /\ Progress(sync_queue, t) /\ r.item.no \in t.answered
    BY <1>1, CreationFailedOf
<1> HIDE DEF t
<1>3. QED
    BY <1>1, <1>2, CallBackStep

LEMMA OtherSucceededOf ==
    ASSUME QueueInv, NEW r \in futures, r.item.op \in {"update", "action"}, NEW kind \in Kinds
    PROVE  LET t == OtherSucceeded(r, kind) IN
           /\ t \in Tidy /\ Well(t, futures, enqueued) /\ Traceless(t, r.item.no)
           /\ Progress(sync_queue, t) /\ r.item.no \in t.answered
<1> DEFINE ids == {Server(ObjectOf(r.item))}
<1>1. TypeInv /\ r.item.op # "bulk" /\ AwaitedIds(r.item) \subseteq ids
    BY DEF QueueInv, AwaitedIds
<1>2. OtherSucceeded(r, kind) = LetGo(sync_queue, kind, r.item, ids)
    BY <1>1, OtherSucceededType
<1> HIDE DEF ids
<1>3. QED
    BY <1>1, <1>2, LetGoOf

LEMMA UpdateSucceededStep ==
    ASSUME QueueInv, NEW r \in futures, UpdateSucceeded(r)
    PROVE  GoodStep
<1> DEFINE u == OtherSucceeded(r, "done")
           o == ObjectOf(r.item)
           t == Revised(u, o, r.rev)
<1>1. r.item.op = "update" /\ CallBack(r, t) /\ enqueued' = enqueued /\ "done" \in Kinds
    BY DEF UpdateSucceeded, Kinds
<1>2. /\ u \in Tidy /\ Well(u, futures, enqueued) /\ Traceless(u, r.item.no)
      /\ Progress(sync_queue, u) /\ r.item.no \in u.answered
    BY <1>1, OtherSucceededOf
<1>3. r.rev \in Nat /\ u \in Structs
    BY <1>2, InFlightItem DEF Requests, Tidy
<1> HIDE DEF u, o
<1>4. t \in Tidy /\ Rewritten(u, t)
    BY <1>2, <1>3, RevisedTidy, RevisedType
<1> HIDE DEF t
<1>5. Well(t, futures, enqueued)
    BY <1>2, <1>4, RewrittenKeepsWell
<1>6. Progress(u, t) /\ t.answered = u.answered
    BY <1>4, RewrittenProgress DEF Rewritten
<1>7. Traceless(t, r.item.no)
    BY <1>2, <1>4 DEF Traceless, Rewritten
<1>8. Progress(sync_queue, t) /\ r.item.no \in t.answered
    BY <1>2, <1>6, ProgressGoesOn
<1>9. QED
    BY <1>1, <1>5, <1>7, <1>8, CallBackStep

LEMMA OtherAnsweredStep ==
    ASSUME QueueInv, NEW r \in futures, UpdateRejected(r) \/ ActionRecorded(r)
    PROVE  GoodStep
<1>1. PICK kind \in Kinds : CallBack(r, OtherSucceeded(r, kind))
    BY DEF UpdateRejected, ActionRecorded, Kinds
<1>2. r.item.op \in {"update", "action"}
    BY InFlightItem DEF UpdateRejected, ActionRecorded, Requests
<1>3. enqueued' = enqueued
    BY DEF UpdateRejected, ActionRecorded, appVars
<1> DEFINE t == OtherSucceeded(r, kind)
<1>4. /\ t \in Tidy /\ Well(t, futures, enqueued) /\ Traceless(t, r.item.no)
      /\ Progress(sync_queue, t) /\ r.item.no \in t.answered
    BY <1>2, OtherSucceededOf
<1> HIDE DEF t
<1>5. QED
    BY <1>1, <1>3, <1>4, CallBackStep DEF t

\* After an error that every request would meet the queue waits for the next
\* item, or to be switched on.
LEMMA RequestFailedStep ==
    ASSUME QueueInv, NEW r \in futures, RequestFailed(r)
    PROVE  GoodStep
<1> DEFINE t == IF r.item.op \in {"create", "bulk"} THEN CreationFailed(sync_queue, r.item)
                ELSE OtherFailed(sync_queue, r.item)
<1>1. r.item.op \in {"create", "bulk", "update", "action"}
    BY InFlightItem
<1>2. /\ Well(t, futures, enqueued) /\ Traceless(t, r.item.no)
      /\ Progress(sync_queue, t) /\ r.item.no \in t.answered
    <2>1. CASE r.item.op \in {"create", "bulk"}
        BY <2>1, CreationFailedOf
    <2>2. CASE r.item.op \notin {"create", "bulk"}
        BY <1>1, <2>2, OtherFailedOf
    <2>3. QED
        BY <2>1, <2>2
<1>3. CallBack(r, t) \/ (Becomes(t, futures \ {r}) /\ halted' = TRUE)
    BY DEF RequestFailed
<1>4. enqueued' = enqueued /\ TypeInv
    BY DEF RequestFailed, appVars, QueueInv
<1> HIDE DEF t
<1>5. CASE CallBack(r, t)
    BY <1>2, <1>4, <1>5, CallBackStep
<1>6. CASE Becomes(t, futures \ {r}) /\ halted' = TRUE
    <2>1. Well(t, futures \ {r}, enqueued)
        BY <1>2, EndedKeepsWell
    <2>2. \A q \in futures : q \in futures \ {r} \/ q.item.no \in t.answered
        BY <1>2
    <2>3. Well(sync_queue', futures', enqueued) /\ Remembered
        BY <1>2, <1>4, <1>6, <2>1, <2>2, NothingEnqueued, BecomesWell
    <2>4. KeepsDraining'
        BY <1>6 DEF KeepsDraining
    <2>5. QED
        BY <1>4, <2>3, <2>4 DEF GoodStep
<1>7. QED
    BY <1>3, <1>5, <1>6

\* A request that arrives, or is sent again.
LEMMA RequestMoves ==
    ASSUME QueueInv, TypeInv', NEW r \in futures, ServerReceives(r) \/ RequestFailedRetryPending(r)
    PROVE  GoodStep
<1>1. r \in Requests /\ UNCHANGED <<sync_queue, enqueued>>
    BY InFlightItem DEF ServerReceives, RequestFailedRetryPending, appVars
<1>2. \E q : q.item = r.item /\ futures' = (futures \ {r}) \cup {q}
    <2>1. CASE Applied(r)
        <3> DEFINE q == [r EXCEPT !.at = "applied", !.rev = Len(log'[ObjectOf(r.item)])]
        <3>1. futures' = (futures \ {r}) \cup {q}
            BY <2>1 DEF Applied
        <3>2. q.item = r.item
            BY <1>1 DEF Requests
        <3>3. QED
            BY <3>1, <3>2
    <2>2. CASE futures' = (futures \ {r}) \cup {[r EXCEPT !.at = "refused"]}
        <3>1. [r EXCEPT !.at = "refused"].item = r.item
            BY <1>1 DEF Requests
        <3>2. QED
            BY <2>2, <3>1
    <2>3. CASE RequestFailedRetryPending(r)
        <3> DEFINE q == [r EXCEPT !.at = "sent", !.retries = @ - 1, !.rev = 0]
        <3>1. futures' = (futures \ {r}) \cup {q}
            BY <2>3 DEF RequestFailedRetryPending
        <3>2. q.item = r.item
            BY <1>1 DEF Requests
        <3>3. QED
            BY <3>1, <3>2
    <2>4. QED
        BY <2>1, <2>2, <2>3 DEF ServerReceives
<1>3. QED
    BY <1>1, <1>2, RequestStep

-----------------------------------------------------------------------------
(* The theorems                                                             *)

LEMMA NextGood ==
    ASSUME QueueInv, [Next]_vars
    PROVE  QueueInv' /\ Remembered
<1>1. TypeInv /\ TypeInv'
    BY NextTypes DEF QueueInv
<1>2. ASSUME UserEnqueues PROVE GoodStep
    BY <1>1, <1>2, EnqueuesOne, EnqueueStep
<1>3. ASSUME StartDequeueing \/ StopDequeueing \/ Clear PROVE GoodStep
    BY <1>3, StartStep, StopStep, ClearStep
<1>4. ASSUME NEW r \in futures,
             \/ ServerReceives(r)
             \/ CreateSucceeded(r) \/ BulkCreateSucceeded(r)
             \/ CreateDenied(r) \/ CreateDeniedToTeam(r) \/ UniqueKeyConflict(r)
             \/ UpdateSucceeded(r) \/ UpdateRejected(r) \/ ActionRecorded(r)
             \/ RequestFailedRetryPending(r) \/ RequestFailed(r)
      PROVE  GoodStep
    BY <1>1, <1>4, RequestMoves, CreateSucceededStep, BulkCreateSucceededStep, CreateDeniedStep,
       CreateDeniedToTeamStep, UniqueKeyConflictStep, UpdateSucceededStep, OtherAnsweredStep,
       RequestFailedStep
<1>5. ASSUME UNCHANGED vars PROVE GoodStep
    <2>1. UNCHANGED <<sync_queue, futures, enqueued, halted>>
        BY <1>5 DEF vars, appVars
    <2>2. Queued' = Queued /\ InFlight' = InFlight
        BY <2>1 DEF Queued, InFlight
    <2>3. Well(sync_queue', futures', enqueued')
        BY <2>1 DEF QueueInv
    <2>4. KeepsDraining'
        BY <2>1 DEF QueueInv, KeepsDraining, Ready
    <2>5. (enqueued + 1)..enqueued' = {}
        BY <1>1, <2>1 DEF TypeInv, AppTypes
    <2>6. QED
        BY <2>1, <2>2, <2>3, <2>4, <2>5 DEF GoodStep, Remembered, Enqueued
<1>6. GoodStep
    BY <1>2, <1>3, <1>4, <1>5 DEF Next, UserEnqueues
<1>7. QED
    BY <1>1, <1>6 DEF GoodStep, QueueInv

LEMMA WellNotStuck ==
    ASSUME QueueInv
    PROVE  NothingStuck
<1>1. Well(sync_queue, futures, enqueued) /\ sync_queue.spawned = {} /\ KeepsDraining
    BY DEF QueueInv, TypeInv, QueueTypes
<1>2. ASSUME NEW n \in Queued, NEW d \in sync_queue.queue_dependencies[n]
      PROVE  d[1] \in Queued \cup InFlight \cup Numbers(DroppedCreations)
    <2>1. n \in ItemNo
        BY <1>1, WellTypes, ItemIds DEF Queued, Items
    <2>2. PICK i \in Items(sync_queue) \cup Flying(sync_queue, futures) : Names(sync_queue, d, i)
        BY <1>1, <2>1 DEF Well, DependenciesLive, Live
    <2>3. d[1] = i.no
        BY <2>2 DEF Names, OnItem, OnObject
    <2>4. i.no \in Queued \cup InFlight \cup Numbers(DroppedCreations)
        BY <1>1, <2>2 DEF Items, Flying, Queued, InFlight, Numbers, DroppedCreations
    <2>5. QED
        BY <2>3, <2>4
<1>3. QED
    BY <1>1, <1>2 DEF NothingStuck, WaitsOnlyForPending, Numbers

LEMMA QueueInvAlways == Spec => []QueueInv
<1>1. Init => QueueInv
    BY InitWell
<1>2. QueueInv /\ [Next]_vars => QueueInv'
    BY NextGood
<1>3. QED
    BY <1>1, <1>2, PTL DEF Spec

\* An item waits only for items that are queued or in flight, so that it is let
\* go or told that it has failed when they end, or for a creation that was
\* skipped because its folder had no server id; and while the queue is on, and
\* the last request has not failed for a reason that concerns every item, an
\* item that waits for nothing never stays in the queue without a request
\* whose answer will ask for it.
THEOREM QueueMoves == Spec => []NothingStuck
<1>1. QueueInv => NothingStuck
    BY WellNotStuck
<1>2. QED
    BY <1>1, QueueInvAlways, PTL

\* An item that leaves the queue without a request in flight was answered with
\* an event, unless the user has logged out since it was enqueued or it was
\* skipped with a log line only; and what is skipped is an action on an object
\* without a server id or a creation in a folder without one, never an update.
THEOREM ChangesAccounted == Spec => NothingForgotten
<1>1. QueueInv /\ [Next]_vars => [Remembered]_vars
    BY NextGood
<1>2. Spec => [][Remembered]_vars
    BY <1>1, QueueInvAlways, PTL DEF Spec
<1>3. [Remembered]_vars =>
         [/\ \A n \in Enqueued \ (Queued' \cup InFlight') :
                n \in sync_queue'.answered \/ n <= cleared'
                \/ \E i \in sync_queue'.dropped : i.no = n
          /\ \A i \in sync_queue'.dropped \ sync_queue.dropped :
                i.op # "update" /\ ~Resolved(sync_queue, i)]_vars
    BY DEF Remembered
<1>4. QED
    BY <1>2, <1>3, PTL DEF NothingForgotten

-----------------------------------------------------------------------------
(* One's own edits: the order of the updates of an object, and the revisions *)
(* they carry.                                                               *)

LEMMA AliveItems ==
    ASSUME NEW s, NEW left, NEW m, Well(s, left, m)
    PROVE  /\ Requested(s, left) \subseteq Flying(s, left)
           /\ \A i \in Alive(s, left) : i \in GoodItem /\ i.no # 0
<1>1. Requested(s, left) \subseteq Flying(s, left)
    BY DEF Requested, Flying
<1>2. Alive(s, left) \subseteq GoodItem
    BY <1>1, WellTypes DEF Alive
<1>3. QED
    BY <1>1, <1>2, ItemIds DEF ItemNo

LEMMA AlikeObjects ==
    ASSUME NEW i, NEW j, Alike(i, j)
    PROVE  /\ IdOf(j) = IdOf(i) /\ ObjectOf(j) = ObjectOf(i) /\ Objects(j) = Objects(i)
           /\ j.no = i.no /\ j.op = i.op /\ j.edit = i.edit
    BY DEF Alike, IdOf, ObjectOf, Objects

LEMMA EasesKeepsOrder ==
    ASSUME NEW s, NEW t, NEW left, NEW n, Orderly(s, left), Eases(s, t, n), left \cup s.spawned \subseteq Requests,
           \A i \in Alive(s, left) : i.no # n,
           \A i \in Creations(Alive(s, left)) : Objects(i) \cap t.client_id_to_server = {}
    PROVE  Orderly(t, left)
<1>1. Requested(t, left) = Requested(s, left) /\ Requested(s, left) \subseteq GoodItem
    BY DEF Eases, Requested, Requests
<1>2. ASSUME NEW j \in Items(t)
      PROVE  \E i \in Items(s) :
                 /\ IdOf(j) = IdOf(i) /\ ObjectOf(j) = ObjectOf(i) /\ Objects(j) = Objects(i)
                 /\ j.no = i.no /\ j.op = i.op
                 /\ \A d \in s.queue_dependencies[j.no] : d[1] = n \/ d \in t.queue_dependencies[j.no]
    <2>1. PICK i \in Items(s) : Alike(i, j) /\ \A d \in s.queue_dependencies[i.no] : d[1] = n \/ d \in t.queue_dependencies[i.no]
        BY DEF Eases
    <2>2. QED
        BY <2>1, AlikeObjects
<1>3. ASSUME NEW j \in Alive(t, left)
      PROVE  \E i \in Alive(s, left) :
                 /\ IdOf(j) = IdOf(i) /\ ObjectOf(j) = ObjectOf(i) /\ Objects(j) = Objects(i)
                 /\ j.no = i.no /\ j.op = i.op
    BY <1>1, <1>2 DEF Alive
<1>4. UpdatesWait(t, left)
    <2>1. ASSUME NEW i \in Updates(Alive(t, left)), NEW j \in Updates(Items(t)),
                 ObjectOf(i) = ObjectOf(j), i.no < j.no
          PROVE  OnItem(i.no) \in t.queue_dependencies[j.no]
        <3>1. PICK a \in Updates(Alive(s, left)) : a.no = i.no /\ ObjectOf(a) = ObjectOf(i)
            BY <1>3 DEF Updates
        <3>2. PICK b \in Updates(Items(s)) :
                  /\ b.no = j.no /\ ObjectOf(b) = ObjectOf(j)
                  /\ \A d \in s.queue_dependencies[j.no] : d[1] = n \/ d \in t.queue_dependencies[j.no]
            BY <1>2 DEF Updates
        <3>3. OnItem(i.no) \in s.queue_dependencies[j.no]
            BY <2>1, <3>1, <3>2 DEF Orderly, UpdatesWait
        <3>4. OnItem(i.no)[1] # n
            BY <3>1 DEF OnItem, Updates
        <3>5. QED
            BY <3>2, <3>3, <3>4
    <2>2. ASSUME NEW i \in Updates(Requested(t, left)), NEW j \in Updates(Items(t)), ObjectOf(i) = ObjectOf(j)
          PROVE  i.no < j.no
        <3>1. PICK b \in Updates(Items(s)) : b.no = j.no /\ ObjectOf(b) = ObjectOf(j)
            BY <1>2 DEF Updates
        <3>2. QED
            BY <1>1, <2>2, <3>1 DEF Orderly, UpdatesWait
    <2>3. \A i, j \in Updates(Requested(t, left)) : ObjectOf(i) = ObjectOf(j) => i.no = j.no
        BY <1>1 DEF Orderly, UpdatesWait
    <2>4. QED
        BY <2>1, <2>2, <2>3 DEF UpdatesWait
<1>5. UpdatesKnown(t, left)
    <2>1. ASSUME NEW i \in Updates(Requested(t, left))
          PROVE  i.no \in t.waiting_response[Server(ObjectOf(i))] /\ ObjectOf(i) \in t.client_id_to_server
        <3>1. i \in GoodItem /\ i \in Alive(s, left)
            BY <1>1 DEF Updates, Alive
        <3>2. ObjectOf(i) \in Object
            BY <3>1, ItemIds
        <3>3. Server(ObjectOf(i)) \in SyncId
            BY <3>2, IdsOfObjects
        <3>4. i.no \in s.waiting_response[Server(ObjectOf(i))] /\ ObjectOf(i) \in s.client_id_to_server
            BY <1>1 DEF Orderly, UpdatesKnown
        <3>5. i.no # n
            BY <3>1
        <3>6. QED
            BY <3>3, <3>4, <3>5 DEF Eases
    <2>2. ASSUME NEW i \in Updates(Items(t)), IdOf(i)[1] = "server"
          PROVE  ObjectOf(i) \in t.client_id_to_server
        <3>1. PICK a \in Updates(Items(s)) : IdOf(i) = IdOf(a) /\ ObjectOf(i) = ObjectOf(a)
            BY <1>2 DEF Updates
        <3>2. QED
            BY <2>2, <3>1 DEF Orderly, UpdatesKnown, Eases
    <2>3. QED
        BY <2>1, <2>2 DEF UpdatesKnown
<1>6. CreatedOnce(t, left)
    <2>1. ASSUME NEW i \in Creations(Alive(t, left)), NEW j \in Creations(Alive(t, left)),
                 Objects(i) \cap Objects(j) # {}
          PROVE  i.no = j.no
        <3>1. PICK a \in Creations(Alive(s, left)) : a.no = i.no /\ Objects(a) = Objects(i)
            BY <1>3 DEF Creations
        <3>2. PICK b \in Creations(Alive(s, left)) : b.no = j.no /\ Objects(b) = Objects(j)
            BY <1>3 DEF Creations
        <3>3. QED
            BY <2>1, <3>1, <3>2 DEF Orderly, CreatedOnce
    <2>2. ASSUME NEW i \in Creations(Alive(t, left))
          PROVE  Objects(i) \cap t.client_id_to_server = {}
        <3>1. PICK a \in Creations(Alive(s, left)) : Objects(a) = Objects(i)
            BY <1>3 DEF Creations
        <3>2. QED
            BY <3>1
    <2>3. QED
        BY <2>1, <2>2 DEF CreatedOnce
<1>7. JustSent(t)
    BY DEF Orderly, JustSent, Eases
<1>8. QED
    BY <1>4, <1>5, <1>6, <1>7 DEF Orderly

LEMMA SameRevisionsCurrent ==
    ASSUME NEW s, NEW t, NEW left, NEW revision, NEW objects, Current(s, left, revision, objects),
           SameRevisions(s, t)
    PROVE  Current(t, left, revision, objects)
<1> SUFFICES ASSUME NEW j \in Updates(Alive(t, left)), ObjectOf(j) \in objects \ Folders
             PROVE  j.rev \in {0, revision[ObjectOf(j)]}
    BY DEF Current
<1>1. PICK i \in Updates(Alive(s, left)) : ObjectOf(i) = ObjectOf(j) /\ i.rev = j.rev
    <2>1. CASE j \in Items(t)
        <3>1. PICK i \in Items(s) : Alike(i, j) /\ i.rev = j.rev
            BY <2>1 DEF SameRevisions
        <3>2. QED
            BY <3>1, AlikeObjects DEF Updates, Alive
    <2>2. CASE j \in Requested(t, left)
        BY <2>2 DEF SameRevisions, Requested, Alive, Updates
    <2>3. QED
        BY <2>1, <2>2 DEF Updates, Alive
<1>2. QED
    BY <1>1 DEF Current

\* An item that waits for nothing is sent: the updates of its object before it
\* have been answered.
LEMMA SentKeepsOrder ==
    ASSUME NEW s, NEW all, NEW m, Well(s, all, m), NEW left \in SUBSET all, Orderly(s, left),
           NEW t, NEW sent \in SUBSET Items(s), Sent(s, t, sent), \A i, j \in sent : i = j,
           \A i \in sent : s.queue_dependencies[i.no] = {} /\ Resolved(s, i)
    PROVE  Orderly(t, left)
<1>1. /\ Items(s) \subseteq GoodItem /\ Requested(s, left) \subseteq GoodItem
      /\ \A i, j \in Items(s) : i.no = j.no => i = j
      /\ left \cup s.spawned \subseteq Requests
    <2>1. Requested(s, left) \subseteq Flying(s, all)
        BY DEF Requested, Flying
    <2>2. QED
        BY <2>1, WellTypes DEF Well, Numbered
<1>2. Requested(t, left) = Requested(s, left) \cup sent
    <2>1. \A i \in sent : Request(i).item = i
        BY <1>1, RequestType
    <2>2. t.spawned = s.spawned \cup {Request(i) : i \in sent} /\ t.dropped = s.dropped
        BY DEF Sent
    <2>3. QED
        BY <2>1, <2>2 DEF Requested
<1>3. Items(t) = Items(s) \ sent /\ Alive(t, left) = Alive(s, left)
    BY <1>2 DEF Sent, Alive
<1>4. ASSUME NEW j \in Items(t) PROVE t.queue_dependencies[j.no] = s.queue_dependencies[j.no]
    <2>1. j.no \in ItemNo
        BY <1>1, <1>3, ItemIds
    <2>2. j.no \notin Numbers(sent)
        BY <1>1, <1>3 DEF Numbers
    <2>3. QED
        BY <2>1, <2>2 DEF Sent
<1>5. \A i \in Alive(s, left) : i.no \in ItemNo
    BY <1>1, ItemIds DEF Alive
<1>6. ASSUME NEW i \in Updates(sent), NEW j \in Updates(Alive(s, left)), ObjectOf(i) = ObjectOf(j)
      PROVE  ~(j.no < i.no)
    BY <1>6 DEF Orderly, UpdatesWait, Updates
<1>7. UpdatesWait(t, left)
    <2>1. ASSUME NEW i \in Updates(Alive(t, left)), NEW j \in Updates(Items(t)),
                 ObjectOf(i) = ObjectOf(j), i.no < j.no
          PROVE  OnItem(i.no) \in t.queue_dependencies[j.no]
        BY <1>3, <1>4, <2>1 DEF Orderly, UpdatesWait, Updates
    <2>2. ASSUME NEW i \in Updates(Requested(t, left)), NEW j \in Updates(Items(t)), ObjectOf(i) = ObjectOf(j)
          PROVE  i.no < j.no
        <3>1. CASE i \in Requested(s, left)
            BY <1>3, <2>2, <3>1 DEF Orderly, UpdatesWait, Updates
        <3>2. CASE i \in sent
            <4>1. ~(j.no < i.no) /\ i.no # j.no
                BY <1>1, <1>3, <1>6, <2>2, <3>2 DEF Updates, Alive
            <4>2. i.no \in ItemNo /\ j.no \in ItemNo
                BY <1>3, <1>5, <3>2 DEF Updates, Alive
            <4>3. QED
                BY <4>1, <4>2 DEF ItemNo
        <3>3. QED
            BY <1>2, <3>1, <3>2 DEF Updates
    <2>3. ASSUME NEW i \in Updates(sent), NEW j \in Updates(Requested(s, left)), ObjectOf(i) = ObjectOf(j)
          PROVE  FALSE
        <3>1. j.no < i.no
            BY <2>3 DEF Orderly, UpdatesWait, Updates
        <3>2. QED
            BY <1>6, <2>3, <3>1 DEF Updates, Alive
    <2>4. ASSUME NEW i \in Updates(Requested(t, left)), NEW j \in Updates(Requested(t, left)),
                 ObjectOf(i) = ObjectOf(j)
          PROVE  i.no = j.no
        <3>1. CASE i \in sent /\ j \in sent
            BY <3>1
        <3>2. CASE i \in sent /\ j \in Requested(s, left)
            BY <2>3, <2>4, <3>2 DEF Updates
        <3>3. CASE i \in Requested(s, left) /\ j \in sent
            BY <2>3, <2>4, <3>3 DEF Updates
        <3>4. CASE i \in Requested(s, left) /\ j \in Requested(s, left)
            BY <2>4, <3>4 DEF Orderly, UpdatesWait, Updates
        <3>5. QED
            BY <1>2, <3>1, <3>2, <3>3, <3>4 DEF Updates
    <2>5. QED
        BY <2>1, <2>2, <2>4 DEF UpdatesWait
<1>8. UpdatesKnown(t, left)
    <2>1. ASSUME NEW i \in Updates(Requested(t, left))
          PROVE  /\ i.no \in t.waiting_response[Server(ObjectOf(i))]
                 /\ ObjectOf(i) \in t.client_id_to_server
        <3>1. i \in GoodItem /\ i.op = "update" /\ t.client_id_to_server = s.client_id_to_server
            BY <1>1, <1>2 DEF Updates, Sent
        <3>2. Server(ObjectOf(i)) \in SyncId
            BY <3>1, ItemIds, IdsOfObjects
        <3>3. t.waiting_response[Server(ObjectOf(i))] =
                  s.waiting_response[Server(ObjectOf(i))] \cup
                      {j.no : j \in {j \in sent : Server(ObjectOf(i)) \in AwaitedIds(j)}}
            BY <3>2 DEF Sent
        <3>4. CASE i \in Requested(s, left)
            BY <3>1, <3>3, <3>4 DEF Orderly, UpdatesKnown, Updates
        <3>5. CASE i \in sent
            <4>1. Server(ObjectOf(i)) \in AwaitedIds(i)
                BY <3>1 DEF AwaitedIds
            <4>2. HasServerId(s, IdOf(i))
                BY <3>1, <3>5 DEF Resolved
            <4>3. ObjectOf(i) \in s.client_id_to_server
                BY <3>1, <3>5, <4>2 DEF HasServerId, ObjectOf, Orderly, UpdatesKnown, Updates
            <4>4. QED
                BY <3>1, <3>3, <3>5, <4>1, <4>3
        <3>6. QED
            BY <1>2, <3>4, <3>5 DEF Updates
    <2>2. \A i \in Updates(Items(t)) : IdOf(i)[1] = "server" => ObjectOf(i) \in t.client_id_to_server
        BY <1>3 DEF Orderly, UpdatesKnown, Updates, Sent
    <2>3. QED
        BY <2>1, <2>2 DEF UpdatesKnown
<1>9. CreatedOnce(t, left)
    BY <1>3 DEF Orderly, CreatedOnce, Sent
<1>10. JustSent(t)
    <2>1. \A i \in sent : Request(i).at = "sent"
        BY DEF Request
    <2>2. QED
        BY <2>1 DEF Orderly, JustSent, Sent
<1>11. QED
    BY <1>7, <1>8, <1>9, <1>10 DEF Orderly

LEMMA DequeuedKeepsOrder ==
    ASSUME NEW s, NEW all, NEW m, Well(s, all, m), NEW left \in SUBSET all, Orderly(s, left),
           NEW revision, NEW objects, Current(s, left, revision, objects)
    PROVE  /\ Orderly(Dequeued(s), left) /\ Current(Dequeued(s), left, revision, objects)
           /\ Dequeued(s).client_id_to_server = s.client_id_to_server
           /\ Alive(Dequeued(s), left) \subseteq Alive(s, left)
<1> DEFINE k == Skipped(s, Tried(s))
           t == Dequeued(s)
           sent == NextSent(s)
<1>1. CASE ~s.should_dequeue
    BY <1>1 DEF Dequeued
<1>2. CASE s.should_dequeue
    <2>1. /\ Well(k, all, m)
          /\ \A id \in SyncId : s.waiting_response[id] \subseteq k.waiting_response[id]
          /\ k.client_id_to_server = s.client_id_to_server /\ k.spawned = s.spawned
          /\ Items(k) \subseteq Items(s) \ Tried(s)
          /\ \A i \in Items(s) : s.queue_dependencies[i.no] = {} /\ i \notin Tried(s) => i \in Items(k)
          /\ \A i \in Items(k) : k.queue_dependencies[i.no] = s.queue_dependencies[i.no]
        BY SkippedKeepsWell
    <2>2. s \in Structs /\ left \cup s.spawned \subseteq Requests
          /\ Items(s) \subseteq GoodItem /\ Flying(s, all) \subseteq GoodItem
        BY WellTypes
    <2>3. /\ \A i \in sent : i \in Items(s) /\ s.queue_dependencies[i.no] = {} /\ Resolved(s, i)
          /\ \A i, j \in sent : i = j
          /\ \A i \in Tried(s) : ~Resolved(s, i)
        BY <2>2, NextChosen
    <2>4. Sent(k, t, sent)
        BY <1>2, DequeuedSends
    <2> HIDE DEF k, t, sent
    <2>5. Eases(s, k, 0)
        BY <2>1 DEF Eases, Alike
    <2>6. SameRevisions(s, k)
        BY <2>1 DEF SameRevisions, Alike
    <2>7. \A i \in Alive(s, left) : i.no # 0
        <3>1. Requested(s, left) \subseteq Flying(s, all)
            BY DEF Requested, Flying
        <3>2. QED
            BY <2>2, <3>1, ItemIds DEF Alive, ItemNo
    <2>8. Orderly(k, left)
        <3>1. \A i \in Creations(Alive(s, left)) : Objects(i) \cap k.client_id_to_server = {}
            BY <2>1 DEF Orderly, CreatedOnce
        <3>2. QED
            BY <2>2, <2>5, <2>7, <3>1, EasesKeepsOrder
    <2>9. sent \subseteq Items(k) /\ \A i \in sent : k.queue_dependencies[i.no] = {} /\ Resolved(k, i)
        <3>1. \A i \in sent : i \in Items(k)
            BY <2>1, <2>3
        <3>2. \A i : Resolved(s, i) => Resolved(k, i)
            BY <2>1 DEF Resolved, HasServerId
        <3>3. QED
            BY <2>1, <2>3, <3>1, <3>2
    <2>10. Orderly(t, left)
        BY <2>1, <2>3, <2>4, <2>8, <2>9, SentKeepsOrder
    <2>11. Current(k, left, revision, objects)
        BY <2>6, SameRevisionsCurrent
    <2>12. Alive(t, left) = Alive(k, left)
        <3>1. \A i \in sent : Request(i).item = i
            BY <2>2, <2>3, RequestType
        <3>2. QED
            BY <2>4, <2>9, <3>1 DEF Sent, Alive, Requested
    <2>13. Current(t, left, revision, objects)
        BY <2>11, <2>12 DEF Current
    <2>14. t.client_id_to_server = s.client_id_to_server
        BY <2>1, <2>4 DEF Sent
    <2>15. Alive(k, left) \subseteq Alive(s, left)
        BY <2>1 DEF Alive, Requested
    <2>16. QED
        BY <2>10, <2>12, <2>13, <2>14, <2>15 DEF t
<1>3. QED
    BY <1>1, <1>2

\* With fewer requests left.
LEMMA LessOrderly ==
    ASSUME NEW s, NEW all, Orderly(s, all), NEW left \in SUBSET all,
           NEW revision, NEW objects, Current(s, all, revision, objects)
    PROVE  Orderly(s, left) /\ Current(s, left, revision, objects)
<1>1. Requested(s, left) \subseteq Requested(s, all)
    BY DEF Requested
<1>2. Alive(s, left) \subseteq Alive(s, all)
    BY <1>1 DEF Alive
<1>3. UpdatesWait(s, left) /\ UpdatesKnown(s, left)
    BY <1>1, <1>2 DEF Orderly, UpdatesWait, UpdatesKnown, Updates
<1>4. CreatedOnce(s, left)
    BY <1>2 DEF Orderly, CreatedOnce, Creations
<1>5. QED
    BY <1>2, <1>3, <1>4 DEF Orderly, Current, Updates

\* The queue is the same, and what waits for item n may have been let go.
LEMMA SameQueueEases ==
    ASSUME NEW s, NEW t, NEW n, t.queue = s.queue, t.spawned = s.spawned,
           s.client_id_to_server \subseteq t.client_id_to_server,
           \A i \in Items(s) : \A d \in s.queue_dependencies[i.no] : d[1] = n \/ d \in t.queue_dependencies[i.no],
           \A id \in SyncId : \A k \in s.waiting_response[id] : k = n \/ k \in t.waiting_response[id]
    PROVE  Eases(s, t, n) /\ SameRevisions(s, t)
<1>1. Items(t) = Items(s) /\ \A i \in Items(s) : Alike(i, i)
    BY DEF Items, Alike
<1>2. QED
    BY <1>1 DEF Eases, SameRevisions

LEMMA LetGoEases ==
    ASSUME NEW s \in Tidy, NEW kind \in Kinds, NEW item \in GoodItem, NEW ids
    PROVE  LET t == LetGo(s, kind, item, ids) IN
           Eases(s, t, item.no) /\ SameRevisions(s, t) /\ t.client_id_to_server = s.client_id_to_server
<1> DEFINE t == LetGo(s, kind, item, ids)
<1>1. /\ t.queue = s.queue
      /\ t.queue_dependencies = [n \in ItemNo |-> s.queue_dependencies[n] \ {OnItem(item.no)}]
      /\ t.waiting_response =
             [id \in SyncId |-> IF id \in ids THEN s.waiting_response[id] \ {item.no}
                                ELSE s.waiting_response[id]]
      /\ t.client_id_to_server = s.client_id_to_server
      /\ t.spawned = s.spawned
    BY LetGoType
<1>2. \A i \in Items(s) : i.no \in ItemNo
    BY StructFields, ItemIds DEF Tidy
<1> HIDE DEF t
<1>3. \A i \in Items(s) : \A d \in s.queue_dependencies[i.no] : d[1] = item.no \/ d \in t.queue_dependencies[i.no]
    BY <1>1, <1>2 DEF OnItem
<1>4. \A id \in SyncId : \A k \in s.waiting_response[id] : k = item.no \/ k \in t.waiting_response[id]
    BY <1>1
<1>5. Eases(s, t, item.no) /\ SameRevisions(s, t)
    BY <1>1, <1>3, <1>4, SameQueueEases
<1>6. QED
    BY <1>1, <1>5 DEF t

LEMMA SameEases ==
    ASSUME NEW s, NEW t, NEW n, Same(s, t)
    PROVE  Eases(s, t, n) /\ SameRevisions(s, t) /\ t.client_id_to_server = s.client_id_to_server
    BY SameQueueEases DEF Same

\* Items fall out.
LEMMA FallsOutEases ==
    ASSUME NEW s, NEW t, NEW n, NEW ds, NEW gone, FallsOut(s, t, ds, gone), Items(s) \subseteq GoodItem,
           \A i, j \in Items(s) : i.no = j.no => i = j,
           \A id \in SyncId : \A k \in s.waiting_response[id] : k = n \/ k \in t.waiting_response[id],
           t.client_id_to_server = s.client_id_to_server, t.spawned = s.spawned
    PROVE  Eases(s, t, n) /\ SameRevisions(s, t)
<1>1. ASSUME NEW j \in Items(t)
      PROVE  j \in Items(s) /\ t.queue_dependencies[j.no] = s.queue_dependencies[j.no]
    <2>1. j \in Items(s) /\ j \notin gone /\ gone \subseteq Items(s)
        BY DEF FallsOut
    <2>2. j.no \in ItemNo /\ j.no \notin Numbers(gone)
        BY <2>1, ItemIds DEF Numbers
    <2>3. QED
        BY <2>1, <2>2 DEF FallsOut
<1>2. \A i : Alike(i, i)
    BY DEF Alike
<1>3. QED
    BY <1>1, <1>2 DEF Eases, SameRevisions

LEMMA CreationFailedEases ==
    ASSUME NEW s, NEW all, NEW m, Well(s, all, m), NEW item \in GoodItem
    PROVE  LET t == CreationFailed(s, item) IN
           Eases(s, t, item.no) /\ SameRevisions(s, t) /\ t.client_id_to_server = s.client_id_to_server
<1> DEFINE t == CreationFailed(s, item)
           ds == {CreationDependency(s, item, o) : o \in Objects(item)}
<1>1. s \in Structs /\ Items(s) \subseteq GoodItem
    BY WellTypes
<1>2. \A i, j \in Items(s) : i.no = j.no => i = j
    BY DEF Well, Numbered
<1>3. /\ \E gone : /\ FallsOut(s, t, ds, gone)
                   /\ t.answered = s.answered \cup {item.no} \cup Numbers(gone)
                   /\ Tells(s, t, "failed", (ObjectsOf(item.ids) \cap Shown({item})) \cup Shown(gone))
      /\ t.waiting_response =
             [id \in SyncId |-> IF id \in item.ids THEN s.waiting_response[id] \ {item.no}
                                ELSE s.waiting_response[id]]
      /\ t.client_id_to_server = s.client_id_to_server /\ t.spawned = s.spawned
    BY <1>1, CreationFailedType
<1> HIDE DEF t, ds
<1>4. PICK gone : FallsOut(s, t, ds, gone)
    BY <1>3
<1>5. \A id \in SyncId : \A k \in s.waiting_response[id] : k = item.no \/ k \in t.waiting_response[id]
    BY <1>3
<1>6. Eases(s, t, item.no) /\ SameRevisions(s, t)
    BY <1>1, <1>2, <1>3, <1>4, <1>5, FallsOutEases
<1>7. QED
    BY <1>3, <1>6 DEF t

LEMMA OtherFailedEases ==
    ASSUME NEW s, NEW all, NEW m, Well(s, all, m), NEW item \in GoodItem
    PROVE  LET t == OtherFailed(s, item) IN
           Eases(s, t, item.no) /\ SameRevisions(s, t) /\ t.client_id_to_server = s.client_id_to_server
<1> DEFINE t == OtherFailed(s, item)
           ds == {OnItem(item.no)}
<1>1. s \in Structs /\ Items(s) \subseteq GoodItem
    BY WellTypes
<1>2. \A i, j \in Items(s) : i.no = j.no => i = j
    BY DEF Well, Numbered
<1>3. /\ \E gone : /\ FallsOut(s, t, ds, gone)
                   /\ t.answered = s.answered \cup {item.no} \cup Numbers(gone)
                   /\ Tells(s, t, "failed", ({ObjectOf(item)} \cap Shown({item})) \cup Shown(gone))
      /\ t.waiting_response =
             [id \in SyncId |-> IF id = Server(ObjectOf(item)) THEN s.waiting_response[id] \ {item.no}
                                ELSE s.waiting_response[id]]
      /\ t.client_id_to_server = s.client_id_to_server /\ t.spawned = s.spawned
    BY <1>1, OtherFailedType
<1> HIDE DEF t, ds
<1>4. PICK gone : FallsOut(s, t, ds, gone)
    BY <1>3
<1>5. \A id \in SyncId : \A k \in s.waiting_response[id] : k = item.no \/ k \in t.waiting_response[id]
    BY <1>3
<1>6. Eases(s, t, item.no) /\ SameRevisions(s, t)
    BY <1>1, <1>2, <1>3, <1>4, <1>5, FallsOutEases
<1>7. QED
    BY <1>3, <1>6 DEF t

LEMMA RewrittenEases ==
    ASSUME NEW s, NEW t, NEW n, Rewritten(s, t)
    PROVE  Eases(s, t, n) /\ t.client_id_to_server = s.client_id_to_server
<1>1. ASSUME NEW j \in Items(t) PROVE \E i \in Items(s) : Alike(i, j)
    <2>1. PICK k \in DOMAIN s.queue : j = t.queue[k]
        BY DEF Rewritten, Items, ToSet
    <2>2. s.queue[k] \in Items(s) /\ Alike(s.queue[k], j)
        BY <2>1 DEF Rewritten, Items, ToSet, Alike
    <2>3. QED
        BY <2>2
<1>2. QED
    BY <1>1 DEF Eases, Rewritten

LEMMA ReplacedEases ==
    ASSUME NEW s \in Structs, NEW item, NEW o, NEW n
    PROVE  LET t == Replaced(s, item, o) IN
           Eases(s, t, n) /\ SameRevisions(s, t) /\ t.client_id_to_server = s.client_id_to_server
<1> DEFINE t == Replaced(s, item, o)
<1>1. Rewritten(s, t)
    BY ReplacedType
<1>2. Eases(s, t, n) /\ t.client_id_to_server = s.client_id_to_server
    BY <1>1, RewrittenEases
<1>3. s.queue \in Seq(GoodItem) /\ Items(s) \subseteq GoodItem
    BY StructFields
<1>4. ASSUME NEW k \in DOMAIN s.queue
      PROVE  t.queue[k].rev = s.queue[k].rev
    <2> DEFINE i == s.queue[k]
    <2>1. i \in GoodItem
        BY <1>3, ElementsInSet
    <2>2. t.queue[k] = IF OnItem(item.no) \in s.queue_dependencies[i.no] THEN [i EXCEPT !.refs = @ \ {o}] ELSE i
        BY DEF Replaced, Structs
    <2>3. [i EXCEPT !.refs = @ \ {o}].rev = i.rev
        BY <2>1 DEF GoodItem, Item
    <2>4. QED
        BY <2>2, <2>3
<1> HIDE DEF t
<1>5. ASSUME NEW j \in Items(t) PROVE \E i \in Items(s) : Alike(i, j) /\ i.rev = j.rev
    <2>1. PICK k \in DOMAIN s.queue : j = t.queue[k]
        BY <1>1 DEF Rewritten, Items, ToSet
    <2>2. s.queue[k] \in Items(s) /\ Alike(s.queue[k], j)
        BY <1>1, <2>1 DEF Rewritten, Items, ToSet, Alike
    <2>3. QED
        BY <1>4, <2>1, <2>2
<1>6. SameRevisions(s, t)
    BY <1>1, <1>5 DEF SameRevisions, Rewritten
<1>7. QED
    BY <1>2, <1>6 DEF t

\* The updates of o that are queued learn its revision; none is in flight.
LEMMA RevisedCurrent ==
    ASSUME NEW s \in Structs, NEW left, Orderly(s, left), left \cup s.spawned \subseteq Requests,
           NEW revision, NEW o, Current(s, left, revision, Object \ {o}), o \in s.client_id_to_server,
           NEW rev \in Nat, revision[o] = rev, \A i \in Updates(Requested(s, left)) : ObjectOf(i) # o
    PROVE  Current(Revised(s, o, rev), left, revision, Object)
<1> DEFINE t == Revised(s, o, rev)
<1>1. Rewritten(s, t)
    BY RevisedType
<1>2. s.queue \in Seq(GoodItem) /\ Items(s) \subseteq GoodItem
    BY StructFields
<1>3. \A k \in DOMAIN s.queue :
         t.queue[k] = IF IsOf(s, s.queue[k], o) THEN [s.queue[k] EXCEPT !.rev = rev] ELSE s.queue[k]
    BY DEF Revised, Structs
<1> HIDE DEF t
<1>4. Requested(t, left) = Requested(s, left)
    BY <1>1 DEF Requested, Rewritten
<1> SUFFICES ASSUME NEW j \in Updates(Alive(t, left)), ObjectOf(j) \in Object \ Folders
             PROVE  j.rev \in {0, revision[ObjectOf(j)]}
    BY DEF Current, t
<1>5. CASE j \in Requested(t, left)
    BY <1>4, <1>5 DEF Current, Updates, Alive
<1>6. CASE j \in Items(t)
    <2>1. PICK k \in DOMAIN s.queue : j = t.queue[k]
        BY <1>1, <1>6 DEF Rewritten, Items, ToSet
    <2> DEFINE i == s.queue[k]
    <2>2. i \in Items(s) /\ i \in GoodItem
        BY <1>2, ElementsInSet DEF Items, ToSet
    <2>3. Alike(i, j)
        BY <1>1, <2>1 DEF Rewritten, Alike
    <2>4. j = IF IsOf(s, i, o) THEN [i EXCEPT !.rev = rev] ELSE i
        BY <1>3, <2>1
    <2> HIDE DEF i
    <2>5. ObjectOf(j) = ObjectOf(i) /\ i.op = "update"
        BY <2>3, AlikeObjects DEF Updates
    <2>6. CASE IsOf(s, i, o)
        <3>1. j.rev = rev
            BY <2>2, <2>4, <2>6 DEF GoodItem, Item
        <3>2. ObjectOf(i) = o
            BY <2>6 DEF IsOf
        <3>3. QED
            BY <2>5, <3>1, <3>2
    <2>7. CASE ~IsOf(s, i, o)
        <3>1. ObjectOf(i) # o
            BY <2>5, <2>7 DEF IsOf, HasServerId, ObjectOf
        <3>2. i \in Updates(Alive(s, left)) /\ ObjectOf(i) \in (Object \ {o}) \ Folders
            BY <2>2, <2>5, <3>1 DEF Updates, Alive
        <3>3. j = i
            BY <2>4, <2>7
        <3>4. QED
            BY <3>2, <3>3 DEF Current
    <2>8. QED
        BY <2>6, <2>7
<1>7. QED
    BY <1>5, <1>6 DEF Updates, Alive

\* The creation of o has been answered.
LEMMA CreationSucceededKeepsOrder ==
    ASSUME NEW s, NEW all, NEW m, Well(s, all, m), NEW item \in GoodItem, NEW o \in Objects(item),
           NEW left \in SUBSET all, Orderly(s, left),
           NEW revision, Current(s, left, revision, Object), revision[o] = 1,
           \A i \in Alive(s, left) : i.no # item.no,
           \A i \in Creations(Alive(s, left)) : o \notin Objects(i),
           o \notin s.client_id_to_server
    PROVE  LET t == CreationSucceeded(s, item, o) IN
           /\ Orderly(t, left) /\ Current(t, left, revision, Object)
           /\ t.client_id_to_server = s.client_id_to_server \cup {o}
           /\ \A j \in Alive(t, left) : \E i \in Alive(s, left) : Alike(i, j)
<1> DEFINE t == CreationSucceeded(s, item, o)
<1>1. /\ s \in Structs /\ left \cup s.spawned \subseteq Requests
      /\ Items(s) \subseteq GoodItem /\ o \in Object
    BY WellTypes, ItemIds
<1>2. \E f \in Structs : Created(s, f, t, item, o)
    BY <1>1, CreationSucceededType
<1> HIDE DEF t
<1>3. PICK f \in Structs : Created(s, f, t, item, o)
    BY <1>2
<1>4. /\ Rewritten(f, t) /\ t = Revised(f, o, 1)
      /\ f.queue = s.queue /\ f.spawned = s.spawned
      /\ f.client_id_to_server = s.client_id_to_server \cup {o}
    BY <1>3 DEF Created
<1>5. Eases(s, f, item.no) /\ SameRevisions(s, f)
    <2>1. \A i \in Items(s) : \A d \in s.queue_dependencies[i.no] : d[1] = item.no \/ d \in f.queue_dependencies[i.no]
        <3>1. CreationDependency(s, item, o)[1] = item.no
            BY DEF CreationDependency, OnItem, OnObject
        <3>2. \A i \in Items(s) : i.no \in ItemNo
            BY <1>1, ItemIds
        <3>3. QED
            BY <1>3, <3>1, <3>2 DEF Created
    <2>2. \A id \in SyncId : \A k \in s.waiting_response[id] : k = item.no \/ k \in f.waiting_response[id]
        BY <1>3 DEF Created
    <2>3. QED
        BY <1>4, <2>1, <2>2, SameQueueEases
<1>6. Orderly(f, left)
    <2>1. \A i \in Creations(Alive(s, left)) : Objects(i) \cap f.client_id_to_server = {}
        BY <1>4 DEF Orderly, CreatedOnce
    <2>2. QED
        BY <1>1, <1>5, <2>1, EasesKeepsOrder
<1>7. Current(f, left, revision, Object \ {o})
    BY <1>5, SameRevisionsCurrent DEF Current
<1>8. Requested(f, left) = Requested(s, left) /\ Alive(f, left) = Alive(s, left)
    BY <1>4 DEF Requested, Alive, Items
<1>9. \A i \in Updates(Requested(f, left)) : ObjectOf(i) # o
    BY <1>8 DEF Orderly, UpdatesKnown
<1>10. Current(t, left, revision, Object)
    BY <1>1, <1>4, <1>6, <1>7, <1>9, RevisedCurrent
<1>11. Eases(f, t, 0) /\ t.client_id_to_server = f.client_id_to_server
    BY <1>4, RewrittenEases
<1>12. Orderly(t, left)
    <2>1. \A i \in Alive(f, left) : i.no # 0
        <3>1. Requested(s, left) \subseteq GoodItem
            <4>1. Requested(s, left) \subseteq Flying(s, all)
                BY DEF Requested, Flying
            <4>2. QED
                BY <4>1, WellTypes
        <3>2. QED
            BY <1>1, <1>8, <3>1, ItemIds DEF Alive, ItemNo
    <2>2. \A i \in Creations(Alive(f, left)) : Objects(i) \cap t.client_id_to_server = {}
        BY <1>6, <1>11 DEF Orderly, CreatedOnce
    <2>3. left \cup f.spawned \subseteq Requests
        BY <1>1, <1>4
    <2>4. QED
        BY <1>6, <1>11, <2>1, <2>2, <2>3, EasesKeepsOrder
<1>13. \A j \in Alive(t, left) : \E i \in Alive(s, left) : Alike(i, j)
    <2>1. \A j \in Items(t) : \E i \in Items(f) : Alike(i, j)
        BY <1>11 DEF Eases
    <2>2. Requested(t, left) = Requested(f, left)
        BY <1>11 DEF Eases, Requested
    <2>3. \A j : Alike(j, j)
        BY DEF Alike
    <2>4. QED
        BY <1>8, <2>1, <2>2, <2>3 DEF Alive
<1>14. QED
    BY <1>4, <1>10, <1>11, <1>12, <1>13 DEF t

\* A new update waits for every update of its object.
LEMMA UpdatesInferred ==
    ASSUME NEW s, NEW left, Items(s) \subseteq GoodItem, UpdatesKnown(s, left),
           NEW item \in GoodItem, item.op = "update",
           IdOf(item)[1] = "server" => ObjectOf(item) \in s.client_id_to_server,
           NEW i \in Updates(Alive(s, left)), ObjectOf(i) = ObjectOf(item), i.no # item.no
    PROVE  OnItem(i.no) \in InferredDependencies(s, item)
<1> DEFINE o == ObjectOf(item)
<1>1. IdOf(item) \in {Client(o), Server(o)} /\ o = IdOf(item)[2]
    BY ItemIds, IdsOfObjects DEF ObjectOf
<1>2. OnItem(i.no) # OnItem(item.no) /\ i.op = "update"
    BY DEF OnItem, Updates
<1> HIDE DEF o
<1>3. SUFFICES OnItem(i.no) \in UpdateDependencies(s, IdOf(item))
    BY <1>2 DEF InferredDependencies
<1>4. CASE i \in Requested(s, left)
    <2>1. i.no \in s.waiting_response[Server(o)] /\ o \in s.client_id_to_server
        BY <1>4 DEF UpdatesKnown, Updates, o
    <2>2. OnItem(i.no) \in ItemsWith(s, Server(o))
        BY <2>1 DEF ItemsWith, Server
    <2>3. QED
        BY <1>1, <2>1, <2>2 DEF UpdateDependencies
<1>5. CASE i \in Items(s)
    <2>1. i \in GoodItem /\ IdOf(i) \in i.ids
        BY <1>5, ItemIds
    <2>2. OnItem(i.no) \in ItemsWith(s, IdOf(i))
        BY <1>2, <1>5, <2>1 DEF ItemsWith, Items
    <2>3. IdOf(i) \in {Client(o), Server(o)}
        <3>1. IdOf(i) \in SyncId /\ IdOf(i)[2] = o
            BY <2>1, ItemIds DEF ObjectOf, o
        <3>2. QED
            BY <3>1, IdsOfObjects
    <2>4. CASE IdOf(i) = IdOf(item)
        BY <2>2, <2>4 DEF UpdateDependencies
    <2>5. CASE IdOf(i) # IdOf(item)
        <3>1. IdOf(i) = Server(o) \/ IdOf(item) = Server(o)
            BY <1>1, <2>3, <2>5
        <3>2. o \in s.client_id_to_server
            BY <1>5, <3>1 DEF UpdatesKnown, Updates, Server, o
        <3>3. QED
            BY <1>1, <2>2, <2>3, <3>2 DEF UpdateDependencies
    <2>6. QED
        BY <2>4, <2>5
<1>6. QED
    BY <1>4, <1>5 DEF Updates, Alive

LEMMA PushedKeepsOrder ==
    ASSUME NEW s, NEW all, NEW m \in Nat, Well(s, all, m), NEW item \in GoodItem, item.no = m + 1,
           NEW left \in SUBSET all, Orderly(s, left),
           NEW revision, Current(s, left, revision, Object), Timely(s, left, revision, item)
    PROVE  LET t == Pushed(s, item) IN
           /\ Orderly(t, left) /\ Current(t, left, revision, Object)
           /\ t.client_id_to_server = s.client_id_to_server
<1> DEFINE t == Pushed(s, item)
<1>1. /\ s \in Structs /\ Items(s) \subseteq GoodItem /\ Requested(s, left) \subseteq GoodItem
    <2>1. Requested(s, left) \subseteq Flying(s, all)
        BY DEF Requested, Flying
    <2>2. QED
        BY <2>1, WellTypes
<1>2. /\ \E i \in GoodItem :
            /\ i.no = item.no /\ i.op = item.op /\ i.ids = item.ids /\ i.folder = item.folder
            /\ i.edit = item.edit /\ i.rev = item.rev
            /\ t.queue = Append(s.queue, i)
      /\ t.queue_dependencies =
            [n \in ItemNo |-> IF n = item.no THEN InferredDependencies(s, item)
                              ELSE s.queue_dependencies[n]]
      /\ t.waiting_response = s.waiting_response
      /\ t.client_id_to_server = s.client_id_to_server
      /\ t.spawned = s.spawned
    BY <1>1, PushedType
<1> HIDE DEF t
<1>3. PICK new \in GoodItem :
         /\ new.no = item.no /\ new.op = item.op /\ new.ids = item.ids /\ new.folder = item.folder
         /\ new.edit = item.edit /\ new.rev = item.rev
         /\ t.queue = Append(s.queue, new)
    BY <1>2
<1>4. Items(t) = Items(s) \cup {new} /\ Requested(t, left) = Requested(s, left)
    <2>1. s.queue \in Seq(GoodItem)
        BY <1>1, StructFields
    <2>2. QED
        BY <1>2, <1>3, <2>1, AppendedElements DEF Items, Requested
<1>5. Alive(t, left) = Alive(s, left) \cup {new}
    BY <1>4 DEF Alive
<1>6. IdOf(new) = IdOf(item) /\ ObjectOf(new) = ObjectOf(item) /\ Objects(new) = Objects(item)
    BY <1>3 DEF IdOf, ObjectOf, Objects
<1>7. \A i \in Alive(s, left) : i.no <= m /\ i.no \in ItemNo
    <2>1. \A i \in Items(s) \cup Flying(s, all) : i.no <= m
        BY DEF Well, Numbered
    <2>2. Requested(s, left) \subseteq Flying(s, all)
        BY DEF Requested, Flying
    <2>3. QED
        BY <1>1, <2>1, <2>2, ItemIds DEF Alive
<1>8. \A j \in Items(s) : t.queue_dependencies[j.no] = s.queue_dependencies[j.no] /\ j.no # item.no
    <2>1. \A j \in Items(s) : j.no \in ItemNo /\ j.no # m + 1
        BY <1>7 DEF Alive, ItemNo
    <2>2. QED
        BY <1>2, <2>1
<1>9. new.no \in ItemNo /\ t.queue_dependencies[new.no] = InferredDependencies(s, item)
    BY <1>2, <1>3, ItemIds
<1>10. UpdatesWait(t, left)
    <2>1. ASSUME NEW i \in Updates(Alive(t, left)), NEW j \in Updates(Items(t)),
                 ObjectOf(i) = ObjectOf(j), i.no < j.no
          PROVE  OnItem(i.no) \in t.queue_dependencies[j.no]
        <3>1. i \in Updates(Alive(s, left))
            <4>1. CASE i = new
                <5>1. j \in Items(s)
                    BY <1>4, <2>1, <4>1, <1>9 DEF Updates, ItemNo
                <5>2. j.no <= m /\ i.no = m + 1 /\ j.no \in ItemNo
                    BY <1>3, <1>7, <4>1, <5>1 DEF Alive
                <5>3. QED
                    BY <2>1, <5>2 DEF ItemNo
            <4>2. QED
                BY <1>5, <4>1 DEF Updates
        <3>2. CASE j = new
            <4>1. item.op = "update" /\ ObjectOf(i) = ObjectOf(item) /\ i.no # item.no
                BY <1>3, <1>6, <2>1, <3>1, <3>2, <1>7 DEF Updates, ItemNo
            <4>2. UpdatesKnown(s, left)
                BY DEF Orderly
            <4>3. IdOf(item)[1] = "server" => ObjectOf(item) \in s.client_id_to_server
                BY <4>1 DEF Timely
            <4>4. OnItem(i.no) \in InferredDependencies(s, item)
                BY <1>1, <3>1, <4>1, <4>2, <4>3, UpdatesInferred
            <4>5. QED
                BY <1>9, <3>2, <4>4
        <3>3. CASE j \in Items(s)
            BY <1>8, <2>1, <3>1, <3>3 DEF Orderly, UpdatesWait, Updates
        <3>4. QED
            BY <1>4, <3>2, <3>3 DEF Updates
    <2>2. ASSUME NEW i \in Updates(Requested(t, left)), NEW j \in Updates(Items(t)), ObjectOf(i) = ObjectOf(j)
          PROVE  i.no < j.no
        <3>1. i \in Updates(Requested(s, left)) /\ i \in Alive(s, left)
            BY <1>4 DEF Updates, Alive
        <3>2. CASE j = new
            BY <1>3, <1>7, <3>1, <3>2 DEF ItemNo
        <3>3. CASE j \in Items(s)
            BY <2>2, <3>1, <3>3 DEF Orderly, UpdatesWait, Updates
        <3>4. QED
            BY <1>4, <3>2, <3>3 DEF Updates
    <2>3. \A i, j \in Updates(Requested(t, left)) : ObjectOf(i) = ObjectOf(j) => i.no = j.no
        BY <1>4 DEF Orderly, UpdatesWait
    <2>4. QED
        BY <2>1, <2>2, <2>3 DEF UpdatesWait
<1>11. UpdatesKnown(t, left)
    <2>1. \A i \in Updates(Requested(t, left)) :
             /\ i.no \in t.waiting_response[Server(ObjectOf(i))]
             /\ ObjectOf(i) \in t.client_id_to_server
        BY <1>2, <1>4 DEF Orderly, UpdatesKnown
    <2>2. \A i \in Updates(Items(t)) : IdOf(i)[1] = "server" => ObjectOf(i) \in t.client_id_to_server
        BY <1>2, <1>3, <1>4, <1>6 DEF Orderly, UpdatesKnown, Updates, Timely
    <2>3. QED
        BY <2>1, <2>2 DEF UpdatesKnown
<1>12. CreatedOnce(t, left)
    <2>1. new \in Creations({new}) =>
             /\ Objects(new) \cap s.client_id_to_server = {}
             /\ \A i \in Creations(Alive(s, left)) : Objects(i) \cap Objects(new) = {}
        BY <1>3, <1>6 DEF Timely, Creations
    <2>2. Creations(Alive(t, left)) = Creations(Alive(s, left)) \cup Creations({new})
        BY <1>5 DEF Creations
    <2>3. Creations({new}) \subseteq {new}
        BY DEF Creations
    <2>4. \A i, j \in Creations(Alive(t, left)) : Objects(i) \cap Objects(j) # {} => i.no = j.no
        BY <2>1, <2>2, <2>3 DEF Orderly, CreatedOnce
    <2>5. \A i \in Creations(Alive(t, left)) : Objects(i) \cap t.client_id_to_server = {}
        BY <1>2, <2>1, <2>2, <2>3 DEF Orderly, CreatedOnce
    <2>6. QED
        BY <2>4, <2>5 DEF CreatedOnce
<1>13. JustSent(t)
    BY <1>2 DEF Orderly, JustSent
<1>14. Current(t, left, revision, Object)
    BY <1>3, <1>5, <1>6 DEF Current, Updates, Timely
<1>15. QED
    BY <1>2, <1>10, <1>11, <1>12, <1>13, <1>14 DEF Orderly, t

-----------------------------------------------------------------------------
(* The steps, and the revisions that the server has given out.             *)

\* The struct that a call leaves, with its requests.
LEMMA BecomesOrderly ==
    ASSUME NEW t \in Tidy, NEW left, left \subseteq Requests, Becomes(t, left), Orderly(t, left),
           NEW revision, Current(t, left, revision, Object)
    PROVE  /\ Orderly(sync_queue', futures') /\ Current(sync_queue', futures', revision, Object)
           /\ sync_queue'.client_id_to_server = t.client_id_to_server
           /\ left \subseteq futures' /\ \A q \in futures' : q \in left \/ q.at = "sent"
<1> DEFINE s == sync_queue'
           all == futures'
<1>1. /\ all = left \cup t.spawned /\ s.spawned = {}
      /\ s.queue = t.queue /\ s.queue_dependencies = t.queue_dependencies
      /\ s.waiting_response = t.waiting_response
      /\ s.client_id_to_server = t.client_id_to_server
    BY BecomesStruct DEF QueueTypes
<1> HIDE DEF s, all
<1>2. Requested(s, all) = Requested(t, left) /\ Items(s) = Items(t)
    BY <1>1 DEF Requested, Items
<1>3. Alive(s, all) = Alive(t, left)
    BY <1>2 DEF Alive
<1>4. UpdatesWait(s, all) /\ UpdatesKnown(s, all)
    BY <1>1, <1>2, <1>3 DEF Orderly, UpdatesWait, UpdatesKnown
<1>5. CreatedOnce(s, all) /\ Current(s, all, revision, Object)
    BY <1>1, <1>3 DEF Orderly, CreatedOnce, Current
<1>6. JustSent(s)
    BY <1>1 DEF JustSent
<1>7. \A q \in all : q \in left \/ q.at = "sent"
    BY <1>1 DEF Orderly, JustSent
<1>8. QED
    BY <1>1, <1>4, <1>5, <1>6, <1>7 DEF Orderly, s, all

LEMMA DequeuedOrderly ==
    ASSUME NEW t, NEW left, NEW m, Well(t, left, m), Becomes(Dequeued(t), left), Orderly(t, left),
           NEW revision, Current(t, left, revision, Object)
    PROVE  /\ Orderly(sync_queue', futures') /\ Current(sync_queue', futures', revision, Object)
           /\ sync_queue'.client_id_to_server = t.client_id_to_server
           /\ left \subseteq futures' /\ \A q \in futures' : q \in left \/ q.at = "sent"
<1> DEFINE u == Dequeued(t)
<1>1. /\ Orderly(u, left) /\ Current(u, left, revision, Object)
      /\ u.client_id_to_server = t.client_id_to_server
    <2>1. left \in SUBSET left
        OBVIOUS
    <2>2. QED
        BY <2>1, DequeuedKeepsOrder
<1>2. u \in Tidy /\ left \subseteq Requests
    BY DequeuedKeepsWell DEF Well
<1> HIDE DEF u
<1>3. QED
    BY <1>1, <1>2, BecomesOrderly DEF u

\* No request ends that the server has applied, but of an action.
LEMMA RevisionsKept ==
    ASSUME Revisions, UNCHANGED <<log, latest>>,
           sync_queue'.client_id_to_server = sync_queue.client_id_to_server,
           \A q \in futures' : q \in futures \/ q.at = "sent" \/ (q.at = "applied" /\ q.item.op = "action"),
           \A r \in futures : r.at = "applied" /\ r.item.op # "action" => r \in futures'
    PROVE  Revisions'
<1>1. \A o : (CreationApplied(o) => CreationApplied(o)') /\ (UpdateApplied(o) => UpdateApplied(o)')
    BY DEF CreationApplied, UpdateApplied
<1>2. ASSUME NEW o \in Object \ sync_queue'.client_id_to_server
      PROVE  latest'[o] = 0 /\ (log'[o] = <<>> \/ CreationApplied(o)')
    BY <1>1 DEF Revisions
<1>3. ASSUME NEW o \in sync_queue'.client_id_to_server
      PROVE  log'[o] # <<>> /\ (latest'[o] = Len(log'[o]) \/ UpdateApplied(o)')
    BY <1>1 DEF Revisions
<1>4. ASSUME NEW r \in futures'
      PROVE  /\ r.at # "refused"
             /\ r.at = "applied" /\ r.item.op \in {"create", "bulk"} =>
                   r.rev = 1 /\ \A o \in Objects(r.item) : Len(log'[o]) = 1
             /\ r.at = "applied" /\ r.item.op = "update" => r.rev = Len(log'[ObjectOf(r.item)])
    BY DEF Revisions
<1>5. QED
    BY <1>2, <1>3, <1>4 DEF Revisions

\* No other item has the number of a request that ends.
LEMMA EndedAlone ==
    ASSUME QueueInv, NEW r \in futures
    PROVE  /\ \A i \in Alive(sync_queue, futures \ {r}) : i.no # r.item.no
           /\ (futures \ {r}) \cup sync_queue.spawned \subseteq Requests
           /\ sync_queue.spawned = {} /\ futures \subseteq Requests
<1>1. Well(sync_queue, futures, enqueued) /\ sync_queue.spawned = {} /\ futures \subseteq Requests
    BY DEF QueueInv, TypeInv, QueueTypes
<1>2. r.item \in Flying(sync_queue, futures)
    BY DEF Flying
<1>3. \A i \in Items(sync_queue) : i.no # r.item.no
    BY <1>1, <1>2 DEF Well, Numbered
<1>4. \A q \in futures \ {r} : q.item.no # r.item.no
    BY <1>1 DEF Well, Numbered
<1>5. QED
    BY <1>1, <1>3, <1>4 DEF Alive, Requested

\* A request is answered, and its item is not waited for any more.
LEMMA AnsweredOrder ==
    ASSUME QueueInv, Orderly(sync_queue, futures), Current(sync_queue, futures, latest, Object),
           NEW r \in futures, NEW t, Eases(sync_queue, t, r.item.no), SameRevisions(sync_queue, t),
           t.client_id_to_server = sync_queue.client_id_to_server
    PROVE  Orderly(t, futures \ {r}) /\ Current(t, futures \ {r}, latest, Object)
<1> DEFINE left == futures \ {r}
<1>1. /\ \A i \in Alive(sync_queue, left) : i.no # r.item.no
      /\ left \cup sync_queue.spawned \subseteq Requests
    BY EndedAlone
<1>2. left \in SUBSET futures
    OBVIOUS
<1> HIDE DEF left
<1>3. Orderly(sync_queue, left) /\ Current(sync_queue, left, latest, Object)
    BY <1>2, LessOrderly
<1>4. \A i \in Creations(Alive(sync_queue, left)) : Objects(i) \cap t.client_id_to_server = {}
    BY <1>3 DEF Orderly, CreatedOnce
<1>5. Orderly(t, left)
    BY <1>1, <1>3, <1>4, EasesKeepsOrder
<1>6. Current(t, left, latest, Object)
    BY <1>3, SameRevisionsCurrent
<1>7. QED
    BY <1>5, <1>6 DEF left

\* The callback of a request that has not been applied, or of an action.
LEMMA CallBackEdits ==
    ASSUME QueueInv, EditsHold, NEW r \in futures, r.at # "applied" \/ r.item.op = "action",
           NEW t, Well(t, futures, enqueued), Traceless(t, r.item.no),
           Eases(sync_queue, t, r.item.no), SameRevisions(sync_queue, t),
           t.client_id_to_server = sync_queue.client_id_to_server,
           Becomes(Dequeued(t), futures \ {r}) \/ Becomes(t, futures \ {r}),
           UNCHANGED <<log, latest, cleared>>
    PROVE  EditsHold'
<1> DEFINE left == futures \ {r}
<1>1. Orderly(t, left) /\ Current(t, left, latest, Object)
    BY AnsweredOrder DEF EditsHold
<1>2. Well(t, left, enqueued)
    BY EndedKeepsWell
<1>3. t \in Tidy /\ left \subseteq Requests
    BY <1>2 DEF Well
<1>4. Becomes(Dequeued(t), left) \/ Becomes(t, left)
    OBVIOUS
<1>5. \A q \in futures : q \in left \/ q = r
    OBVIOUS
<1>6. left \subseteq futures
    OBVIOUS
<1> HIDE DEF left
<1>7. /\ Orderly(sync_queue', futures') /\ Current(sync_queue', futures', latest, Object)
      /\ sync_queue'.client_id_to_server = t.client_id_to_server
      /\ left \subseteq futures' /\ \A q \in futures' : q \in left \/ q.at = "sent"
    <2>1. CASE Becomes(Dequeued(t), left)
        BY <1>1, <1>2, <2>1, DequeuedOrderly
    <2>2. CASE Becomes(t, left)
        BY <1>1, <1>3, <2>2, BecomesOrderly
    <2>3. QED
        BY <1>4, <2>1, <2>2
<1>8. Revisions'
    BY <1>5, <1>6, <1>7, RevisionsKept DEF EditsHold
<1>9. QED
    BY <1>7, <1>8 DEF EditsHold

\* What a new item says of its objects is what the queue knows of them.
LEMMA GroundedTimely ==
    ASSUME QueueInv, EditsHold, NEW item \in GoodItem, Grounded(item)
    PROVE  Timely(sync_queue, futures, latest, item)
<1>1. ObjectOf(item) \in Object /\ Objects(item) \subseteq Object
    BY ItemIds
<1>2. ASSUME item.op = "update", IdOf(item)[1] = "server"
      PROVE  ObjectOf(item) \in sync_queue.client_id_to_server
    <2>1. latest[ObjectOf(item)] > 0
        BY <1>2 DEF Grounded
    <2>2. QED
        BY <1>1, <2>1 DEF EditsHold, Revisions
<1>3. ASSUME item.op \in {"create", "bulk"}, NEW o \in Objects(item)
      PROVE  /\ o \notin sync_queue.client_id_to_server
             /\ \A i \in Creations(Alive(sync_queue, futures)) : o \notin Objects(i)
    <2>1. ~Pending(o) /\ (log[o] = <<>> \/ latest[o] = 0)
        BY <1>3 DEF Grounded
    <2>2. ~UpdateApplied(o)
        <3>1. ASSUME NEW r \in futures, r.item.op = "update", ObjectOf(r.item) = o
              PROVE  o \in Objects(r.item)
            <4>1. r.item \in GoodItem
                BY InFlightItem
            <4>2. QED
                BY <3>1, <4>1, ItemIds
        <3>2. QED
            BY <2>1, <3>1 DEF UpdateApplied, Pending
    <2>3. o \notin sync_queue.client_id_to_server
        <3>1. ASSUME o \in sync_queue.client_id_to_server PROVE FALSE
            <4>1. log[o] # <<>> /\ latest[o] = Len(log[o])
                BY <2>2, <3>1 DEF EditsHold, Revisions
            <4>2. log[o] = <<>> \/ Len(log[o]) = 0
                BY <2>1, <4>1
            <4>3. QED
                BY <4>1, <4>2
        <3>2. QED
            BY <3>1
    <2>4. \A i \in Items(sync_queue) \cup {r.item : r \in futures} :
             i.op \in {"create", "bulk"} => o \notin Objects(i)
        BY <2>1 DEF Pending, Items
    <2>5. Alive(sync_queue, futures) = Items(sync_queue) \cup {r.item : r \in futures}
        BY DEF Alive, Requested, QueueInv, TypeInv, QueueTypes
    <2>6. QED
        BY <2>3, <2>4, <2>5 DEF Creations
<1>4. QED
    BY <1>2, <1>3 DEF Timely, Grounded

LEMMA EnqueueEdits ==
    ASSUME QueueInv, EditsHold, NEW item, NewItem(item), Enqueue(item)
    PROVE  EditsHold'
<1> DEFINE t == Pushed(sync_queue, item)
<1>1. /\ Well(sync_queue, futures, enqueued) /\ enqueued \in Nat
      /\ futures \subseteq Requests /\ sync_queue.spawned = {}
    BY DEF QueueInv, TypeInv, AppTypes, QueueTypes
<1>2. item \in GoodItem /\ item.no = enqueued + 1 /\ Grounded(item)
    BY DEF NewItem
<1>3. Well(t, futures, enqueued + 1)
    BY <1>1, <1>2, PushedKeepsWell
<1>4. Timely(sync_queue, futures, latest, item)
    BY <1>1, <1>2, GroundedTimely
<1>5. /\ Orderly(t, futures) /\ Current(t, futures, latest, Object)
      /\ t.client_id_to_server = sync_queue.client_id_to_server
    <2>1. futures \in SUBSET futures
        OBVIOUS
    <2>2. QED
        BY <1>1, <1>2, <1>4, <2>1, PushedKeepsOrder DEF EditsHold
<1>6. Becomes(Dequeued(t), futures) /\ UNCHANGED <<log, latest, cleared>>
    BY DEF Enqueue
<1> HIDE DEF t
<1>7. /\ Orderly(sync_queue', futures') /\ Current(sync_queue', futures', latest, Object)
      /\ sync_queue'.client_id_to_server = t.client_id_to_server
      /\ futures \subseteq futures' /\ \A q \in futures' : q \in futures \/ q.at = "sent"
    BY <1>3, <1>5, <1>6, DequeuedOrderly
<1>8. Revisions'
    BY <1>5, <1>6, <1>7, RevisionsKept DEF EditsHold
<1>9. QED
    BY <1>6, <1>7, <1>8 DEF EditsHold

LEMMA SwitchEdits ==
    ASSUME QueueInv, EditsHold, StartDequeueing \/ StopDequeueing
    PROVE  EditsHold'
<1>1. PICK b \in BOOLEAN :
         LET t == [sync_queue EXCEPT !.should_dequeue = b]
         IN  Becomes(Dequeued(t), futures) \/ Becomes(t, futures)
    BY DEF StartDequeueing, StopDequeueing
<1> DEFINE t == [sync_queue EXCEPT !.should_dequeue = b]
<1>2. /\ Well(sync_queue, futures, enqueued) /\ sync_queue \in Tidy
      /\ futures \subseteq Requests /\ sync_queue.spawned = {}
    BY DEF QueueInv, TypeInv, QueueTypes
<1>3. Well(t, futures, enqueued)
    BY <1>2, SwitchedKeepsWell
<1>4. /\ t \in Tidy /\ t.queue = sync_queue.queue
      /\ t.queue_dependencies = sync_queue.queue_dependencies
      /\ t.waiting_response = sync_queue.waiting_response
      /\ t.client_id_to_server = sync_queue.client_id_to_server
      /\ t.spawned = sync_queue.spawned
    BY <1>2, SwitchedTidy
<1> HIDE DEF t
<1>5. Eases(sync_queue, t, 0) /\ SameRevisions(sync_queue, t)
    BY <1>4, SameQueueEases
<1>6. Current(t, futures, latest, Object)
    BY <1>5, SameRevisionsCurrent DEF EditsHold
<1>7. Orderly(t, futures)
    <2>1. \A i \in Alive(sync_queue, futures) : i.no # 0
        BY <1>2, AliveItems
    <2>2. \A i \in Creations(Alive(sync_queue, futures)) : Objects(i) \cap t.client_id_to_server = {}
        BY <1>4 DEF EditsHold, Orderly, CreatedOnce
    <2>3. QED
        BY <1>2, <1>5, <2>1, <2>2, EasesKeepsOrder DEF EditsHold
<1>8. /\ Orderly(sync_queue', futures') /\ Current(sync_queue', futures', latest, Object)
      /\ sync_queue'.client_id_to_server = t.client_id_to_server
      /\ futures \subseteq futures' /\ \A q \in futures' : q \in futures \/ q.at = "sent"
    <2>1. CASE Becomes(Dequeued(t), futures)
        BY <1>3, <1>6, <1>7, <2>1, DequeuedOrderly
    <2>2. CASE Becomes(t, futures)
        BY <1>2, <1>4, <1>6, <1>7, <2>2, BecomesOrderly
    <2>3. QED
        BY <1>1, <2>1, <2>2 DEF t
<1>9. UNCHANGED <<log, latest, cleared>>
    BY DEF StartDequeueing, StopDequeueing, appVars
<1>10. Revisions'
    BY <1>4, <1>8, <1>9, RevisionsKept DEF EditsHold
<1>11. QED
    BY <1>8, <1>9, <1>10 DEF EditsHold

\* A request moves on: its item is in flight as before.
LEMMA MovedOrder ==
    ASSUME EditsHold, NEW r \in futures, NEW q, q.item = r.item,
           futures' = (futures \ {r}) \cup {q}, UNCHANGED <<sync_queue, latest>>
    PROVE  Orderly(sync_queue', futures') /\ Current(sync_queue', futures', latest', Object)
<1>1. Requested(sync_queue, futures') = Requested(sync_queue, futures)
    BY DEF Requested
<1>2. Alive(sync_queue, futures') = Alive(sync_queue, futures)
    BY <1>1 DEF Alive
<1>3. UpdatesWait(sync_queue, futures') /\ UpdatesKnown(sync_queue, futures')
    BY <1>1, <1>2 DEF EditsHold, Orderly, UpdatesWait, UpdatesKnown
<1>4. CreatedOnce(sync_queue, futures') /\ Current(sync_queue, futures', latest, Object)
    BY <1>2 DEF EditsHold, Orderly, CreatedOnce, Current
<1>5. QED
    BY <1>3, <1>4 DEF EditsHold, Orderly

\* A request that is sent again without an answer lost had not been received.
LEMMA RetryEdits ==
    ASSUME QueueInv, EditsHold, NEW r \in futures, RequestFailedRetryPending(r), r.at = "sent"
    PROVE  EditsHold'
<1> DEFINE q == [r EXCEPT !.at = "sent", !.retries = @ - 1, !.rev = 0]
<1>1. futures' = (futures \ {r}) \cup {q} /\ UNCHANGED <<sync_queue, log, latest, cleared>>
    BY DEF RequestFailedRetryPending, appVars
<1>2. q.item = r.item /\ q.at = "sent"
    BY InFlightItem DEF Requests
<1> HIDE DEF q
<1>3. Orderly(sync_queue', futures') /\ Current(sync_queue', futures', latest', Object)
    BY <1>1, <1>2, MovedOrder
<1>4. Revisions'
    BY <1>1, <1>2, RevisionsKept DEF EditsHold
<1>5. QED
    BY <1>1, <1>3, <1>4 DEF EditsHold

\* Items with the same number are of one request.
LEMMA OneRequest ==
    ASSUME QueueInv, NEW r \in futures, NEW q \in futures, q.item.no = r.item.no
    PROVE  q = r
    BY DEF QueueInv, Well, Numbered

\* Of the requests in flight, one at most creates an object, or updates it, and
\* not both.
LEMMA OneInFlight ==
    ASSUME QueueInv, EditsHold, NEW r \in futures
    PROVE  /\ r.item.op \in {"create", "bulk"} =>
                 \A o \in Objects(r.item) :
                     /\ o \in Object \ sync_queue.client_id_to_server
                     /\ \A q \in futures : q # r /\ q.item.op \in {"create", "bulk"} => o \notin Objects(q.item)
                     /\ \A q \in futures : q.item.op = "update" => ObjectOf(q.item) # o
           /\ r.item.op = "update" =>
                 /\ ObjectOf(r.item) \in sync_queue.client_id_to_server
                 /\ \A q \in futures : q # r /\ q.item.op = "update" => ObjectOf(q.item) # ObjectOf(r.item)
                 /\ \A q \in futures : q.item.op \in {"create", "bulk"} => ObjectOf(r.item) \notin Objects(q.item)
<1>1. \A q \in futures : /\ q.item \in Requested(sync_queue, futures) /\ q.item \in Alive(sync_queue, futures)
                         /\ q.item \in GoodItem
    BY InFlightItem DEF Alive, Requested
<1>2. \A q \in futures : q.item.op = "update" => ObjectOf(q.item) \in sync_queue.client_id_to_server
    BY <1>1 DEF EditsHold, Orderly, UpdatesKnown, Updates
<1>3. \A q \in futures : q.item.op \in {"create", "bulk"} => Objects(q.item) \cap sync_queue.client_id_to_server = {}
    BY <1>1 DEF EditsHold, Orderly, CreatedOnce, Creations
<1>4. ASSUME NEW q \in futures, q.item.op = "update", r.item.op = "update", ObjectOf(q.item) = ObjectOf(r.item)
      PROVE  q = r
    <2>1. q.item.no = r.item.no
        BY <1>1, <1>4 DEF EditsHold, Orderly, UpdatesWait, Updates
    <2>2. QED
        BY <2>1, OneRequest
<1>5. ASSUME NEW q \in futures, q.item.op \in {"create", "bulk"}, r.item.op \in {"create", "bulk"},
             Objects(q.item) \cap Objects(r.item) # {}
      PROVE  q = r
    <2>1. q.item.no = r.item.no
        BY <1>1, <1>5 DEF EditsHold, Orderly, CreatedOnce, Creations
    <2>2. QED
        BY <2>1, OneRequest
<1>6. Objects(r.item) \subseteq Object
    BY <1>1, ItemIds
<1>7. ASSUME r.item.op \in {"create", "bulk"}, NEW o \in Objects(r.item)
      PROVE  /\ o \in Object \ sync_queue.client_id_to_server
             /\ \A q \in futures : q # r /\ q.item.op \in {"create", "bulk"} => o \notin Objects(q.item)
             /\ \A q \in futures : q.item.op = "update" => ObjectOf(q.item) # o
    BY <1>2, <1>3, <1>5, <1>6, <1>7
<1>8. ASSUME r.item.op = "update"
      PROVE  /\ ObjectOf(r.item) \in sync_queue.client_id_to_server
             /\ \A q \in futures : q # r /\ q.item.op = "update" => ObjectOf(q.item) # ObjectOf(r.item)
             /\ \A q \in futures : q.item.op \in {"create", "bulk"} => ObjectOf(r.item) \notin Objects(q.item)
    BY <1>2, <1>3, <1>4, <1>8
<1>9. QED
    BY <1>7, <1>8

\* An update that the server receives has its current revision.
LEMMA UpdatesCurrent ==
    ASSUME QueueInv, EditsHold, NEW r \in futures, r.at = "sent"
    PROVE  IsCurrent(r.item)
<1> SUFFICES ASSUME r.item.op = "update"
             PROVE  r.item.rev = 0 \/ r.item.rev = Len(log[ObjectOf(r.item)]) \/ ObjectOf(r.item) \in Folders
    BY DEF IsCurrent
<1> DEFINE o == ObjectOf(r.item)
<1>1. /\ r.item \in Alive(sync_queue, futures) /\ o \in Object
      /\ o \in sync_queue.client_id_to_server
    BY InFlightItem, ItemIds, OneInFlight DEF Alive, Requested
<1>2. ~UpdateApplied(o)
    BY OneInFlight DEF UpdateApplied
<1>3. latest[o] = Len(log[o])
    BY <1>1, <1>2 DEF EditsHold, Revisions
<1>4. o \in Folders \/ r.item.rev \in {0, latest[o]}
    BY <1>1 DEF EditsHold, Current, Updates
<1>5. QED
    BY <1>3, <1>4

LEMMA ReceivedEdits ==
    ASSUME QueueInv, EditsHold, NEW r \in futures, ServerReceives(r)
    PROVE  EditsHold'
<1> DEFINE item == r.item
           q == [r EXCEPT !.at = "applied", !.rev = Len(log'[ObjectOf(item)])]
           c2s == sync_queue.client_id_to_server
<1>1. r.at = "sent" /\ Applied(r) /\ UNCHANGED <<sync_queue, latest, cleared>>
    BY UpdatesCurrent DEF ServerReceives, appVars
<1>2. /\ log' = [o \in Object |->
            IF o \in Objects(item) /\ (item.op = "update" \/ (item.op # "action" /\ log[o] = <<>>))
              THEN Append(log[o], item.edit) ELSE log[o]]
      /\ futures' = (futures \ {r}) \cup {q}
    BY <1>1 DEF Applied
<1>3. q.item = item /\ q.at = "applied" /\ q.rev = Len(log'[ObjectOf(item)])
    BY InFlightItem DEF Requests
<1>4. /\ item \in GoodItem /\ ObjectOf(item) \in Objects(item) /\ Objects(item) \subseteq Object
      /\ item.op \in {"create", "bulk", "update", "action"}
      /\ item.op = "update" => Objects(item) = {ObjectOf(item)}
    BY InFlightItem, ItemIds
<1>5. log \in [Object -> Seq(ItemNo)] /\ c2s \subseteq Object
    BY StructFields DEF QueueInv, TypeInv, AppTypes, QueueTypes, Tidy
<1> HIDE DEF q
<1>6. Orderly(sync_queue', futures') /\ Current(sync_queue', futures', latest', Object)
    BY <1>1, <1>2, <1>3, MovedOrder
<1>7. \A p \in futures : p \in futures' \/ p = r
    BY <1>2
<1>8. q \in futures' /\ \A p \in futures' : p = q \/ p \in futures \ {r}
    BY <1>2
<1>9. \A o : (CreationApplied(o) => CreationApplied(o)') /\ (UpdateApplied(o) => UpdateApplied(o)')
    BY <1>1, <1>7 DEF CreationApplied, UpdateApplied
<1>10. ASSUME NEW o \in Objects(item), item.op \in {"create", "bulk"}
       PROVE  /\ log[o] = <<>> /\ Len(log'[o]) = 1 /\ o \notin c2s /\ CreationApplied(o)'
    <2>1. o \in Object \ c2s /\ ~CreationApplied(o)
        BY <1>1, <1>10, OneInFlight DEF CreationApplied
    <2>2. log[o] = <<>>
        BY <2>1 DEF EditsHold, Revisions
    <2>3. log'[o] = Append(<<>>, item.edit)
        BY <1>2, <1>10, <2>1, <2>2
    <2>4. CreationApplied(o)'
        BY <1>3, <1>8, <1>10 DEF CreationApplied
    <2>5. QED
        BY <2>1, <2>2, <2>3, <2>4
<1>11. ASSUME NEW o \in Object, o \in Objects(item), item.op = "update"
       PROVE  /\ o = ObjectOf(item) /\ o \in c2s /\ log'[o] # <<>> /\ UpdateApplied(o)'
    <2>1. o = ObjectOf(item) /\ o \in c2s
        BY <1>4, <1>11, OneInFlight
    <2>2. log'[o] = Append(log[o], item.edit) /\ log[o] \in Seq(ItemNo)
        BY <1>2, <1>5, <1>11
    <2>3. UpdateApplied(o)'
        BY <1>3, <1>8, <1>11, <2>1 DEF UpdateApplied
    <2>4. QED
        BY <2>1, <2>2, <2>3
<1>12. \A o \in Object : o \notin Objects(item) \/ item.op = "action" => log'[o] = log[o]
    BY <1>2
<1>13. ASSUME NEW o \in Object \ c2s
       PROVE  latest'[o] = 0 /\ (log'[o] = <<>> \/ CreationApplied(o)')
    <2>1. latest[o] = 0 /\ (log[o] = <<>> \/ CreationApplied(o))
        BY DEF EditsHold, Revisions
    <2>2. QED
        BY <1>1, <1>4, <1>9, <1>10, <1>11, <1>12, <2>1
<1>14. ASSUME NEW o \in c2s
       PROVE  log'[o] # <<>> /\ (latest'[o] = Len(log'[o]) \/ UpdateApplied(o)')
    <2>1. log[o] # <<>> /\ (latest[o] = Len(log[o]) \/ UpdateApplied(o)) /\ o \in Object
        BY <1>5 DEF EditsHold, Revisions
    <2>2. QED
        BY <1>1, <1>4, <1>9, <1>10, <1>11, <1>12, <2>1
<1>15. ASSUME NEW p \in futures'
       PROVE  /\ p.at # "refused"
              /\ p.at = "applied" /\ p.item.op \in {"create", "bulk"} =>
                    p.rev = 1 /\ \A o \in Objects(p.item) : Len(log'[o]) = 1
              /\ p.at = "applied" /\ p.item.op = "update" => p.rev = Len(log'[ObjectOf(p.item)])
    <2>1. CASE p = q
        BY <1>3, <1>4, <1>10, <2>1
    <2>2. CASE p \in futures \ {r}
        <3>1. /\ p.at # "refused"
              /\ p.at = "applied" /\ p.item.op \in {"create", "bulk"} =>
                    p.rev = 1 /\ \A o \in Objects(p.item) : Len(log[o]) = 1
              /\ p.at = "applied" /\ p.item.op = "update" => p.rev = Len(log[ObjectOf(p.item)])
            BY <2>2 DEF EditsHold, Revisions
        <3>2. Objects(p.item) \subseteq Object /\ ObjectOf(p.item) \in Objects(p.item)
            BY <2>2, InFlightItem, ItemIds
        <3>3. ASSUME p.item.op \in {"create", "bulk"}, NEW o \in Objects(p.item)
              PROVE  log'[o] = log[o]
            <4>1. o \notin Objects(item) \/ item.op = "action"
                BY <1>4, <2>2, <3>2, <3>3, OneInFlight
            <4>2. QED
                BY <1>12, <3>2, <4>1
        <3>4. ASSUME p.item.op = "update"
              PROVE  log'[ObjectOf(p.item)] = log[ObjectOf(p.item)]
            <4>1. ObjectOf(p.item) \notin Objects(item) \/ item.op = "action"
                BY <1>4, <2>2, <3>4, OneInFlight
            <4>2. QED
                BY <1>12, <3>2, <4>1
        <3>5. QED
            BY <3>1, <3>3, <3>4
    <2>3. QED
        BY <1>8, <2>1, <2>2
<1>16. Revisions'
    BY <1>1, <1>13, <1>14, <1>15 DEF Revisions
<1>17. QED
    BY <1>1, <1>6, <1>16 DEF EditsHold

\* The callbacks of requests that the server has not applied, and of actions.
LEMMA DeniedEdits ==
    ASSUME QueueInv, EditsHold, NEW r \in futures, CreateDenied(r)
    PROVE  EditsHold'
<1> DEFINE d == Denied(r)
           t == Emitted(d, "failed", r.item, Objects(r.item))
           n == r.item.no
<1>1. /\ r.at = "sent" /\ r.item.op = "create" /\ CallBack(r, t)
      /\ UNCHANGED <<log, latest, cleared>> /\ TypeInv
    BY DEF CreateDenied, appVars, QueueInv
<1>2. d \in Tidy /\ Well(d, futures, enqueued) /\ Traceless(d, n)
    BY <1>1, DeniedOf
<1>3. /\ "failed" \in Kinds /\ "denied" \in Kinds /\ r.item \in GoodItem /\ d \in Structs
      /\ sync_queue \in Tidy
    BY <1>2, InFlightItem DEF Kinds, Tidy
<1>4. d = LetGo(sync_queue, "denied", r.item, r.item.ids)
    BY <1>1, DeniedType
<1>5. /\ Eases(sync_queue, d, n) /\ SameRevisions(sync_queue, d)
      /\ d.client_id_to_server = sync_queue.client_id_to_server
    BY <1>3, <1>4, LetGoEases
<1> HIDE DEF d
<1>6. t \in Tidy /\ Same(d, t)
    BY <1>2, <1>3, EmittedTidy, EmittedType
<1> HIDE DEF t
<1>7. Well(t, futures, enqueued) /\ Traceless(t, n)
    BY <1>2, <1>6, SameKeepsWell DEF Traceless, Same
<1>8. /\ Eases(sync_queue, t, n) /\ SameRevisions(sync_queue, t)
      /\ t.client_id_to_server = sync_queue.client_id_to_server
    <2>1. Items(t) = Items(d)
        BY <1>6 DEF Same, Items
    <2>2. QED
        BY <1>5, <1>6, <2>1 DEF Same, Eases, SameRevisions
<1>9. Becomes(Dequeued(t), futures \ {r}) /\ r.at # "applied"
    BY <1>1 DEF CallBack
<1>10. QED
    BY <1>1, <1>7, <1>8, <1>9, CallBackEdits

LEMMA ConflictEdits ==
    ASSUME QueueInv, EditsHold, NEW r \in futures, UniqueKeyConflict(r)
    PROVE  EditsHold'
<1> DEFINE t == CreationFailed(sync_queue, r.item)
<1>1. /\ r.at = "sent" /\ r.item.op \in {"create", "bulk"} /\ CallBack(r, t)
      /\ UNCHANGED <<log, latest, cleared>>
    BY DEF UniqueKeyConflict
<1>2. Well(t, futures, enqueued) /\ Traceless(t, r.item.no)
    BY <1>1, CreationFailedOf
<1>3. /\ Eases(sync_queue, t, r.item.no) /\ SameRevisions(sync_queue, t)
      /\ t.client_id_to_server = sync_queue.client_id_to_server
    BY InFlightItem, CreationFailedEases
<1>4. Becomes(Dequeued(t), futures \ {r}) /\ r.at # "applied"
    BY <1>1 DEF CallBack
<1> HIDE DEF t
<1>5. QED
    BY <1>1, <1>2, <1>3, <1>4, CallBackEdits

LEMMA RecordedEdits ==
    ASSUME QueueInv, EditsHold, NEW r \in futures, ActionRecorded(r)
    PROVE  EditsHold'
<1> DEFINE t == OtherSucceeded(r, "done")
           ids == {Server(ObjectOf(r.item))}
<1>1. /\ r.item.op = "action" /\ CallBack(r, t) /\ UNCHANGED <<log, latest, cleared>>
      /\ "done" \in Kinds /\ TypeInv
    BY DEF ActionRecorded, appVars, Kinds, QueueInv
<1>2. Well(t, futures, enqueued) /\ Traceless(t, r.item.no)
    BY <1>1, OtherSucceededOf
<1>3. t = LetGo(sync_queue, "done", r.item, ids)
    BY <1>1, OtherSucceededType
<1> HIDE DEF ids
<1>4. /\ Eases(sync_queue, t, r.item.no) /\ SameRevisions(sync_queue, t)
      /\ t.client_id_to_server = sync_queue.client_id_to_server
    BY <1>1, <1>3, InFlightItem, LetGoEases
<1>5. Becomes(Dequeued(t), futures \ {r})
    BY <1>1 DEF CallBack
<1> HIDE DEF t
<1>6. QED
    BY <1>1, <1>2, <1>4, <1>5, CallBackEdits

LEMMA FailedEdits ==
    ASSUME QueueInv, EditsHold, NEW r \in futures, RequestFailed(r), r.at = "sent"
    PROVE  EditsHold'
<1> DEFINE t == IF r.item.op \in {"create", "bulk"} THEN CreationFailed(sync_queue, r.item)
                ELSE OtherFailed(sync_queue, r.item)
<1>1. r.item.op \in {"create", "bulk", "update", "action"}
    BY InFlightItem
<1>2. Well(t, futures, enqueued) /\ Traceless(t, r.item.no)
    <2>1. CASE r.item.op \in {"create", "bulk"}
        BY <2>1, CreationFailedOf
    <2>2. CASE r.item.op \notin {"create", "bulk"}
        BY <1>1, <2>2, OtherFailedOf
    <2>3. QED
        BY <2>1, <2>2
<1>3. /\ Eases(sync_queue, t, r.item.no) /\ SameRevisions(sync_queue, t)
      /\ t.client_id_to_server = sync_queue.client_id_to_server
    <2>1. CASE r.item.op \in {"create", "bulk"}
        BY <2>1, InFlightItem, CreationFailedEases
    <2>2. CASE r.item.op \notin {"create", "bulk"}
        BY <2>2, InFlightItem, OtherFailedEases
    <2>3. QED
        BY <2>1, <2>2
<1>4. /\ Becomes(Dequeued(t), futures \ {r}) \/ Becomes(t, futures \ {r})
      /\ UNCHANGED <<log, latest, cleared>>
    BY DEF RequestFailed, CallBack, appVars
<1> HIDE DEF t
<1>5. QED
    BY <1>2, <1>3, <1>4, CallBackEdits

LEMMA LetGoQueue ==
    ASSUME NEW s \in Tidy, NEW kind \in Kinds, NEW item \in GoodItem, NEW ids
    PROVE  /\ LetGo(s, kind, item, ids).queue = s.queue /\ LetGo(s, kind, item, ids).spawned = s.spawned
           /\ LetGo(s, kind, item, ids).dropped = s.dropped
<1> DEFINE t == LetGo(s, kind, item, ids)
<1>1. /\ t.queue = s.queue
      /\ t.queue_dependencies = [n \in ItemNo |-> s.queue_dependencies[n] \ {OnItem(item.no)}]
      /\ t.waiting_response =
             [id \in SyncId |-> IF id \in ids THEN s.waiting_response[id] \ {item.no}
                                ELSE s.waiting_response[id]]
      /\ t.client_id_to_server = s.client_id_to_server
      /\ t.spawned = s.spawned /\ t.dropped = s.dropped
    BY LetGoType
<1>2. QED
    BY <1>1

\* The object is enqueued again: no other item creates it.
LEMMA DeniedToTeamEdits ==
    ASSUME QueueInv, EditsHold, NEW r \in futures, CreateDeniedToTeam(r)
    PROVE  EditsHold'
<1> DEFINE item == Again(r)
           d == Denied(r)
           q == Dequeued(d)
           p == Pushed(q, item)
           t == Noted(p, {ObjectOf(r.item)})
           left == futures \ {r}
           o == ObjectOf(r.item)
<1>1. TypeInv /\ enqueued \in Nat /\ sync_queue \in Tidy /\ "denied" \in Kinds
    BY DEF QueueInv, TypeInv, AppTypes, QueueTypes, Kinds
<1>2. /\ r.at = "sent" /\ r.item.op = "create" /\ CallBack(r, t) /\ UNCHANGED <<log, latest, cleared>>
    BY DEF CreateDeniedToTeam, Again, Noted
<1>3. /\ item \in GoodItem /\ item.no = enqueued + 1 /\ item.op = "create" /\ item.folder = None
      /\ item.ids = {Client(o)}
    BY <1>1, CreateDeniedToTeamTypes
<1>4. d \in Tidy /\ Well(d, futures, enqueued) /\ Traceless(d, r.item.no)
    BY <1>2, DeniedOf
<1>5. d = LetGo(sync_queue, "denied", r.item, r.item.ids) /\ r.item \in GoodItem
    BY <1>1, DeniedType, InFlightItem
<1>6. /\ Eases(sync_queue, d, r.item.no) /\ SameRevisions(sync_queue, d)
      /\ d.client_id_to_server = sync_queue.client_id_to_server
    BY <1>1, <1>5, LetGoEases
<1>7. d.queue = sync_queue.queue /\ d.spawned = sync_queue.spawned
    BY <1>1, <1>5, LetGoQueue
<1>8. Objects(item) = {o} /\ Objects(r.item) = {o}
    BY <1>2, <1>3, <1>5, OneObject, IdsOfObjects, ItemIds
<1> HIDE DEF d, item
<1>9. Orderly(d, left) /\ Current(d, left, latest, Object)
    BY <1>6, AnsweredOrder DEF EditsHold
<1>10. Well(d, left, enqueued)
    BY <1>4, EndedKeepsWell
<1>11. Alive(d, left) = Alive(sync_queue, left)
    BY <1>7 DEF Alive, Items, Requested
<1>12. \A i \in Creations(Alive(sync_queue, left)) : o \notin Objects(i)
    <2>1. \A i \in Alive(sync_queue, left) : i.no # r.item.no /\ i \in Alive(sync_queue, futures)
        BY EndedAlone DEF Alive, Requested
    <2>2. r.item \in Creations(Alive(sync_queue, futures))
        BY <1>2 DEF Alive, Requested, Creations
    <2>3. QED
        BY <1>8, <2>1, <2>2 DEF EditsHold, Orderly, CreatedOnce, Creations
<1>13. o \notin sync_queue.client_id_to_server
    BY <1>2, <1>8, OneInFlight
<1>14. \A x \in futures : x \in left \/ x = r
    OBVIOUS
<1>15. left \in SUBSET left /\ left \subseteq futures
    OBVIOUS
<1>16. Becomes(Dequeued(t), left) /\ {ObjectOf(r.item)} \in SUBSET Object
    BY <1>2, <1>5, ItemIds DEF CallBack
<1> HIDE DEF left, o
<1>17. /\ Orderly(q, left) /\ Current(q, left, latest, Object)
       /\ q.client_id_to_server = sync_queue.client_id_to_server
       /\ Alive(q, left) \subseteq Alive(d, left)
    BY <1>6, <1>9, <1>10, <1>15, DequeuedKeepsOrder
<1>18. Well(q, left, enqueued)
    BY <1>10, DequeuedKeepsWell
<1> HIDE DEF q
<1>19. Timely(q, left, latest, item)
    BY <1>3, <1>8, <1>11, <1>12, <1>13, <1>17 DEF Timely, Creations
<1>20. /\ Orderly(p, left) /\ Current(p, left, latest, Object)
       /\ p.client_id_to_server = q.client_id_to_server
    BY <1>1, <1>3, <1>15, <1>17, <1>18, <1>19, PushedKeepsOrder
<1>21. Well(p, left, enqueued + 1)
    BY <1>1, <1>3, <1>18, PushedKeepsWell
<1> HIDE DEF p
<1>22. t \in Tidy /\ Same(p, t)
    BY <1>16, <1>21, WellTypes, NotedType
<1> HIDE DEF t
<1>23. Well(t, left, enqueued + 1)
    BY <1>21, <1>22, SameKeepsWell
<1>24. /\ Orderly(t, left) /\ Current(t, left, latest, Object)
       /\ t.client_id_to_server = q.client_id_to_server
    <2>1. /\ Eases(p, t, 0) /\ SameRevisions(p, t)
          /\ t.client_id_to_server = p.client_id_to_server
        BY <1>22, SameEases
    <2>2. \A i \in Creations(Alive(p, left)) : Objects(i) \cap t.client_id_to_server = {}
        BY <1>20, <2>1 DEF Orderly, CreatedOnce
    <2>3. /\ left \cup p.spawned \subseteq Requests
          /\ \A i \in Alive(p, left) : i.no # 0
        BY <1>21, WellTypes, AliveItems
    <2>4. QED
        BY <1>20, <2>1, <2>2, <2>3, EasesKeepsOrder, SameRevisionsCurrent
<1>25. /\ Orderly(sync_queue', futures') /\ Current(sync_queue', futures', latest, Object)
       /\ sync_queue'.client_id_to_server = t.client_id_to_server
       /\ left \subseteq futures' /\ \A x \in futures' : x \in left \/ x.at = "sent"
    BY <1>16, <1>23, <1>24, DequeuedOrderly
<1>26. Revisions'
    BY <1>2, <1>14, <1>15, <1>17, <1>24, <1>25, RevisionsKept DEF EditsHold
<1>27. QED
    BY <1>2, <1>25, <1>26 DEF EditsHold

\* The callbacks of requests that the server has applied: the cloud model
\* learns the revision of their objects.
LEMMA LearnsLatest ==
    ASSUME QueueInv, EditsHold, NEW r \in futures, Learns(r)
    PROVE  \A o \in Object : latest'[o] = IF o \in Objects(r.item) THEN r.rev ELSE latest[o]
<1>1. r.item.no > cleared
    BY InFlightItem, ItemIds DEF EditsHold, ItemNo
<1>2. QED
    BY <1>1 DEF Learns

LEMMA RevisionsLearned ==
    ASSUME QueueInv, EditsHold, NEW r \in futures, r.at = "applied", r.item.op # "action",
           Learns(r), UNCHANGED log,
           sync_queue'.client_id_to_server = sync_queue.client_id_to_server \cup Objects(r.item),
           futures \ {r} \subseteq futures', \A q \in futures' : q \in futures \ {r} \/ q.at = "sent"
    PROVE  Revisions'
<1> DEFINE item == r.item
           c2s == sync_queue.client_id_to_server
<1>1. /\ item \in GoodItem /\ ObjectOf(item) \in Objects(item) /\ Objects(item) \subseteq Object
      /\ item.op \in {"create", "bulk", "update"}
      /\ item.op = "update" => Objects(item) = {ObjectOf(item)}
    BY InFlightItem, ItemIds
<1>2. /\ c2s \subseteq Object /\ log \in [Object -> Seq(ItemNo)]
      /\ \A o \in Object : latest'[o] = IF o \in Objects(item) THEN r.rev ELSE latest[o]
    BY StructFields, LearnsLatest DEF QueueInv, TypeInv, AppTypes, QueueTypes, Tidy
<1>3. ASSUME NEW o \in Objects(item)
      PROVE  log[o] # <<>> /\ latest'[o] = Len(log[o])
    <2>1. latest'[o] = r.rev
        BY <1>1, <1>2
    <2>2. CASE item.op = "update"
        <3>1. o = ObjectOf(item) /\ o \in c2s
            BY <1>1, <2>2, OneInFlight
        <3>2. QED
            BY <2>1, <2>2, <3>1 DEF EditsHold, Revisions
    <2>3. CASE item.op \in {"create", "bulk"}
        <3>1. r.rev = 1 /\ Len(log[o]) = 1
            BY <2>3 DEF EditsHold, Revisions
        <3>2. log[o] # <<>>
            BY <3>1
        <3>3. QED
            BY <2>1, <3>1, <3>2
    <2>4. QED
        BY <1>1, <2>2, <2>3
<1>4. ASSUME NEW o, o \notin Objects(item)
      PROVE  (CreationApplied(o) => CreationApplied(o)') /\ (UpdateApplied(o) => UpdateApplied(o)')
    BY <1>1, <1>4 DEF CreationApplied, UpdateApplied
<1>5. ASSUME NEW o \in Object \ sync_queue'.client_id_to_server
      PROVE  latest'[o] = 0 /\ (log'[o] = <<>> \/ CreationApplied(o)')
    <2>1. o \in Object \ c2s /\ o \notin Objects(item)
        BY DEF c2s
    <2>2. QED
        BY <1>2, <1>4, <2>1 DEF EditsHold, Revisions
<1>6. ASSUME NEW o \in sync_queue'.client_id_to_server
      PROVE  log'[o] # <<>> /\ (latest'[o] = Len(log'[o]) \/ UpdateApplied(o)')
    <2>1. CASE o \in Objects(item)
        BY <1>3, <2>1
    <2>2. CASE o \notin Objects(item)
        <3>1. o \in c2s /\ o \in Object
            BY <1>2, <2>2
        <3>2. QED
            BY <1>2, <1>4, <2>2, <3>1 DEF EditsHold, Revisions
    <2>3. QED
        BY <2>1, <2>2
<1>7. ASSUME NEW q \in futures'
      PROVE  /\ q.at # "refused"
             /\ q.at = "applied" /\ q.item.op \in {"create", "bulk"} =>
                   q.rev = 1 /\ \A o \in Objects(q.item) : Len(log'[o]) = 1
             /\ q.at = "applied" /\ q.item.op = "update" => q.rev = Len(log'[ObjectOf(q.item)])
    BY DEF EditsHold, Revisions
<1>8. QED
    BY <1>5, <1>6, <1>7 DEF Revisions

LEMMA UpdatedEdits ==
    ASSUME QueueInv, EditsHold, NEW r \in futures, UpdateSucceeded(r)
    PROVE  EditsHold'
<1> DEFINE u == OtherSucceeded(r, "done")
           o == ObjectOf(r.item)
           t == Revised(u, o, r.rev)
           left == futures \ {r}
           ids == {Server(o)}
<1>1. /\ r.at = "applied" /\ r.item.op = "update" /\ CallBack(r, t)
      /\ Learns(r) /\ UNCHANGED <<log, cleared>> /\ "done" \in Kinds /\ TypeInv
    BY DEF UpdateSucceeded, Kinds, QueueInv
<1>2. /\ u \in Tidy /\ Well(u, futures, enqueued) /\ Traceless(u, r.item.no)
    BY <1>1, OtherSucceededOf
<1>3. /\ r.rev \in Nat /\ u \in Structs /\ sync_queue \in Tidy /\ r.item \in GoodItem
      /\ o \in Object /\ Objects(r.item) = {o}
    BY <1>1, <1>2, InFlightItem, ItemIds DEF Requests, Tidy
<1>4. u = LetGo(sync_queue, "done", r.item, ids)
    BY <1>1, OtherSucceededType
<1> HIDE DEF ids
<1>5. /\ Eases(sync_queue, u, r.item.no) /\ SameRevisions(sync_queue, u)
      /\ u.client_id_to_server = sync_queue.client_id_to_server
    BY <1>1, <1>3, <1>4, LetGoEases
<1>6. u.spawned = sync_queue.spawned
    BY <1>1, <1>3, <1>4, LetGoQueue
<1>7. o \in sync_queue.client_id_to_server
    BY <1>1, OneInFlight
<1> HIDE DEF u
<1>8. Orderly(u, left) /\ Current(u, left, latest, Object)
    BY <1>5, AnsweredOrder DEF EditsHold
<1>9. Well(u, left, enqueued) /\ left \cup u.spawned \subseteq Requests
    BY <1>2, <1>6, EndedKeepsWell, EndedAlone
<1>10. \A i \in Updates(Requested(u, left)) : ObjectOf(i) # o
    <2>1. u.spawned = {}
        BY <1>6, EndedAlone
    <2>2. \A q \in left : q.item.op = "update" => ObjectOf(q.item) # o
        BY <1>1, OneInFlight
    <2>3. QED
        BY <2>1, <2>2 DEF Updates, Requested
<1>11. latest'[o] = r.rev /\ \A p \in Object \ {o} : latest'[p] = latest[p]
    BY <1>1, <1>3, LearnsLatest
<1>12. Becomes(Dequeued(t), left)
    BY <1>1 DEF CallBack
<1>13. left = futures \ {r}
    OBVIOUS
<1> HIDE DEF o, left
<1>14. Current(u, left, latest', Object \ {o})
    BY <1>8, <1>11 DEF Current
<1>15. Current(t, left, latest', Object)
    BY <1>3, <1>5, <1>7, <1>8, <1>9, <1>10, <1>11, <1>14, RevisedCurrent
<1>16. t \in Tidy /\ Rewritten(u, t)
    BY <1>2, <1>3, RevisedTidy, RevisedType
<1> HIDE DEF t
<1>17. Eases(u, t, 0) /\ t.client_id_to_server = u.client_id_to_server
    BY <1>16, RewrittenEases
<1>18. Orderly(t, left)
    <2>1. \A i \in Alive(u, left) : i.no # 0
        BY <1>9, AliveItems
    <2>2. \A i \in Creations(Alive(u, left)) : Objects(i) \cap t.client_id_to_server = {}
        BY <1>8, <1>17 DEF Orderly, CreatedOnce
    <2>3. QED
        BY <1>8, <1>9, <1>17, <2>1, <2>2, EasesKeepsOrder
<1>19. Well(t, left, enqueued)
    BY <1>9, <1>16, RewrittenKeepsWell
<1>20. /\ Orderly(sync_queue', futures') /\ Current(sync_queue', futures', latest', Object)
       /\ sync_queue'.client_id_to_server = t.client_id_to_server
       /\ left \subseteq futures' /\ \A q \in futures' : q \in left \/ q.at = "sent"
    BY <1>12, <1>15, <1>18, <1>19, DequeuedOrderly
<1>21. sync_queue'.client_id_to_server = sync_queue.client_id_to_server \cup Objects(r.item)
    BY <1>3, <1>5, <1>7, <1>17, <1>20
<1>22. Revisions'
    BY <1>1, <1>13, <1>20, <1>21, RevisionsLearned
<1>23. QED
    BY <1>1, <1>20, <1>22 DEF EditsHold

\* The updates of an object that is created now carry no revision yet.
LEMMA FirstRevision ==
    ASSUME QueueInv, EditsHold, NEW r \in futures, r.at = "applied", r.item.op \in {"create", "bulk"},
           Learns(r)
    PROVE  \A o \in Objects(r.item) : latest'[o] = 1
<1>1. \A o \in Objects(r.item) : o \in Object
    BY OneInFlight
<1>2. r.rev = 1
    BY DEF EditsHold, Revisions
<1>3. QED
    BY <1>1, <1>2, LearnsLatest

LEMMA CreatedCurrent ==
    ASSUME QueueInv, EditsHold, NEW r \in futures, r.at = "applied", r.item.op \in {"create", "bulk"},
           Learns(r), NEW t, NEW left, Current(t, left, latest, Object)
    PROVE  Current(t, left, latest', Object)
<1>1. \A o \in Object : latest'[o] = IF o \in Objects(r.item) THEN r.rev ELSE latest[o]
    BY LearnsLatest
<1>2. \A o \in Objects(r.item) : latest[o] = 0 /\ o \in Object
    BY OneInFlight DEF EditsHold, Revisions
<1>3. QED
    BY <1>1, <1>2 DEF Current

LEMMA NoOtherCreation ==
    ASSUME QueueInv, EditsHold, NEW r \in futures, r.item.op \in {"create", "bulk"}
    PROVE  \A i \in Creations(Alive(sync_queue, futures \ {r})) : Objects(i) \cap Objects(r.item) = {}
<1>1. \A i \in Alive(sync_queue, futures \ {r}) : i.no # r.item.no /\ i \in Alive(sync_queue, futures)
    BY EndedAlone DEF Alive, Requested
<1>2. r.item \in Creations(Alive(sync_queue, futures))
    BY DEF Alive, Requested, Creations
<1>3. QED
    BY <1>1, <1>2 DEF EditsHold, Orderly, CreatedOnce, Creations

LEMMA CreatedEdits ==
    ASSUME QueueInv, EditsHold, NEW r \in futures, CreateSucceeded(r)
    PROVE  EditsHold'
<1> DEFINE item == r.item
           o == ObjectOf(item)
           u == Replaced(sync_queue, item, o)
           s == IF o \in Enums THEN u ELSE sync_queue
           t == CreationSucceeded(s, item, o)
           left == futures \ {r}
<1>1. /\ r.at = "applied" /\ item.op = "create" /\ CallBack(r, t)
      /\ Learns(r) /\ UNCHANGED <<log, cleared>>
    BY DEF CreateSucceeded
<1>2. t = AfterCreation(item)
    BY DEF AfterCreation
<1>3. Well(t, futures, enqueued) /\ Traceless(t, item.no)
    BY <1>1, <1>2, CreateSucceededOf
<1>4. /\ item \in GoodItem /\ o \in Objects(item) /\ Objects(item) = {o}
      /\ sync_queue \in Structs /\ sync_queue \in Tidy /\ Well(sync_queue, futures, enqueued)
    BY <1>1, InFlightItem, ItemIds
<1>5. o \notin sync_queue.client_id_to_server
      /\ \A i \in Creations(Alive(sync_queue, left)) : o \notin Objects(i)
    BY <1>1, <1>4, OneInFlight, NoOtherCreation
<1>6. \A i \in Alive(sync_queue, left) : i.no # item.no
    BY EndedAlone
<1> HIDE DEF item, o
<1>7. /\ Eases(sync_queue, s, item.no) /\ SameRevisions(sync_queue, s)
      /\ s.client_id_to_server = sync_queue.client_id_to_server
      /\ Well(s, futures, enqueued)
    <2>1. /\ Eases(sync_queue, u, item.no) /\ SameRevisions(sync_queue, u)
          /\ u.client_id_to_server = sync_queue.client_id_to_server
        BY <1>4, ReplacedEases
    <2>2. u \in Tidy /\ Rewritten(sync_queue, u)
        BY <1>4, ReplacedTidy, ReplacedType
    <2> HIDE DEF u
    <2>3. Well(u, futures, enqueued)
        BY <1>4, <2>2, RewrittenKeepsWell
    <2>4. Eases(sync_queue, sync_queue, item.no) /\ SameRevisions(sync_queue, sync_queue)
        BY SameEases DEF Same
    <2>5. QED
        BY <1>4, <2>1, <2>3, <2>4
<1> HIDE DEF s, u
<1>8. Orderly(s, left) /\ Current(s, left, latest, Object)
    BY <1>7, AnsweredOrder DEF EditsHold, item
<1>9. \A j \in Alive(s, left) : \E i \in Alive(sync_queue, left) : Alike(i, j)
    BY <1>7 DEF Eases, Alive, Requested, Alike
<1>10. /\ \A i \in Alive(s, left) : i.no # item.no
       /\ \A i \in Creations(Alive(s, left)) : o \notin Objects(i)
       /\ o \notin s.client_id_to_server
    <2>1. \A j \in Alive(s, left) : \E i \in Alive(sync_queue, left) :
             i.no = j.no /\ i.op = j.op /\ Objects(i) = Objects(j)
        BY <1>9, AlikeObjects
    <2>2. QED
        BY <1>5, <1>6, <1>7, <2>1 DEF Creations
<1>11. Current(s, left, latest', Object) /\ latest'[o] = 1
    BY <1>1, <1>4, <1>8, CreatedCurrent, FirstRevision DEF item
<1>12. left \in SUBSET futures /\ left = futures \ {r}
    OBVIOUS
<1>13. Well(t, left, enqueued)
    BY <1>3, EndedKeepsWell DEF item
<1>14. Becomes(Dequeued(t), left)
    BY <1>1 DEF CallBack
<1> HIDE DEF left
<1>15. /\ Orderly(t, left) /\ Current(t, left, latest', Object)
       /\ t.client_id_to_server = s.client_id_to_server \cup {o}
    <2>1. item \in GoodItem /\ o \in Objects(item)
        BY <1>4
    <2>2. Well(s, futures, enqueued)
        BY <1>7
    <2>3. left \in SUBSET futures
        BY <1>12
    <2>4. Orderly(s, left) /\ Current(s, left, latest', Object) /\ latest'[o] = 1
        BY <1>8, <1>11
    <2> DEFINE v == CreationSucceeded(s, item, o)
    <2>5. /\ Orderly(v, left) /\ Current(v, left, latest', Object)
          /\ v.client_id_to_server = s.client_id_to_server \cup {o}
          /\ \A j \in Alive(v, left) : \E i \in Alive(s, left) : Alike(i, j)
        BY <1>10, <2>1, <2>2, <2>3, <2>4, CreationSucceededKeepsOrder
    <2>6. QED
        BY <2>5
<1> HIDE DEF t
<1>16. /\ Orderly(sync_queue', futures') /\ Current(sync_queue', futures', latest', Object)
       /\ sync_queue'.client_id_to_server = t.client_id_to_server
       /\ left \subseteq futures' /\ \A q \in futures' : q \in left \/ q.at = "sent"
    BY <1>13, <1>14, <1>15, DequeuedOrderly
<1>17. sync_queue'.client_id_to_server = sync_queue.client_id_to_server \cup Objects(r.item)
    BY <1>4, <1>7, <1>15, <1>16 DEF item
<1>18. Revisions'
    BY <1>1, <1>12, <1>16, <1>17, RevisionsLearned DEF item
<1>19. QED
    BY <1>1, <1>16, <1>18 DEF EditsHold

LEMMA NextOrderly ==
    ASSUME QueueInv, EditsHold, NEW r \in futures, r.at = "applied", r.item.op = "bulk", Learns(r),
           NEW created \in Seq(Objects(r.item)), IsInjective(created),
           NEW k \in 1..Len(created), NEW t \in OrderlyAfter(r, created, k - 1)
    PROVE  Dequeued(CreationSucceeded(t, r.item, created[k])) \in OrderlyAfter(r, created, k)
<1> DEFINE item == r.item
           o == created[k]
           left == futures \ {r}
           c == CreationSucceeded(t, item, o)
           u == Dequeued(c)
<1>1. t \in AfterObjects(item, created, k - 1)
    BY DEF OrderlyAfter
<1>2. u \in AfterObjects(item, created, k)
    BY <1>1, NextObject
<1>3. /\ item \in GoodItem /\ item.op = "bulk" /\ o \in Objects(item) /\ item \in Flying(t, futures)
      /\ o \notin sync_queue.client_id_to_server
    BY InFlightItem, OneInFlight DEF Flying
<1>4. o \notin {created[j] : j \in 1..(k - 1)}
    BY DEF IsInjective
<1>5. /\ Orderly(t, left) /\ Current(t, left, latest', Object)
      /\ t.client_id_to_server = sync_queue.client_id_to_server \cup {created[j] : j \in 1..(k - 1)}
      /\ \A i \in Alive(t, left) : i.no # item.no
      /\ \A i \in Creations(Alive(t, left)) : Objects(i) \cap Objects(item) = {}
      /\ Well(t, futures, enqueued)
    BY <1>1 DEF OrderlyAfter, AfterObjects
<1>6. latest'[o] = 1
    BY <1>3, FirstRevision
<1>7. {created[j] : j \in 1..k} = {created[j] : j \in 1..(k - 1)} \cup {o}
    <2>1. \A j : j \in 1..k <=> j \in 1..(k - 1) \/ j = k
        OBVIOUS
    <2>2. QED
        BY <2>1
<1>8. left \in SUBSET futures
    OBVIOUS
<1>9. OrderlyAfter(r, created, k) =
          {x \in AfterObjects(item, created, k) :
              /\ Orderly(x, left) /\ Current(x, left, latest', Object)
              /\ x.client_id_to_server = sync_queue.client_id_to_server \cup {created[j] : j \in 1..k}
              /\ \A i \in Alive(x, left) : i.no # item.no
              /\ \A i \in Creations(Alive(x, left)) : Objects(i) \cap Objects(item) = {}}
    BY DEF OrderlyAfter
<1> DEFINE before == {created[j] : j \in 1..(k - 1)}
           upto == {created[j] : j \in 1..k}
<1>10. before = before /\ upto = before \cup {o} /\ o \notin before
       /\ t.client_id_to_server = sync_queue.client_id_to_server \cup before
    BY <1>4, <1>5, <1>7
<1> HIDE DEF before, o, left, item
<1>11. \A i \in Creations(Alive(t, left)) : o \notin Objects(i)
    BY <1>3, <1>5
<1>12. o \notin t.client_id_to_server
    BY <1>3, <1>10
<1>13. /\ Orderly(c, left) /\ Current(c, left, latest', Object)
       /\ c.client_id_to_server = t.client_id_to_server \cup {o}
       /\ \A j \in Alive(c, left) : \E i \in Alive(t, left) : Alike(i, j)
    BY <1>3, <1>5, <1>6, <1>8, <1>11, <1>12, CreationSucceededKeepsOrder
<1>14. Well(c, futures, enqueued)
    BY <1>3, <1>5, CreationSucceededKeepsWell
<1> HIDE DEF c
<1>15. /\ Orderly(u, left) /\ Current(u, left, latest', Object)
       /\ u.client_id_to_server = c.client_id_to_server
       /\ Alive(u, left) \subseteq Alive(c, left)
    BY <1>8, <1>13, <1>14, DequeuedKeepsOrder
<1> HIDE DEF u
<1>16. /\ \A i \in Alive(u, left) : i.no # item.no
       /\ \A i \in Creations(Alive(u, left)) : Objects(i) \cap Objects(item) = {}
    <2>1. \A j \in Alive(u, left) : \E i \in Alive(t, left) : i.no = j.no /\ i.op = j.op /\ Objects(i) = Objects(j)
        BY <1>13, <1>15, AlikeObjects
    <2>2. QED
        BY <1>5, <2>1 DEF Creations
<1>17. u.client_id_to_server = sync_queue.client_id_to_server \cup upto
    BY <1>10, <1>13, <1>15
<1>18. u \in OrderlyAfter(r, created, k)
    BY <1>2, <1>9, <1>15, <1>16, <1>17
<1>19. QED
    BY <1>18 DEF u, c, o, item

LEMMA BulkCreatedEdits ==
    ASSUME QueueInv, EditsHold, NEW r \in futures, BulkCreateSucceeded(r)
    PROVE  EditsHold'
<1> DEFINE item == r.item
           left == futures \ {r}
<1>1. /\ item \in GoodItem /\ sync_queue \in Tidy /\ Well(sync_queue, futures, enqueued)
    BY InFlightItem
<1>2. /\ r.at = "applied" /\ item.op = "bulk" /\ Learns(r) /\ UNCHANGED <<log, cleared>> /\ TypeInv
    BY DEF BulkCreateSucceeded, QueueInv
<1>3. PICK created \in Seq(Object) :
         /\ ToSet(created) = Objects(item) /\ IsInjective(created)
         /\ Becomes(AllCreated(sync_queue, item, created), left)
    BY <1>2, BulkCreateSucceededTypes
<1> DEFINE n == Len(created)
           G == [k \in 0..n |-> OrderlyAfter(r, created, k)]
           t == AllCreated(sync_queue, item, created)
<1>4. created \in Seq(Objects(item)) /\ n \in Nat /\ n > 0
    BY <1>1, <1>3, AllOfThem
<1> HIDE DEF n
<1>5. sync_queue \in G[0]
    <2>1. Progress(sync_queue, sync_queue)
        BY SameProgress
    <2>2. sync_queue \in AfterObjects(item, created, 0)
        BY <1>1, <2>1 DEF AfterObjects
    <2>3. 0 \in 0..n
        BY <1>4
    <2>4. Eases(sync_queue, sync_queue, item.no) /\ SameRevisions(sync_queue, sync_queue)
        BY SameEases DEF Same
    <2>5. Orderly(sync_queue, left) /\ Current(sync_queue, left, latest, Object)
        BY <2>4, AnsweredOrder DEF EditsHold
    <2>6. Current(sync_queue, left, latest', Object)
        BY <1>2, <2>5, CreatedCurrent
    <2>7. \A i \in Alive(sync_queue, left) : i.no # item.no
        BY EndedAlone
    <2>8. \A i \in Creations(Alive(sync_queue, left)) : Objects(i) \cap Objects(item) = {}
        BY <1>2, NoOtherCreation
    <2>9. {created[j] : j \in 1..0} = {}
        OBVIOUS
    <2>10. sync_queue \in OrderlyAfter(r, created, 0)
        BY <2>2, <2>5, <2>6, <2>7, <2>8, <2>9 DEF OrderlyAfter
    <2>11. QED
        BY <2>3, <2>10
<1>6. ASSUME NEW k \in 1..n, NEW u \in G[k - 1]
      PROVE  Dequeued(CreationSucceeded(u, item, created[k])) \in G[k]
    <2>1. k \in 0..n /\ k - 1 \in 0..n /\ k \in 1..Len(created)
        BY <1>4 DEF n
    <2>2. u \in OrderlyAfter(r, created, k - 1)
        BY <2>1
    <2>3. Dequeued(CreationSucceeded(u, item, created[k])) \in OrderlyAfter(r, created, k)
        BY <1>2, <1>3, <1>4, <2>1, <2>2, NextOrderly
    <2>4. QED
        BY <2>1, <2>3
<1>7. t \in OrderlyAfter(r, created, n)
    <2>1. Len(created) = n
        BY DEF n
    <2> HIDE DEF G, t
    <2>2. t \in G[n]
        BY <1>4, <1>5, <1>6, <2>1, AllCreatedIn DEF t
    <2>3. n \in 0..n
        BY <1>4
    <2>4. QED
        BY <2>2, <2>3 DEF G
<1>8. Becomes(t, left)
    BY <1>3
<1> HIDE DEF t, G
<1>9. /\ t \in AfterObjects(item, created, n)
      /\ Orderly(t, left) /\ Current(t, left, latest', Object)
      /\ t.client_id_to_server = sync_queue.client_id_to_server \cup {created[j] : j \in 1..n}
    BY <1>7 DEF OrderlyAfter
<1>10. {created[j] : j \in 1..n} = Objects(item)
    BY <1>3, <1>4 DEF ToSet, n
<1>11. t \in Tidy /\ left \subseteq Requests
    BY <1>9, EndedAlone DEF AfterObjects
<1>12. left = futures \ {r}
    OBVIOUS
<1> HIDE DEF left
<1>13. /\ Orderly(sync_queue', futures') /\ Current(sync_queue', futures', latest', Object)
       /\ sync_queue'.client_id_to_server = t.client_id_to_server
       /\ left \subseteq futures' /\ \A q \in futures' : q \in left \/ q.at = "sent"
    BY <1>8, <1>9, <1>11, BecomesOrderly
<1>14. sync_queue'.client_id_to_server = sync_queue.client_id_to_server \cup Objects(r.item)
    BY <1>9, <1>10, <1>13
<1>15. Revisions'
    BY <1>2, <1>12, <1>13, <1>14, RevisionsLearned
<1>16. QED
    BY <1>2, <1>13, <1>15 DEF EditsHold

\* The creations of an earlier run.
LEMMA InitEdits ==
    ASSUME Init
    PROVE  EditsHold
<1>1. PICK loaded : Loaded(loaded)
    BY InitTypes
<1>2. /\ futures = {} /\ cleared = 0 /\ sync_queue.spawned = {} /\ sync_queue.client_id_to_server = {}
      /\ loaded.queue = sync_queue.queue
      /\ \A i \in Items(loaded) : i.op = "create"
      /\ \A i, j \in Items(loaded) : Objects(i) \cap Objects(j) # {} => i.no = j.no
    BY <1>1, InitTypes DEF Loaded, TypeInv, QueueTypes, Items, ToSet
<1>3. Items(sync_queue) = Items(loaded) /\ Requested(sync_queue, futures) = {}
    BY <1>2 DEF Items, Requested
<1>4. Alive(sync_queue, futures) = Items(loaded)
    BY <1>3 DEF Alive
<1>5. UpdatesWait(sync_queue, futures) /\ UpdatesKnown(sync_queue, futures)
    BY <1>2, <1>3, <1>4 DEF UpdatesWait, UpdatesKnown, Updates
<1>6. CreatedOnce(sync_queue, futures) /\ JustSent(sync_queue)
    BY <1>2, <1>4 DEF CreatedOnce, Creations, JustSent
<1>7. Current(sync_queue, futures, latest, Object)
    BY <1>2, <1>4 DEF Current, Updates
<1>8. \A o \in Object : log[o] = <<>> /\ latest[o] = 0
    BY DEF Init
<1>9. Revisions
    BY <1>2, <1>8 DEF Revisions
<1>10. QED
    BY <1>2, <1>5, <1>6, <1>7, <1>9 DEF EditsHold, Orderly

LEMMA NextEdits ==
    ASSUME QueueInv, EditsInv, [Next]_vars
    PROVE  EditsInv'
<1> DEFINE Kept == lost' = lost /\ logouts' = logouts /\ (EditsHold => EditsHold')
           Gone == lost' \in Nat /\ logouts' \in Nat /\ (lost' > 0 \/ logouts' > 0)
<1>1. ASSUME UserEnqueues PROVE Kept
    <2>1. PICK item : NewItem(item) /\ Enqueue(item)
        BY <1>1, EnqueuesOne DEF QueueInv
    <2>2. UNCHANGED <<lost, logouts>>
        BY <2>1 DEF Enqueue
    <2>3. QED
        BY <2>1, <2>2, EnqueueEdits
<1>2. ASSUME StartDequeueing \/ StopDequeueing PROVE Kept
    <2>1. UNCHANGED <<lost, logouts>>
        BY <1>2 DEF StartDequeueing, StopDequeueing, appVars
    <2>2. QED
        BY <1>2, <2>1, SwitchEdits
<1>3. ASSUME Clear PROVE Gone
    BY <1>3 DEF Clear, EditsInv
<1>4. ASSUME NEW r \in futures, RequestFailedRetryPending(r) \/ RequestFailed(r) PROVE Kept \/ Gone
    <2>1. logouts' = logouts /\ Unanswered(r)
        BY <1>4 DEF RequestFailedRetryPending, RequestFailed, appVars
    <2>2. CASE r.at = "sent"
        <3>1. lost' = lost
            BY <2>1, <2>2 DEF Unanswered
        <3>2. QED
            BY <1>4, <2>1, <2>2, <3>1, RetryEdits, FailedEdits
    <2>3. CASE r.at # "sent"
        <3>1. lost' = lost + 1
            BY <2>1, <2>3 DEF Unanswered
        <3>2. QED
            BY <2>1, <3>1 DEF EditsInv
    <2>4. QED
        BY <2>2, <2>3
<1>5. ASSUME NEW r \in futures,
             \/ ServerReceives(r)
             \/ CreateSucceeded(r) \/ BulkCreateSucceeded(r)
             \/ CreateDenied(r) \/ CreateDeniedToTeam(r) \/ UniqueKeyConflict(r)
             \/ UpdateSucceeded(r) \/ UpdateRejected(r) \/ ActionRecorded(r)
      PROVE  Kept
    <2>1. UNCHANGED <<lost, logouts>>
        BY <1>5 DEF ServerReceives, CreateSucceeded, BulkCreateSucceeded, CreateDenied, CreateDeniedToTeam,
                    UniqueKeyConflict, UpdateSucceeded, UpdateRejected, ActionRecorded, appVars
    <2>2. EditsHold => r.at # "refused"
        BY DEF EditsHold, Revisions
    <2>3. EditsHold => ~UpdateRejected(r)
        BY <2>2 DEF UpdateRejected
    <2>4. EditsHold => EditsHold'
        BY <1>5, <2>3, ReceivedEdits, CreatedEdits, BulkCreatedEdits, DeniedEdits, DeniedToTeamEdits,
           ConflictEdits, UpdatedEdits, RecordedEdits
    <2>5. QED
        BY <2>1, <2>4
<1>6. ASSUME UNCHANGED vars PROVE Kept
    <2>1. /\ UNCHANGED <<sync_queue, futures, log, latest, cleared, lost, logouts>>
        BY <1>6 DEF vars, appVars
    <2>2. EditsHold => Revisions'
        BY <2>1, RevisionsKept DEF EditsHold
    <2>3. QED
        BY <2>1, <2>2 DEF EditsHold
<1>7. Kept \/ Gone
    BY <1>1, <1>2, <1>3, <1>4, <1>5, <1>6 DEF Next, UserEnqueues
<1>8. QED
    BY <1>7 DEF EditsInv

\* Unless an answer was lost or the user logged out, the server refuses no
\* update of this client's: each waits for every earlier update of its object, and
\* carries the revision that these have produced.
THEOREM NoOwnEditRefused == Spec => []OwnEditsAccepted
<1>1. Init => QueueInv /\ EditsInv
    <2>1. Init => QueueInv /\ EditsHold
        BY InitWell, InitEdits
    <2>2. Init => lost = 0 /\ logouts = 0
        BY DEF Init
    <2>3. QED
        BY <2>1, <2>2 DEF EditsInv
<1>2. QueueInv /\ EditsInv /\ [Next]_vars => QueueInv' /\ EditsInv'
    BY NextGood, NextEdits
<1>3. QueueInv /\ EditsInv => OwnEditsAccepted
    BY DEF EditsInv, EditsHold, Revisions, OwnEditsAccepted
<1>4. QED
    BY <1>1, <1>2, <1>3, PTL DEF Spec

-----------------------------------------------------------------------------
(* What is shown of an object: the changes that are still to be made on the  *)
(* server, and what they will leave there.                                   *)

LEMMA ToldFailed ==
    ASSUME NEW s, NEW t, NEW kind, NEW objects, Tells(s, t, kind, objects)
    PROVE  /\ kind \in {"failed", "denied"} => t.failed = s.failed \cup objects
           /\ kind = None => t.failed = s.failed \ objects
           /\ kind = "done" => t.failed = s.failed
<1>1. None # "failed" /\ None # "denied" /\ None # "done"
    BY SyncQueueAssumption
<1>2. t.failed = CASE kind \in {"failed", "denied"} -> s.failed \cup objects
                   [] kind = None -> s.failed \ objects
                   [] OTHER -> s.failed
    BY DEF Tells
<1>3. CASE kind \in {"failed", "denied"}
    BY <1>1, <1>2, <1>3
<1>4. CASE kind = None
    BY <1>1, <1>2, <1>4
<1>5. CASE kind = "done"
    BY <1>1, <1>2, <1>5
<1>6. QED
    BY <1>3, <1>4, <1>5

LEMMA StaysOn ==
    ASSUME NEW s, NEW t, NEW u, NEW left, NEW o, NotCreated(t) \subseteq NotCreated(u),
           Stays(s, t, left, o), Stays(t, u, left, o)
    PROVE  Stays(s, u, left, o)
    BY DEF Stays

LEMMA SameStays ==
    ASSUME NEW s, NEW t, NEW left, NEW o, Work(t, left, o) = Work(s, left, o)
    PROVE  Stays(s, t, left, o)
    BY DEF Stays

LEMMA ReportsMore ==
    ASSUME NEW s, NEW t, NEW u, NEW left, NEW kind, NEW first, NEW second,
           Reports(s, t, left, kind, first), Reports(t, u, left, kind, second)
    PROVE  Reports(s, u, left, kind, first \cup second)
<1>1. /\ s.failed \subseteq u.failed /\ t.failed \subseteq u.failed
      /\ NotCreated(s) \subseteq NotCreated(u) /\ NotCreated(t) \subseteq NotCreated(u)
    BY DEF Reports
<1>2. kind \in {"failed", "denied"} => (first \cup second) \cap Object \subseteq u.failed
    BY <1>1 DEF Reports
<1>3. ASSUME NEW o \in Object
      PROVE  \/ o \in u.failed /\ (u.told[o] = "failed" \/ (o \in first \cup second /\ u.told[o] = kind))
             \/ /\ Stays(s, u, left, o)
                /\ u.told[o] = IF o \in first \cup second THEN kind ELSE s.told[o]
    <2>1. CASE o \in u.failed /\ (u.told[o] = "failed" \/ (o \in second /\ u.told[o] = kind))
        BY <2>1
    <2>2. CASE /\ Stays(t, u, left, o)
               /\ u.told[o] = IF o \in second THEN kind ELSE t.told[o]
        <3>1. CASE o \in t.failed /\ (t.told[o] = "failed" \/ (o \in first /\ t.told[o] = kind))
            BY <1>1, <2>2, <3>1
        <3>2. CASE /\ Stays(s, t, left, o)
                   /\ t.told[o] = IF o \in first THEN kind ELSE s.told[o]
            BY <1>1, <2>2, <3>2, StaysOn
        <3>3. QED
            BY <3>1, <3>2 DEF Reports
    <2>3. QED
        BY <2>1, <2>2 DEF Reports
<1>4. QED
    BY <1>1, <1>2, <1>3 DEF Reports

\* The work of an object, from one set of items to another.
LEMMA AlikeWork ==
    ASSUME NEW s, NEW t, NEW left, NEW o,
           \A j \in Alive(t, left) : j.op # "action" /\ o \in Objects(j) =>
               \E i \in Alive(s, left) : Alike(i, j),
           \A i \in Alive(s, left) : i.op # "action" /\ o \in Objects(i) =>
               \E j \in Alive(t, left) : Alike(i, j)
    PROVE  Work(t, left, o) = Work(s, left, o)
<1>1. \A i, j : Alike(i, j) => Job(i) = Job(j) /\ i.op = j.op /\ Objects(i) = Objects(j)
    BY AlikeObjects DEF Job
<1>2. \A x \in Work(t, left, o) : x \in Work(s, left, o)
    BY <1>1 DEF Work
<1>3. \A x \in Work(s, left, o) : x \in Work(t, left, o)
    BY <1>1 DEF Work
<1>4. QED
    BY <1>2, <1>3

LEMMA SaidReports ==
    ASSUME NEW s, NEW t, NEW left, NEW kind \in Outcomes, NEW objects,
           Items(t) = Items(s), t.spawned = s.spawned, t.dropped = s.dropped, Tells(s, t, kind, objects)
    PROVE  Reports(s, t, left, kind, objects)
<1>1. Alive(t, left) = Alive(s, left)
    BY DEF Alive, Requested
<1>2. \A o : Stays(s, t, left, o)
    BY <1>1 DEF Work, Stays
<1>3. NotCreated(t) = NotCreated(s)
    BY DEF NotCreated
<1>4. kind # None
    BY SyncQueueAssumption DEF Outcomes
<1>5. QED
    BY <1>2, <1>3, <1>4 DEF Reports, Tells, Outcomes

LEMMA SameReports ==
    ASSUME NEW s, NEW t, NEW left, NEW kind, Items(t) = Items(s), t.spawned = s.spawned, t.dropped = s.dropped,
           t.told = s.told, t.failed = s.failed
    PROVE  Reports(s, t, left, kind, {})
<1>1. Alive(t, left) = Alive(s, left)
    BY DEF Alive, Requested
<1>2. \A o : Stays(s, t, left, o)
    BY <1>1 DEF Work, Stays
<1>3. NotCreated(t) = NotCreated(s)
    BY DEF NotCreated
<1>4. QED
    BY <1>2, <1>3 DEF Reports

LEMMA RewrittenReports ==
    ASSUME NEW s, NEW t, NEW left, NEW kind, Rewritten(s, t)
    PROVE  Reports(s, t, left, kind, {})
<1>1. Requested(t, left) = Requested(s, left) /\ \A i : Alike(i, i)
    BY DEF Rewritten, Requested, Alike
<1>2. \A k \in DOMAIN s.queue : Alike(s.queue[k], t.queue[k])
    BY DEF Rewritten, Alike
<1>3. \A j \in Items(t) : \E i \in Items(s) : Alike(i, j)
    BY <1>2 DEF Rewritten, Items, ToSet
<1>4. \A i \in Items(s) : \E j \in Items(t) : Alike(i, j)
    BY <1>2 DEF Rewritten, Items, ToSet
<1>5. ASSUME NEW o PROVE Work(t, left, o) = Work(s, left, o)
    <2>1. \A j \in Alive(t, left) : \E i \in Alive(s, left) : Alike(i, j)
        BY <1>1, <1>3 DEF Alive
    <2>2. \A i \in Alive(s, left) : \E j \in Alive(t, left) : Alike(i, j)
        BY <1>1, <1>4 DEF Alive
    <2>3. QED
        BY <2>1, <2>2, AlikeWork
<1>6. (\A o : Stays(s, t, left, o)) /\ NotCreated(t) = NotCreated(s)
    BY <1>5, SameStays DEF Rewritten, NotCreated
<1>7. QED
    BY <1>6 DEF Reports, Rewritten

\* Items are lost, and the objects of their changes are told that they failed,
\* unless it is creations that are skipped.
LEMMA LostReports ==
    ASSUME NEW s, NEW t, NEW left, NEW gone, NEW objects, NEW more,
           Items(t) = Items(s) \ gone, t.spawned = s.spawned, s.dropped \subseteq t.dropped,
           \A i \in gone : \A o \in Objects(i) \ more :
               i.op = "action" \/ (i.op \in {"create", "bulk"} /\ i \in t.dropped),
           Tells(s, t, "failed", objects \cup more)
    PROVE  Reports(s, t, left, "failed", objects) /\ \A kind : objects = {} => Reports(s, t, left, kind, objects)
<1>1. /\ s.failed \subseteq t.failed /\ objects \cup more \subseteq t.failed
      /\ NotCreated(s) \subseteq NotCreated(t)
    <2>1. s.failed \subseteq t.failed /\ objects \cup more \subseteq t.failed
        <3>1. t.failed = s.failed \cup (objects \cup more)
            BY ToldFailed
        <3>2. QED
            BY <3>1
    <2>2. NotCreated(s) \subseteq NotCreated(t)
        BY DEF NotCreated
    <2>3. QED
        BY <2>1, <2>2
<1>2. ASSUME NEW o \in Object, o \in objects \cup more
      PROVE  o \in t.failed /\ t.told[o] = "failed"
    BY <1>1, <1>2 DEF Tells
<1>3. ASSUME NEW o \in Object, o \notin objects \cup more
      PROVE  Stays(s, t, left, o) /\ t.told[o] = s.told[o]
    <2>1. Requested(t, left) = Requested(s, left)
        BY DEF Requested
    <2>2. Alive(t, left) \subseteq Alive(s, left) /\ Alive(s, left) \subseteq Alive(t, left) \cup gone
        BY <2>1 DEF Alive
    <2>3. Work(t, left, o) \subseteq Work(s, left, o)
        BY <2>2 DEF Work
    <2>4. ASSUME NEW w \in Work(s, left, o), w \notin Work(t, left, o)
          PROVE  w.op # "update" /\ o \in NotCreated(t)
        <3>1. PICK i \in Alive(s, left) : i.op # "action" /\ o \in Objects(i) /\ w = Job(i)
            BY DEF Work
        <3>2. i \in gone
            BY <2>2, <2>4, <3>1 DEF Work
        <3>3. i.op \in {"create", "bulk"} /\ i \in t.dropped
            BY <1>3, <3>1, <3>2
        <3>4. QED
            BY <3>1, <3>3 DEF Job, NotCreated
    <2>5. QED
        BY <1>3, <2>3, <2>4 DEF Tells, Stays
<1>4. Reports(s, t, left, "failed", objects)
    BY <1>1, <1>2, <1>3 DEF Reports
<1>5. ASSUME NEW kind, objects = {} PROVE Reports(s, t, left, kind, objects)
    <2>1. ASSUME NEW o \in Object
          PROVE  \/ o \in t.failed /\ t.told[o] = "failed"
                 \/ Stays(s, t, left, o) /\ t.told[o] = s.told[o]
        <3>1. CASE o \in objects \cup more
            BY <1>2, <3>1
        <3>2. CASE o \notin objects \cup more
            BY <1>3, <3>2
        <3>3. QED
            BY <3>1, <3>2
    <2>2. Reports(s, t, left, kind, {})
        BY <1>1, <2>1 DEF Reports
    <2>3. QED
        BY <1>5, <2>2
<1>6. QED
    BY <1>4, <1>5

\* Of the items that dequeue skips, the updates and what depends on them fail.
LEMMA SkippedReports ==
    ASSUME NEW s, NEW all, NEW m, Well(s, all, m), NEW left, NEW kind
    PROVE  Reports(s, Skipped(s, Tried(s)), left, kind, {})
<1> DEFINE tried == Tried(s)
           t == Skipped(s, tried)
           updates == {i \in tried : i.op = "update"}
<1>1. s \in Structs /\ Items(s) \subseteq GoodItem
    BY WellTypes
<1>2. \A i \in tried : i \in Items(s) /\ ~Resolved(s, i)
    BY <1>1, NextChosen
<1>4. tried \subseteq GoodItem
    BY <1>1, <1>2
<1>5. /\ \E r \in Structs : \E gone :
            /\ r = Removed(s, tried)
            /\ FallsOut(r, t, {OnItem(i.no) : i \in {i \in tried : i.op = "update"}}, gone)
            /\ t.answered = s.answered \cup Numbers({i \in tried : i.op = "update"}) \cup Numbers(gone)
            /\ Tells(s, t, "failed", Shown({i \in tried : i.op = "update"}) \cup Shown(gone))
      /\ t.spawned = s.spawned /\ t.dropped = s.dropped \cup (tried \ updates)
    BY <1>4, <1>1, SkippedType
<1>6. Items(Removed(s, tried)) = Items(s) \ tried
    BY <1>1, <1>4, RemovedType
<1> HIDE DEF t, tried
<1>7. PICK gone :
         /\ gone \subseteq Items(s) \ tried /\ Items(t) = (Items(s) \ tried) \ gone
         /\ Tells(s, t, "failed", Shown(updates) \cup Shown(gone))
    BY <1>5, <1>6 DEF FallsOut
<1>8. ASSUME NEW i \in tried \cup gone, NEW o \in Objects(i) \ (Shown(updates) \cup Shown(gone))
      PROVE  i.op = "action" \/ (i.op \in {"create", "bulk"} /\ i \in t.dropped)
    <2>1. i \in gone => i.op = "action"
        BY <1>8 DEF Shown
    <2>2. i \in updates => i.op = "action"
        BY <1>8 DEF Shown
    <2>3. i \in tried /\ i \notin updates => i.op \in {"create", "bulk", "action"} /\ i \in t.dropped
        BY <1>4, <1>5, ItemIds
    <2>4. QED
        BY <2>1, <2>2, <2>3
<1> DEFINE out == tried \cup gone
           more == Shown(updates) \cup Shown(gone)
<1>9. /\ Items(t) = Items(s) \ out /\ t.spawned = s.spawned /\ s.dropped \subseteq t.dropped
      /\ Tells(s, t, "failed", {} \cup more)
      /\ \A i \in out : \A o \in Objects(i) \ more :
             i.op = "action" \/ (i.op \in {"create", "bulk"} /\ i \in t.dropped)
    BY <1>5, <1>7, <1>8
<1> HIDE DEF out, more
<1>10. Reports(s, t, left, kind, {})
    BY <1>9, LostReports
<1>11. QED
    BY <1>10 DEF t, tried

LEMMA DequeuedReports ==
    ASSUME NEW s, NEW all, NEW m, Well(s, all, m), NEW left, NEW kind
    PROVE  Reports(s, Dequeued(s), left, kind, {})
<1> DEFINE k == Skipped(s, Tried(s))
           t == Dequeued(s)
           sent == NextSent(s)
<1>1. CASE ~s.should_dequeue
    <2>1. t = s
        BY <1>1 DEF Dequeued
    <2>2. QED
        BY <2>1, SameReports
<1>2. CASE s.should_dequeue
    <2>1. Reports(s, k, left, kind, {})
        BY SkippedReports
    <2>2. Sent(k, t, sent)
        BY <1>2, DequeuedSends
    <2>3. s \in Structs /\ Items(s) \subseteq GoodItem
        BY WellTypes
    <2>4. \A i \in Items(s) : s.queue_dependencies[i.no] = {} /\ i \notin Tried(s) => i \in Items(k)
        BY SkippedKeepsWell
    <2>5. \A i \in sent : i \in Items(s) /\ s.queue_dependencies[i.no] = {} /\ i \notin Tried(s)
        BY <2>3, NextChosen
    <2>6. sent \subseteq Items(k) /\ \A i \in sent : Request(i).item = i
        BY <2>3, <2>4, <2>5, RequestType
    <2> HIDE DEF k, t, sent
    <2>7. Alive(t, left) = Alive(k, left)
        BY <2>2, <2>6 DEF Sent, Alive, Requested
    <2>8. (\A o : Stays(k, t, left, o)) /\ NotCreated(t) = NotCreated(k)
        BY <2>2, <2>7 DEF Work, Stays, Sent, NotCreated
    <2>9. Reports(k, t, left, kind, {})
        BY <2>2, <2>8 DEF Reports, Sent
    <2>10. Reports(s, t, left, kind, {} \cup {})
        BY <2>1, <2>9, ReportsMore
    <2>11. QED
        BY <2>10 DEF t
<1>3. QED
    BY <1>1, <1>2

\* An item is pushed: it is work for its objects.
LEMMA PushedWork ==
    ASSUME NEW s \in Structs, NEW item \in GoodItem, NEW left
    PROVE  LET t == Pushed(s, item) IN
           /\ s.failed \ Shown({item}) \subseteq t.failed /\ NotCreated(t) = NotCreated(s)
           /\ \A o \in Object :
                 \/ o \in t.failed /\ t.told[o] = "failed"
                 \/ o \in Shown({item}) /\ Work(t, left, o) = Work(s, left, o) \cup {Job(item)} /\ t.told[o] = None
                 \/ o \notin Shown({item}) /\ Work(t, left, o) = Work(s, left, o) /\ t.told[o] = s.told[o]
<1> DEFINE t == Pushed(s, item)
           kind == IF Hopeless(s, item) THEN "failed" ELSE None
<1>1. /\ \E i \in GoodItem :
            /\ i.no = item.no /\ i.op = item.op /\ i.ids = item.ids /\ i.folder = item.folder
            /\ i.edit = item.edit /\ i.rev = item.rev
            /\ t.queue = Append(s.queue, i)
      /\ t.spawned = s.spawned /\ t.dropped = s.dropped
      /\ Tells(s, t, IF Hopeless(s, item) THEN "failed" ELSE None, Shown({item}))
    BY PushedType
<1> HIDE DEF t
<1>2. PICK new \in GoodItem : Alike(item, new) /\ t.queue = Append(s.queue, new)
    BY <1>1 DEF Alike
<1>3. s.queue \in Seq(GoodItem)
    BY StructFields
<1>4. Alive(t, left) = Alive(s, left) \cup {new}
    BY <1>1, <1>2, <1>3, AppendedElements DEF Items, Requested, Alive
<1>5. Job(new) = Job(item) /\ new.op = item.op /\ Objects(new) = Objects(item)
    BY <1>2, AlikeObjects DEF Job, Alike
<1>6. \A o : o \in Shown({item}) <=> item.op # "action" /\ o \in Objects(item)
    BY DEF Shown
<1>7. ASSUME NEW o
      PROVE  /\ o \in Shown({item}) => Work(t, left, o) = Work(s, left, o) \cup {Job(item)}
             /\ o \notin Shown({item}) => Work(t, left, o) = Work(s, left, o)
    BY <1>4, <1>5, <1>6 DEF Work
<1>8. /\ s.failed \ Shown({item}) \subseteq t.failed
      /\ \A o \in Object : o \in Shown({item}) => t.told[o] = kind /\ (kind = "failed" => o \in t.failed)
      /\ \A o \in Object : o \notin Shown({item}) => t.told[o] = s.told[o]
    <2>1. Tells(s, t, kind, Shown({item}))
        BY <1>1
    <2>2. t.told = [o \in Object |-> IF o \in Shown({item}) THEN kind ELSE s.told[o]]
        BY <2>1 DEF Tells
    <2>3. /\ kind = "failed" => t.failed = s.failed \cup Shown({item})
          /\ kind = None => t.failed = s.failed \ Shown({item})
        BY <2>1, ToldFailed
    <2>4. s.failed \ Shown({item}) \subseteq t.failed
        BY <2>3
    <2>5. QED
        BY <2>2, <2>3, <2>4
<1>9. kind = "failed" \/ kind = None
    OBVIOUS
<1>10. \A o \in Object :
          \/ o \in t.failed /\ t.told[o] = "failed"
          \/ o \in Shown({item}) /\ Work(t, left, o) = Work(s, left, o) \cup {Job(item)} /\ t.told[o] = None
          \/ o \notin Shown({item}) /\ Work(t, left, o) = Work(s, left, o) /\ t.told[o] = s.told[o]
    BY <1>7, <1>8, <1>9
<1>11. NotCreated(t) = NotCreated(s)
    BY <1>1 DEF NotCreated
<1>12. QED
    BY <1>8, <1>10, <1>11 DEF t

LEMMA WorkNumbers ==
    ASSUME NEW s, NEW all, NEW m, Well(s, all, m), NEW left \in SUBSET all, NEW o
    PROVE  \A w \in Work(s, left, o) : w.no \in Nat /\ w.no <= m
<1>1. \A i \in Items(s) \cup Flying(s, all) : i.no <= m /\ i.no \in Nat
    <2>1. Items(s) \subseteq GoodItem /\ Flying(s, all) \subseteq GoodItem
        BY WellTypes
    <2>2. \A i \in GoodItem : i.no \in Nat
        BY ItemIds DEF ItemNo
    <2>3. QED
        BY <2>1, <2>2 DEF Well, Numbered
<1>2. Alive(s, left) \subseteq Items(s) \cup Flying(s, all)
    BY DEF Alive, Requested, Flying
<1>3. \A w \in Work(s, left, o) : \E i \in Alive(s, left) : w.no = i.no
    BY DEF Work, Job
<1>4. QED
    BY <1>1, <1>2, <1>3

\* Creations that are skipped leave no wrong change as the latest.
LEMMA LessLeads ==
    ASSUME NEW work, \A w \in work : w.no \in Nat, NEW less \in SUBSET work,
           \A w \in work \ less : w.op # "update",
           NEW history, NEW edit, NEW told, LeadsTo(work, history, edit, told)
    PROVE  LeadsTo(less, history, edit, told)
<1>1. ASSUME less = {}, told = "done" PROVE history # <<>> /\ Last(history) = edit
    <2>1. work = {}
        BY <1>1 DEF LeadsTo
    <2>2. QED
        BY <1>1, <2>1 DEF LeadsTo
<1>2. ASSUME NEW v \in work, v.op # "update", NEW u \in work, v.no < u.no
      PROVE  u \in less
    <2>1. u.op # "update" => u.no = v.no
        BY <1>2 DEF LeadsTo
    <2>2. QED
        BY <1>2, <2>1
<1>3. ASSUME NEW w \in less, \A v \in less : v.no <= w.no
      PROVE  w.edit = edit
    <2>1. ASSUME NEW v \in work \ less PROVE v.no <= w.no
        <3>1. v.op # "update" /\ w.no \in Nat /\ v.no \in Nat
            OBVIOUS
        <3>2. (\A u \in work : u.no = v.no) \/ (\E u \in work : v.no < u.no)
            BY <3>1 DEF LeadsTo
        <3>3. CASE \A u \in work : u.no = v.no
            BY <3>1, <3>3
        <3>4. CASE \E u \in work : v.no < u.no
            <4>1. PICK u \in work : v.no < u.no
                BY <3>4
            <4>2. u \in less /\ u.no \in Nat
                BY <1>2, <3>1, <4>1
            <4>3. QED
                BY <1>3, <3>1, <4>1, <4>2
        <3>5. QED
            BY <3>2, <3>3, <3>4
    <2>2. \A v \in work : v.no <= w.no
        BY <1>3, <2>1
    <2>3. QED
        BY <2>2 DEF LeadsTo
<1>4. ASSUME NEW v \in less, v.op # "update"
      PROVE  /\ told # "done"
             /\ \A w \in less : w.op # "update" => w.no = v.no
             /\ (\A w \in less : w.no = v.no) \/ (\E w \in less : v.no < w.no)
    <2>1. /\ told # "done"
          /\ \A w \in work : w.op # "update" => w.no = v.no
          /\ (\A w \in work : w.no = v.no) \/ (\E w \in work : v.no < w.no)
        BY <1>4 DEF LeadsTo
    <2>2. QED
        BY <1>2, <1>4, <2>1
<1>5. QED
    BY <1>1, <1>3, <1>4 DEF LeadsTo

\* What has been told of an object and what is to be done does not change when
\* nothing is said of it, unless it fails.
LEMMA ReportsKeepShown ==
    ASSUME NEW s, NEW left, NEW m, Well(s, left, m),
           NEW t, NEW kind, Reports(s, t, left, kind, {}), NEW contents, NEW history
    PROVE  /\ BeingSaved(s, left, contents) => BeingSaved(t, left, contents)
           /\ WillBeSaved(s, left, contents, history) => WillBeSaved(t, left, contents, history)
<1>1. \A o \in Object : \/ o \in t.failed /\ t.told[o] = "failed"
                        \/ Stays(s, t, left, o) /\ t.told[o] = s.told[o]
    BY DEF Reports
<1>2. s.failed \subseteq t.failed /\ NotCreated(s) \subseteq NotCreated(t)
    BY DEF Reports
<1>3. BeingSaved(s, left, contents) => BeingSaved(t, left, contents)
    BY <1>1, <1>2 DEF BeingSaved, Stays
<1>4. ASSUME WillBeSaved(s, left, contents, history), NEW o \in Object \ t.failed
      PROVE  IF contents[o] = NoContent THEN t.told[o] # "done" /\ Work(t, left, o) = {}
             ELSE LeadsTo(Work(t, left, o), history[o], contents[o].edit, t.told[o])
    <2>1. Stays(s, t, left, o) /\ t.told[o] = s.told[o]
        BY <1>1
    <2>2. IF contents[o] = NoContent THEN s.told[o] # "done" /\ Work(s, left, o) = {}
          ELSE LeadsTo(Work(s, left, o), history[o], contents[o].edit, s.told[o])
        BY <1>2, <1>4 DEF WillBeSaved
    <2>3. \A w \in Work(s, left, o) : w.no \in Nat
        BY WorkNumbers
    <2>4. /\ Work(t, left, o) \in SUBSET Work(s, left, o)
          /\ \A w \in Work(s, left, o) \ Work(t, left, o) : w.op # "update"
        BY <2>1 DEF Stays
    <2>5. QED
        BY <2>1, <2>2, <2>3, <2>4, LessLeads
<1>5. QED
    BY <1>3, <1>4 DEF WillBeSaved

\* The struct that a call leaves, with its requests.
LEMMA BecomesShown ==
    ASSUME NEW t \in Tidy, NEW left, left \subseteq Requests, Becomes(t, left), NEW contents, NEW history
    PROVE  /\ BeingSaved(t, left, contents) => BeingSaved(sync_queue', futures', contents)
           /\ WillBeSaved(t, left, contents, history) => WillBeSaved(sync_queue', futures', contents, history)
           /\ JustSent(t) => \A q \in futures' : q \in left \/ q.at = "sent"
<1> DEFINE s == sync_queue'
           all == futures'
<1>1. /\ all = left \cup t.spawned /\ s.spawned = {} /\ s.queue = t.queue
      /\ s.told = t.told /\ s.failed = t.failed /\ s.dropped = t.dropped
    BY BecomesStruct DEF QueueTypes
<1> HIDE DEF s, all
<1>2. Alive(s, all) = Alive(t, left)
    BY <1>1 DEF Alive, Requested, Items
<1>3. \A o : Work(s, all, o) = Work(t, left, o)
    BY <1>2 DEF Work
<1>4. BeingSaved(t, left, contents) => BeingSaved(s, all, contents)
    BY <1>1, <1>3 DEF BeingSaved, NotCreated
<1>5. WillBeSaved(t, left, contents, history) => WillBeSaved(s, all, contents, history)
    BY <1>1, <1>3 DEF WillBeSaved
<1>6. JustSent(t) => \A q \in all : q \in left \/ q.at = "sent"
    BY <1>1 DEF JustSent
<1>7. QED
    BY <1>4, <1>5, <1>6 DEF s, all

LEMMA DequeuedJustSent ==
    ASSUME NEW s, NEW all, NEW m, Well(s, all, m), JustSent(s)
    PROVE  JustSent(Dequeued(s))
<1> DEFINE k == Skipped(s, Tried(s))
           t == Dequeued(s)
           sent == NextSent(s)
<1>1. CASE ~s.should_dequeue
    BY <1>1 DEF Dequeued
<1>2. CASE s.should_dequeue
    <2>1. k.spawned = s.spawned
        BY SkippedKeepsWell
    <2>2. Sent(k, t, sent)
        BY <1>2, DequeuedSends
    <2> HIDE DEF k, t, sent
    <2>3. t.spawned = s.spawned \cup {Request(i) : i \in sent}
        BY <2>1, <2>2 DEF Sent
    <2>4. \A i \in sent : Request(i).at = "sent"
        BY DEF Request
    <2>5. QED
        BY <2>3, <2>4 DEF JustSent, t
<1>3. QED
    BY <1>1, <1>2

LEMMA DequeuedShown ==
    ASSUME NEW t, NEW left, NEW m, Well(t, left, m), Becomes(Dequeued(t), left), NEW contents, NEW history
    PROVE  /\ BeingSaved(t, left, contents) => BeingSaved(sync_queue', futures', contents)
           /\ WillBeSaved(t, left, contents, history) => WillBeSaved(sync_queue', futures', contents, history)
           /\ JustSent(t) => \A q \in futures' : q \in left \/ q.at = "sent"
<1> DEFINE u == Dequeued(t)
<1>1. Reports(t, u, left, "done", {})
    BY DequeuedReports
<1>2. u \in Tidy /\ left \subseteq Requests
    BY DequeuedKeepsWell DEF Well
<1>3. JustSent(t) => JustSent(u)
    BY DequeuedJustSent
<1> HIDE DEF u
<1>4. /\ BeingSaved(t, left, contents) => BeingSaved(u, left, contents)
      /\ WillBeSaved(t, left, contents, history) => WillBeSaved(u, left, contents, history)
    BY <1>1, ReportsKeepShown
<1>5. Becomes(u, left)
    BY DEF u
<1>6. QED
    BY <1>2, <1>3, <1>4, <1>5, BecomesShown

\* What is left to do when a request ends.
LEMMA EndedWork ==
    ASSUME QueueInv, NEW r \in futures, NEW o
    PROVE  /\ o \notin Shown({r.item}) =>
                 Work(sync_queue, futures \ {r}, o) = Work(sync_queue, futures, o)
           /\ o \in Shown({r.item}) =>
                 /\ Job(r.item) \in Work(sync_queue, futures, o)
                 /\ Work(sync_queue, futures \ {r}, o) = Work(sync_queue, futures, o) \ {Job(r.item)}
<1> DEFINE left == futures \ {r}
<1>1. Alive(sync_queue, futures) = Alive(sync_queue, left) \cup {r.item}
    BY DEF Alive, Requested
<1>2. \A i \in Alive(sync_queue, left) : Job(i) # Job(r.item)
    <2>1. \A i \in Alive(sync_queue, left) : i.no # r.item.no
        BY EndedAlone
    <2>2. QED
        BY <2>1 DEF Job
<1>3. o \in Shown({r.item}) <=> r.item.op # "action" /\ o \in Objects(r.item)
    BY DEF Shown
<1> HIDE DEF left
<1>4. CASE o \notin Shown({r.item})
    BY <1>1, <1>3, <1>4 DEF Work, left
<1>5. CASE o \in Shown({r.item})
    BY <1>1, <1>2, <1>3, <1>5 DEF Work, left
<1>6. QED
    BY <1>4, <1>5

\* An update that ends is the earliest of its object, which has been created.
LEMMA EarliestEnds ==
    ASSUME QueueInv, EditsHold, NEW r \in futures, NEW o \in Shown({r.item}), r.item.op = "update"
    PROVE  \A w \in Work(sync_queue, futures \ {r}, o) : w.op = "update" /\ r.item.no < w.no
<1> DEFINE left == futures \ {r}
<1>1. o \in Objects(r.item) /\ r.item \in GoodItem
    BY InFlightItem DEF Shown
<1> SUFFICES ASSUME NEW w \in Work(sync_queue, left, o)
             PROVE  w.op = "update" /\ r.item.no < w.no
    OBVIOUS
<1> PICK i \in Alive(sync_queue, left) : i.op # "action" /\ o \in Objects(i) /\ w = Job(i)
    BY DEF Work
<1> SUFFICES i.op = "update" /\ r.item.no < i.no
    BY DEF Job
<1>2. /\ i \in Alive(sync_queue, futures) /\ i \in GoodItem /\ i.no # r.item.no
      /\ r.item \in Alive(sync_queue, futures) /\ r.item \in Requested(sync_queue, futures)
    <2>1. i \in Alive(sync_queue, futures) /\ r.item \in Requested(sync_queue, futures)
        BY DEF Alive, Requested
    <2>2. QED
        BY <2>1, EndedAlone, AliveItems DEF QueueInv, Alive
<1>3. i.op \in {"create", "bulk", "update"} /\ (i.op = "update" => ObjectOf(i) = o) /\ ObjectOf(r.item) = o
    BY <1>1, <1>2, ItemIds
<1>4. i.op = "update"
    <2>1. o \in sync_queue.client_id_to_server
        BY <1>3, OneInFlight
    <2>2. i \notin Creations(Alive(sync_queue, futures))
        BY <2>1 DEF EditsHold, Orderly, CreatedOnce
    <2>3. QED
        BY <1>2, <1>3, <2>2 DEF Creations
<1>5. i \notin Requested(sync_queue, futures)
    BY <1>2, <1>3, <1>4 DEF EditsHold, Orderly, UpdatesWait, Updates
<1>6. i \in Items(sync_queue)
    BY <1>2, <1>5 DEF Alive
<1>7. QED
    BY <1>2, <1>3, <1>4, <1>6 DEF EditsHold, Orderly, UpdatesWait, Updates

\* The request that ends tells of its objects, which keep their content unless
\* it has failed.
LEMMA AnsweredBeingSaved ==
    ASSUME QueueInv, NEW r \in futures, NEW kind \in {"done", "failed"}, NEW t,
           Reports(sync_queue, t, futures \ {r}, kind, Shown({r.item})),
           NEW contents, \A o \in Object : contents[o] # NoContent => contents[o] = content[o],
           BeingSaved(sync_queue, futures, content)
    PROVE  BeingSaved(t, futures \ {r}, contents)
<1> DEFINE left == futures \ {r}
<1> SUFFICES ASSUME NEW o \in Object, contents[o] # NoContent, t.told[o] \notin {"done", "failed"}
             PROVE  Work(t, left, o) # {} \/ o \in NotCreated(t)
    BY DEF BeingSaved
<1>1. /\ Stays(sync_queue, t, left, o) /\ NotCreated(sync_queue) \subseteq NotCreated(t)
      /\ t.told[o] = IF o \in Shown({r.item}) THEN kind ELSE sync_queue.told[o]
    BY DEF Reports
<1>2. o \notin Shown({r.item}) /\ sync_queue.told[o] \notin {"done", "failed"}
    BY <1>1
<1>3. Work(sync_queue, left, o) = Work(sync_queue, futures, o)
    BY <1>2, EndedWork
<1>4. QED
    BY <1>1, <1>2, <1>3 DEF BeingSaved, Stays

\* A change that succeeds leaves the last edit there if there is no other: it is
\* an update and the earliest, or the one creation.
LEMMA EndLeads ==
    ASSUME NEW work, \A w \in work : w.no \in Nat, NEW job \in work,
           \A w \in work \ {job} : w.no # job.no,
           job.op = "update" => \A w \in work \ {job} : w.op = "update" /\ job.no < w.no,
           NEW history, NEW edit, NEW told, LeadsTo(work, history, edit, told),
           history # <<>>, Last(history) = job.edit
    PROVE  LeadsTo(work \ {job}, history, edit, "done")
<1>1. ASSUME work \ {job} = {} PROVE Last(history) = edit
    <2>1. \A v \in work : v = job
        BY <1>1
    <2>2. \A v \in work : v.no <= job.no
        BY <2>1
    <2>3. QED
        BY <2>2 DEF LeadsTo
<1>2. ASSUME NEW w \in work \ {job}, \A v \in work \ {job} : v.no <= w.no
      PROVE  w.edit = edit
    <2>1. job.no <= w.no
        <3>1. job.no \in Nat /\ w.no \in Nat /\ w.no # job.no
            OBVIOUS
        <3>2. CASE job.op = "update"
            BY <3>1, <3>2
        <3>3. CASE job.op # "update"
            <4>1. PICK u \in work : job.no < u.no
                BY <3>1, <3>3 DEF LeadsTo
            <4>2. u \in work \ {job} /\ u.no \in Nat
                BY <3>1, <4>1
            <4>3. QED
                BY <1>2, <3>1, <4>1, <4>2
        <3>4. QED
            BY <3>2, <3>3
    <2>2. \A v \in work : v.no <= w.no
        BY <1>2, <2>1
    <2>3. QED
        BY <2>2 DEF LeadsTo
<1>3. \A v \in work \ {job} : v.op = "update"
    <2>1. job.op # "update" => \A v \in work : v.op # "update" => v.no = job.no
        BY DEF LeadsTo
    <2>2. QED
        BY <2>1
<1>4. QED
    BY <1>1, <1>2, <1>3 DEF LeadsTo

LEMMA AnsweredWillBeSaved ==
    ASSUME QueueInv, EditsHold, EditsApplied, NEW r \in futures, NEW kind \in {"done", "failed"}, NEW t,
           Reports(sync_queue, t, futures \ {r}, kind, Shown({r.item})),
           kind = "done" /\ r.item.op # "action" => r.at = "applied",
           NEW contents, \A o \in Object \ t.failed : contents[o] = content[o],
           WillBeSaved(sync_queue, futures, content, log)
    PROVE  WillBeSaved(t, futures \ {r}, contents, log)
<1> DEFINE left == futures \ {r}
<1> SUFFICES ASSUME NEW o \in Object \ t.failed
             PROVE  IF content[o] = NoContent THEN t.told[o] # "done" /\ Work(t, left, o) = {}
                    ELSE LeadsTo(Work(t, left, o), log[o], content[o].edit, t.told[o])
    BY DEF WillBeSaved
<1> DEFINE before == Work(sync_queue, futures, o)
           work == Work(sync_queue, left, o)
           job == Job(r.item)
<1>1. /\ Stays(sync_queue, t, left, o) /\ o \in Object \ sync_queue.failed
      /\ t.told[o] = IF o \in Shown({r.item}) THEN kind ELSE sync_queue.told[o]
    BY DEF Reports
<1>2. IF content[o] = NoContent THEN sync_queue.told[o] # "done" /\ before = {}
      ELSE LeadsTo(before, log[o], content[o].edit, sync_queue.told[o])
    BY <1>1 DEF WillBeSaved
<1>3. \A w \in before : w.no \in Nat
    <2>1. futures \in SUBSET futures /\ Well(sync_queue, futures, enqueued)
        BY DEF QueueInv
    <2>2. QED
        BY <2>1, WorkNumbers
<1>4. /\ o \notin Shown({r.item}) => work = before
      /\ o \in Shown({r.item}) => job \in before /\ work = before \ {job}
    BY EndedWork
<1>5. Work(t, left, o) \in SUBSET work /\ \A w \in work \ Work(t, left, o) : w.op # "update"
    BY <1>1 DEF Stays
<1>6. ASSUME content[o] # NoContent PROVE LeadsTo(work, log[o], content[o].edit, t.told[o])
    <2>1. CASE o \notin Shown({r.item})
        BY <1>1, <1>2, <1>4, <1>6, <2>1
    <2>2. CASE o \in Shown({r.item})
        <3>1. kind = "done" /\ r.item.op # "action" /\ o \in Objects(r.item)
            BY <2>2 DEF Reports, Shown
        <3>2. \A w \in work : w.no # job.no
            <4>1. \A i \in Alive(sync_queue, left) : i.no # r.item.no
                BY EndedAlone
            <4>2. \A w \in work : \E i \in Alive(sync_queue, left) : w.no = i.no
                BY DEF Work, Job
            <4>3. QED
                BY <4>1, <4>2 DEF Job
        <3>3. job.no = r.item.no /\ job.op = r.item.op /\ job.edit = r.item.edit
            BY DEF Job
        <3>4. job.op = "update" => \A w \in work : w.op = "update" /\ job.no < w.no
            BY <2>2, <3>3, EarliestEnds
        <3>5. log[o] # <<>> /\ Last(log[o]) = job.edit
            BY <3>1, <3>3 DEF EditsApplied
        <3>6. /\ work = before \ {job} /\ job \in before
              /\ LeadsTo(before, log[o], content[o].edit, sync_queue.told[o])
            BY <1>2, <1>4, <1>6, <2>2
        <3> HIDE DEF before, work, job
        <3>7. LeadsTo(before \ {job}, log[o], content[o].edit, "done")
            BY <1>3, <3>2, <3>4, <3>5, <3>6, EndLeads
        <3>8. QED
            BY <1>1, <2>2, <3>1, <3>6, <3>7
    <2>3. QED
        BY <2>1, <2>2
<1>7. \A w \in work : w.no \in Nat
    BY <1>3, <1>4
<1>8. content[o] = NoContent => o \notin Shown({r.item})
    BY <1>2, <1>4
<1> HIDE DEF before, work, job
<1>9. CASE content[o] = NoContent
    BY <1>1, <1>2, <1>4, <1>5, <1>8, <1>9
<1>10. CASE content[o] # NoContent
    BY <1>5, <1>6, <1>7, <1>10, LessLeads
<1>11. QED
    BY <1>9, <1>10

\* The callback of a request, once the struct has told of its end.
LEMMA CallBackShown ==
    ASSUME QueueInv, NEW r \in futures, NEW kind \in {"done", "failed"},
           kind = "done" /\ r.item.op # "action" => r.at = "applied",
           NEW t, Well(t, futures \ {r}, enqueued), JustSent(t),
           Reports(sync_queue, t, futures \ {r}, kind, Shown({r.item})),
           Becomes(Dequeued(t), futures \ {r}) \/ Becomes(t, futures \ {r}), UNCHANGED log,
           \A o \in Object : content'[o] = content[o] \/ (content'[o] = NoContent /\ o \in t.failed)
    PROVE  ShownStep
<1> DEFINE left == futures \ {r}
<1>1. \A o \in Object : content'[o] # NoContent => content'[o] = content[o]
    OBVIOUS
<1>2. \A o \in Object \ t.failed : content'[o] = content[o]
    OBVIOUS
<1>3. SavingShown => BeingSaved(t, left, content')
    BY <1>1, AnsweredBeingSaved DEF SavingShown
<1>4. EditsHold /\ SavedShown => WillBeSaved(t, left, content', log)
    BY <1>2, AnsweredWillBeSaved DEF SavedShown
<1>5. t \in Tidy /\ left \subseteq Requests
    BY DEF Well
<1>6. Becomes(Dequeued(t), left) \/ Becomes(t, left)
    OBVIOUS
<1>7. Well(t, left, enqueued)
    OBVIOUS
<1>8. \A q \in left : q \in futures
    OBVIOUS
<1> HIDE DEF left
<1>9. /\ BeingSaved(t, left, content') => BeingSaved(sync_queue', futures', content')
      /\ WillBeSaved(t, left, content', log) => WillBeSaved(sync_queue', futures', content', log)
      /\ \A q \in futures' : q \in left \/ q.at = "sent"
    <2>1. CASE Becomes(Dequeued(t), left)
        BY <1>7, <2>1, DequeuedShown
    <2>2. CASE Becomes(t, left)
        BY <1>5, <2>2, BecomesShown
    <2>3. QED
        BY <1>6, <2>1, <2>2
<1>10. SavingShown => SavingShown'
    BY <1>3, <1>9 DEF SavingShown
<1>11. EditsHold /\ SavedShown => WillBeSaved(sync_queue', futures', content', log')
    BY <1>4, <1>9
<1>12. EditsApplied => EditsApplied'
    BY <1>8, <1>9 DEF EditsApplied
<1>13. QED
    BY <1>10, <1>11, <1>12 DEF ShownStep, SavedShown

LEMMA NothingSpawned ==
    ASSUME QueueInv
    PROVE  JustSent(sync_queue) /\ sync_queue.spawned = {}
    BY DEF QueueInv, TypeInv, QueueTypes, JustSent

\* The objects of a request, by the ids it is waited for under.
LEMMA ShownIds ==
    ASSUME NEW item \in GoodItem
    PROVE  /\ ObjectsOf(item.ids) \cap Shown({item}) = Shown({item})
           /\ Objects(item) \cap Shown({item}) = Shown({item})
           /\ item.op # "bulk" => /\ {ObjectOf(item)} \cap Shown({item}) = Shown({item})
                                  /\ ObjectsOf({Server(ObjectOf(item))}) \cap Shown({item}) = Shown({item})
           /\ item.op # "action" => Shown({item}) = Objects(item)
<1>1. Shown({item}) \subseteq Objects(item)
    BY DEF Shown
<1>2. ObjectsOf(item.ids) = Objects(item)
    BY DEF ObjectsOf, Objects
<1>3. item.op # "bulk" => Objects(item) = {ObjectOf(item)}
    BY ItemIds
<1>4. ObjectsOf({Server(ObjectOf(item))}) = {ObjectOf(item)}
    BY IdsOfObjects DEF ObjectsOf
<1>5. item.op # "action" => Shown({item}) = Objects(item)
    BY DEF Shown
<1>6. QED
    BY <1>1, <1>2, <1>3, <1>4, <1>5

LEMMA LetGoReports ==
    ASSUME NEW s \in Tidy, NEW kind \in Outcomes, NEW item \in GoodItem, NEW ids, NEW left,
           ObjectsOf(ids) \cap Shown({item}) = Shown({item})
    PROVE  LET t == LetGo(s, kind, item, ids) IN
           Reports(s, t, left, kind, Shown({item})) /\ (JustSent(s) => JustSent(t))
<1> DEFINE t == LetGo(s, kind, item, ids)
<1> kind \in Kinds
    BY DEF Kinds, Outcomes
<1>1. Items(t) = Items(s) /\ t.spawned = s.spawned /\ t.dropped = s.dropped
    BY LetGoQueue DEF Items
<1>2. Tells(s, t, kind, Shown({item}))
    BY LetGoTells
<1> HIDE DEF t
<1>3. Reports(s, t, left, kind, Shown({item}))
    BY <1>1, <1>2, SaidReports
<1>4. JustSent(s) => JustSent(t)
    BY <1>1 DEF JustSent
<1>5. QED
    BY <1>3, <1>4 DEF t

\* An update or an action ends.
LEMMA OtherSucceededReports ==
    ASSUME QueueInv, NEW r \in futures, r.item.op \in {"update", "action"}, NEW kind \in Outcomes, NEW left
    PROVE  LET t == OtherSucceeded(r, kind) IN
           Reports(sync_queue, t, left, kind, Shown({r.item})) /\ JustSent(t)
<1> DEFINE ids == {Server(ObjectOf(r.item))}
           t == LetGo(sync_queue, kind, r.item, ids)
<1>1. OtherSucceeded(r, kind) = t
    BY OtherSucceededType DEF QueueInv, Kinds, Outcomes
<1>2. ObjectsOf(ids) \cap Shown({r.item}) = Shown({r.item})
    BY InFlightItem, ShownIds
<1>3. sync_queue \in Tidy /\ r.item \in GoodItem /\ JustSent(sync_queue)
    BY InFlightItem, NothingSpawned
<1> HIDE DEF ids
<1>4. Reports(sync_queue, t, left, kind, Shown({r.item})) /\ (JustSent(sync_queue) => JustSent(t))
    BY <1>2, <1>3, LetGoReports
<1>5. QED
    BY <1>1, <1>3, <1>4

LEMMA OtherAnsweredShown ==
    ASSUME QueueInv, NEW r \in futures, UpdateRejected(r) \/ ActionRecorded(r)
    PROVE  ShownStep
<1> DEFINE kind == IF ActionRecorded(r) THEN "done" ELSE "failed"
           t == OtherSucceeded(r, kind)
<1>1. /\ r.item.op \in {"update", "action"} /\ (kind = "done" => r.item.op = "action")
      /\ CallBack(r, t) /\ UNCHANGED <<log, content>> /\ kind \in Kinds /\ kind \in Outcomes /\ kind \in {"done", "failed"}
    BY InFlightItem DEF UpdateRejected, ActionRecorded, appVars, Kinds, Outcomes, Requests
<1> HIDE DEF kind
<1>2. Well(t, futures, enqueued) /\ Traceless(t, r.item.no)
    BY <1>1, OtherSucceededOf
<1>3. Reports(sync_queue, t, futures \ {r}, kind, Shown({r.item})) /\ JustSent(t)
    BY <1>1, OtherSucceededReports
<1>4. Becomes(Dequeued(t), futures \ {r})
    BY <1>1 DEF CallBack
<1> HIDE DEF t
<1>5. Well(t, futures \ {r}, enqueued)
    BY <1>2, EndedKeepsWell
<1>6. QED
    BY <1>1, <1>3, <1>4, <1>5, CallBackShown

LEMMA UpdateSucceededShown ==
    ASSUME QueueInv, NEW r \in futures, UpdateSucceeded(r)
    PROVE  ShownStep
<1> DEFINE u == OtherSucceeded(r, "done")
           t == Revised(u, ObjectOf(r.item), r.rev)
           left == futures \ {r}
           shown == Shown({r.item})
<1>1. /\ r.at = "applied" /\ r.item.op = "update" /\ CallBack(r, t)
      /\ UNCHANGED <<log, content>> /\ "done" \in Kinds /\ "done" \in Outcomes
    BY DEF UpdateSucceeded, Kinds, Outcomes
<1>2. /\ u \in Tidy /\ u \in Structs /\ Well(u, futures, enqueued) /\ Traceless(u, r.item.no)
    BY <1>1, OtherSucceededOf DEF Tidy
<1>3. r.rev \in Nat
    BY InFlightItem DEF Requests
<1>4. Reports(sync_queue, u, left, "done", shown) /\ JustSent(u)
    BY <1>1, OtherSucceededReports
<1>5. Becomes(Dequeued(t), left)
    BY <1>1 DEF CallBack
<1> HIDE DEF u
<1>6. t \in Tidy /\ Rewritten(u, t)
    BY <1>2, <1>3, RevisedTidy, RevisedType
<1>7. Well(u, left, enqueued)
    BY <1>2, EndedKeepsWell
<1> HIDE DEF t, shown
<1>8. Well(t, left, enqueued)
    BY <1>6, <1>7, RewrittenKeepsWell
<1>9. Reports(u, t, left, "done", {}) /\ JustSent(t)
    BY <1>4, <1>6, RewrittenReports DEF Rewritten, JustSent
<1>10. Reports(sync_queue, t, left, "done", shown \cup {})
    BY <1>4, <1>9, ReportsMore
<1>11. Reports(sync_queue, t, left, "done", Shown({r.item}))
    BY <1>10 DEF shown
<1>12. QED
    BY <1>1, <1>5, <1>8, <1>9, <1>11, CallBackShown

\* A request fails, with what depends on it.
LEMMA CreationFailedReports ==
    ASSUME QueueInv, NEW r \in futures, NEW left
    PROVE  LET t == CreationFailed(sync_queue, r.item) IN
           Reports(sync_queue, t, left, "failed", Shown({r.item})) /\ JustSent(t)
<1> DEFINE t == CreationFailed(sync_queue, r.item)
           ds == {CreationDependency(sync_queue, r.item, o) : o \in Objects(r.item)}
           shown == Shown({r.item})
<1>1. sync_queue \in Structs /\ r.item \in GoodItem /\ sync_queue.spawned = {}
    BY InFlightItem, NothingSpawned
<1>2. /\ \E gone : /\ FallsOut(sync_queue, t, ds, gone)
                   /\ t.answered = sync_queue.answered \cup {r.item.no} \cup Numbers(gone)
                   /\ Tells(sync_queue, t, "failed", (ObjectsOf(r.item.ids) \cap Shown({r.item})) \cup Shown(gone))
      /\ t.spawned = sync_queue.spawned /\ t.dropped = sync_queue.dropped
    BY <1>1, CreationFailedType
<1>3. ObjectsOf(r.item.ids) \cap Shown({r.item}) = shown
    BY <1>1, ShownIds
<1> HIDE DEF t, ds
<1>4. PICK gone : /\ Items(t) = Items(sync_queue) \ gone
                  /\ Tells(sync_queue, t, "failed", shown \cup Shown(gone))
    BY <1>2, <1>3 DEF FallsOut
<1>5. \A i \in gone : \A o \in Objects(i) \ Shown(gone) : i.op = "action"
    BY DEF Shown
<1> HIDE DEF shown
<1>6. Reports(sync_queue, t, left, "failed", shown)
    BY <1>2, <1>4, <1>5, LostReports
<1>7. JustSent(t)
    BY <1>1, <1>2 DEF JustSent
<1>8. QED
    BY <1>6, <1>7 DEF t, shown

LEMMA OtherFailedReports ==
    ASSUME QueueInv, NEW r \in futures, r.item.op # "bulk", NEW left
    PROVE  LET t == OtherFailed(sync_queue, r.item) IN
           Reports(sync_queue, t, left, "failed", Shown({r.item})) /\ JustSent(t)
<1> DEFINE t == OtherFailed(sync_queue, r.item)
           shown == Shown({r.item})
<1>1. sync_queue \in Structs /\ r.item \in GoodItem /\ sync_queue.spawned = {}
    BY InFlightItem, NothingSpawned
<1>2. /\ \E gone : /\ FallsOut(sync_queue, t, {OnItem(r.item.no)}, gone)
                   /\ t.answered = sync_queue.answered \cup {r.item.no} \cup Numbers(gone)
                   /\ Tells(sync_queue, t, "failed", ({ObjectOf(r.item)} \cap Shown({r.item})) \cup Shown(gone))
      /\ t.spawned = sync_queue.spawned /\ t.dropped = sync_queue.dropped
    BY <1>1, OtherFailedType
<1>3. {ObjectOf(r.item)} \cap Shown({r.item}) = shown
    BY <1>1, ShownIds
<1> HIDE DEF t
<1>4. PICK gone : /\ Items(t) = Items(sync_queue) \ gone
                  /\ Tells(sync_queue, t, "failed", shown \cup Shown(gone))
    BY <1>2, <1>3 DEF FallsOut
<1>5. \A i \in gone : \A o \in Objects(i) \ Shown(gone) : i.op = "action"
    BY DEF Shown
<1> HIDE DEF shown
<1>6. Reports(sync_queue, t, left, "failed", shown)
    BY <1>2, <1>4, <1>5, LostReports
<1>7. JustSent(t)
    BY <1>1, <1>2 DEF JustSent
<1>8. QED
    BY <1>6, <1>7 DEF t, shown

LEMMA RequestFailedShown ==
    ASSUME QueueInv, NEW r \in futures, RequestFailed(r)
    PROVE  ShownStep
<1> DEFINE t == IF r.item.op \in {"create", "bulk"} THEN CreationFailed(sync_queue, r.item)
                ELSE OtherFailed(sync_queue, r.item)
           left == futures \ {r}
<1>1. r.item.op \in {"create", "bulk", "update", "action"}
    BY InFlightItem
<1>2. Well(t, futures, enqueued) /\ Traceless(t, r.item.no)
    <2>1. CASE r.item.op \in {"create", "bulk"}
        BY <2>1, CreationFailedOf
    <2>2. CASE r.item.op \notin {"create", "bulk"}
        BY <1>1, <2>2, OtherFailedOf
    <2>3. QED
        BY <2>1, <2>2
<1>3. Reports(sync_queue, t, left, "failed", Shown({r.item})) /\ JustSent(t)
    <2>1. CASE r.item.op \in {"create", "bulk"}
        BY <2>1, CreationFailedReports
    <2>2. CASE r.item.op \notin {"create", "bulk"}
        BY <2>2, OtherFailedReports
    <2>3. QED
        BY <2>1, <2>2
<1>4. (Becomes(Dequeued(t), left) \/ Becomes(t, left)) /\ UNCHANGED <<log, content>>
    BY DEF RequestFailed, CallBack, appVars
<1> HIDE DEF t
<1>5. Well(t, left, enqueued)
    BY <1>2, EndedKeepsWell
<1>6. QED
    BY <1>3, <1>4, <1>5, CallBackShown

\* The object may be deleted, and has failed then.
LEMMA ConflictShown ==
    ASSUME QueueInv, NEW r \in futures, UniqueKeyConflict(r)
    PROVE  ShownStep
<1> DEFINE t == CreationFailed(sync_queue, r.item)
           left == futures \ {r}
<1>1. /\ r.item.op \in {"create", "bulk"} /\ Becomes(Dequeued(t), left) /\ UNCHANGED log
      /\ local' \in {local, local \ Objects(r.item)}
      /\ content' = [o \in Object |-> IF o \in local \ local' THEN NoContent ELSE content[o]]
    BY DEF UniqueKeyConflict, CallBack
<1>2. Well(t, futures, enqueued) /\ Traceless(t, r.item.no)
    BY <1>1, CreationFailedOf
<1>3. Reports(sync_queue, t, left, "failed", Shown({r.item})) /\ JustSent(t)
    BY CreationFailedReports
<1> HIDE DEF t
<1>4. Well(t, left, enqueued)
    BY <1>2, EndedKeepsWell
<1>5. \A o \in Object : o \in Objects(r.item) => o \in t.failed
    <2>1. Shown({r.item}) = Objects(r.item)
        BY <1>1, InFlightItem, ShownIds
    <2>2. QED
        BY <1>3, <2>1 DEF Reports
<1>6. \A o \in Object : content'[o] = content[o] \/ (content'[o] = NoContent /\ o \in t.failed)
    <2>1. \A o \in Object : o \in local \ local' => o \in Objects(r.item)
        BY <1>1
    <2>2. \A o \in Object : content'[o] = IF o \in local \ local' THEN NoContent ELSE content[o]
        BY <1>1
    <2>3. QED
        BY <1>5, <2>1, <2>2
<1>7. QED
    BY <1>1, <1>3, <1>4, <1>6, CallBackShown

LEMMA DeniedShown ==
    ASSUME QueueInv, NEW r \in futures, CreateDenied(r)
    PROVE  ShownStep
<1> DEFINE d == Denied(r)
           t == Emitted(d, "failed", r.item, Objects(r.item))
           left == futures \ {r}
           shown == Shown({r.item})
<1>1. /\ r.item.op = "create" /\ Becomes(Dequeued(t), left) /\ UNCHANGED <<log, content>> /\ TypeInv
    BY DEF CreateDenied, CallBack, appVars, QueueInv
<1>2. d \in Tidy /\ Well(d, futures, enqueued) /\ Traceless(d, r.item.no)
    BY <1>1, DeniedOf
<1>3. /\ "failed" \in Kinds /\ "denied" \in Kinds /\ "failed" \in Outcomes /\ r.item \in GoodItem /\ d \in Structs
      /\ sync_queue \in Tidy /\ sync_queue.spawned = {}
    BY <1>2, InFlightItem, NothingSpawned DEF Kinds, Outcomes, Tidy
<1>4. d = LetGo(sync_queue, "denied", r.item, r.item.ids)
    BY <1>1, DeniedType
<1>5. /\ ObjectsOf(r.item.ids) \cap Shown({r.item}) = shown
      /\ Objects(r.item) \cap Shown({r.item}) = shown
    BY <1>3, ShownIds
<1> HIDE DEF d
<1>6. d.queue = sync_queue.queue /\ d.spawned = sync_queue.spawned /\ d.dropped = sync_queue.dropped
      /\ Tells(sync_queue, d, "denied", shown)
    <2>1. d.queue = sync_queue.queue /\ d.spawned = sync_queue.spawned /\ d.dropped = sync_queue.dropped
        BY <1>3, <1>4, LetGoQueue
    <2>2. Tells(sync_queue, d, "denied", ObjectsOf(r.item.ids) \cap Shown({r.item}))
        BY <1>3, <1>4, LetGoTells
    <2>3. QED
        BY <1>5, <2>1, <2>2
<1>7. t \in Tidy /\ Same(d, t) /\ Tells(d, t, "failed", shown)
    <2>1. t \in Tidy /\ Same(d, t)
        BY <1>2, <1>3, EmittedTidy, EmittedType
    <2>2. Tells(d, t, "failed", Objects(r.item) \cap Shown({r.item}))
        BY <1>3, EmittedTells
    <2>3. QED
        BY <1>5, <2>1, <2>2
<1> HIDE DEF t
<1>8. Well(t, futures, enqueued) /\ Traceless(t, r.item.no)
    BY <1>2, <1>7, SameKeepsWell DEF Traceless, Same
<1>9. Well(t, left, enqueued)
    BY <1>8, EndedKeepsWell
<1> HIDE DEF shown
<1>10. /\ t.told = [o \in Object |-> IF o \in shown THEN "failed" ELSE sync_queue.told[o]]
       /\ t.failed = sync_queue.failed \cup shown
    <2>1. d.failed = sync_queue.failed \cup shown /\ t.failed = d.failed \cup shown
        BY <1>6, <1>7, ToldFailed
    <2>2. /\ t.told = [o \in Object |-> IF o \in shown THEN "failed" ELSE d.told[o]]
          /\ d.told = [o \in Object |-> IF o \in shown THEN "denied" ELSE sync_queue.told[o]]
        BY <1>6, <1>7 DEF Tells
    <2>3. QED
        BY <2>1, <2>2
<1>11. /\ Items(t) = Items(sync_queue) /\ t.spawned = sync_queue.spawned /\ t.dropped = sync_queue.dropped
       /\ Tells(sync_queue, t, "failed", shown)
    BY <1>6, <1>7, <1>10 DEF Items, Same, Tells
<1>12. Reports(sync_queue, t, left, "failed", shown) /\ JustSent(t)
    BY <1>3, <1>11, SaidReports DEF JustSent
<1>13. Reports(sync_queue, t, left, "failed", Shown({r.item}))
    BY <1>12 DEF shown
<1>14. QED
    BY <1>1, <1>9, <1>12, <1>13, CallBackShown

\* One object of a request has been created.
LEMMA CreationSucceededReports ==
    ASSUME NEW s \in Structs, NEW item \in GoodItem, NEW o \in Objects(item), item.op # "action", NEW left
    PROVE  LET t == CreationSucceeded(s, item, o) IN
           Reports(s, t, left, "done", {o}) /\ t.spawned = s.spawned
<1> DEFINE t == CreationSucceeded(s, item, o)
<1>1. o \in Object /\ {o} \cap Shown({item}) = {o}
    BY ItemIds, ShownIds
<1>2. PICK f \in Structs : Created(s, f, t, item, o)
    BY <1>1, CreationSucceededType
<1> HIDE DEF t
<1>3. /\ Rewritten(f, t) /\ Items(f) = Items(s) /\ f.spawned = s.spawned /\ f.dropped = s.dropped
      /\ Tells(s, f, "done", {o} \cap Shown({item}))
    BY <1>2 DEF Created, Items
<1>4. Tells(s, f, "done", {o})
    BY <1>1, <1>3
<1>5. Reports(s, f, left, "done", {o})
    BY <1>3, <1>4, SaidReports DEF Outcomes
<1>6. Reports(f, t, left, "done", {})
    BY <1>3, RewrittenReports
<1>7. Reports(s, t, left, "done", {o} \cup {})
    BY <1>5, <1>6, ReportsMore
<1>8. {o} \cup {} = {o}
    OBVIOUS
<1>9. Reports(s, t, left, "done", {o})
    BY <1>7, <1>8
<1>10. QED
    BY <1>3, <1>9 DEF Rewritten, t

LEMMA CreateSucceededShown ==
    ASSUME QueueInv, NEW r \in futures, CreateSucceeded(r)
    PROVE  ShownStep
<1> DEFINE item == r.item
           o == ObjectOf(item)
           u == Replaced(sync_queue, item, o)
           s == IF o \in Enums THEN u ELSE sync_queue
           t == CreationSucceeded(s, item, o)
           left == futures \ {r}
<1>1. /\ r.at = "applied" /\ item.op = "create" /\ Becomes(Dequeued(t), left)
      /\ UNCHANGED <<log, content>>
    BY DEF CreateSucceeded, CallBack
<1>2. t = AfterCreation(item)
    BY DEF AfterCreation
<1>3. Well(t, futures, enqueued) /\ Traceless(t, item.no)
    BY <1>1, <1>2, CreateSucceededOf
<1>4. /\ item \in GoodItem /\ o \in Objects(item) /\ {o} \cap Shown({item}) = Shown({item})
      /\ sync_queue \in Structs /\ sync_queue.spawned = {}
    BY <1>1, InFlightItem, ItemIds, ShownIds, NothingSpawned
<1>5. {o} = Shown({item})
    BY <1>1, <1>4, ItemIds, ShownIds
<1> HIDE DEF item, o
<1>6. Reports(sync_queue, s, left, "done", {}) /\ s \in Structs /\ s.spawned = {}
    <2>1. u \in Structs /\ Rewritten(sync_queue, u)
        BY <1>4, ReplacedType
    <2> HIDE DEF u
    <2>2. Reports(sync_queue, u, left, "done", {}) /\ u.spawned = {}
        BY <1>4, <2>1, RewrittenReports DEF Rewritten
    <2>3. Reports(sync_queue, sync_queue, left, "done", {})
        BY SameReports
    <2>4. QED
        BY <1>4, <2>1, <2>2, <2>3
<1> HIDE DEF s
<1>7. Reports(s, t, left, "done", {o}) /\ t.spawned = s.spawned
    BY <1>1, <1>4, <1>6, CreationSucceededReports
<1> HIDE DEF t
<1>8. Reports(sync_queue, t, left, "done", {} \cup {o})
    BY <1>6, <1>7, ReportsMore
<1>9. {} \cup {o} = Shown({r.item})
    BY <1>5 DEF item
<1>10. Reports(sync_queue, t, left, "done", Shown({r.item})) /\ JustSent(t)
    BY <1>6, <1>7, <1>8, <1>9 DEF JustSent
<1>11. Well(t, left, enqueued)
    BY <1>3, EndedKeepsWell DEF item
<1>12. QED
    BY <1>1, <1>10, <1>11, CallBackShown

LEMMA NextTold ==
    ASSUME QueueInv, NEW r \in futures, r.item.op = "bulk",
           NEW created \in Seq(Objects(r.item)),
           NEW k \in 1..Len(created), NEW t \in ToldAfter(r, created, k - 1)
    PROVE  Dequeued(CreationSucceeded(t, r.item, created[k])) \in ToldAfter(r, created, k)
<1> DEFINE item == r.item
           o == created[k]
           left == futures \ {r}
           c == CreationSucceeded(t, item, o)
           u == Dequeued(c)
           before == {created[j] : j \in 1..(k - 1)}
           upto == {created[j] : j \in 1..k}
<1>1. t \in AfterObjects(item, created, k - 1) /\ Reports(sync_queue, t, left, "done", before) /\ JustSent(t)
    BY DEF ToldAfter
<1>2. u \in AfterObjects(item, created, k)
    BY <1>1, NextObject
<1>3. item \in GoodItem /\ item.op = "bulk" /\ o \in Objects(item) /\ item \in Flying(t, futures)
    BY InFlightItem DEF Flying
<1>4. Well(t, futures, enqueued) /\ t \in Structs
    BY <1>1 DEF AfterObjects, Tidy
<1>5. upto = (before \cup {o}) \cup {}
    <2>1. \A j : j \in 1..k <=> j \in 1..(k - 1) \/ j = k
        OBVIOUS
    <2>2. QED
        BY <2>1
<1>6. ToldAfter(r, created, k) =
          {x \in AfterObjects(item, created, k) : Reports(sync_queue, x, left, "done", upto) /\ JustSent(x)}
    BY DEF ToldAfter
<1> HIDE DEF before, upto, o, left, item
<1>7. Well(c, futures, enqueued)
    BY <1>3, <1>4, CreationSucceededKeepsWell
<1>8. Reports(t, c, left, "done", {o}) /\ c.spawned = t.spawned
    BY <1>3, <1>4, CreationSucceededReports
<1> HIDE DEF c
<1>9. Reports(c, u, left, "done", {}) /\ JustSent(u)
    <2>1. JustSent(c)
        BY <1>1, <1>8 DEF JustSent
    <2>2. QED
        BY <1>7, <2>1, DequeuedReports, DequeuedJustSent
<1> HIDE DEF u
<1>10. Reports(sync_queue, c, left, "done", before \cup {o})
    BY <1>1, <1>8, ReportsMore
<1>11. Reports(sync_queue, u, left, "done", (before \cup {o}) \cup {})
    BY <1>9, <1>10, ReportsMore
<1>12. Reports(sync_queue, u, left, "done", upto)
    BY <1>5, <1>11
<1>13. u \in ToldAfter(r, created, k)
    BY <1>2, <1>6, <1>9, <1>12
<1>14. QED
    BY <1>13 DEF u, c, o, item

LEMMA BulkCreatedShown ==
    ASSUME QueueInv, NEW r \in futures, BulkCreateSucceeded(r)
    PROVE  ShownStep
<1> DEFINE item == r.item
           left == futures \ {r}
<1>1. item \in GoodItem /\ sync_queue \in Tidy /\ Well(sync_queue, futures, enqueued) /\ JustSent(sync_queue)
    BY InFlightItem, NothingSpawned
<1>2. /\ r.at = "applied" /\ item.op = "bulk" /\ UNCHANGED <<log, content>> /\ TypeInv
    BY DEF BulkCreateSucceeded, QueueInv
<1>3. PICK created \in Seq(Object) :
         /\ ToSet(created) = Objects(item) /\ IsInjective(created)
         /\ Becomes(AllCreated(sync_queue, item, created), left)
    BY <1>2, BulkCreateSucceededTypes
<1> DEFINE n == Len(created)
           G == [k \in 0..n |-> ToldAfter(r, created, k)]
           t == AllCreated(sync_queue, item, created)
<1>4. created \in Seq(Objects(item)) /\ n \in Nat /\ n > 0
    BY <1>1, <1>3, AllOfThem
<1> HIDE DEF n
<1>5. sync_queue \in G[0]
    <2>1. Progress(sync_queue, sync_queue)
        BY SameProgress
    <2>2. sync_queue \in AfterObjects(item, created, 0)
        BY <1>1, <2>1 DEF AfterObjects
    <2>3. 0 \in 0..n
        BY <1>4
    <2>4. Reports(sync_queue, sync_queue, left, "done", {})
        BY SameReports
    <2>5. {created[j] : j \in 1..0} = {}
        OBVIOUS
    <2>6. Reports(sync_queue, sync_queue, left, "done", {created[j] : j \in 1..0})
        BY <2>4, <2>5
    <2>7. sync_queue \in ToldAfter(r, created, 0)
        BY <1>1, <2>2, <2>6 DEF ToldAfter
    <2>8. QED
        BY <2>3, <2>7
<1>6. ASSUME NEW k \in 1..n, NEW u \in G[k - 1]
      PROVE  Dequeued(CreationSucceeded(u, item, created[k])) \in G[k]
    <2>1. k \in 0..n /\ k - 1 \in 0..n /\ k \in 1..Len(created)
        BY <1>4 DEF n
    <2>2. u \in ToldAfter(r, created, k - 1)
        BY <2>1
    <2>3. Dequeued(CreationSucceeded(u, item, created[k])) \in ToldAfter(r, created, k)
        BY <1>2, <1>4, <2>1, <2>2, NextTold
    <2>4. QED
        BY <2>1, <2>3
<1>7. t \in ToldAfter(r, created, n)
    <2>1. Len(created) = n
        BY DEF n
    <2> HIDE DEF G, t
    <2>2. t \in G[n]
        BY <1>4, <1>5, <1>6, <2>1, AllCreatedIn DEF t
    <2>3. n \in 0..n
        BY <1>4
    <2>4. QED
        BY <2>2, <2>3 DEF G
<1>8. Becomes(t, left)
    BY <1>3
<1> HIDE DEF t, G
<1>9. /\ t \in AfterObjects(item, created, n) /\ JustSent(t)
      /\ Reports(sync_queue, t, left, "done", {created[j] : j \in 1..n})
    BY <1>7 DEF ToldAfter
<1>10. {created[j] : j \in 1..n} = Shown({item})
    <2>1. {created[j] : j \in 1..n} = Objects(item)
        BY <1>3, <1>4 DEF ToSet, n
    <2>2. QED
        BY <1>1, <1>2, <2>1, ShownIds
<1>11. Well(t, left, enqueued)
    BY <1>2, <1>3, <1>9, AllCreatedWell DEF n
<1>12. Reports(sync_queue, t, left, "done", Shown({item}))
    BY <1>9, <1>10
<1>13. QED
    BY <1>2, <1>8, <1>9, <1>11, <1>12, CallBackShown

\* A new change is the latest of its object, and the first if it creates it.
LEMMA NewLeads ==
    ASSUME NEW m \in Nat, NEW work, \A w \in work : w.no \in Nat /\ w.no <= m,
           \A v, w \in work : v.op # "update" /\ w.op # "update" => v.no = w.no,
           NEW job, job.no = m + 1, job.op # "update" => work = {}, NEW history
    PROVE  LeadsTo(work \cup {job}, history, job.edit, None)
<1>1. None # "done"
    BY SyncQueueAssumption
<1>2. \A w \in work : w.no < job.no
    OBVIOUS
<1>3. ASSUME NEW w \in work \cup {job}, \A v \in work \cup {job} : v.no <= w.no
      PROVE  w.edit = job.edit
    <2>1. m + 1 <= w.no
        BY <1>3
    <2>2. w \notin work
        <3>1. w \in work => w.no \in Nat /\ w.no <= m
            OBVIOUS
        <3>2. QED
            BY <2>1, <3>1
    <2>3. QED
        BY <2>2
<1>4. ASSUME NEW v \in work \cup {job}, v.op # "update"
      PROVE  /\ \A w \in work \cup {job} : w.op # "update" => w.no = v.no
             /\ (\A w \in work \cup {job} : w.no = v.no) \/ (\E w \in work \cup {job} : v.no < w.no)
    <2>1. CASE v \in work
        <3>1. job.op = "update"
            BY <2>1
        <3>2. \A w \in work \cup {job} : w.op # "update" => w.no = v.no
            BY <1>4, <2>1, <3>1
        <3>3. v.no < job.no
            BY <1>2, <2>1
        <3>4. QED
            BY <3>2, <3>3
    <2>2. CASE v = job
        <3>1. work = {}
            BY <1>4, <2>2
        <3>2. QED
            BY <2>2, <3>1
    <2>3. QED
        BY <2>1, <2>2
<1>5. QED
    BY <1>1, <1>3, <1>4 DEF LeadsTo

\* The creations among the changes of an object are one.
LEMMA OneCreation ==
    ASSUME NEW s, NEW left, NEW m, Well(s, left, m), CreatedOnce(s, left), NEW o
    PROVE  \A v, w \in Work(s, left, o) : v.op # "update" /\ w.op # "update" => v.no = w.no
<1>1. ASSUME NEW v \in Work(s, left, o), v.op # "update"
      PROVE  \E i \in Creations(Alive(s, left)) : o \in Objects(i) /\ v.no = i.no
    <2>1. PICK i \in Alive(s, left) : i.op # "action" /\ o \in Objects(i) /\ v = Job(i)
        BY DEF Work
    <2>2. v.op = i.op /\ v.no = i.no /\ i.op \in {"create", "bulk", "update", "action"}
        BY <2>1, AliveItems, ItemIds DEF Job
    <2>3. QED
        BY <1>1, <2>1, <2>2 DEF Creations
<1>2. QED
    BY <1>1 DEF CreatedOnce

LEMMA PendingWork ==
    ASSUME QueueInv, NEW o
    PROVE  Pending(o) <=> Work(sync_queue, futures, o) # {}
<1>1. Alive(sync_queue, futures) = ToSet(sync_queue.queue) \cup {r.item : r \in futures}
    BY NothingSpawned DEF Alive, Items, Requested
<1>2. QED
    BY <1>1 DEF Pending, Work

\* What the cloud model holds is the new change.
LEMMA EditedContent ==
    ASSUME NEW item \in GoodItem, Edited(item)
    PROVE  \A o \in Object :
              /\ o \notin Shown({item}) => content'[o] = content[o]
              /\ o \in Shown({item}) => content'[o] # NoContent /\ content'[o].edit = item.edit
<1>1. \A o : o \in Shown({item}) <=> item.op # "action" /\ o \in Objects(item)
    BY DEF Shown
<1>2. item.edit # 0
    BY ItemIds DEF ItemNo
<1>3. \A o \in Object : o \notin Shown({item}) => content'[o] = content[o]
    BY <1>1 DEF Edited
<1>4. ASSUME NEW o \in Object, o \in Shown({item}) PROVE content'[o].edit = item.edit
    BY <1>1, <1>4 DEF Edited
<1>5. NoContent.edit = 0
    BY DEF NoContent
<1>6. QED
    BY <1>2, <1>3, <1>4, <1>5

LEMMA EnqueueShown ==
    ASSUME QueueInv, NEW item, NewItem(item), Enqueue(item)
    PROVE  ShownStep
<1> DEFINE t == Pushed(sync_queue, item)
<1>1. /\ Well(sync_queue, futures, enqueued) /\ enqueued \in Nat
      /\ futures \subseteq Requests /\ sync_queue \in Structs /\ sync_queue.spawned = {}
    BY WellTypes DEF QueueInv, TypeInv, AppTypes, QueueTypes
<1>2. item \in GoodItem /\ item.no = enqueued + 1 /\ Grounded(item)
    BY DEF NewItem
<1>3. Well(t, futures, enqueued + 1) /\ JustSent(t)
    <2>1. Well(t, futures, enqueued + 1)
        BY <1>1, <1>2, PushedKeepsWell
    <2>2. t.spawned = sync_queue.spawned
        BY <1>1, <1>2, PushedType
    <2>3. QED
        BY <1>1, <2>1, <2>2 DEF JustSent
<1>4. /\ sync_queue.failed \ Shown({item}) \subseteq t.failed /\ NotCreated(t) = NotCreated(sync_queue)
      /\ \A o \in Object :
            \/ o \in t.failed /\ t.told[o] = "failed"
            \/ /\ o \in Shown({item}) /\ t.told[o] = None
               /\ Work(t, futures, o) = Work(sync_queue, futures, o) \cup {Job(item)}
            \/ /\ o \notin Shown({item}) /\ t.told[o] = sync_queue.told[o]
               /\ Work(t, futures, o) = Work(sync_queue, futures, o)
    BY <1>1, <1>2, PushedWork
<1>5. Becomes(Dequeued(t), futures) /\ UNCHANGED log /\ Edited(item)
    BY DEF Enqueue
<1> HIDE DEF t
<1>6. \A o \in Object :
         /\ o \notin Shown({item}) => content'[o] = content[o]
         /\ o \in Shown({item}) => content'[o] # NoContent /\ content'[o].edit = item.edit
    BY <1>2, <1>5, EditedContent
<1>7. /\ BeingSaved(t, futures, content') => BeingSaved(sync_queue', futures', content')
      /\ WillBeSaved(t, futures, content', log) => WillBeSaved(sync_queue', futures', content', log)
      /\ \A q \in futures' : q \in futures \/ q.at = "sent"
    BY <1>3, <1>5, DequeuedShown
<1>8. SavingShown => BeingSaved(t, futures, content')
    <2>1. ASSUME SavingShown, NEW o \in Object, content'[o] # NoContent, t.told[o] \notin {"done", "failed"}
          PROVE  Work(t, futures, o) # {} \/ o \in NotCreated(t)
        <3>1. CASE o \in Shown({item})
            BY <1>4, <2>1, <3>1
        <3>2. CASE o \notin Shown({item})
            BY <1>4, <1>6, <2>1, <3>2 DEF SavingShown, BeingSaved
        <3>3. QED
            BY <3>1, <3>2
    <2>2. QED
        BY <2>1 DEF BeingSaved
<1>9. ASSUME EditsHold, WillBeSaved(sync_queue, futures, content, log)
       PROVE  WillBeSaved(t, futures, content', log)
    <2> SUFFICES ASSUME NEW o \in Object \ t.failed
                 PROVE  IF content'[o] = NoContent THEN t.told[o] # "done" /\ Work(t, futures, o) = {}
                        ELSE LeadsTo(Work(t, futures, o), log[o], content'[o].edit, t.told[o])
        BY DEF WillBeSaved
    <2> DEFINE work == Work(sync_queue, futures, o)
    <2>2. CASE o \notin Shown({item})
        <3>1. /\ content'[o] = content[o] /\ t.told[o] = sync_queue.told[o]
              /\ Work(t, futures, o) = work /\ o \notin sync_queue.failed
            BY <1>4, <1>6, <2>2
        <3>2. IF content[o] = NoContent THEN sync_queue.told[o] # "done" /\ work = {}
              ELSE LeadsTo(work, log[o], content[o].edit, sync_queue.told[o])
            BY <1>9, <3>1 DEF WillBeSaved
        <3>3. QED
            BY <3>1, <3>2
    <2>3. CASE o \in Shown({item})
        <3>1. /\ Work(t, futures, o) = work \cup {Job(item)} /\ t.told[o] = None
              /\ content'[o] # NoContent /\ content'[o].edit = item.edit
            BY <1>4, <1>6, <2>3
        <3>2. \A w \in work : w.no \in Nat /\ w.no <= enqueued
            <4>1. futures \in SUBSET futures
                OBVIOUS
            <4>2. QED
                BY <1>1, <4>1, WorkNumbers
        <3>3. Job(item).no = enqueued + 1 /\ Job(item).edit = item.edit /\ Job(item).op = item.op
            BY <1>2 DEF Job
        <3>4. item.op # "update" => work = {}
            <4>1. item.op # "update" => item.op \in {"create", "bulk"} /\ o \in Objects(item)
                BY <1>2, <2>3, ItemIds DEF Shown
            <4>2. item.op # "update" => ~Pending(o)
                BY <1>2, <4>1 DEF Grounded
            <4>3. QED
                BY <4>2, PendingWork
        <3>5. \A v, w \in work : v.op # "update" /\ w.op # "update" => v.no = w.no
            BY <1>1, <1>9, OneCreation DEF EditsHold, Orderly
        <3> HIDE DEF work
        <3>6. LeadsTo(work \cup {Job(item)}, log[o], Job(item).edit, None)
            BY <1>1, <3>2, <3>3, <3>4, <3>5, NewLeads
        <3>7. QED
            BY <3>1, <3>3, <3>6
    <2>4. QED
        BY <2>2, <2>3
<1>10. EditsApplied => EditsApplied'
    BY <1>5, <1>7 DEF EditsApplied
<1>11. SavingShown => SavingShown'
    BY <1>7, <1>8 DEF SavingShown
<1>12. EditsHold /\ SavedShown => SavedShown'
    BY <1>5, <1>7, <1>9, <1>10 DEF SavedShown
<1>13. QED
    BY <1>11, <1>12 DEF ShownStep

\* The object whose creation was denied is enqueued again.
LEMMA DeniedToTeamShown ==
    ASSUME QueueInv, NEW r \in futures, CreateDeniedToTeam(r)
    PROVE  ShownStep
<1> DEFINE item == Again(r)
           d == Denied(r)
           q == Dequeued(d)
           p == Pushed(q, item)
           t == Noted(p, {ObjectOf(r.item)})
           left == futures \ {r}
           shown == Shown({r.item})
<1>1. TypeInv /\ enqueued \in Nat /\ sync_queue \in Tidy /\ "denied" \in Outcomes
    BY DEF QueueInv, TypeInv, AppTypes, QueueTypes, Outcomes
<1>2. /\ r.item.op = "create" /\ Becomes(Dequeued(t), left) /\ Edited(item) /\ UNCHANGED log
    BY DEF CreateDeniedToTeam, Again, CallBack, Noted
<1>3. /\ item \in GoodItem /\ item.no = enqueued + 1 /\ item.op = "create" /\ item.folder = None
      /\ item.ids = {Client(ObjectOf(r.item))}
    BY <1>1, CreateDeniedToTeamTypes
<1>4. d \in Tidy /\ Well(d, futures, enqueued) /\ Traceless(d, r.item.no)
    BY <1>2, DeniedOf
<1>5. d = LetGo(sync_queue, "denied", r.item, r.item.ids) /\ r.item \in GoodItem
    BY <1>1, DeniedType, InFlightItem
<1>6. Shown({item}) = shown /\ {ObjectOf(r.item)} = shown /\ shown \in SUBSET Object
    <2>1. Objects(item) = {ObjectOf(r.item)} /\ Objects(r.item) = {ObjectOf(r.item)}
        BY <1>2, <1>3, <1>5, OneObject, IdsOfObjects, ItemIds
    <2>2. Shown({item}) = Objects(item) /\ Shown({r.item}) = Objects(r.item)
        BY <1>2, <1>3, <1>5, ShownIds
    <2>3. Objects(r.item) \subseteq Object
        BY <1>5, ItemIds
    <2>4. QED
        BY <2>1, <2>2, <2>3
<1>7. \A o : o \notin shown => Work(sync_queue, left, o) = Work(sync_queue, futures, o)
    BY EndedWork
<1>8. Reports(sync_queue, d, left, "denied", shown) /\ JustSent(d)
    <2>1. ObjectsOf(r.item.ids) \cap Shown({r.item}) = Shown({r.item})
        BY <1>5, ShownIds
    <2>2. QED
        BY <1>1, <1>5, <2>1, LetGoReports, NothingSpawned
<1> HIDE DEF d, item, shown
<1>9. Well(d, left, enqueued) /\ left \subseteq futures
    BY <1>4, EndedKeepsWell
<1> HIDE DEF left
<1>10. /\ Reports(d, q, left, "denied", {}) /\ JustSent(q)
       /\ Well(q, left, enqueued)
    BY <1>8, <1>9, DequeuedReports, DequeuedJustSent, DequeuedKeepsWell
<1> HIDE DEF q
<1>11. Reports(sync_queue, q, left, "denied", shown)
    <2>1. Reports(sync_queue, q, left, "denied", shown \cup {})
        BY <1>8, <1>10, ReportsMore
    <2>2. shown \cup {} = shown
        OBVIOUS
    <2>3. QED
        BY <2>1, <2>2
<1>12. q \in Structs
    BY <1>10, WellTypes
<1>13. Well(p, left, enqueued + 1) /\ p.spawned = q.spawned
    BY <1>1, <1>3, <1>10, <1>12, PushedKeepsWell, PushedType
<1>14. /\ q.failed \ Shown({item}) \subseteq p.failed /\ NotCreated(p) = NotCreated(q)
       /\ \A o \in Object :
             \/ o \in p.failed /\ p.told[o] = "failed"
             \/ /\ o \in Shown({item}) /\ p.told[o] = None
                /\ Work(p, left, o) = Work(q, left, o) \cup {Job(item)}
             \/ /\ o \notin Shown({item}) /\ p.told[o] = q.told[o]
                /\ Work(p, left, o) = Work(q, left, o)
    <2>1. q.failed \ Shown({item}) \subseteq p.failed
        BY <1>3, <1>12, PushedWork
    <2>2. NotCreated(p) = NotCreated(q)
        BY <1>3, <1>12, PushedWork
    <2>3. \A o \in Object :
             \/ o \in p.failed /\ p.told[o] = "failed"
             \/ /\ o \in Shown({item}) /\ p.told[o] = None
                /\ Work(p, left, o) = Work(q, left, o) \cup {Job(item)}
             \/ /\ o \notin Shown({item}) /\ p.told[o] = q.told[o]
                /\ Work(p, left, o) = Work(q, left, o)
        BY <1>3, <1>12, PushedWork, SMTT(60)
    <2>4. QED
        BY <2>1, <2>2, <2>3
<1> HIDE DEF p
<1>15. t \in Tidy /\ Same(p, t) /\ t.told = p.told /\ t.failed = p.failed \cup shown
    BY <1>6, <1>13, WellTypes, NotedType
<1> HIDE DEF t
<1>16. Well(t, left, enqueued + 1) /\ JustSent(t) /\ NotCreated(t) = NotCreated(q)
    BY <1>10, <1>13, <1>14, <1>15, SameKeepsWell DEF Same, JustSent, NotCreated
<1>17. /\ q.failed \subseteq t.failed /\ shown \subseteq t.failed
       /\ \A o \in Object :
             \/ o \in t.failed /\ t.told[o] = "failed"
             \/ o \in shown /\ Work(t, left, o) # {}
             \/ o \notin shown /\ t.told[o] = q.told[o] /\ Work(t, left, o) = Work(q, left, o)
    <2>1. \A o : Work(t, left, o) = Work(p, left, o)
        BY <1>15 DEF Same, Work, Alive, Requested, Items
    <2>2. QED
        BY <1>6, <1>14, <1>15, <2>1
<1>18. \A o \in Object : o \notin shown => content'[o] = content[o]
    BY <1>2, <1>3, <1>6, EditedContent
<1>19. /\ BeingSaved(t, left, content') => BeingSaved(sync_queue', futures', content')
       /\ WillBeSaved(t, left, content', log) => WillBeSaved(sync_queue', futures', content', log)
       /\ \A x \in futures' : x \in left \/ x.at = "sent"
    BY <1>2, <1>16, DequeuedShown
<1>20. ASSUME NEW o \in Object, o \notin shown
       PROVE  \/ o \in t.failed /\ t.told[o] = "failed"
              \/ /\ t.told[o] = sync_queue.told[o] /\ Work(t, left, o) \in SUBSET Work(sync_queue, futures, o)
                 /\ \A w \in Work(sync_queue, futures, o) \ Work(t, left, o) : w.op # "update" /\ o \in NotCreated(t)
    <2>1. \/ o \in q.failed /\ q.told[o] = "failed"
          \/ Stays(sync_queue, q, left, o) /\ q.told[o] = sync_queue.told[o]
        BY <1>11, <1>20 DEF Reports
    <2>2. \/ o \in t.failed /\ t.told[o] = "failed"
          \/ Work(t, left, o) = Work(q, left, o) /\ t.told[o] = q.told[o]
        BY <1>20, <1>17
    <2>3. QED
        BY <1>7, <1>20, <1>16, <1>17, <2>1, <2>2 DEF Stays
<1>21. SavingShown => BeingSaved(t, left, content')
    <2>1. ASSUME SavingShown, NEW o \in Object, content'[o] # NoContent, t.told[o] \notin {"done", "failed"}
          PROVE  Work(t, left, o) # {} \/ o \in NotCreated(t)
        <3>1. CASE o \in shown
            BY <1>17, <2>1, <3>1
        <3>2. CASE o \notin shown
            <4>1. NotCreated(sync_queue) \subseteq NotCreated(t)
                BY <1>11, <1>16 DEF Reports
            <4>2. QED
                BY <1>18, <1>20, <2>1, <3>2, <4>1 DEF SavingShown, BeingSaved
        <3>3. QED
            BY <3>1, <3>2
    <2>2. QED
        BY <2>1 DEF BeingSaved
<1>22. ASSUME WillBeSaved(sync_queue, futures, content, log) PROVE WillBeSaved(t, left, content', log)
    <2> SUFFICES ASSUME NEW o \in Object \ t.failed
                 PROVE  IF content'[o] = NoContent THEN t.told[o] # "done" /\ Work(t, left, o) = {}
                        ELSE LeadsTo(Work(t, left, o), log[o], content'[o].edit, t.told[o])
        BY DEF WillBeSaved
    <2>1. o \notin q.failed /\ o \notin sync_queue.failed
        BY <1>11, <1>17 DEF Reports
    <2>2. o \notin shown
        BY <1>17
    <2> DEFINE before == Work(sync_queue, futures, o)
    <2>3. /\ content'[o] = content[o] /\ Work(t, left, o) \in SUBSET before
          /\ \A w \in before \ Work(t, left, o) : w.op # "update"
          /\ t.told[o] = sync_queue.told[o]
        BY <1>18, <1>20, <2>2
    <2>4. IF content[o] = NoContent THEN sync_queue.told[o] # "done" /\ before = {}
          ELSE LeadsTo(before, log[o], content[o].edit, sync_queue.told[o])
        BY <1>22, <2>1 DEF WillBeSaved
    <2>5. \A w \in before : w.no \in Nat
        <3>1. futures \in SUBSET futures /\ Well(sync_queue, futures, enqueued)
            BY DEF QueueInv
        <3>2. QED
            BY <3>1, WorkNumbers
    <2> HIDE DEF before
    <2>6. QED
        BY <2>3, <2>4, <2>5, LessLeads
<1>23. EditsApplied => EditsApplied'
    BY <1>2, <1>9, <1>19 DEF EditsApplied
<1>24. SavingShown => SavingShown'
    BY <1>19, <1>21 DEF SavingShown
<1>25. SavedShown => SavedShown'
    BY <1>2, <1>19, <1>22, <1>23 DEF SavedShown
<1>26. QED
    BY <1>24, <1>25 DEF ShownStep

\* A request moves on: it is work as before, and what the server has written is
\* of an object with work.
LEMMA MovedShown ==
    ASSUME NEW r \in futures, NEW q, q.item = r.item,
           futures' = (futures \ {r}) \cup {q}, UNCHANGED <<sync_queue, content>>,
           \A o \in Object : log'[o] = log[o] \/ (r.item.op # "action" /\ o \in Objects(r.item))
    PROVE  /\ SavingShown => SavingShown'
           /\ WillBeSaved(sync_queue, futures, content, log) =>
                 WillBeSaved(sync_queue', futures', content', log')
<1>1. Alive(sync_queue, futures') = Alive(sync_queue, futures)
    BY DEF Alive, Requested
<1>2. \A o : Work(sync_queue, futures', o) = Work(sync_queue, futures, o)
    BY <1>1 DEF Work
<1>3. SavingShown => SavingShown'
    BY <1>2 DEF SavingShown, BeingSaved
<1>4. ASSUME NEW o \in Object, Work(sync_queue, futures, o) = {} PROVE log'[o] = log[o]
    <2>1. r.item \in Alive(sync_queue, futures)
        BY DEF Alive, Requested
    <2>2. ~(r.item.op # "action" /\ o \in Objects(r.item))
        BY <1>4, <2>1 DEF Work
    <2>3. QED
        BY <2>2
<1>5. ASSUME WillBeSaved(sync_queue, futures, content, log)
      PROVE  WillBeSaved(sync_queue, futures', content, log')
    <2>1. ASSUME NEW o \in Object, NEW edit, NEW told, LeadsTo(Work(sync_queue, futures, o), log[o], edit, told)
          PROVE  LeadsTo(Work(sync_queue, futures, o), log'[o], edit, told)
        BY <1>4, <2>1 DEF LeadsTo
    <2>2. QED
        BY <1>2, <1>5, <2>1 DEF WillBeSaved
<1>6. QED
    BY <1>3, <1>5

LEMMA RetryShown ==
    ASSUME QueueInv, NEW r \in futures, RequestFailedRetryPending(r)
    PROVE  ShownStep
<1> DEFINE q == [r EXCEPT !.at = "sent", !.retries = @ - 1, !.rev = 0]
<1>1. futures' = (futures \ {r}) \cup {q} /\ UNCHANGED <<sync_queue, log, content>>
    BY DEF RequestFailedRetryPending, appVars
<1>2. q.item = r.item /\ q.at = "sent"
    BY InFlightItem DEF Requests
<1> HIDE DEF q
<1>3. /\ SavingShown => SavingShown'
      /\ WillBeSaved(sync_queue, futures, content, log) =>
            WillBeSaved(sync_queue', futures', content', log')
    BY <1>1, <1>2, MovedShown
<1>4. EditsApplied => EditsApplied'
    BY <1>1, <1>2 DEF EditsApplied
<1>5. QED
    BY <1>3, <1>4 DEF ShownStep, SavedShown

LEMMA ReceivedShown ==
    ASSUME QueueInv, NEW r \in futures, ServerReceives(r)
    PROVE  ShownStep
<1> DEFINE item == r.item
           at == IF IsCurrent(item) THEN "applied" ELSE "refused"
<1>1. r.at = "sent" /\ UNCHANGED <<sync_queue, content>>
    BY DEF ServerReceives, appVars
<1>2. /\ item \in GoodItem /\ Objects(item) \subseteq Object /\ log \in [Object -> Seq(ItemNo)]
      /\ item.op \in {"create", "bulk", "update", "action"}
    BY InFlightItem, ItemIds DEF QueueInv, TypeInv, AppTypes
<1>3. PICK q :
         /\ futures' = (futures \ {r}) \cup {q} /\ q.item = item
         /\ q.at = "applied" =>
               log' = [o \in Object |->
                   IF o \in Objects(item) /\ (item.op = "update" \/ (item.op # "action" /\ log[o] = <<>>))
                     THEN Append(log[o], item.edit) ELSE log[o]]
         /\ q.at # "applied" => UNCHANGED log
    <2>1. CASE IsCurrent(item)
        <3> DEFINE q == [r EXCEPT !.at = "applied", !.rev = Len(log'[ObjectOf(item)])]
        <3>1. q.item = item /\ q.at = "applied"
            BY InFlightItem DEF Requests
        <3>2. QED
            BY <2>1, <3>1 DEF ServerReceives, Applied
    <2>2. CASE ~IsCurrent(item)
        <3> DEFINE q == [r EXCEPT !.at = "refused"]
        <3>1. q.item = item /\ q.at = "refused"
            BY InFlightItem DEF Requests
        <3>2. futures' = (futures \ {r}) \cup {q} /\ UNCHANGED log
            BY <2>2 DEF ServerReceives
        <3>3. QED
            BY <3>1, <3>2
    <2>3. QED
        BY <2>1, <2>2
<1>4. \A o \in Object : log'[o] = log[o] \/ (item.op # "action" /\ o \in Objects(item))
    BY <1>3
<1>5. /\ SavingShown => SavingShown'
      /\ WillBeSaved(sync_queue, futures, content, log) =>
            WillBeSaved(sync_queue', futures', content', log')
    BY <1>1, <1>3, <1>4, MovedShown
<1>6. ASSUME EditsHold, EditsApplied PROVE EditsApplied'
    <2>1. ASSUME q.at = "applied", item.op # "action", NEW o \in Objects(item)
          PROVE  log'[o] # <<>> /\ Last(log'[o]) = item.edit
        <3>1. log[o] \in Seq(ItemNo) /\ item.edit \in ItemNo /\ o \in Object
            BY <1>2, ItemIds
        <3>2. item.op # "update" => log[o] = <<>>
            <4>1. item.op # "update" => o \in Object \ sync_queue.client_id_to_server /\ ~CreationApplied(o)
                BY <1>1, <1>2, <1>6, <2>1, OneInFlight DEF CreationApplied
            <4>2. QED
                BY <1>6, <4>1 DEF EditsHold, Revisions
        <3>3. log'[o] = Append(log[o], item.edit)
            BY <1>3, <2>1, <3>1, <3>2
        <3>4. QED
            BY <3>1, <3>3 DEF Last
    <2>2. ASSUME NEW p \in futures \ {r}, p.at = "applied", p.item.op # "action", NEW o \in Objects(p.item)
          PROVE  log'[o] # <<>> /\ Last(log'[o]) = p.item.edit
        <3>1. /\ p.item \in GoodItem /\ o \in Object
              /\ p.item.op \in {"create", "bulk", "update"}
              /\ p.item.op = "update" => o = ObjectOf(p.item)
            BY <2>2, InFlightItem, ItemIds
        <3>2. item.op # "action" => o \notin Objects(item)
            <4>1. item.op = "update" => Objects(item) = {ObjectOf(item)}
                BY <1>2, ItemIds
            <4>2. CASE p.item.op = "update"
                BY <1>2, <1>6, <3>1, <4>1, <4>2, OneInFlight
            <4>3. CASE p.item.op \in {"create", "bulk"}
                BY <1>2, <1>6, <2>2, <4>1, <4>3, OneInFlight
            <4>4. QED
                BY <3>1, <4>2, <4>3
        <3>3. log'[o] = log[o]
            BY <1>4, <3>1, <3>2
        <3>4. QED
            BY <1>6, <2>2, <3>3 DEF EditsApplied
    <2>3. QED
        BY <1>3, <2>1, <2>2 DEF EditsApplied
<1>7. QED
    BY <1>5, <1>6 DEF ShownStep, SavedShown

LEMMA SwitchShown ==
    ASSUME QueueInv, StartDequeueing \/ StopDequeueing
    PROVE  ShownStep
<1>1. PICK b \in BOOLEAN :
         LET t == [sync_queue EXCEPT !.should_dequeue = b]
         IN  Becomes(Dequeued(t), futures) \/ Becomes(t, futures)
    BY DEF StartDequeueing, StopDequeueing
<1> DEFINE t == [sync_queue EXCEPT !.should_dequeue = b]
<1>2. /\ Well(sync_queue, futures, enqueued) /\ sync_queue \in Tidy
      /\ futures \subseteq Requests /\ sync_queue.spawned = {}
    BY DEF QueueInv, TypeInv, QueueTypes
<1>3. Well(t, futures, enqueued)
    BY <1>2, SwitchedKeepsWell
<1>4. /\ t \in Tidy /\ t.queue = sync_queue.queue /\ t.spawned = sync_queue.spawned
      /\ t.dropped = sync_queue.dropped
      /\ t.told = sync_queue.told /\ t.failed = sync_queue.failed
    <2>1. /\ t \in Tidy /\ t.should_dequeue = b
          /\ t.queue = sync_queue.queue /\ t.queue_dependencies = sync_queue.queue_dependencies
          /\ t.waiting_response = sync_queue.waiting_response
          /\ t.in_flight_bulk_create_objects = sync_queue.in_flight_bulk_create_objects
          /\ t.client_id_to_server = sync_queue.client_id_to_server
          /\ t.spawned = sync_queue.spawned /\ t.dropped = sync_queue.dropped
          /\ t.answered = sync_queue.answered
          /\ t.told = sync_queue.told /\ t.failed = sync_queue.failed
        BY <1>2, SwitchedTidy
    <2>2. QED
        BY <2>1
<1>5. Becomes(Dequeued(t), futures) \/ Becomes(t, futures)
    BY <1>1
<1>6. UNCHANGED <<log, content>>
    BY DEF StartDequeueing, StopDequeueing, appVars
<1> HIDE DEF t
<1>7. Reports(sync_queue, t, futures, "done", {}) /\ JustSent(t)
    BY <1>2, <1>4, SameReports DEF Items, JustSent
<1>8. /\ BeingSaved(sync_queue, futures, content) => BeingSaved(t, futures, content)
      /\ WillBeSaved(sync_queue, futures, content, log) => WillBeSaved(t, futures, content, log)
    BY <1>2, <1>7, ReportsKeepShown
<1>9. /\ BeingSaved(t, futures, content) => BeingSaved(sync_queue', futures', content)
      /\ WillBeSaved(t, futures, content, log) => WillBeSaved(sync_queue', futures', content, log)
      /\ \A q \in futures' : q \in futures \/ q.at = "sent"
    <2>1. CASE Becomes(Dequeued(t), futures)
        BY <1>3, <1>7, <2>1, DequeuedShown
    <2>2. CASE Becomes(t, futures)
        BY <1>2, <1>4, <1>7, <2>2, BecomesShown
    <2>3. QED
        BY <1>5, <2>1, <2>2
<1>10. EditsApplied => EditsApplied'
    BY <1>6, <1>9 DEF EditsApplied
<1>11. QED
    BY <1>6, <1>8, <1>9, <1>10 DEF ShownStep, SavingShown, SavedShown

\* What the cloud model has loaded is being created.
LEMMA InitContent ==
    ASSUME Init
    PROVE  /\ \A o \in Object : sync_queue.told[o] = None
           /\ \A i \in Items(sync_queue) :
                 i.op = "create" /\ \A o \in Objects(i) : content[o] # NoContent /\ content[o].edit = i.edit
           /\ \A o \in Object : content[o] # NoContent => \E i \in Items(sync_queue) : o \in Objects(i)
<1> DEFINE Places(q) == [Workflows -> {None} \cup (Folders \cap ToSet(q))]
           Refs(q, o) == IF o \in Workflows THEN Enums \cap ToSet(q) ELSE {}
           Place(p, o) == IF o \in Workflows THEN p[o] ELSE None
           New(q, p, k) == [no |-> k, op |-> "create", ids |-> {Client(q[k])}, edit |-> k,
                            refs |-> Refs(q, q[k]), folder |-> Place(p, q[k]), rev |-> 0]
           Start(q, p) == [EmptyQueue EXCEPT !.queue = [k \in DOMAIN q |-> New(q, p, k)]]
           Initially(q, p) ==
               /\ Len(q) <= MaxItems
               /\ sync_queue = [Start(q, p) EXCEPT !.queue_dependencies =
                     [n \in ItemNo |-> IF n <= Len(q)
                        THEN InferredDependencies(Start(q, p), [k \in DOMAIN q |-> New(q, p, k)][n]) ELSE {}]]
               /\ content = [o \in Object |->
                      IF o \in ToSet(q)
                        THEN [edit |-> CHOOSE k \in DOMAIN q : q[k] = o, refs |-> Refs(q, o),
                              folder |-> Place(p, o)]
                        ELSE NoContent]
<1>0. PICK q \in Unsynced : \E p \in Places(q) : Initially(q, p)
    BY DEF Init
<1>1. PICK p \in Places(q) : Initially(q, p)
    BY <1>0
<1>2. PICK S \in SUBSET (Enums \cup Workflows \cup Folders) : q \in SetToSeqs(S)
    BY DEF Unsynced, SetToAllKPermutations
<1>3. S \subseteq Object /\ IsFiniteSet(S)
    BY SyncQueueAssumption, FS_Subset DEF Object
<1>4. q \in Seq(S) /\ ToSet(q) = S /\ IsInjective(q)
    BY <1>2, <1>3, SequencesOfASet
<1>5. \A k \in DOMAIN q : q[k] \in Object /\ q[k] \in ToSet(q) /\ k \in 1..Len(q)
    BY <1>3, <1>4, ElementsInSet
<1> DEFINE items == [k \in DOMAIN q |-> New(q, p, k)]
           Edit(o) == CHOOSE k \in DOMAIN q : q[k] = o
<1>6. \A k \in DOMAIN q : New(q, p, k).edit = k /\ New(q, p, k).op = "create" /\ Objects(New(q, p, k)) = {q[k]}
    BY OneObject, IdsOfObjects
<1>7. sync_queue.queue = items /\ sync_queue.told = [o \in Object |-> None]
    <2> HIDE DEF items, New
    <2>1. sync_queue.queue = Start(q, p).queue /\ sync_queue.told = Start(q, p).told
        BY <1>1 DEF EmptyQueue
    <2>2. Start(q, p).queue = items /\ Start(q, p).told = EmptyQueue.told
        BY DEF EmptyQueue, items
    <2>3. EmptyQueue.told = [o \in Object |-> None]
        BY DEF EmptyQueue
    <2>4. QED
        BY <2>1, <2>2, <2>3
<1>8. \A k \in DOMAIN q : Edit(q[k]) = k
    <2> SUFFICES ASSUME NEW k \in DOMAIN q PROVE Edit(q[k]) = k
        OBVIOUS
    <2>1. Edit(q[k]) \in DOMAIN q /\ q[Edit(q[k])] = q[k]
        OBVIOUS
    <2>2. QED
        BY <1>4, <2>1 DEF IsInjective
<1>9. \A o \in Object :
         /\ o \in ToSet(q) => content[o] = [edit |-> Edit(o), refs |-> Refs(q, o), folder |-> Place(p, o)]
         /\ o \notin ToSet(q) => content[o] = NoContent
    BY <1>1
<1> HIDE DEF New, Edit, Refs, Place
<1>10. ASSUME NEW k \in DOMAIN q
       PROVE  content[q[k]] # NoContent /\ content[q[k]].edit = k
    <2>1. content[q[k]].edit = k
        <3>1. content[q[k]] = [edit |-> Edit(q[k]), refs |-> Refs(q, q[k]), folder |-> Place(p, q[k])]
            BY <1>5, <1>9
        <3>2. Edit(q[k]) = k
            BY <1>8
        <3>3. QED
            BY <3>1, <3>2
    <2>2. NoContent.edit = 0 /\ k # 0
        BY <1>5 DEF NoContent
    <2>3. QED
        BY <2>1, <2>2
<1>11. ASSUME NEW i \in Items(sync_queue)
       PROVE  \E k \in DOMAIN q : i.edit = k /\ i.op = "create" /\ Objects(i) = {q[k]}
    <2>1. PICK k \in DOMAIN items : i = items[k]
        BY <1>7 DEF Items, ToSet
    <2>2. k \in DOMAIN q /\ i = New(q, p, k)
        BY <2>1
    <2>3. QED
        BY <1>6, <2>2
<1>12. ASSUME NEW o \in Object, content[o] # NoContent
       PROVE  \E i \in Items(sync_queue) : o \in Objects(i)
    <2>1. PICK k \in DOMAIN q : q[k] = o
        BY <1>9, <1>12 DEF ToSet
    <2>2. items[k] \in Items(sync_queue) /\ items[k] = New(q, p, k)
        BY <1>7, <2>1 DEF Items, ToSet
    <2>3. QED
        BY <1>6, <2>1, <2>2
<1>13. QED
    BY <1>7, <1>10, <1>11, <1>12

LEMMA InitShown ==
    ASSUME Init, QueueInv, EditsHold
    PROVE  SavingShown /\ SavedShown
<1>1. /\ \A o \in Object : sync_queue.told[o] = None
      /\ \A i \in Items(sync_queue) :
            i.op = "create" /\ \A o \in Objects(i) : content[o] # NoContent /\ content[o].edit = i.edit
      /\ \A o \in Object : content[o] # NoContent => \E i \in Items(sync_queue) : o \in Objects(i)
    BY InitContent
<1>2. futures = {} /\ sync_queue.spawned = {}
    BY InitTypes DEF Init, TypeInv, QueueTypes
<1>3. Alive(sync_queue, futures) = Items(sync_queue)
    BY <1>2 DEF Alive, Requested
<1>4. ASSUME NEW o \in Object, content[o] # NoContent
      PROVE  Work(sync_queue, futures, o) # {}
    BY <1>1, <1>3, <1>4 DEF Work
<1>5. ASSUME NEW o \in Object, NEW w \in Work(sync_queue, futures, o)
      PROVE  w.op = "create" /\ content[o] # NoContent /\ w.edit = content[o].edit
    <2>1. PICK i \in Items(sync_queue) : o \in Objects(i) /\ w = Job(i)
        BY <1>3 DEF Work
    <2>2. w.op = i.op /\ w.edit = i.edit
        BY <2>1 DEF Job
    <2>3. QED
        BY <1>1, <2>1, <2>2
<1>6. SavingShown
    BY <1>4 DEF SavingShown, BeingSaved
<1>7. EditsApplied
    BY <1>2 DEF EditsApplied
<1>8. WillBeSaved(sync_queue, futures, content, log)
    <2> SUFFICES ASSUME NEW o \in Object
                 PROVE  IF content[o] = NoContent
                          THEN sync_queue.told[o] # "done" /\ Work(sync_queue, futures, o) = {}
                          ELSE LeadsTo(Work(sync_queue, futures, o), log[o], content[o].edit, sync_queue.told[o])
        BY DEF WillBeSaved
    <2>1. CASE content[o] = NoContent
        <3>1. None # "done"
            BY SyncQueueAssumption
        <3>2. QED
            BY <1>1, <1>5, <2>1, <3>1
    <2>2. CASE content[o] # NoContent
        <3> DEFINE work == Work(sync_queue, futures, o)
        <3>1. work # {} /\ \A w \in work : w.op # "update" /\ w.edit = content[o].edit
            BY <1>4, <1>5, <2>2
        <3>2. \A v, w \in work : v.no = w.no
            BY <3>1, OneCreation DEF QueueInv, EditsHold, Orderly
        <3>3. sync_queue.told[o] # "done"
            BY <1>1, SyncQueueAssumption
        <3> HIDE DEF work
        <3>4. LeadsTo(work, log[o], content[o].edit, sync_queue.told[o])
            BY <3>1, <3>2, <3>3 DEF LeadsTo
        <3>5. QED
            BY <2>2, <3>4 DEF work
    <2>3. QED
        BY <2>1, <2>2
<1>9. QED
    BY <1>6, <1>7, <1>8 DEF SavedShown

LEMMA NextShown ==
    ASSUME QueueInv, EditsInv, StatusInv, [Next]_vars
    PROVE  StatusInv'
<1>1. CASE UserEnqueues
    <2>1. PICK item : NewItem(item) /\ Enqueue(item)
        BY <1>1, EnqueuesOne DEF QueueInv
    <2>2. UNCHANGED <<lost, logouts>> /\ ShownStep
        BY <2>1, EnqueueShown DEF Enqueue
    <2>3. QED
        BY <2>2 DEF ShownStep, StatusInv, EditsInv
<1>2. CASE StartDequeueing \/ StopDequeueing
    <2>1. UNCHANGED <<lost, logouts>>
        BY <1>2 DEF StartDequeueing, StopDequeueing, appVars
    <2>2. ShownStep
        BY <1>2, SwitchShown
    <2>3. QED
        BY <2>1, <2>2 DEF ShownStep, StatusInv, EditsInv
<1>3. CASE Clear
    <2>1. logouts' # 0
        BY <1>3 DEF Clear, EditsInv
    <2>2. QED
        BY <2>1 DEF StatusInv
<1>4. ASSUME NEW r \in futures, RequestFailedRetryPending(r) \/ RequestFailed(r)
      PROVE  StatusInv'
    <2>1. logouts' = logouts /\ (lost' = lost \/ lost' = lost + 1)
        BY <1>4 DEF RequestFailedRetryPending, RequestFailed, Unanswered, appVars
    <2>2. lost' = 0 => lost = 0
        BY <2>1 DEF EditsInv
    <2>3. ShownStep
        BY <1>4, RetryShown, RequestFailedShown
    <2>4. QED
        BY <2>1, <2>2, <2>3 DEF ShownStep, StatusInv, EditsInv
<1>5. ASSUME NEW r \in futures,
             \/ ServerReceives(r)
             \/ CreateSucceeded(r) \/ BulkCreateSucceeded(r)
             \/ CreateDenied(r) \/ CreateDeniedToTeam(r) \/ UniqueKeyConflict(r)
             \/ UpdateSucceeded(r) \/ UpdateRejected(r) \/ ActionRecorded(r)
      PROVE  StatusInv'
    <2>1. UNCHANGED <<lost, logouts>>
        BY <1>5 DEF ServerReceives, CreateSucceeded, BulkCreateSucceeded, CreateDenied, CreateDeniedToTeam,
                    UniqueKeyConflict, UpdateSucceeded, UpdateRejected, ActionRecorded, appVars
    <2>2. ShownStep
        BY <1>5, ReceivedShown, CreateSucceededShown, BulkCreatedShown, DeniedShown, DeniedToTeamShown,
           ConflictShown, UpdateSucceededShown, OtherAnsweredShown
    <2>3. QED
        BY <2>1, <2>2 DEF ShownStep, StatusInv, EditsInv
<1>6. CASE UNCHANGED vars
    BY <1>6 DEF vars, appVars, StatusInv, SavingShown, SavedShown, EditsApplied
<1>7. QED
    BY <1>1, <1>2, <1>3, <1>4, <1>5, <1>6 DEF Next, UserEnqueues

LEMMA StatusHolds ==
    ASSUME QueueInv, StatusInv
    PROVE  ShownStatusIsTrue
<1>1. \A o \in Object : Pending(o) <=> Work(sync_queue, futures, o) # {}
    BY PendingWork
<1>2. NotCreated(sync_queue) = {o \in Object : \E i \in DroppedCreations : o \in Objects(i)}
    BY DEF NotCreated, DroppedCreations
<1>3. SyncedMeansSaved
    BY <1>1 DEF StatusInv, SavedShown, WillBeSaved, LeadsTo, SyncedMeansSaved
<1>4. InFlightMeansPending
    BY <1>1, <1>2 DEF StatusInv, SavingShown, BeingSaved, InFlightMeansPending
<1>5. QED
    BY <1>3, <1>4 DEF ShownStatusIsTrue

\* What the user is shown of an object is true: one that is shown as being saved
\* has a change that is queued or in flight, unless the user logged out; and of one
\* whose last event told of a success the server has the last edit once no change
\* is left, unless an answer was lost too. The exceptions are an object whose
\* creation was skipped, which is shown as being saved for good, and one of which a
\* change has failed or been denied since its last edit.
THEOREM StatusShown == Spec => []ShownStatusIsTrue
<1>1. Init => QueueInv /\ EditsInv /\ StatusInv
    <2>1. Init => QueueInv /\ EditsHold
        BY InitWell, InitEdits
    <2>2. Init => SavingShown /\ SavedShown
        BY <2>1, InitShown
    <2>3. Init => lost = 0 /\ logouts = 0
        BY DEF Init
    <2>4. QED
        BY <2>1, <2>3, <2>2 DEF EditsInv, StatusInv
<1>2. QueueInv /\ EditsInv /\ StatusInv /\ [Next]_vars => QueueInv' /\ EditsInv' /\ StatusInv'
    BY NextGood, NextEdits, NextShown
<1>3. QueueInv /\ StatusInv => ShownStatusIsTrue
    BY StatusHolds
<1>4. QED
    BY <1>1, <1>2, <1>3, PTL DEF Spec
=============================================================================
