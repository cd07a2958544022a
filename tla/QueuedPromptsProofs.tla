------------------------- MODULE QueuedPromptsProofs -------------------------
(***************************************************************************)
(* Proofs about the queue of prompts and commands (module QueuedPrompts),  *)
(* for any set of rows and calls and any bounds: no row is there twice,    *)
(* however it is moved, fired or deleted, and the row in edit mode is one  *)
(* of the queue's; and a row that fires by itself interrupts no turn and   *)
(* runs beside no command.                                                 *)
(***************************************************************************)
EXTENDS QueuedPrompts, AgentTurnProofs

-----------------------------------------------------------------------------
(* Taking a row out, and putting one in *)

LEMMA RemoveAtElements ==
    ASSUME NEW S, NEW s \in Seq(S), NEW i \in DOMAIN s
    PROVE  /\ RemoveAt(s, i) \in Seq(S)
           /\ Len(RemoveAt(s, i)) = Len(s) - 1
           /\ \A j \in 1..(Len(s) - 1) :
                RemoveAt(s, i)[j] = IF j < i THEN s[j] ELSE s[j + 1]
<1> DEFINE front == SubSeq(s, 1, i - 1)
           back  == SubSeq(s, i + 1, Len(s))
<1>1. i \in 1..Len(s) /\ Len(s) \in Nat
  OBVIOUS
<1>2. front \in Seq(S) /\ Len(front) = i - 1 /\ \A j \in 1..(i - 1) : front[j] = s[j]
  BY <1>1
<1>3. /\ back \in Seq(S) /\ Len(back) = Len(s) - i
      /\ \A j \in 1..(Len(s) - i) : back[j] = s[i + j]
  BY <1>1
<1> HIDE DEF front, back
<1>4. RemoveAt(s, i) = front \o back
  BY DEF RemoveAt, front, back
<1>5. /\ front \o back \in Seq(S) /\ Len(front \o back) = Len(s) - 1
      /\ \A j \in 1..(Len(s) - 1) :
           (front \o back)[j] = IF j <= i - 1 THEN front[j] ELSE back[j - (i - 1)]
  <2>1. Len(front) + Len(back) = Len(s) - 1
    BY <1>1, <1>2, <1>3
  <2>2. /\ front \o back \in Seq(S) /\ Len(front \o back) = Len(front) + Len(back)
        /\ \A j \in 1..(Len(front) + Len(back)) :
             (front \o back)[j] =
                IF j <= Len(front) THEN front[j] ELSE back[j - Len(front)]
    BY <1>2, <1>3, ConcatProperties
  <2>3. QED BY <1>2, <2>1, <2>2
<1>6. ASSUME NEW j \in 1..(Len(s) - 1)
      PROVE  (front \o back)[j] = IF j < i THEN s[j] ELSE s[j + 1]
  <2>1. CASE j < i
    <3>1. j \in 1..(i - 1) /\ j <= i - 1
      BY <1>1, <2>1
    <3>2. (front \o back)[j] = front[j] /\ front[j] = s[j]
      BY <1>2, <1>5, <3>1
    <3>3. QED BY <2>1, <3>2
  <2>2. CASE ~(j < i)
    <3>1. /\ j - (i - 1) \in 1..(Len(s) - i) /\ ~(j <= i - 1)
          /\ i + (j - (i - 1)) = j + 1
      BY <1>1, <2>2
    <3>2. (front \o back)[j] = back[j - (i - 1)]
      BY <1>5, <3>1
    <3>3. back[j - (i - 1)] = s[i + (j - (i - 1))]
      BY <1>3, <3>1
    <3>4. QED BY <2>2, <3>1, <3>2, <3>3
  <2>3. QED BY <2>1, <2>2
<1>8. \A j \in 1..(Len(s) - 1) : (front \o back)[j] = IF j < i THEN s[j] ELSE s[j + 1]
  BY <1>6
<1> DEFINE all == front \o back
<1>9. all = RemoveAt(s, i)
  BY <1>4
<1>10. /\ all \in Seq(S) /\ Len(all) = Len(s) - 1
       /\ \A j \in 1..(Len(s) - 1) : all[j] = IF j < i THEN s[j] ELSE s[j + 1]
  BY <1>5, <1>8
<1> HIDE DEF all
<1>11. QED BY <1>9, <1>10

LEMMA InsertAtElements ==
    ASSUME NEW S, NEW s \in Seq(S), NEW i \in 1..(Len(s) + 1), NEW e \in S
    PROVE  /\ InsertAt(s, i, e) \in Seq(S)
           /\ Len(InsertAt(s, i, e)) = Len(s) + 1
           /\ \A j \in 1..(Len(s) + 1) :
                InsertAt(s, i, e)[j] =
                    IF j < i THEN s[j] ELSE IF j = i THEN e ELSE s[j - 1]
<1> DEFINE front == SubSeq(s, 1, i - 1)
           back  == SubSeq(s, i, Len(s))
<1>1. Len(s) \in Nat
  OBVIOUS
<1>2. front \in Seq(S) /\ Len(front) = i - 1 /\ \A j \in 1..(i - 1) : front[j] = s[j]
  BY <1>1
<1>3. /\ back \in Seq(S) /\ Len(back) = Len(s) - i + 1
      /\ \A j \in 1..(Len(s) - i + 1) : back[j] = s[i + j - 1]
  BY <1>1
<1> HIDE DEF front, back
<1>4. InsertAt(s, i, e) = (front \o <<e>>) \o back
  BY DEF InsertAt, front, back
<1> DEFINE mid == front \o <<e>>
<1>5. /\ mid \in Seq(S) /\ Len(mid) = i
      /\ \A j \in 1..i : mid[j] = IF j < i THEN s[j] ELSE e
  BY <1>1, <1>2
<1> HIDE DEF mid
<1>6. /\ mid \o back \in Seq(S) /\ Len(mid \o back) = Len(s) + 1
      /\ \A j \in 1..(Len(s) + 1) : (mid \o back)[j] = IF j <= i THEN mid[j] ELSE back[j - i]
  <2>1. Len(mid) + Len(back) = Len(s) + 1
    BY <1>1, <1>3, <1>5
  <2>2. /\ mid \o back \in Seq(S) /\ Len(mid \o back) = Len(mid) + Len(back)
        /\ \A j \in 1..(Len(mid) + Len(back)) :
             (mid \o back)[j] = IF j <= Len(mid) THEN mid[j] ELSE back[j - Len(mid)]
    BY <1>3, <1>5, ConcatProperties
  <2>3. QED BY <1>5, <2>1, <2>2
<1>7. ASSUME NEW j \in 1..(Len(s) + 1)
      PROVE  (mid \o back)[j] = IF j < i THEN s[j] ELSE IF j = i THEN e ELSE s[j - 1]
  BY <1>1, <1>3, <1>5, <1>6
<1> DEFINE all == mid \o back
<1>8. all = InsertAt(s, i, e)
  BY <1>4 DEF mid
<1>10. /\ all \in Seq(S) /\ Len(all) = Len(s) + 1
       /\ \A j \in 1..(Len(s) + 1) :
            all[j] = IF j < i THEN s[j] ELSE IF j = i THEN e ELSE s[j - 1]
  BY <1>6, <1>7
<1> HIDE DEF all
<1>11. QED BY <1>8, <1>10

\* A sequence without repetition stays so when an element is taken out, which
\* is then gone.
LEMMA RemoveAtKeepsInjective ==
    ASSUME NEW S, NEW s \in Seq(S), IsInjective(s), NEW i \in DOMAIN s
    PROVE  /\ IsInjective(RemoveAt(s, i))
           /\ ToSet(RemoveAt(s, i)) = ToSet(s) \ {s[i]}
           /\ Len(RemoveAt(s, i)) = Len(s) - 1
<1> DEFINE r == RemoveAt(s, i)
<1>1. /\ r \in Seq(S) /\ Len(r) = Len(s) - 1 /\ DOMAIN r = 1..(Len(s) - 1)
      /\ \A j \in 1..(Len(s) - 1) : r[j] = IF j < i THEN s[j] ELSE s[j + 1]
  <2>1. /\ r \in Seq(S) /\ Len(r) = Len(s) - 1
        /\ \A j \in 1..(Len(s) - 1) : r[j] = IF j < i THEN s[j] ELSE s[j + 1]
    BY RemoveAtElements
  <2> HIDE DEF r
  <2>2. QED BY <2>1
<1>2. DOMAIN s = 1..Len(s) /\ Len(s) \in Nat /\ i \in 1..Len(s)
  OBVIOUS
<1> HIDE DEF r
<1>3. IsInjective(r)
  <2>1. SUFFICES ASSUME NEW a \in 1..(Len(s) - 1), NEW b \in 1..(Len(s) - 1), r[a] = r[b]
                 PROVE  a = b
    BY <1>1 DEF IsInjective
  <2> DEFINE m == IF a < i THEN a ELSE a + 1
             n == IF b < i THEN b ELSE b + 1
  <2>2. m \in 1..Len(s) /\ n \in 1..Len(s) /\ (m = n => a = b)
    BY <1>2
  <2>3. r[a] = s[m] /\ r[b] = s[n]
    BY <1>1
  <2> HIDE DEF m, n
  <2>4. QED BY <1>2, <2>1, <2>2, <2>3 DEF IsInjective
<1>4. ASSUME NEW x \in ToSet(r) PROVE x \in ToSet(s) \ {s[i]}
  <2>1. PICK j \in 1..(Len(s) - 1) : x = r[j]
    BY <1>1 DEF ToSet
  <2>2. PICK k \in 1..Len(s) : x = s[k] /\ k # i
    BY <1>1, <1>2, <2>1
  <2>3. QED BY <1>2, <2>2 DEF ToSet, IsInjective
<1>5. ASSUME NEW x \in ToSet(s) \ {s[i]} PROVE x \in ToSet(r)
  <2>1. PICK k \in 1..Len(s) : x = s[k] /\ k # i
    BY <1>2 DEF ToSet
  <2>2. \E j \in 1..(Len(s) - 1) : x = r[j]
    <3>1. CASE k < i
      BY <1>1, <1>2, <2>1, <3>1
    <3>2. CASE k > i
      <4>1. k - 1 \in 1..(Len(s) - 1) /\ r[k - 1] = s[k]
        BY <1>1, <1>2, <2>1, <3>2
      <4>2. QED BY <2>1, <4>1
    <3>3. QED BY <1>2, <2>1, <3>1, <3>2
  <2>3. QED BY <1>1, <2>2 DEF ToSet
<1>6. QED BY <1>1, <1>3, <1>4, <1>5 DEF r

\* It stays so when an element it lacks is put in.
LEMMA InsertAtKeepsInjective ==
    ASSUME NEW S, NEW s \in Seq(S), IsInjective(s), NEW i \in 1..(Len(s) + 1),
           NEW e \in S, e \notin ToSet(s)
    PROVE  /\ IsInjective(InsertAt(s, i, e))
           /\ ToSet(InsertAt(s, i, e)) \subseteq ToSet(s) \cup {e}
           /\ ToSet(s) \cup {e} \subseteq ToSet(InsertAt(s, i, e))
<1> DEFINE t == InsertAt(s, i, e)
<1>1. /\ t \in Seq(S) /\ DOMAIN t = 1..(Len(s) + 1)
      /\ \A j \in 1..(Len(s) + 1) :
           t[j] = IF j < i THEN s[j] ELSE IF j = i THEN e ELSE s[j - 1]
  <2>1. /\ t \in Seq(S) /\ Len(t) = Len(s) + 1
        /\ \A j \in 1..(Len(s) + 1) :
             t[j] = IF j < i THEN s[j] ELSE IF j = i THEN e ELSE s[j - 1]
    <3> HIDE DEF t
    <3>1. i \in 1..(Len(s) + 1) /\ e \in S /\ s \in Seq(S)
      OBVIOUS
    <3>2. QED BY <3>1, InsertAtElements DEF t
  <2> HIDE DEF t
  <2>2. QED BY <2>1
<1>2. DOMAIN s = 1..Len(s) /\ Len(s) \in Nat
  OBVIOUS
<1> HIDE DEF t
<1>3. \A k \in 1..Len(s) : s[k] # e
  BY <1>2 DEF ToSet
<1>4. IsInjective(t)
  <2>1. SUFFICES ASSUME NEW a \in 1..(Len(s) + 1), NEW b \in 1..(Len(s) + 1),
                        a < b, t[a] = t[b]
                 PROVE  FALSE
    BY <1>1, <1>2 DEF IsInjective
  <2>2. CASE a = i
    BY <1>1, <1>2, <1>3, <2>1, <2>2
  <2>3. CASE b = i
    BY <1>1, <1>2, <1>3, <2>1, <2>3
  <2>4. CASE a # i /\ b # i
    <3> DEFINE m == IF a < i THEN a ELSE a - 1
               n == IF b < i THEN b ELSE b - 1
    <3>1. m \in 1..Len(s) /\ n \in 1..Len(s) /\ m # n
      BY <1>2, <2>1, <2>4
    <3>2. t[a] = s[m] /\ t[b] = s[n]
      BY <1>1, <2>4
    <3> HIDE DEF m, n
    <3>3. QED BY <1>2, <2>1, <3>1, <3>2 DEF IsInjective
  <2>5. QED BY <2>2, <2>3, <2>4
<1>5. ToSet(t) \subseteq ToSet(s) \cup {e}
  BY <1>1, <1>2 DEF ToSet
<1>6. ASSUME NEW x \in ToSet(s) \cup {e} PROVE x \in ToSet(t)
  <2>1. CASE x = e
    BY <1>1, <2>1 DEF ToSet
  <2>2. CASE x # e
    <3>1. PICK k \in 1..Len(s) : x = s[k]
      BY <1>2, <2>2 DEF ToSet
    <3>2. CASE k < i
      BY <1>1, <1>2, <3>1, <3>2 DEF ToSet
    <3>3. CASE k >= i
      <4>1. k + 1 \in 1..(Len(s) + 1) /\ t[k + 1] = s[k]
        BY <1>1, <1>2, <3>1, <3>3
      <4>2. QED BY <1>1, <3>1, <4>1 DEF ToSet
    <3>4. QED BY <1>2, <3>1, <3>2, <3>3
  <2>3. QED BY <2>1, <2>2
<1>7. QED BY <1>4, <1>5, <1>6 DEF t
-----------------------------------------------------------------------------
(* The rows *)

\* What the invariant says of the rows.
RowsOK ==
    /\ queue \in Seq(Rows) /\ IsInjective(queue)
    /\ ToSet(queue) \subseteq added /\ added \subseteq Rows
    /\ editing \in ToSet(queue) \cup {None}

FlagsOK ==
    /\ terminal \in {"idle", "queued", "user"}
    /\ finish_reason \in FinishReasons \cup {None}
    /\ draft \in BOOLEAN /\ held \in BOOLEAN /\ jumped \in BOOLEAN /\ strayed \in BOOLEAN

LEMMA PartsOfQueueTypeOK ==
    /\ QueueTypeOK <=> RowsOK /\ FlagsOK
    /\ QueueTypeOK' <=> RowsOK' /\ FlagsOK'
BY DEF QueueTypeOK, RowsOK, FlagsOK

LEMMA UnchangedRows ==
    ASSUME RowsOK, UNCHANGED <<queue, editing, added>>
    PROVE  RowsOK'
BY DEF RowsOK

\* A row that fires, is sent or is deleted takes its edit mode with it.
LEMMA RemoveRowKeepsRows ==
    ASSUME RowsOK, NEW row, RemoveRow(row), UNCHANGED added
    PROVE  RowsOK'
<1>1. PICK i \in DOMAIN queue :
        /\ queue[i] = row
        /\ queue' = RemoveAt(queue, i)
        /\ editing' = IF editing = row THEN None ELSE editing
  BY DEF RemoveRow
<1>2. queue \in Seq(Rows) /\ IsInjective(queue)
  BY DEF RowsOK
<1>3. /\ queue' \in Seq(Rows) /\ IsInjective(queue')
      /\ ToSet(queue') = ToSet(queue) \ {row}
  BY <1>1, <1>2, RemoveAtElements, RemoveAtKeepsInjective
<1>4. QED BY <1>1, <1>3 DEF RowsOK

\* A row that is queued was never queued before.
LEMMA QueueInputKeepsRows ==
    ASSUME RowsOK, NEW row \in Rows, row \notin added, queue' = Append(queue, row),
           added' = added \cup {row}, UNCHANGED editing
    PROVE  RowsOK'
<1> DEFINE q == Append(queue, row)
<1>1. queue \in Seq(Rows) /\ Len(queue) \in Nat /\ DOMAIN queue = 1..Len(queue)
  BY DEF RowsOK
<1>2. /\ q \in Seq(Rows) /\ DOMAIN q = 1..(Len(queue) + 1)
      /\ \A j \in 1..Len(queue) : q[j] = queue[j]
      /\ q[Len(queue) + 1] = row
  BY <1>1
<1>3. q = queue'
  OBVIOUS
<1> HIDE DEF q
<1>4. \A j \in 1..Len(queue) : queue[j] # row
  BY <1>1 DEF RowsOK, ToSet
<1>5. IsInjective(queue)
  BY DEF RowsOK
<1>6. IsInjective(q)
  BY <1>1, <1>2, <1>4, <1>5 DEF IsInjective
<1>7. ToSet(q) \subseteq ToSet(queue) \cup {row} /\ ToSet(queue) \subseteq ToSet(q)
  <2>1. ToSet(q) \subseteq ToSet(queue) \cup {row}
    BY <1>1, <1>2 DEF ToSet
  <2>2. ToSet(queue) \subseteq ToSet(q)
    BY <1>1, <1>2 DEF ToSet
  <2>3. QED BY <2>1, <2>2
<1>8. QED BY <1>2, <1>3, <1>6, <1>7 DEF RowsOK

\* A row that is moved is taken out and put in elsewhere.
LEMMA ReorderKeepsRows ==
    ASSUME RowsOK, NEW from \in DOMAIN queue, NEW to \in DOMAIN queue,
           queue' = InsertAt(RemoveAt(queue, from), to, queue[from]),
           UNCHANGED <<editing, added>>
    PROVE  RowsOK'
<1> DEFINE r == RemoveAt(queue, from)
           row == queue[from]
           q == InsertAt(r, to, row)
<1>1. /\ queue \in Seq(Rows) /\ IsInjective(queue) /\ Len(queue) \in Nat
      /\ from \in 1..Len(queue) /\ to \in 1..Len(queue) /\ row \in Rows /\ row \in ToSet(queue)
  BY DEF RowsOK, ToSet
<1>2. /\ r \in Seq(Rows) /\ Len(r) = Len(queue) - 1
      /\ IsInjective(r) /\ ToSet(r) = ToSet(queue) \ {row}
  BY <1>1, RemoveAtElements, RemoveAtKeepsInjective
<1> HIDE DEF r, row
<1>3. to \in 1..(Len(r) + 1) /\ row \notin ToSet(r)
  BY <1>1, <1>2
<1>4. q \in Seq(Rows)
  BY <1>1, <1>2, <1>3, InsertAtElements
<1>5. /\ IsInjective(q)
      /\ ToSet(q) \subseteq ToSet(r) \cup {row}
      /\ ToSet(r) \cup {row} \subseteq ToSet(q)
  BY <1>1, <1>2, <1>3, InsertAtKeepsInjective
<1>6. ToSet(q) = ToSet(queue)
  BY <1>1, <1>2, <1>5
<1>7. q = queue'
  BY DEF r, row
<1>8. QED BY <1>4, <1>5, <1>6, <1>7 DEF RowsOK

-----------------------------------------------------------------------------
(* Draining *)

LEMMA DrainKeepsRows ==
    ASSUME RowsOK, UNCHANGED added,
           \/ \E after : DrainComplete(after)
           \/ DrainStopped
    PROVE  RowsOK'
<1>1. \/ \E row : RemoveRow(row)
      \/ UNCHANGED <<queue, editing>>
  BY DEF DrainComplete, DrainStopped, SubmitRow, StartCommand, RestoreToInput, LeaveQueue
<1>2. QED BY <1>1, RemoveRowKeepsRows, UnchangedRows

LEMMA DrainCompleteKeepsFlags ==
    ASSUME FlagsOK, NEW after \in {"idle", "queued", "user"}, DrainComplete(after)
    PROVE  /\ terminal' \in {"idle", "queued", "user"}
           /\ draft' \in BOOLEAN /\ held' \in BOOLEAN /\ jumped' \in BOOLEAN
BY Zenon DEF FlagsOK, DrainComplete, SubmitRow, StartCommand, RestoreToInput, LeaveQueue, InTurn

LEMMA BlockReasonType == \A s : BlockReason(s) \in FinishReasons \cup {None}
BY DEF BlockReason, FinishReasons

-----------------------------------------------------------------------------
(* The steps *)

LEMMA TurnKeepsQueue ==
    ASSUME QueueTypeOK,
           \/ HandleTurnEvent \/ ResponseStep \/ RetryStep \/ EndOfResponse \/ ResumeStep
           \/ \E a \in Actions : CallStep(a)
           \/ \E i \in DOMAIN pending_preprocessed_actions : BatchStep(i)
    PROVE  QueueTypeOK'
<1> DEFINE Reason == FinishReasons \cup {None}
<1>1. /\ UNCHANGED <<queue, editing, terminal, draft, added>>
      /\ held' = (held /\ (stream # None \/ stream' = None))
      /\ finish_reason' \in Reason
      /\ jumped' \in BOOLEAN /\ strayed' \in BOOLEAN
  <2>1. FlagsOK
    BY PartsOfQueueTypeOK
  <2>2. CASE HandleTurnEvent
    BY <2>1, <2>2 DEF HandleTurnEvent, Turn, FlagsOK
  <2>3. CASE ResponseStep
    BY <2>1, <2>3 DEF ResponseStep, Turn, FlagsOK, FinishReasons
  <2>4. CASE RetryStep
    BY <2>1, <2>4 DEF RetryStep, Turn, FlagsOK
  <2>5. CASE EndOfResponse
    BY <2>1, <2>5, BlockReasonType DEF EndOfResponse, Turn, FlagsOK
  <2>6. CASE ResumeStep
    BY <2>1, <2>6, Zenon DEF ResumeStep, Turn, FlagsOK
  <2>7. CASE \E a \in Actions : CallStep(a)
    BY <2>1, <2>7 DEF CallStep, Turn, FlagsOK
  <2>8. CASE \E i \in DOMAIN pending_preprocessed_actions : BatchStep(i)
    BY <2>1, <2>8 DEF BatchStep, Turn, FlagsOK
  <2>9. QED BY <2>2, <2>3, <2>4, <2>5, <2>6, <2>7, <2>8
<1>2. RowsOK'
  BY <1>1, UnchangedRows, PartsOfQueueTypeOK
<1>3. FlagsOK'
  BY <1>1, PartsOfQueueTypeOK, Zenon DEF FlagsOK
<1>4. QED BY <1>2, <1>3, PartsOfQueueTypeOK

LEMMA ViewKeepsQueue ==
    ASSUME QueueTypeOK,
           FinishedReceivingOutput \/ QueuedCommandFinished \/ OwnCommandFinished
    PROVE  QueueTypeOK'
<1>1. RowsOK /\ FlagsOK
  BY PartsOfQueueTypeOK
<1>2. CASE FinishedReceivingOutput
  <2>1. RowsOK'
    BY <1>1, <1>2, DrainKeepsRows DEF FinishedReceivingOutput
  <2>2. FlagsOK'
    <3>1. CASE DrainComplete(terminal)
      BY <1>1, <1>2, <3>1, DrainCompleteKeepsFlags DEF FinishedReceivingOutput, FlagsOK
    <3>2. CASE DrainStopped
      BY <1>1, <1>2, <3>2, Zenon
      DEF FinishedReceivingOutput, FlagsOK, DrainStopped, LeaveQueue, RestoreToInput
    <3>3. QED BY <1>2, <3>1, <3>2 DEF FinishedReceivingOutput
  <2>3. QED BY <2>1, <2>2, PartsOfQueueTypeOK
<1>3. CASE QueuedCommandFinished
  <2>1. RowsOK'
    BY <1>1, <1>3, DrainKeepsRows DEF QueuedCommandFinished
  <2>2. FlagsOK'
    BY <1>1, <1>3, DrainCompleteKeepsFlags DEF QueuedCommandFinished, FlagsOK
  <2>3. QED BY <2>1, <2>2, PartsOfQueueTypeOK
<1>4. CASE OwnCommandFinished
  BY <1>1, <1>4, UnchangedRows, PartsOfQueueTypeOK DEF OwnCommandFinished, FlagsOK
<1>5. QED BY <1>2, <1>3, <1>4

LEMMA StopKeepsQueue ==
    ASSUME QueueTypeOK, StopTurn
    PROVE  /\ RowsOK'
           /\ finish_reason' \in FinishReasons \cup {None}
           /\ held' \in BOOLEAN /\ jumped' \in BOOLEAN /\ strayed' \in BOOLEAN
<1>1. RowsOK /\ FlagsOK
  BY PartsOfQueueTypeOK
<1>2. StoppedReason \in FinishReasons \cup {None}
  BY BlockReasonType DEF StoppedReason, FinishReasons
<1>3. QED BY <1>1, <1>2, UnchangedRows DEF StopTurn, FlagsOK

LEMMA UserKeepsQueue ==
    ASSUME QueueTypeOK, UserStep
    PROVE  QueueTypeOK'
<1>1. RowsOK /\ FlagsOK
  BY PartsOfQueueTypeOK
<1>2. ASSUME NEW row \in Rows, QueueInput(row) PROVE QueueTypeOK'
  <2>1. RowsOK'
    BY <1>1, <1>2, QueueInputKeepsRows DEF QueueInput
  <2>2. QED BY <1>1, <1>2, <2>1, PartsOfQueueTypeOK DEF QueueInput, FlagsOK
<1>3. ASSUME (\E row \in Rows : EnterEditMode(row)) \/ LeaveEditMode PROVE QueueTypeOK'
  BY <1>1, <1>3, PartsOfQueueTypeOK DEF EnterEditMode, LeaveEditMode, RowsOK, FlagsOK
<1>4. ASSUME NEW row \in Rows, DeleteRow(row) PROVE QueueTypeOK'
  <2>1. RowsOK'
    BY <1>1, <1>4, RemoveRowKeepsRows DEF DeleteRow
  <2>2. QED BY <1>1, <1>4, <2>1, PartsOfQueueTypeOK DEF DeleteRow, FlagsOK
<1>5. ASSUME NEW row \in Rows, SendNow(row) PROVE QueueTypeOK'
  <2>1. RowsOK'
    BY <1>1, <1>5, RemoveRowKeepsRows DEF SendNow, StartCommand
  <2>2. FlagsOK'
    BY <1>1, <1>5, Zenon DEF SendNow, StartCommand, FlagsOK, InTurn
  <2>3. QED BY <2>1, <2>2, PartsOfQueueTypeOK
<1>6. ASSUME NEW from \in DOMAIN queue, NEW to \in DOMAIN queue, Reorder(from, to)
      PROVE  QueueTypeOK'
  <2>1. RowsOK'
    BY <1>1, <1>6, ReorderKeepsRows DEF Reorder
  <2>2. QED BY <1>1, <1>6, <2>1, PartsOfQueueTypeOK DEF Reorder, FlagsOK
<1>7. CASE EditInput \/ SubmitInput
  <2>1. RowsOK'
    BY <1>1, <1>7, UnchangedRows DEF EditInput, SubmitInput
  <2>2. FlagsOK'
    BY <1>1, <1>7, Zenon DEF EditInput, SubmitInput, FlagsOK
  <2>3. QED BY <2>1, <2>2, PartsOfQueueTypeOK
<1>8. CASE Stop
  BY <1>1, <1>8, StopKeepsQueue, PartsOfQueueTypeOK DEF Stop, FlagsOK
<1>9. CASE RunOwnCommand
  <2>1. CASE StopTurn
    BY <1>1, <1>9, <2>1, StopKeepsQueue, PartsOfQueueTypeOK DEF RunOwnCommand, FlagsOK
  <2>2. CASE UNCHANGED <<vars, queue, editing, finish_reason, added, held, jumped, strayed>>
    <3>1. RowsOK'
      BY <1>1, <2>2, UnchangedRows
    <3>2. QED BY <1>1, <1>9, <2>2, <3>1, PartsOfQueueTypeOK DEF RunOwnCommand, FlagsOK
  <2>3. QED BY <1>9, <2>1, <2>2 DEF RunOwnCommand
<1>10. QED BY <1>2, <1>3, <1>4, <1>5, <1>6, <1>7, <1>8, <1>9 DEF UserStep

-----------------------------------------------------------------------------
LEMMA QueueInitTypes == QueueInit => QueueTypeOK
<1>1. /\ <<>> \in Seq(Rows)
      /\ IsInjective(<<>>)
      /\ ToSet(<<>>) = {}
  BY DEF IsInjective, ToSet
<1>2. QED BY <1>1 DEF QueueInit, QueueTypeOK

LEMMA QueueTypesStep == QueueTypeOK /\ [QueueNext]_all_vars => QueueTypeOK'
<1>1. CASE QueueNext
  BY <1>1, TurnKeepsQueue, ViewKeepsQueue, UserKeepsQueue DEF QueueNext
<1>2. CASE UNCHANGED all_vars
  BY <1>2 DEF all_vars, queue_vars, QueueTypeOK
<1>3. QED BY <1>1, <1>2

\* Whatever the user does to the queue and whatever drains it in between, no
\* row is there twice and the row in edit mode is one that is queued, so that
\* no drain waits for an edit of a row that is gone (QueuedQueryModel keeps the
\* rows and the edit apart, in two fields).
THEOREM RowsStayDistinct == QueueSpec => []QueueTypeOK
BY QueueInitTypes, QueueTypesStep, PTL DEF QueueSpec

-----------------------------------------------------------------------------
(* The course of a turn, while no call comes back that the user had stopped *)

Over == status \in {"Success", "Error", "Cancelled"}

Parked == stream.deferred_retry_pending

\* No call the user has stopped is in hand, or was when its result was taken.
NoneStopped == (InMotion \cup Uncancelled(Given)) \cap stopped = {}

\* The calls of a batch are the only thing the turn is about.
BatchAtWork ==
    ~(CallsOf(pending_preprocessed_actions) \subseteq stopped) =>
        stream = None /\ ~submitting /\ Waiting = {} /\ NothingLeft /\ status = "InProgress"

\* What is still to be handled ends no turn: a cancellation has a follow-up.
Follows ==
    /\ \A r \in ToSet(settling) \cup ReportsIn(ToSet(effects)) :
        r.out # "cancelled" \/ r.reason = "followup"
    /\ \A e \in ToSet(effects) : e.event = "stream" => e.reason = "followup"

\* A stream that is received is shown as in progress, one that is done as a
\* success unless it has calls to make.
StreamShown ==
    stream # None =>
        /\ stream.stage = "open" /\ ~Parked => status = "InProgress" /\ Follows
        /\ stream.stage # "open" \/ Parked => NothingLeft
        /\ stream.stage = "done" =>
            status = IF stream.calls = <<>> THEN "Success" ELSE "InProgress"

\* A turn that is over has no calls.
OverIsIdle == Over /\ stream = None /\ ~submitting => Waiting = {}

\* The end of a stream that the user has stopped is handled on its own.
IsStop(e) == e.event = "stream" /\ e.reason # "followup"

StopsAlone ==
    \A e \in ToSet(effects) :
        IsStop(e) => effects = <<e>> /\ settling = <<>> /\ stream = None /\ ~submitting /\ Waiting = {}

QueryFollows == submitting => Follows

Course == BatchAtWork /\ StreamShown /\ OverIsIdle /\ StopsAlone /\ QueryFollows

\* A call cancelled with no follow-up is in the running phase until it is recorded.
CancelledRunning ==
    \A r \in ReportsIn(ToSet(effects)) :
        r.out = "cancelled" /\ r.reason # "followup" => r.id \in running_actions

LEMMA CancelledRunningStep ==
    ASSUME CallsInv, Underway, CancelledRunning, [Next]_vars
    PROVE  CancelledRunning'
<1>1. ASSUME UNCHANGED running_actions, ToSet(effects') \subseteq ToSet(effects)
      PROVE  CancelledRunning'
  BY <1>1, ReportsOf DEF CancelledRunning
<1>2. CASE Record /\ UNCHANGED controller_vars
  <2> DEFINE r == Head(settling)
  <2>1. \E now \in SUBSET ToSet(pending_actions), later \in SUBSET ToSet(pending_actions) :
          /\ ToSet(effects')
               = ToSet(effects) \cup {ActionFinished(r.reason)}
                  \cup {ExecutorFinished(a, "ok", "none") : a \in now}
          /\ running_actions' = running_actions \cup later
    BY <1>2, RecordChanges
  <2>2. ASSUME NEW q \in ReportsIn(ToSet(effects')), q.out = "cancelled"
        PROVE  q \in ReportsIn(ToSet(effects))
    <3>1. \A a : ExecutorFinished(a, "ok", "none").result.out = "ok"
      BY DEF ExecutorFinished, Finishing
    <3>2. ActionFinished(r.reason).event # "executor"
      BY DEF ActionFinished
    <3>3. QED BY <2>1, <2>2, <3>1, <3>2 DEF ReportsIn
  <2>3. QED BY <2>1, <2>2 DEF CancelledRunning
<1>3. CASE HandleExecutorFinished /\ UNCHANGED controller_vars
  <2> DEFINE r == Head(effects).result
  <2>1. /\ Head(effects).event = "executor" /\ effects' = Tail(effects)
        /\ running_actions' = running_actions \ {r.id}
        /\ ToSet(effects) = {Head(effects)} \cup ToSet(effects')
    BY <1>3, ExecutorFinishedChanges
  <2>2. effects \in Seq(Effects) /\ effects # <<>> /\ DistinctReports(effects)
    BY <1>3, PartsOfTypeOK DEF CallsInv, Once, CallTypes, HandleExecutorFinished
  <2>3. r.id \notin Reported(effects')
    BY <2>1, <2>2, TailReports
  <2>4. \A q \in ReportsIn(ToSet(effects')) : q.id # r.id /\ q \in ReportsIn(ToSet(effects))
    BY <2>1, <2>3, ReportedCalls, ReportsOf
  <2>5. QED BY <2>1, <2>4 DEF CancelledRunning
<1>4. CASE SendFollowUp \/ IgnoreActionFinished \/ HandleStreamCancelled
  BY <1>1, <1>4, HandledChanges
<1>5. CASE SubmitQuery \/ ResumeFires
  BY <1>1, <1>5 DEF SubmitQuery, ResumeFires
<1>6. ASSUME NEW Q, ActsOn(Q) PROVE CancelledRunning'
  BY <1>6, ReportsOf DEF ActsOn, CancelledRunning
<1>7. CASE \/ \E a \in Actions : ActionCallback(a)
           \/ \E i \in DOMAIN pending_preprocessed_actions : BatchPreprocessed(i)
  BY <1>6, <1>7, ActionCallbackChanges, PreprocessedChanges
<1>8. CASE StreamEvent \/ RetryWhenOnline \/ StreamComplete
  <2>1. UNCHANGED <<running_actions, effects>>
    BY <1>8 DEF StreamEvent, ReceiveClientActions, FinishDone, FinishError, Retry, ReceiveError,
                Truncated, RetryWhenOnline, StreamComplete, UnchangedByStream
  <2>2. QED BY <1>1, <2>1
<1>9. CASE User
  <2>1. /\ UNCHANGED running_actions
        /\ \A e \in ToSet(effects') : e.event = "executor" =>
             e.result.reason = IF SendQuery THEN "followup" ELSE "manual"
        /\ StopStream => ToSet(effects') = {StreamCancelled("manual", stream.should_resume)}
        /\ ~StopStream => async_executing_actions = Reported(effects')
    BY <1>9, UserChanges
  <2>2. CASE SendQuery
    BY <2>1, <2>2, ReportsOf DEF CancelledRunning
  <2>3. CASE StopStream
    <3>1. ReportsIn(ToSet(effects')) = {}
      BY <2>1, <2>3 DEF ReportsIn, StreamCancelled
    <3>2. QED BY <3>1 DEF CancelledRunning
  <2>4. CASE ~StopStream
    BY <2>1, <2>4, ReportedCalls DEF CancelledRunning, Underway
  <2>5. QED BY <2>3, <2>4
<1>10. CASE UNCHANGED vars
  BY <1>1, <1>10 DEF vars, action_vars
<1>11. QED BY <1>2, <1>3, <1>4, <1>5, <1>7, <1>8, <1>9, <1>10 DEF Next, HandleEvent

\* With a request on its way no call waits, and every batch is a stopped one.
LEMMA StreamIsIdle ==
    ASSUME Alone, NoneStopped, stream # None \/ submitting \/ pending_auto_resumes > 0
    PROVE  Waiting = {} /\ CallsOf(pending_preprocessed_actions) \subseteq stopped
<1>1. Waiting \subseteq InMotion /\ InMotion \subseteq InHand
  BY DEF InMotion, InHand
<1>2. InHand \subseteq InMotion \cup Uncancelled(Given)
  BY UncancelledOf DEF InHand, Given
<1>3. InHand \subseteq stopped => Waiting = {}
  BY <1>1, <1>2 DEF NoneStopped
<1>4. pending_preprocessed_actions = <<>> => CallsOf(pending_preprocessed_actions) = {}
  BY DEF CallsOf
<1>5. CASE submitting
  BY <1>1, <1>5 DEF Alone, SubmitsAlone
<1>6. CASE stream # None \/ pending_auto_resumes > 0
  BY <1>3, <1>4, <1>6 DEF Alone, StreamsAlone, Idle
<1>7. QED BY <1>5, <1>6

LEMMA NoneWait ==
    ASSUME CallsInv, Waiting = {}
    PROVE  pending_actions = <<>> /\ async_executing_actions = {}
<1>1. pending_actions \in Seq(Actions)
  BY PartsOfTypeOK DEF CallsInv, CallTypes, StartTypes
<1>2. ToSet(pending_actions) = {} /\ async_executing_actions = {}
  BY DEF Waiting
<1>3. QED BY <1>1, <1>2, HeadAndTail

\* With no call waiting, a callback is the end of one that was cancelled.
LEMMA IdleCallback ==
    ASSUME CallsInv, NEW a \in Actions, ActionCallback(a), Waiting = {}
    PROVE  UNCHANGED <<pending_preprocessed_actions, pending_actions, running_actions,
                       async_executing_actions, settling, effects, status, controller_vars>>
<1>1. pending_actions = <<>> /\ async_executing_actions = {}
  BY NoneWait
<1>2. \E out \in {"ok", "snapshot"} : ExecutionDone(a, out)
  BY <1>1, Empty DEF ActionCallback, ExecuteAction, CancelRunning, CancelPending
<1>3. QED BY <1>1, <1>2 DEF ExecutionDone, Awaited, ActionCallback

\* A batch that releases nothing starts nothing.
LEMMA IdleBatch ==
    ASSUME CallsInv, CallsInv', NEW i \in DOMAIN pending_preprocessed_actions,
           BatchPreprocessed(i), Waiting = {}, ToSet(Released(Batches(i))) = {}
    PROVE  Waiting' = {} /\ NothingLeft' /\ UNCHANGED <<status, controller_vars>>
<1> DEFINE batches == Batches(i)
           released == Released(batches)
           kept == Keep(released, Actions \ Ids(finished_action_results))
           calls == Queued(batches)
<1>1. PICK start \in Starts(calls, {}) :
        StartActions(calls, start) /\ effects' = ResultsOf(start, calls)
  BY PreprocessedStarts DEF BatchPreprocessed
<1>2. settling' = <<>> /\ UNCHANGED controller_vars
  BY PreprocessedStarts DEF BatchPreprocessed, Preprocessed, Quiescent
<1>3. released \in Seq(Actions) /\ calls \in Seq(Actions)
  BY BatchesType, QueuedType, PartsOfTypeOK DEF CallsInv, CallTypes, StartTypes
<1>4. pending_actions = <<>> /\ async_executing_actions = {}
  BY NoneWait
<1> HIDE DEF released, batches
<1>5. kept \in Seq(Actions) /\ ToSet(kept) = {}
  BY <1>3, KeepElements DEF released, batches
<1>6. calls = pending_actions \o kept
  BY DEF Queued, released
<1> HIDE DEF kept, calls
<1>7. kept = <<>>
  BY <1>5, HeadAndTail
<1>8. calls = <<>>
  BY <1>4, <1>6, <1>7
<1>9. start.count = 0 /\ start.async = {} /\ Started(calls, start)
  <2>1. Started(calls, start)
    BY <1>1, <1>3, StartsStarted
  <2>2. QED BY <1>8, <2>1 DEF Started, FirstOf
<1>10. status' = status
  BY <1>1, <1>8, <1>9 DEF StartActions, Refused
<1>11. Waiting' = {} /\ ToSet(effects') = {}
  <2>1. <<>> \in Seq(Effects) /\ IsInjective(calls) /\ ToSet(calls) = {}
    BY <1>8, Empty
  <2>2. /\ ToSet(ResultsOf(start, calls))
             = {ExecutorFinished(a, "ok", "none") : a \in ToSet(AtOnce(calls, start))}
        /\ ToSet(AtOnce(calls, start)) \subseteq ToSet(calls)
        /\ ToSet(pending_actions') \subseteq ToSet(calls)
        /\ async_executing_actions' = async_executing_actions \cup start.async
    BY <1>1, <1>3, <1>9, <2>1, StartChanges
  <2>3. QED BY <1>1, <1>4, <1>9, <2>1, <2>2 DEF Waiting
<1>12. effects' = <<>>
  <2>1. effects' \in Seq(Effects)
    BY PartsOfTypeOK DEF CallsInv, CallTypes
  <2>2. QED BY <1>11, <2>1, HeadAndTail
<1>13. QED BY <1>2, <1>10, <1>11, <1>12 DEF NothingLeft

\* No batch releases a call that the user has stopped.
ReleasesNoStopped ==
    \A i \in DOMAIN pending_preprocessed_actions :
        BatchPreprocessed(i) => ToSet(Released(Batches(i))) \cap stopped = {}

\* A request takes the finished results, and no step takes others.
LEMMA DeliveredGrowsBy ==
    ASSUME [Next]_vars
    PROVE  delivered' \subseteq delivered \cup ToSet(finished_action_results)
<1>1. CASE UNCHANGED delivered
  BY <1>1
<1>2. CASE SubmitQuery \/ SendFollowUp
  BY <1>2 DEF SubmitQuery, SendFollowUp, Send
<1>3. CASE ResumeFires
  BY <1>3, Empty DEF ResumeFires, Send
<1>4. CASE HandleEvent /\ ~SubmitQuery /\ ~SendFollowUp
  BY <1>1, <1>4 DEF HandleEvent, IgnoreActionFinished, HandleStreamCancelled, controller_vars
<1>5. CASE \/ \E a \in Actions : ActionCallback(a)
           \/ \E i \in DOMAIN pending_preprocessed_actions : BatchPreprocessed(i)
  BY <1>1, <1>5 DEF ActionCallback, BatchPreprocessed, controller_vars
<1>6. CASE StreamEvent \/ RetryWhenOnline \/ StreamComplete
  BY <1>1, <1>6 DEF StreamEvent, ReceiveClientActions, FinishDone, FinishError, Retry, ReceiveError,
                    Truncated, RetryWhenOnline, StreamComplete, UnchangedByStream
<1>7. CASE User \/ UNCHANGED vars
  BY <1>1, <1>7 DEF User, SendQuery, StopStream, StopActions, vars, controller_vars
<1>8. QED BY <1>2, <1>3, <1>4, <1>5, <1>6, <1>7 DEF Next

\* The user stops the calls that have no result yet, and only the user does.
LEMMA StoppedGrowsBy ==
    ASSUME [Next]_vars
    PROVE  \/ UNCHANGED stopped
           \/ User /\ ~StopStream /\ stopped' = stopped \cup (used \ Answered)
<1>1. CASE HandleEvent
  BY <1>1 DEF HandleEvent, SubmitQuery, SendFollowUp, IgnoreActionFinished, HandleStreamCancelled,
              controller_vars
<1>2. CASE \/ \E a \in Actions : ActionCallback(a)
           \/ \E i \in DOMAIN pending_preprocessed_actions : BatchPreprocessed(i)
  BY <1>2 DEF ActionCallback, BatchPreprocessed, controller_vars
<1>3. CASE StreamEvent \/ RetryWhenOnline \/ StreamComplete \/ ResumeFires
  BY <1>3 DEF StreamEvent, ReceiveClientActions, FinishDone, FinishError, Retry, ReceiveError,
              Truncated, RetryWhenOnline, StreamComplete, ResumeFires, UnchangedByStream
<1>4. CASE SendQuery
  <2>1. ~StopStream
    BY <1>4 DEF SendQuery, StopStream, Quiescent
  <2>2. QED BY <1>4, <2>1 DEF SendQuery, User
<1>5. CASE StopStream \/ UNCHANGED vars
  BY <1>5 DEF StopStream, vars, controller_vars
<1>6. CASE StopActions
  BY <1>6 DEF StopActions, StopStream, User
<1>7. QED BY <1>1, <1>2, <1>3, <1>4, <1>5, <1>6 DEF Next, User

LEMMA NoneStoppedStep ==
    ASSUME CallsInv, NoneStopped, ReleasesNoStopped, [Next]_vars
    PROVE  NoneStopped'
<1> DEFINE Hand == InMotion \cup Uncancelled(Given)
<1>1. InHand \subseteq Hand
  BY UncancelledOf DEF InHand, Given
<1>2. PICK C : /\ C \cap stopped = {}
               /\ InMotion' \subseteq InMotion \cup C /\ InHand' \subseteq InHand \cup C
               /\ C # {} => \E i \in DOMAIN pending_preprocessed_actions : BatchPreprocessed(i)
  BY HandStep DEF ReleasesNoStopped, HandGrowsBy
<1>3. Hand' \subseteq Hand \cup C
  <2>1. Uncancelled(ToSet(finished_action_results')) \subseteq Hand \cup C
    BY <1>1, <1>2 DEF InHand
  <2>2. Uncancelled(delivered') \subseteq Hand
    BY DeliveredGrowsBy, UncancelledOf DEF Given
  <2>3. Uncancelled(Given') = Uncancelled(delivered') \cup Uncancelled(ToSet(finished_action_results'))
    BY UncancelledOf DEF Given
  <2>4. QED BY <1>2, <2>1, <2>2, <2>3
<1>4. CASE UNCHANGED stopped
  BY <1>2, <1>3, <1>4 DEF NoneStopped
<1>5. CASE User /\ ~StopStream /\ stopped' = stopped \cup (used \ Answered)
  <2>1. /\ InMotion' = {} /\ InMotion' \subseteq InMotion
        /\ UNCHANGED <<delivered, finished_action_results>>
    BY <1>5, UserMotion, UserChanges DEF HandGrowsBy
  <2>2. Hand' = Uncancelled(Given) /\ Hand' \subseteq Hand
    BY <2>1 DEF Given
  <2>3. Uncancelled(Given) \subseteq Answered
    BY DEF Uncancelled, Given, Answered
  <2>4. QED BY <1>5, <2>2, <2>3 DEF NoneStopped
<1>6. QED BY <1>4, <1>5, StoppedGrowsBy

-----------------------------------------------------------------------------
(* The steps of a turn on its course *)

\* A step that records, or handles, what is still to be handled and adds no
\* cancellation.
LEMMA FollowsStays ==
    ASSUME Follows, ToSet(settling') \subseteq ToSet(settling),
           \A e \in ToSet(effects') :
                \/ e \in ToSet(effects)
                \/ e.event = "action"
                \/ e.event = "executor" /\ e.result.out # "cancelled"
    PROVE  Follows'
<1>1. \A r \in ReportsIn(ToSet(effects')) : r \in ReportsIn(ToSet(effects)) \/ r.out # "cancelled"
  BY DEF ReportsIn
<1>2. QED BY <1>1 DEF Follows

LEMMA RecordKeepsCourse ==
    ASSUME CallsInv, Underway, Alone, NoneStopped, Course, Record, UNCHANGED controller_vars
    PROVE  Course'
<1> DEFINE r == Head(settling)
<1>1. /\ settling # <<>> /\ ~NothingLeft
      /\ UNCHANGED <<stream, submitting, stopped, pending_preprocessed_actions>>
  BY DEF Record, RecordAndWait, RecordLast, RecordAndContinue, controller_vars, NothingLeft
<1>2. /\ ToSet(settling) = {r} \cup ToSet(settling')
      /\ ToSet(finished_action_results')
            = ToSet(finished_action_results) \cup {Result(r.id, r.out)}
      /\ \E now \in SUBSET ToSet(pending_actions) :
           ToSet(effects') = ToSet(effects) \cup {ActionFinished(r.reason)}
              \cup {ExecutorFinished(a, "ok", "none") : a \in now}
  BY RecordChanges
<1>3. \A e \in ToSet(effects') :
        \/ e \in ToSet(effects)
        \/ e.event = "action"
        \/ e.event = "executor" /\ e.result.out # "cancelled"
  <2>1. \A a : LET e == ExecutorFinished(a, "ok", "none")
               IN  e.event = "executor" /\ e.result.out # "cancelled"
    BY DEF ExecutorFinished, Finishing
  <2>2. ActionFinished(r.reason).event = "action"
    BY DEF ActionFinished
  <2>3. QED BY <1>2, <2>1, <2>2
<1>4. Follows => Follows'
  BY <1>2, <1>3, FollowsStays
<1>5. BatchAtWork'
  BY <1>1 DEF Course, BatchAtWork
<1>6. StreamShown'
  <2>1. SUFFICES ASSUME stream # None
                 PROVE  stream.stage = "open" /\ ~Parked /\ status' = "InProgress" /\ Follows'
    BY <1>1 DEF StreamShown, Parked
  <2>2. stream.stage = "open" /\ ~Parked /\ status = "InProgress" /\ Follows
    BY <1>1, <2>1 DEF Course, StreamShown
  <2>3. pending_actions = <<>>
    BY <2>1, StreamIsIdle, NoneWait
  <2>4. CASE RecordAndWait
    BY <1>4, <2>2, <2>4 DEF RecordAndWait
  <2>5. CASE RecordLast
    <3>1. r.out # "cancelled" \/ r.reason = "followup"
      BY <1>2, <2>2 DEF Follows
    <3>2. CASE r.reason = "followup"
      BY <1>4, <2>2, <2>5, <3>2 DEF RecordLast, PreservesInProgress
    <3>3. CASE r.out # "cancelled"
      <4>1. ~AllCancelled(Recorded)
        <5>1. finished_action_results \in Seq(Results)
          BY PartsOfTypeOK DEF CallsInv, CallTypes
        <5>2. Recorded[Len(Recorded)] = Result(r.id, r.out) /\ Len(Recorded) \in DOMAIN Recorded
          BY <5>1 DEF Recorded
        <5>3. QED BY <3>3, <5>2 DEF AllCancelled, Result
      <4>2. status' = "InProgress"
        BY <2>2, <2>5, <4>1 DEF RecordLast
      <4>3. QED BY <1>4, <2>2, <4>2
    <3>4. QED BY <3>1, <3>2, <3>3
  <2>6. QED BY <2>3, <2>4, <2>5 DEF Record, RecordAndContinue
<1>7. OverIsIdle'
  <2>1. SUFFICES ASSUME Over', stream = None, ~submitting PROVE Waiting' = {}
    BY <1>1 DEF OverIsIdle
  <2>2. CASE RecordAndWait
    BY <2>1, <2>2 DEF RecordAndWait, Course, OverIsIdle, Over, Waiting
  <2>3. CASE RecordLast
    <3>1. pending_actions' = <<>> /\ running_actions = {} /\ UNCHANGED async_executing_actions
      BY <2>3 DEF RecordLast
    <3>2. running_actions = {} => async_executing_actions = {}
      BY DEF Underway
    <3>3. QED BY <3>1, <3>2, Empty DEF Waiting
  <2>4. CASE RecordAndContinue
    <3>1. status' \in {status, "InProgress", "Blocked"} /\ pending_actions # <<>>
      BY <2>4 DEF RecordAndContinue, StartActions
    <3>2. Waiting = {}
      BY <2>1, <3>1 DEF Over, Course, OverIsIdle
    <3>3. QED BY <3>1, <3>2, NoneWait
  <2>5. QED BY <2>2, <2>3, <2>4 DEF Record
<1>8. StopsAlone'
  <2>1. \A e \in ToSet(effects) : ~IsStop(e)
    BY <1>1 DEF Course, StopsAlone
  <2>2. \A e \in ToSet(effects') : ~IsStop(e)
    BY <1>3, <2>1 DEF IsStop
  <2>3. QED BY <2>2 DEF StopsAlone
<1>9. QueryFollows'
  BY <1>1, <1>4 DEF Course, QueryFollows
<1>10. QED BY <1>5, <1>6, <1>7, <1>8, <1>9 DEF Course

LEMMA ExecutorFinishedKeepsCourse ==
    ASSUME CallsInv, Alone, NoneStopped, Course, ~submitting, HandleExecutorFinished,
           UNCHANGED controller_vars
    PROVE  Course'
<1> DEFINE r == Head(effects).result
<1>1. /\ effects # <<>> /\ ~NothingLeft /\ Head(effects).event = "executor"
      /\ settling = <<>> /\ ToSet(effects) = {Head(effects)} \cup ToSet(effects')
      /\ \A f \in ToSet(settling') :
           f = r \/ (f.out = "cancelled" /\ f.reason = r.reason /\ f.id \in ToSet(pending_actions))
      /\ ToSet(pending_actions') \subseteq ToSet(pending_actions)
      /\ UNCHANGED <<async_executing_actions, status, pending_preprocessed_actions>>
  BY ExecutorFinishedChanges DEF HandleExecutorFinished, NothingLeft
<1>2. UNCHANGED <<stream, submitting, stopped>>
  BY DEF controller_vars
<1>3. Waiting' \subseteq Waiting
  BY <1>1 DEF Waiting
<1>4. BatchAtWork'
  BY <1>1, <1>2 DEF Course, BatchAtWork
<1>5. StreamShown'
  <2>1. SUFFICES ASSUME stream # None
                 PROVE  stream.stage = "open" /\ ~Parked /\ status = "InProgress" /\ Follows'
    BY <1>1, <1>2 DEF StreamShown, Parked
  <2>2. stream.stage = "open" /\ ~Parked /\ status = "InProgress" /\ Follows
    BY <1>1, <2>1 DEF Course, StreamShown
  <2>3. ToSet(pending_actions) = {}
    BY <2>1, StreamIsIdle DEF Waiting
  <2>4. r \in ReportsIn(ToSet(effects)) /\ ReportsIn(ToSet(effects')) \subseteq ReportsIn(ToSet(effects))
    BY <1>1, ReportsOf
  <2>5. Follows'
    BY <1>1, <2>2, <2>3, <2>4 DEF Follows
  <2>6. QED BY <2>2, <2>5
<1>6. OverIsIdle'
  BY <1>1, <1>2, <1>3 DEF Course, OverIsIdle, Over
<1>7. StopsAlone'
  <2>1. \A e \in ToSet(effects) : ~IsStop(e)
    BY <1>1 DEF Course, StopsAlone, IsStop
  <2>2. QED BY <1>1, <2>1 DEF StopsAlone
<1>8. QueryFollows'
  BY <1>2 DEF QueryFollows
<1>9. QED BY <1>4, <1>5, <1>6, <1>7, <1>8 DEF Course

LEMMA SendShows ==
    ASSUME NEW results, NEW can_resume \in BOOLEAN, Send(results, can_resume)
    PROVE  stream' # None /\ stream'.stage = "open" /\ ~Parked' /\ status' = "InProgress"
BY NewStreamType, NoneIsNoStream DEF Send, NewStream, Parked

\* A request goes out: what is left to be handled will not end its turn.
LEMMA SendKeepsCourse ==
    ASSUME NEW can_resume \in BOOLEAN, Send(finished_action_results, can_resume)
           \/ Send(<<>>, can_resume), Follows', ~submitting',
           \A e \in ToSet(effects') : ~IsStop(e),
           CallsOf(pending_preprocessed_actions') \subseteq stopped'
    PROVE  Course'
<1>1. stream' # None /\ stream'.stage = "open" /\ ~Parked' /\ status' = "InProgress"
  BY SendShows
<1>2. QED BY <1>1 DEF Course, BatchAtWork, StreamShown, OverIsIdle, StopsAlone, QueryFollows

LEMMA RequestsKeepCourse ==
    ASSUME CallsInv, Underway, Alone, NoneStopped, CancelledRunning, Course,
           SubmitQuery \/ SendFollowUp
    PROVE  Course'
<1>1. CASE SubmitQuery
  <2>1. /\ submitting /\ ~submitting' /\ Send(finished_action_results, TRUE)
        /\ UNCHANGED <<settling, effects, pending_preprocessed_actions, stopped>>
    BY <1>1 DEF SubmitQuery
  <2>2. Follows' /\ CallsOf(pending_preprocessed_actions') \subseteq stopped'
    <3>1. Follows
      BY <2>1 DEF Course, QueryFollows
    <3>2. CallsOf(pending_preprocessed_actions) \subseteq stopped
      BY <2>1, StreamIsIdle
    <3>3. QED BY <2>1, <3>1, <3>2 DEF Follows
  <2>3. \A e \in ToSet(effects') : ~IsStop(e)
    BY <2>1 DEF Course, StopsAlone
  <2>4. QED BY <2>1, <2>2, <2>3, SendKeepsCourse
<1>2. CASE SendFollowUp
  <2>1. /\ Send(finished_action_results, TRUE) /\ ~NothingLeft
        /\ UNCHANGED <<settling, pending_preprocessed_actions, stopped>>
        /\ running_actions = {} /\ pending_actions = <<>> /\ ~submitting /\ ~submitting'
        /\ settling = <<>> /\ effects # <<>> /\ Head(effects).event = "action"
    BY <1>2 DEF SendFollowUp, Handles, HasUnfinishedActions, NothingLeft
  <2>2. ToSet(effects) = {Head(effects)} \cup ToSet(effects') /\ effects' = Tail(effects)
    BY <1>2, HandledChanges DEF SendFollowUp
  <2>3. \A e \in ToSet(effects) : ~IsStop(e)
    BY <2>1 DEF Course, StopsAlone, IsStop
  <2>4. Follows'
    <3>1. ReportsIn(ToSet(effects')) \subseteq ReportsIn(ToSet(effects)) /\ ToSet(settling') = {}
      BY <2>1, <2>2, ReportsOf, Empty
    <3>2. \A r \in ReportsIn(ToSet(effects)) : r.out # "cancelled" \/ r.reason = "followup"
      BY <2>1 DEF CancelledRunning
    <3>3. \A e \in ToSet(effects') : e.event = "stream" => e.reason = "followup"
      BY <2>2, <2>3 DEF IsStop
    <3>4. QED BY <3>1, <3>2, <3>3 DEF Follows
  <2>5. CallsOf(pending_preprocessed_actions') \subseteq stopped'
    BY <2>1 DEF Course, BatchAtWork
  <2>6. QED BY <2>1, <2>2, <2>3, <2>4, <2>5, SendKeepsCourse
<1>3. QED BY <1>1, <1>2

LEMMA HandlersKeepCourse ==
    ASSUME CallsInv, Underway, Alone, NoneStopped, Course,
           IgnoreActionFinished \/ HandleStreamCancelled
    PROVE  Course'
<1> DEFINE e == Head(effects)
<1>1. /\ settling = <<>> /\ ~submitting
      /\ UNCHANGED <<pending_preprocessed_actions, pending_actions, running_actions,
                     async_executing_actions, settling, submitting, stopped>>
      /\ ToSet(effects) = {e} \cup ToSet(effects')
  BY HandledChanges
<1>2. effects # <<>> /\ ~NothingLeft /\ effects' = Tail(effects) /\ UNCHANGED stream
  BY DEF IgnoreActionFinished, HandleStreamCancelled, Handles, controller_vars, NothingLeft
<1>3. Waiting' = Waiting
  BY <1>1 DEF Waiting
<1>4. BatchAtWork'
  BY <1>1, <1>2 DEF Course, BatchAtWork
<1>5. StreamShown'
  <2>1. SUFFICES ASSUME stream # None
                 PROVE  stream.stage = "open" /\ ~Parked /\ status' = "InProgress" /\ Follows'
    BY <1>2 DEF StreamShown, Parked
  <2>2. stream.stage = "open" /\ ~Parked /\ status = "InProgress" /\ Follows
    BY <1>2, <2>1 DEF Course, StreamShown
  <2>3. status' = status
    <3>1. CASE IgnoreActionFinished
      BY <2>1, <3>1 DEF IgnoreActionFinished
    <3>2. CASE HandleStreamCancelled
      <4>1. e.reason = "followup"
        BY <1>1, <2>2, <3>2 DEF HandleStreamCancelled, Handles, Follows
      <4>2. QED BY <3>2, <4>1 DEF HandleStreamCancelled, PreservesInProgress
    <3>3. QED BY <3>1, <3>2
  <2>4. Follows'
    <3>1. ToSet(settling') \subseteq ToSet(settling) /\ \A d \in ToSet(effects') : d \in ToSet(effects)
      BY <1>1
    <3>2. QED BY <2>2, <3>1, FollowsStays
  <2>5. QED BY <2>2, <2>3, <2>4
<1>6. OverIsIdle'
  <2>1. SUFFICES ASSUME Over', stream = None PROVE Waiting = {}
    BY <1>2, <1>3 DEF OverIsIdle
  <2>2. CASE status' = status
    BY <1>1, <2>1, <2>2 DEF Course, OverIsIdle, Over
  <2>3. CASE IgnoreActionFinished /\ status' # status
    <3>1. pending_actions = <<>> /\ running_actions = {}
      BY <2>3 DEF IgnoreActionFinished, HasUnfinishedActions
    <3>2. async_executing_actions = {}
      BY <3>1 DEF Underway
    <3>3. QED BY <3>1, <3>2, Empty DEF Waiting
  <2>4. CASE HandleStreamCancelled /\ status' # status
    <3>1. IsStop(e)
      BY <2>4 DEF HandleStreamCancelled, Handles, PreservesInProgress, IsStop
    <3>2. QED BY <1>1, <3>1 DEF Course, StopsAlone
  <2>5. QED BY <2>2, <2>3, <2>4
<1>7. StopsAlone'
  <2>1. ASSUME NEW d \in ToSet(effects'), IsStop(d) PROVE FALSE
    <3>1. effects = <<d>>
      BY <1>1, <2>1 DEF Course, StopsAlone
    <3>2. ToSet(effects') = {}
      BY <1>2, <3>1, Empty
    <3>3. QED BY <2>1, <3>2
  <2>2. QED BY <2>1 DEF StopsAlone
<1>8. QueryFollows'
  BY <1>1 DEF QueryFollows
<1>9. QED BY <1>4, <1>5, <1>6, <1>7, <1>8 DEF Course

\* A step of a quiet conversation that starts and ends nothing.
LEMMA IdleKeepsCourse ==
    ASSUME Course, Waiting' \subseteq Waiting, NothingLeft', ~submitting',
           UNCHANGED <<stream, status, stopped, submitting>>,
           CallsOf(pending_preprocessed_actions') \subseteq CallsOf(pending_preprocessed_actions)
    PROVE  Course'
<1>1. ToSet(settling') = {} /\ ToSet(effects') = {}
  BY Empty DEF NothingLeft
<1>2. Follows'
  BY <1>1 DEF Follows, ReportsIn
<1>3. BatchAtWork'
  BY DEF Course, BatchAtWork
<1>4. StreamShown'
  BY <1>2 DEF Course, StreamShown, Parked
<1>5. OverIsIdle'
  BY DEF Course, OverIsIdle, Over
<1>6. QED BY <1>1, <1>3, <1>4, <1>5 DEF Course, StopsAlone, QueryFollows

LEMMA CallbacksKeepCourse ==
    ASSUME CallsInv, Alone, NoneStopped, Course, NEW a \in Actions, ActionCallback(a)
    PROVE  Course'
<1>1. /\ ~submitting /\ NothingLeft /\ ActsOn(Waiting)
      /\ UNCHANGED <<controller_vars, pending_preprocessed_actions>>
  BY ActionCallbackChanges DEF ActionCallback, Quiescent, NothingLeft
<1>2. CASE Waiting = {}
  <2>1. UNCHANGED <<pending_preprocessed_actions, pending_actions, running_actions,
                    async_executing_actions, settling, effects, status, controller_vars>>
    BY <1>2, IdleCallback
  <2>2. Waiting' = Waiting /\ NothingLeft' /\ ~submitting'
    BY <1>1, <2>1 DEF Waiting, NothingLeft, controller_vars
  <2>3. UNCHANGED <<stream, stopped, submitting>>
    BY <2>1 DEF controller_vars
  <2>4. QED BY <2>1, <2>2, <2>3, IdleKeepsCourse
<1>3. CASE Waiting # {}
  <2>1. /\ stream = None /\ ~Over
        /\ CallsOf(pending_preprocessed_actions) \subseteq stopped
    BY <1>1, <1>3, StreamIsIdle DEF Course, OverIsIdle, BatchAtWork
  <2>2. ~Over' /\ UNCHANGED <<stream, stopped, submitting>>
    BY <1>1, <2>1 DEF ActsOn, Over, controller_vars
  <2>3. \A e \in ToSet(effects') : ~IsStop(e)
    BY <1>1 DEF ActsOn, IsStop
  <2>4. QED BY <1>1, <2>1, <2>2, <2>3
            DEF Course, BatchAtWork, StreamShown, OverIsIdle, StopsAlone, QueryFollows
<1>4. QED BY <1>2, <1>3

\* While the last batch is at work, what an older one releases is stopped.
LEMMA OlderReleasesNone ==
    ASSUME CallsInv, Alone, ReleasesNoStopped, NEW i \in DOMAIN pending_preprocessed_actions,
           BatchPreprocessed(i)
    PROVE  LET released == ToSet(Released(Batches(i)))
           IN  /\ pending_preprocessed_actions' = StillToCome(Batches(i))
               /\ CallsOf(pending_preprocessed_actions')
                    \subseteq CallsOf(pending_preprocessed_actions)
               /\ CallsOf(pending_preprocessed_actions) \subseteq stopped => released = {}
               /\ ~(CallsOf(pending_preprocessed_actions') \subseteq stopped) => released = {}
<1> DEFINE old == pending_preprocessed_actions
           n == DoneBefore(Batches(i))
           rest == StillToCome(Batches(i))
           released == ToSet(Released(Batches(i)))
<1>1. /\ pending_preprocessed_actions' = rest /\ released \subseteq CallsOf(old)
      /\ CallsOf(rest) \subseteq CallsOf(old) /\ released \cap stopped = {}
  BY PreprocessedChanges, ReleasedOnce DEF ReleasesNoStopped
<1>2. /\ n \in 0..Len(old) /\ Len(old) \in Nat /\ DOMAIN old = 1..Len(old)
      /\ \A a \in released : \E j \in 1..n : a \in ToSet(old[j].calls)
      /\ DOMAIN rest = 1..(Len(old) - n)
  BY ReleasedParts, PartsOfTypeOK DEF CallsInv
<1>3. \A j \in DOMAIN old : j < Len(old) => ToSet(old[j].calls) \subseteq stopped
  BY DEF Alone, BatchesAlone
<1> HIDE DEF rest, released, n
<1>4. ASSUME ~(CallsOf(rest) \subseteq stopped) PROVE released = {}
  <2>1. DOMAIN rest # {}
    BY <1>4 DEF CallsOf
  <2>2. n < Len(old)
    BY <1>2, <2>1
  <2>3. \A a \in released : a \in stopped
    BY <1>2, <1>3, <2>2
  <2>4. QED BY <1>1, <2>3
<1>5. QED BY <1>1, <1>4 DEF rest, released

LEMMA BatchesKeepCourse ==
    ASSUME CallsInv, CallsInv', Alone, NoneStopped, ReleasesNoStopped, Course,
           NEW i \in DOMAIN pending_preprocessed_actions, BatchPreprocessed(i)
    PROVE  Course'
<1> DEFINE released == ToSet(Released(Batches(i)))
<1>1. /\ ~submitting /\ NothingLeft /\ ActsOn(Waiting \cup released)
      /\ UNCHANGED <<stream, stopped, submitting>>
  BY PreprocessedChanges DEF BatchPreprocessed, Quiescent, NothingLeft, controller_vars
<1>2. /\ CallsOf(pending_preprocessed_actions') \subseteq CallsOf(pending_preprocessed_actions)
      /\ CallsOf(pending_preprocessed_actions) \subseteq stopped => released = {}
      /\ ~(CallsOf(pending_preprocessed_actions') \subseteq stopped) => released = {}
  BY OlderReleasesNone
<1> HIDE DEF released
<1>3. CASE Waiting = {} /\ released = {}
  <2>1. Waiting' = {} /\ NothingLeft' /\ UNCHANGED <<status, controller_vars>>
    BY <1>3, IdleBatch DEF released
  <2>2. QED BY <1>1, <1>2, <1>3, <2>1, IdleKeepsCourse
<1>4. CASE Waiting # {} \/ released # {}
  <2>1. stream = None
    BY <1>2, <1>4, StreamIsIdle
  <2>2. CallsOf(pending_preprocessed_actions') \subseteq stopped
    BY <1>2, <1>4 DEF Course, BatchAtWork
  <2>3. ~Over
    BY <1>1, <1>2, <1>4, <2>1 DEF Course, BatchAtWork, OverIsIdle, Over
  <2>4. ~Over'
    BY <1>1, <2>3 DEF ActsOn, Over
  <2>5. \A e \in ToSet(effects') : ~IsStop(e)
    BY <1>1 DEF ActsOn, IsStop
  <2>6. QED BY <1>1, <2>1, <2>2, <2>4, <2>5
            DEF Course, BatchAtWork, StreamShown, OverIsIdle, StopsAlone, QueryFollows
<1>5. QED BY <1>3, <1>4

\* With nothing left to be handled and no call, only the stream matters.
LEMMA QuietCourse ==
    ASSUME NothingLeft', ~submitting', Waiting' = {}, StreamShown',
           CallsOf(pending_preprocessed_actions') \subseteq stopped'
    PROVE  Course'
<1>1. ToSet(effects') = {}
  BY Empty DEF NothingLeft
<1>2. QED BY <1>1 DEF Course, BatchAtWork, OverIsIdle, StopsAlone, QueryFollows

LEMMA StreamsKeepShown ==
    ASSUME RecoveryInv, StreamShape, StreamShown, StreamEvent \/ RetryWhenOnline, NothingLeft'
    PROVE  StreamShown'
<1>1. Follows'
  <2>1. ToSet(settling') = {} /\ ToSet(effects') = {}
    BY Empty DEF NothingLeft
  <2>2. QED BY <2>1 DEF Follows, ReportsIn
<1>2. ASSUME Streaming
      PROVE  /\ stream # None /\ stream \in Streams /\ stream.stage = "open" /\ ~Parked
             /\ status = "InProgress"
  BY <1>2 DEF Streaming, RecoveryInv, RecoveryTypes, StreamTypeOK, StreamShown, Parked
<1>3. CASE ReceiveClientActions
  <2>1. stream' = [stream EXCEPT !.has_received_client_actions = TRUE] /\ status' = status /\ Streaming
    BY <1>3 DEF ReceiveClientActions
  <2>2. stream'.stage = "open" /\ ~Parked' /\ status' = "InProgress"
    BY <1>2, <2>1 DEF Streams, Parked
  <2>3. QED BY <1>1, <2>2 DEF StreamShown
<1>4. ASSUME NEW calls \in Calls, FinishDone(calls) PROVE StreamShown'
  <2>1. /\ stream' = [stream EXCEPT !.stage = "done", !.calls = calls] /\ Streaming
        /\ status' = IF calls = <<>> THEN "Success" ELSE status
    BY <1>4 DEF FinishDone
  <2>2. stream'.stage = "done" /\ stream'.calls = calls
    BY <1>2, <2>1 DEF Streams
  <2>3. status' = IF stream'.calls = <<>> THEN "Success" ELSE "InProgress"
    BY <1>2, <2>1, <2>2
  <2>4. QED BY <2>2, <2>3 DEF StreamShown
<1>5. ASSUME stream' = None \/ stream'.stage = "failed" PROVE StreamShown'
  BY <1>5 DEF StreamShown
<1>6. CASE FinishError
  <2>1. stream' = [stream EXCEPT !.stage = "failed"] /\ Streaming
    BY <1>6 DEF FinishError
  <2>2. stream'.stage = "failed"
    BY <1>2, <2>1 DEF Streams
  <2>3. QED BY <1>5, <2>2
<1>7. ASSUME stream' = Retried, stream \in Streams, stream.stage = "open", status' = "InProgress"
      PROVE  StreamShown'
  <2>1. stream'.stage = "open" /\ ~Parked'
    BY <1>7 DEF Retried, Streams, Parked
  <2>2. QED BY <1>1, <1>7, <2>1 DEF StreamShown
<1>8. ASSUME NEW recoverable \in BOOLEAN, NEW online \in BOOLEAN, Retry(recoverable, online)
      PROVE  StreamShown'
  <2>1. Streaming
    BY <1>8 DEF Retry
  <2>2. CASE stream' = Retried /\ UNCHANGED status
    BY <1>2, <1>7, <2>1, <2>2
  <2>3. CASE stream' = [stream EXCEPT !.deferred_retry_pending = TRUE]
    <3>1. stream'.stage = "open" /\ Parked'
      BY <1>2, <2>1, <2>3 DEF Streams, Parked
    <3>2. QED BY <3>1 DEF StreamShown
  <2>4. QED BY <1>8, <2>2, <2>3 DEF Retry
<1>9. ASSUME NEW recoverable \in BOOLEAN, NEW online \in BOOLEAN, ReceiveError(recoverable, online)
      PROVE  StreamShown'
  <2>1. /\ stream' = [stream EXCEPT !.stage = "failed",
                        !.should_resume = recovery_action(recoverable, online) = "resume"]
        /\ Streaming
    BY <1>9 DEF ReceiveError
  <2>2. stream'.stage = "failed"
    BY <1>2, <2>1 DEF Streams
  <2>3. QED BY <1>5, <2>2
<1>10. ASSUME NEW online \in BOOLEAN, Truncated(online) PROVE StreamShown'
  BY <1>5, <1>10 DEF Truncated
<1>11. CASE RetryWhenOnline
  <2>1. /\ stream \in Streams /\ stream.stage = "open" /\ stream' = Retried
        /\ status' = "InProgress"
    BY <1>11 DEF RetryWhenOnline, RecoveryInv, Recovering, RecoveryTypes, StreamTypeOK
  <2>2. QED BY <1>7, <2>1
<1>12. QED BY <1>3, <1>4, <1>6, <1>8, <1>9, <1>10, <1>11 DEF StreamEvent

LEMMA StreamsKeepCourse ==
    ASSUME RecoveryInv, StreamShape, Alone, NoneStopped, Course,
           StreamEvent \/ RetryWhenOnline \/ StreamComplete
    PROVE  Course'
<1>1. /\ Quiescent /\ stream # None
      /\ UNCHANGED <<pending_actions, async_executing_actions, settling, effects, submitting,
                     stopped>>
  BY DEF StreamEvent, ReceiveClientActions, FinishDone, FinishError, Retry, ReceiveError,
         Truncated, Streaming, RetryWhenOnline, StreamComplete, UnchangedByStream
<1>2. /\ Waiting' = {} /\ NothingLeft /\ NothingLeft' /\ ~submitting'
      /\ CallsOf(pending_preprocessed_actions) \subseteq stopped'
  BY <1>1, StreamIsIdle DEF Waiting, NothingLeft, Quiescent
<1>3. CASE StreamEvent \/ RetryWhenOnline
  <2>1. UNCHANGED pending_preprocessed_actions
    BY <1>3 DEF StreamEvent, ReceiveClientActions, FinishDone, FinishError, Retry, ReceiveError,
                Truncated, RetryWhenOnline
  <2>2. QED BY <1>2, <1>3, <2>1, StreamsKeepShown, QuietCourse DEF Course
<1>4. CASE StreamComplete
  <2>1. stream' = None /\ stream.stage # "open" /\ UNCHANGED status
    BY <1>4 DEF StreamComplete
  <2>2. StreamShown'
    BY <2>1 DEF StreamShown
  <2>3. CASE stream.calls = <<>>
    <3>1. UNCHANGED pending_preprocessed_actions
      BY <1>4, <2>3 DEF StreamComplete
    <3>2. QED BY <1>2, <2>2, <3>1, QuietCourse
  <2>4. CASE stream.calls # <<>>
    <3>1. status' = "InProgress"
      BY <1>1, <2>1, <2>4 DEF StreamShape, Course, StreamShown
    <3>2. ~Over' /\ ToSet(effects') = {}
      BY <1>2, <3>1, Empty DEF Over, NothingLeft
    <3>3. QED BY <1>2, <2>1, <2>2, <3>1, <3>2
              DEF Course, BatchAtWork, OverIsIdle, StopsAlone, QueryFollows
  <2>5. QED BY <2>3, <2>4
<1>5. QED BY <1>3, <1>4

LEMMA ResumeKeepsCourse ==
    ASSUME Alone, NoneStopped, Course, ResumeFires
    PROVE  Course'
<1>1. /\ Quiescent /\ pending_auto_resumes > 0
      /\ UNCHANGED <<pending_preprocessed_actions, pending_actions, async_executing_actions,
                     settling, effects, submitting, stopped>>
  BY DEF ResumeFires
<1>2. /\ Waiting' = {} /\ NothingLeft' /\ ~submitting'
      /\ CallsOf(pending_preprocessed_actions') \subseteq stopped'
  BY <1>1, StreamIsIdle DEF Waiting, NothingLeft, Quiescent
<1>3. Follows'
  <2>1. ToSet(settling') = {} /\ ToSet(effects') = {}
    BY <1>2, Empty DEF NothingLeft
  <2>2. QED BY <2>1 DEF Follows, ReportsIn
<1>4. CASE stream = None
  <2>1. Send(<<>>, FALSE)
    BY <1>4 DEF ResumeFires
  <2>2. stream'.stage = "open" /\ ~Parked' /\ status' = "InProgress"
    BY <2>1, SendShows
  <2>3. QED BY <1>2, <1>3, <2>2, QuietCourse DEF StreamShown
<1>5. CASE stream # None
  <2>1. UNCHANGED <<stream, status>>
    BY <1>5 DEF ResumeFires
  <2>2. StreamShown'
    BY <1>2, <1>3, <2>1 DEF Course, StreamShown, Parked
  <2>3. QED BY <1>2, <2>2, QuietCourse
<1>6. QED BY <1>4, <1>5

LEMMA UserKeepsCourse ==
    ASSUME CallsInv, Alone, NoneStopped, Course, User
    PROVE  Course'
<1>1. /\ Quiescent /\ UNCHANGED pending_preprocessed_actions
      /\ \A e \in ToSet(effects') :
           \/ e.event = "stream" /\ ~StopActions
              /\ e.reason = (IF SendQuery THEN "followup" ELSE "manual")
           \/ e.event = "executor" /\ e.result.out = "cancelled"
              /\ e.result.reason = (IF SendQuery THEN "followup" ELSE "manual")
      /\ \A f \in ToSet(settling') : f.reason = IF SendQuery THEN "followup" ELSE "manual"
      /\ StopStream => UNCHANGED <<pending_actions, async_executing_actions, settling, stopped>>
      /\ ~StopStream => pending_actions' = <<>> /\ async_executing_actions' = {}
  BY UserChanges
<1>2. stream' = None
  BY DEF User, SendQuery, StopStream, StopActions
<1>3. StreamShown'
  BY <1>2 DEF StreamShown
<1>4. CallsOf(pending_preprocessed_actions') \subseteq stopped'
  <2>1. stopped \subseteq stopped'
    BY DEF User, SendQuery, StopStream, StopActions
  <2>2. CASE stream # None
    BY <1>1, <2>1, <2>2, StreamIsIdle
  <2>3. CASE stream = None
    <3>1. stopped' = stopped \cup (used \ Answered)
      BY <2>3 DEF User, SendQuery, StopStream, StopActions
    <3>2. CallsOf(pending_preprocessed_actions) \subseteq used
      BY DEF CallsInv, InOnePlace
    <3>3. CallsOf(pending_preprocessed_actions) \cap (Ids(finished_action_results) \cup Taken) = {}
      BY DEF CallsInv, InOnePlace, Apart8
    <3>4. Answered = Ids(finished_action_results) \cup Taken
      BY DEF Answered, Ids, Taken, ToSet
    <3>5. QED BY <1>1, <3>1, <3>2, <3>3, <3>4
  <2>4. QED BY <2>2, <2>3
<1>5. Waiting' = {}
  <2>1. CASE StopStream
    <3>1. stream # None
      BY <2>1 DEF StopStream
    <3>2. QED BY <1>1, <2>1, <3>1, StreamIsIdle DEF Waiting
  <2>2. CASE ~StopStream
    BY <1>1, <2>2, Empty DEF Waiting
  <2>3. QED BY <2>1, <2>2
<1>6. StopsAlone' /\ QueryFollows'
  <2>1. CASE SendQuery
    <3>1. Follows'
      BY <1>1, <2>1 DEF Follows, ReportsIn
    <3>2. \A e \in ToSet(effects') : ~IsStop(e)
      BY <1>1, <2>1 DEF IsStop
    <3>3. QED BY <3>1, <3>2 DEF StopsAlone, QueryFollows
  <2>2. CASE StopActions
    <3>1. ~submitting'
      BY <2>2 DEF StopActions, Quiescent
    <3>2. \A e \in ToSet(effects') : ~IsStop(e)
      BY <1>1, <2>2 DEF IsStop
    <3>3. QED BY <3>1, <3>2 DEF StopsAlone, QueryFollows
  <2>3. CASE StopStream
    <3>1. /\ ~submitting' /\ settling' = <<>>
          /\ effects' = <<StreamCancelled("manual", stream.should_resume)>>
      BY <2>3 DEF StopStream, Quiescent, CancelledStream
    <3>2. \A e \in ToSet(effects') : effects' = <<e>>
      BY <3>1 DEF ToSet
    <3>3. QED BY <1>2, <1>5, <3>1, <3>2 DEF StopsAlone, QueryFollows
  <2>4. QED BY <2>1, <2>2, <2>3 DEF User
<1>7. QED BY <1>3, <1>4, <1>5, <1>6 DEF Course, BatchAtWork, OverIsIdle

LEMMA CourseStep ==
    ASSUME TurnInv, TurnInv', Alone, CancelledRunning, NoneStopped, ReleasesNoStopped, Course,
           [Next]_vars
    PROVE  Course'
<1>1. CallsInv /\ CallsInv' /\ RecoveryInv /\ Underway /\ StreamShape
  BY DEF TurnInv
<1>2. CASE HandleEvent
  BY <1>1, <1>2, RecordKeepsCourse, ExecutorFinishedKeepsCourse, RequestsKeepCourse,
     HandlersKeepCourse DEF HandleEvent
<1>3. CASE \/ \E a \in Actions : ActionCallback(a)
           \/ \E i \in DOMAIN pending_preprocessed_actions : BatchPreprocessed(i)
  BY <1>1, <1>3, CallbacksKeepCourse, BatchesKeepCourse
<1>4. CASE StreamEvent \/ RetryWhenOnline \/ StreamComplete
  BY <1>1, <1>4, StreamsKeepCourse
<1>5. CASE ResumeFires \/ User
  BY <1>1, <1>5, ResumeKeepsCourse, UserKeepsCourse
<1>6. CASE UNCHANGED vars
  BY <1>6 DEF vars, action_vars, controller_vars, Course, BatchAtWork, StreamShown, OverIsIdle,
              StopsAlone, QueryFollows, Follows, Waiting, NothingLeft, Over, Parked, ReportsIn
<1>7. QED BY <1>2, <1>3, <1>4, <1>5, <1>6 DEF Next

-----------------------------------------------------------------------------
(* What a row that fires finds *)

\* A block that is complete was the last of its turn.
CompleteIsOver ==
    finish_reason = "Complete" =>
        /\ stream = None /\ ~submitting /\ settling = <<>> /\ Over
        /\ \A e \in ToSet(effects) : IsStop(e)

\* Beside a queued command no turn goes on, unless one was started there.
CommandBesideNone ==
    CommandInFlight /\ ~jumped =>
        /\ stream = None /\ ~submitting /\ NothingLeft /\ Waiting = {} /\ Over
        /\ finish_reason = None

Beside == CompleteIsOver /\ CommandBesideNone

LEMMA NoneIsNoReason == None \notin FinishReasons
BY RowAssumption

\* A step of the queue is a step of the turn, and one that queues a call the
\* user had stopped says so.
LEMMA QueueSteps ==
    ASSUME [QueueNext]_all_vars
    PROVE  /\ [Next]_vars
           /\ strayed => strayed'
           /\ ~strayed' => stopped \cap (BatchCalls \ BatchCalls') = {}
<1>1. CASE \/ HandleTurnEvent \/ ResponseStep \/ RetryStep \/ EndOfResponse \/ ResumeStep
           \/ \E a \in Actions : CallStep(a)
           \/ \E i \in DOMAIN pending_preprocessed_actions : BatchStep(i)
  <2>1. /\ Next
        /\ strayed' = (strayed \/ stopped \cap (BatchCalls \ BatchCalls') # {})
    BY <1>1 DEF HandleTurnEvent, ResponseStep, RetryStep, EndOfResponse, ResumeStep, CallStep,
                BatchStep, Turn, Next
  <2>2. QED BY <2>1, Zenon
<1>2. ASSUME User \/ UNCHANGED vars, UNCHANGED strayed
      PROVE  [Next]_vars /\ stopped \cap (BatchCalls \ BatchCalls') = {}
  <2>1. [Next]_vars
    BY <1>2 DEF Next
  <2>2. UNCHANGED pending_preprocessed_actions
    BY <1>2 DEF User, SendQuery, StopStream, StopActions, vars, action_vars
  <2>3. QED BY <2>1, <2>2 DEF BatchCalls
<1>3. CASE FinishedReceivingOutput \/ QueuedCommandFinished \/ OwnCommandFinished
  <2>1. User \/ UNCHANGED vars
    BY <1>3 DEF FinishedReceivingOutput, QueuedCommandFinished, OwnCommandFinished, DrainComplete,
                DrainStopped, SubmitRow, StartCommand, User
  <2>2. UNCHANGED strayed
    BY <1>3 DEF FinishedReceivingOutput, QueuedCommandFinished, OwnCommandFinished
  <2>3. QED BY <1>2, <2>1, <2>2
<1>4. CASE UserStep
  <2>1. StopTurn => User /\ UNCHANGED strayed
    BY DEF StopTurn, User
  <2>2. ASSUME NEW row \in Rows, SendNow(row)
        PROVE  (User \/ UNCHANGED vars) /\ UNCHANGED strayed
    BY <2>2 DEF SendNow, StartCommand, User
  <2>3. ASSUME \/ \E row \in Rows : QueueInput(row) \/ EnterEditMode(row) \/ DeleteRow(row)
               \/ \E from, to \in DOMAIN queue : from # to /\ Reorder(from, to)
               \/ LeaveEditMode \/ EditInput
        PROVE  UNCHANGED <<vars, strayed>>
    BY <2>3 DEF QueueInput, EnterEditMode, DeleteRow, Reorder, LeaveEditMode, EditInput
  <2>4. Stop => User /\ UNCHANGED strayed
    BY <2>1 DEF Stop
  <2>5. SubmitInput => User /\ UNCHANGED strayed
    BY DEF SubmitInput, User
  <2>6. RunOwnCommand => (User \/ UNCHANGED vars) /\ UNCHANGED strayed
    BY <2>1 DEF RunOwnCommand
  <2>7. QED BY <1>2, <1>4, <2>2, <2>3, <2>4, <2>5, <2>6 DEF UserStep
<1>5. CASE UNCHANGED all_vars
  BY <1>2, <1>5 DEF all_vars, queue_vars
<1>6. QED BY <1>1, <1>3, <1>4, <1>5 DEF QueueNext

LEMMA UnstrayedReleases ==
    ASSUME CallsInv, stopped \cap (BatchCalls \ BatchCalls') = {}
    PROVE  ReleasesNoStopped
<1> SUFFICES ASSUME NEW i \in DOMAIN pending_preprocessed_actions, BatchPreprocessed(i)
             PROVE  ToSet(Released(Batches(i))) \cap stopped = {}
  BY DEF ReleasesNoStopped
<1>1. /\ BatchCalls = CallsOf(pending_preprocessed_actions)
      /\ BatchCalls' = CallsOf(pending_preprocessed_actions')
  BY DEF BatchCalls, CallsOf, ToSet
<1>2. pending_preprocessed_actions' = StillToCome(Batches(i))
  BY PreprocessedChanges
<1>3. QED BY <1>1, <1>2, ReleasedOnce

-----------------------------------------------------------------------------
(* The steps beside a command *)

LEMMA EventsStayBeside ==
    ASSUME CallsInv, Beside, HandleTurnEvent
    PROVE  Beside'
<1>1. HandleEvent /\ UNCHANGED <<finish_reason, terminal, jumped>>
  BY DEF HandleTurnEvent, Turn
<1>2. ~NothingLeft \/ submitting
  BY <1>1 DEF HandleEvent, Record, RecordAndWait, RecordLast, RecordAndContinue, SubmitQuery,
              HandleExecutorFinished, SendFollowUp, IgnoreActionFinished, HandleStreamCancelled,
              Handles, NothingLeft
<1>3. CommandBesideNone'
  BY <1>1, <1>2 DEF Beside, CommandBesideNone, CommandInFlight
<1>4. CompleteIsOver'
  <2>1. SUFFICES ASSUME finish_reason = "Complete"
                 PROVE  /\ stream' = None /\ ~submitting' /\ settling' = <<>> /\ Over'
                        /\ \A e \in ToSet(effects') : IsStop(e)
    BY <1>1 DEF CompleteIsOver
  <2>2. /\ stream = None /\ ~submitting /\ settling = <<>> /\ Over
        /\ \A e \in ToSet(effects) : IsStop(e)
    BY <2>1 DEF Beside, CompleteIsOver
  <2>3. effects # <<>> /\ effects \in Seq(Effects)
    BY <1>2, <2>2, PartsOfTypeOK DEF NothingLeft, CallsInv, CallTypes
  <2>4. Head(effects).event = "stream" /\ ToSet(effects) = {Head(effects)} \cup ToSet(Tail(effects))
    BY <2>2, <2>3, HeadAndTail DEF IsStop
  <2>5. HandleStreamCancelled
    BY <1>1, <2>2, <2>4 DEF HandleEvent, Record, RecordAndWait, RecordLast, RecordAndContinue,
                            SubmitQuery, HandleExecutorFinished, SendFollowUp,
                            IgnoreActionFinished, Handles
  <2>6. QED BY <2>2, <2>4, <2>5 DEF HandleStreamCancelled, Over
<1>5. QED BY <1>3, <1>4 DEF Beside

LEMMA CallsStayBeside ==
    ASSUME CallsInv, CallsInv', Alone, ReleasesNoStopped, Course, Beside,
           \/ \E a \in Actions : CallStep(a)
           \/ \E i \in DOMAIN pending_preprocessed_actions : BatchStep(i)
    PROVE  Beside'
<1>1. finish_reason' = None /\ UNCHANGED <<terminal, jumped>>
  BY DEF CallStep, BatchStep, Turn
<1>2. ASSUME CommandInFlight, ~jumped
      PROVE  /\ Waiting' = {} /\ NothingLeft'
             /\ UNCHANGED <<stream, submitting, status>>
  <2>1. stream = None /\ ~submitting /\ NothingLeft /\ Waiting = {} /\ Over
    BY <1>2 DEF Beside, CommandBesideNone
  <2>2. ASSUME NEW a \in Actions, ActionCallback(a)
        PROVE  Waiting' = {} /\ NothingLeft' /\ UNCHANGED <<stream, submitting, status>>
    BY <2>1, <2>2, IdleCallback DEF Waiting, NothingLeft, controller_vars
  <2>3. ASSUME NEW i \in DOMAIN pending_preprocessed_actions, BatchPreprocessed(i)
        PROVE  Waiting' = {} /\ NothingLeft' /\ UNCHANGED <<stream, submitting, status>>
    <3>1. CallsOf(pending_preprocessed_actions) \subseteq stopped
      BY <2>1 DEF Course, BatchAtWork, Over
    <3>2. ToSet(Released(Batches(i))) = {}
      BY <2>3, <3>1, OlderReleasesNone
    <3>3. QED BY <2>1, <2>3, <3>2, IdleBatch DEF controller_vars
  <2>4. QED BY <2>2, <2>3 DEF CallStep, BatchStep, Turn
<1>3. CommandBesideNone'
  <2>1. SUFFICES ASSUME CommandInFlight, ~jumped
                 PROVE  /\ stream' = None /\ ~submitting' /\ NothingLeft' /\ Waiting' = {}
                        /\ Over'
    BY <1>1 DEF CommandBesideNone, CommandInFlight
  <2>2. QED BY <1>2, <2>1 DEF Beside, CommandBesideNone, Over
<1>4. CompleteIsOver'
  BY <1>1, NoneIsNoReason DEF CompleteIsOver, FinishReasons
<1>5. QED BY <1>3, <1>4 DEF Beside

LEMMA StreamsStayBeside ==
    ASSUME Course, Beside, ResponseStep \/ RetryStep \/ EndOfResponse \/ ResumeStep
    PROVE  Beside'
<1>1. CASE ResponseStep \/ RetryStep \/ EndOfResponse
  <2>1. stream # None /\ UNCHANGED <<terminal, jumped>>
    BY <1>1 DEF ResponseStep, RetryStep, EndOfResponse, Turn, StreamEvent, ReceiveClientActions,
                FinishDone, FinishError, Retry, ReceiveError, Truncated, Streaming,
                RetryWhenOnline, StreamComplete
  <2>2. CommandBesideNone'
    BY <2>1 DEF Beside, CommandBesideNone, CommandInFlight
  <2>3. CASE ResponseStep \/ RetryStep
    <3>1. finish_reason' \in {"Error", None}
      BY <2>3 DEF ResponseStep, RetryStep, Turn
    <3>2. QED BY <2>2, <3>1, NoneIsNoReason DEF Beside, CompleteIsOver, FinishReasons
  <2>4. CASE EndOfResponse
    <3>1. finish_reason' = BlockReason(stream) /\ StreamComplete
      BY <2>4 DEF EndOfResponse, Turn
    <3>2. stream' = None /\ ~submitting' /\ settling' = <<>> /\ effects' = <<>> /\ UNCHANGED status
      BY <3>1 DEF StreamComplete, UnchangedByStream, Quiescent
    <3>3. finish_reason' = "Complete" => stream.stage = "done" /\ stream.calls = <<>>
      BY <3>1, NoneIsNoReason DEF BlockReason, FinishReasons
    <3>4. finish_reason' = "Complete" => Over'
      BY <2>1, <3>2, <3>3 DEF Course, StreamShown, Over
    <3>5. QED BY <2>2, <3>2, <3>4, Empty DEF Beside, CompleteIsOver
  <2>5. QED BY <1>1, <2>3, <2>4
<1>2. CASE ResumeStep
  <2>1. finish_reason' = None /\ UNCHANGED terminal
    BY <1>2 DEF ResumeStep, Turn
  <2>2. CompleteIsOver'
    BY <2>1, NoneIsNoReason DEF CompleteIsOver, FinishReasons
  <2>3. CommandInFlight => jumped'
    <3>1. CommandInFlight => jumped \/ stream = None
      BY DEF Beside, CommandBesideNone
    <3>2. jumped' = (jumped \/ (CommandInFlight /\ stream = None))
      BY <1>2 DEF ResumeStep
    <3>3. QED BY <3>1, <3>2, Zenon
  <2>4. QED BY <2>1, <2>2, <2>3 DEF Beside, CommandBesideNone, CommandInFlight
<1>3. QED BY <1>1, <1>2

\* The user stops a turn, by hand or with a command of his own.
LEMMA StopsStayBeside ==
    ASSUME CallsInv, CallsInv', Course, Beside, StopTurn, terminal' \in {terminal, "user"}
    PROVE  Beside'
<1>1. finish_reason' = StoppedReason /\ UNCHANGED jumped /\ (StopStream \/ StopActions)
  BY DEF StopTurn
<1>2. stream' = None /\ ~submitting' /\ settling = <<>> /\ effects = <<>>
  BY <1>1 DEF StopStream, StopActions, Quiescent
<1>3. CompleteIsOver'
  <2>1. SUFFICES ASSUME finish_reason' = "Complete"
                 PROVE  settling' = <<>> /\ Over' /\ \A e \in ToSet(effects') : IsStop(e)
    BY <1>2 DEF CompleteIsOver
  <2>2. stream # None /\ stream.stage = "done" /\ stream.calls = <<>>
    BY <1>1, <2>1, NoneIsNoReason DEF StoppedReason, BlockReason, FinishReasons
  <2>3. status = "Success" /\ StopStream
    BY <1>1, <2>2 DEF Course, StreamShown, StopActions
  <2>4. settling' = <<>> /\ Over' /\ effects' = <<StreamCancelled("manual", stream.should_resume)>>
    BY <1>2, <2>2, <2>3 DEF StopStream, CancelledStream, Over
  <2>5. \A e \in ToSet(effects') : e = StreamCancelled("manual", stream.should_resume)
    BY <2>4 DEF ToSet
  <2>6. QED BY <2>4, <2>5 DEF IsStop, StreamCancelled
<1>4. CommandBesideNone'
  <2>1. SUFFICES ASSUME CommandInFlight, ~jumped, terminal' = terminal
                 PROVE  NothingLeft' /\ Waiting' = {} /\ Over' /\ finish_reason' = None
    BY <1>1, <1>2 DEF CommandBesideNone, CommandInFlight
  <2>2. stream = None /\ Waiting = {} /\ Over
    BY <2>1 DEF Beside, CommandBesideNone
  <2>3. StopActions /\ ~StopStream /\ finish_reason' = None
    BY <1>1, <2>2 DEF StopStream, StoppedReason
  <2>4. status' = status
    BY <2>2, <2>3 DEF StopActions, StoppedStatus, Over
  <2>5. pending_actions = <<>> /\ async_executing_actions = {}
    BY <2>2, NoneWait
  <2>6. /\ pending_actions' = <<>> /\ async_executing_actions' = {} /\ settling' = <<>>
        /\ Reported(effects') = {}
        /\ \A e \in ToSet(effects') : e.event = "executor"
    BY <2>3, <2>5, UserChanges DEF User
  <2>7. effects' = <<>>
    <3>1. ASSUME NEW e \in ToSet(effects') PROVE FALSE
      <4>1. e.result \in ReportsIn(ToSet(effects'))
        BY <2>6 DEF ReportsIn
      <4>2. e.result.id \in Reported(effects')
        BY <4>1, ReportedCalls
      <4>3. QED BY <2>6, <4>2
    <3>2. effects' \in Seq(Effects)
      BY PartsOfTypeOK DEF CallsInv, CallTypes
    <3>3. QED BY <3>1, <3>2, HeadAndTail
  <2>8. QED BY <2>2, <2>3, <2>4, <2>6, <2>7, Empty DEF NothingLeft, Waiting, Over
<1>5. QED BY <1>3, <1>4 DEF Beside

\* A queued command starts while no turn goes on, or says that one does.
LEMMA CommandsStartBeside ==
    ASSUME CallsInv, Course, Quiescent, NEW row, StartCommand(row), finish_reason' = None
    PROVE  Beside'
<1>1. UNCHANGED vars /\ jumped' = InTurn
  BY DEF StartCommand
<1>2. CompleteIsOver'
  BY NoneIsNoReason DEF CompleteIsOver, FinishReasons
<1>3. CommandBesideNone'
  <2>1. SUFFICES ASSUME ~InTurn
                 PROVE  /\ stream' = None /\ ~submitting' /\ NothingLeft' /\ Waiting' = {}
                        /\ Over'
    BY <1>1 DEF CommandBesideNone
  <2>2. stream = None /\ ~submitting /\ NothingLeft
    BY <2>1 DEF InTurn, Quiescent, NothingLeft
  <2>3. Over
    BY <2>1 DEF CallsInv, TypeOK, Statuses, InTurn, Over
  <2>4. Waiting = {}
    BY <2>2, <2>3 DEF Course, OverIsIdle
  <2>5. QED BY <1>1, <2>2, <2>3, <2>4
            DEF vars, action_vars, controller_vars, NothingLeft, Waiting, Over
<1>4. QED BY <1>2, <1>3 DEF Beside

\* A query that is sent has no finished block, and marks a command beside it.
LEMMA QueriesStayBeside ==
    ASSUME terminal' = "queued" => jumped', finish_reason' = None
    PROVE  Beside'
BY NoneIsNoReason DEF Beside, CompleteIsOver, CommandBesideNone, CommandInFlight, FinishReasons

\* The terminal view's handlers, and the user's steps that leave the turn alone.
LEMMA QuietStaysBeside ==
    ASSUME Beside, UNCHANGED <<vars, jumped>>, finish_reason' \in {finish_reason, None},
           terminal' \in {terminal, "idle", "user"}
    PROVE  Beside'
<1>1. CompleteIsOver'
  BY NoneIsNoReason
  DEF vars, action_vars, controller_vars, Beside, CompleteIsOver, Over, FinishReasons
<1>2. CommandBesideNone'
  BY DEF vars, action_vars, controller_vars, Beside, CommandBesideNone, CommandInFlight,
         NothingLeft, Waiting, Over
<1>3. QED BY <1>1, <1>2 DEF Beside

LEMMA DrainStaysBeside ==
    ASSUME CallsInv, Course, Quiescent, finish_reason' = None,
           NEW after \in {"idle", "queued", "user"}, after = "queued" => jumped,
           DrainComplete(after)
    PROVE  Beside'
<1>1. CASE \E row : StartCommand(row)
  BY <1>1, CommandsStartBeside
<1>2. CASE terminal' = after /\ jumped' = (jumped /\ after = "queued")
  <2>1. terminal' = "queued" => jumped'
    BY <1>2, Zenon
  <2>2. QED BY <2>1, QueriesStayBeside
<1>3. QED BY <1>1, <1>2 DEF DrainComplete, SubmitRow

LEMMA ViewStaysBeside ==
    ASSUME QueueTypeOK, CallsInv, Course, Beside,
           FinishedReceivingOutput \/ QueuedCommandFinished \/ OwnCommandFinished
    PROVE  Beside'
<1>1. terminal \in {"idle", "queued", "user"}
  BY DEF QueueTypeOK
<1>2. CASE FinishedReceivingOutput
  <2>1. Quiescent /\ finish_reason # None /\ finish_reason' = None
    BY <1>2 DEF FinishedReceivingOutput
  <2>2. terminal = "queued" => jumped
    BY <2>1 DEF Beside, CommandBesideNone, CommandInFlight
  <2>3. CASE DrainComplete(terminal)
    BY <1>1, <2>1, <2>2, <2>3, DrainStaysBeside
  <2>4. CASE DrainStopped
    BY <2>1, <2>2, <2>4, QueriesStayBeside DEF DrainStopped
  <2>5. QED BY <1>2, <2>3, <2>4 DEF FinishedReceivingOutput
<1>3. CASE QueuedCommandFinished
  BY <1>3, DrainStaysBeside DEF QueuedCommandFinished, Settled
<1>4. CASE OwnCommandFinished
  BY <1>4, QuietStaysBeside DEF OwnCommandFinished
<1>5. QED BY <1>2, <1>3, <1>4

LEMMA UserStaysBeside ==
    ASSUME CallsInv, CallsInv', Course, Beside, UserStep
    PROVE  Beside'
<1>1. ASSUME \/ \E row \in Rows : QueueInput(row) \/ EnterEditMode(row) \/ DeleteRow(row)
             \/ \E from, to \in DOMAIN queue : from # to /\ Reorder(from, to)
             \/ LeaveEditMode \/ EditInput
      PROVE  Beside'
  BY <1>1, QuietStaysBeside
  DEF QueueInput, EnterEditMode, DeleteRow, Reorder, LeaveEditMode, EditInput
<1>2. ASSUME NEW row \in Rows, SendNow(row) PROVE Beside'
  <2>1. Quiescent /\ finish_reason = None /\ UNCHANGED finish_reason
    BY <1>2 DEF SendNow, Settled
  <2>2. CASE StartCommand(row)
    BY <2>1, <2>2, CommandsStartBeside
  <2>3. CASE UNCHANGED terminal /\ jumped' = (jumped \/ CommandInFlight)
    <3>1. terminal' = "queued" => jumped'
      BY <2>3, Zenon DEF CommandInFlight
    <3>2. QED BY <2>1, <3>1, QueriesStayBeside
  <2>4. QED BY <1>2, <2>2, <2>3 DEF SendNow
<1>3. CASE Stop
  BY <1>3, StopsStayBeside DEF Stop
<1>4. CASE SubmitInput
  <2>1. terminal' = "queued" => jumped'
    BY <1>4, Zenon DEF SubmitInput, CommandInFlight
  <2>2. QED BY <1>4, <2>1, QueriesStayBeside DEF SubmitInput, Settled
<1>5. CASE RunOwnCommand
  BY <1>5, StopsStayBeside, QuietStaysBeside DEF RunOwnCommand
<1>6. QED BY <1>1, <1>2, <1>3, <1>4, <1>5 DEF UserStep

-----------------------------------------------------------------------------
(* The invariant *)

OnCourse == NoneStopped /\ Course /\ Beside

FiringInv ==
    /\ QueueTypeOK /\ TurnInv /\ CancelledRunning
    /\ ~Astray => OnCourse

LEMMA FiringInvInit == QueueInit => FiringInv
<1> SUFFICES ASSUME QueueInit PROVE FiringInv
  OBVIOUS
<1>1. /\ Init /\ ToSet(effects) = {} /\ ToSet(settling) = {}
      /\ CallsOf(pending_preprocessed_actions) = {}
      /\ effects = <<>> /\ settling = <<>> /\ ~submitting /\ stream = None /\ status = "Success"
      /\ pending_actions = <<>> /\ async_executing_actions = {} /\ stopped = {}
  BY Empty DEF QueueInit, Init, ActionInit, CallsOf
<1>2. QueueTypeOK
  BY QueueInitTypes
<1>3. TurnInv
  BY <1>1, TurnInvInit
<1>4. CancelledRunning
  BY <1>1 DEF CancelledRunning, ReportsIn
<1>5. NoneStopped /\ BatchAtWork /\ StreamShown
  BY <1>1 DEF NoneStopped, BatchAtWork, StreamShown
<1>6. OverIsIdle /\ StopsAlone /\ QueryFollows
  BY <1>1, Empty DEF OverIsIdle, Waiting, StopsAlone, QueryFollows
<1>7. Beside
  BY NoneIsNoReason
  DEF QueueInit, Beside, CompleteIsOver, CommandBesideNone, CommandInFlight, FinishReasons
<1>8. QED BY <1>2, <1>3, <1>4, <1>5, <1>6, <1>7 DEF FiringInv, OnCourse, Course

LEMMA FiringInvStep == FiringInv /\ [QueueNext]_all_vars => FiringInv'
<1> SUFFICES ASSUME FiringInv, [QueueNext]_all_vars PROVE FiringInv'
  OBVIOUS
<1>1. /\ QueueTypeOK /\ TurnInv /\ CancelledRunning
      /\ ~Astray => NoneStopped /\ Course /\ Beside
      /\ CallsInv /\ Underway
      /\ ~Excused => Alone
  BY DEF FiringInv, OnCourse, TurnInv
<1>2. /\ [Next]_vars
      /\ strayed => strayed'
      /\ ~strayed' => stopped \cap (BatchCalls \ BatchCalls') = {}
  BY QueueSteps
<1>3. QueueTypeOK' /\ TurnInv' /\ CancelledRunning'
  BY <1>1, <1>2, QueueTypesStep, TurnInvStep, CancelledRunningStep
<1>4. ASSUME ~Astray' PROVE OnCourse'
  <2>1. ~strayed' /\ ~Astray
    BY <1>1, <1>2, <1>4, ExcusedStays DEF Astray
  <2>2. NoneStopped /\ Course /\ Beside
    BY <1>1, <2>1
  <2>3. ~StoppedCallRan
    BY <2>2, UncancelledOf DEF NoneStopped, StoppedCallRan, Given
  <2>4. Alone
    BY <1>1, <2>1, <2>3 DEF Excused, Astray
  <2>5. ReleasesNoStopped
    BY <1>1, <1>2, <2>1, UnstrayedReleases
  <2>6. NoneStopped' /\ Course'
    BY <1>1, <1>2, <1>3, <2>2, <2>4, <2>5, NoneStoppedStep, CourseStep
  <2>7. Beside'
    <3>1. CallsInv'
      BY <1>3 DEF TurnInv
    <3>2. CASE UNCHANGED all_vars
      BY <2>2, <3>2, QuietStaysBeside DEF all_vars, queue_vars
    <3>3. CASE QueueNext
      BY <1>1, <2>2, <2>4, <2>5, <3>1, <3>3, EventsStayBeside, CallsStayBeside,
         StreamsStayBeside, ViewStaysBeside, UserStaysBeside DEF QueueNext
    <3>4. QED BY <3>2, <3>3
  <2>8. QED BY <2>6, <2>7 DEF OnCourse
<1>5. QED BY <1>3, <1>4 DEF FiringInv

\* A row that fires by itself interrupts no turn and runs beside no command,
\* whatever the user, the calls, the streams and the commands do and in
\* whatever order the views learn of it, unless a turn and a command have been
\* started side by side or a stopped call has been queued again.
THEOREM RowsFireAlone == QueueSpec => FiresAlone
<1> DEFINE Lone == \/ jumped \/ Astray
                   \/ ~InTurn /\ (finish_reason = None \/ ~CommandInFlight)
           Fired == (FinishedReceivingOutput \/ QueuedCommandFinished) /\ Fires
<1>1. FiringInv /\ Fired => Lone
  <2>1. SUFFICES ASSUME FiringInv, Fired, ~jumped, ~Astray
                 PROVE  ~InTurn /\ (finish_reason = None \/ ~CommandInFlight)
    OBVIOUS
  <2>2. CompleteIsOver /\ CommandBesideNone
    BY <2>1 DEF FiringInv, OnCourse, Beside
  <2>3. stream = None /\ Over => ~InTurn
    BY DEF Over, InTurn
  <2>4. CASE FinishedReceivingOutput
    <3>1. finish_reason # None /\ ~CommandInFlight
      BY <2>1, <2>2, <2>4 DEF FinishedReceivingOutput, CommandBesideNone
    <3>2. finish_reason = "Complete"
      <4>1. SUFFICES ASSUME DrainStopped PROVE FALSE
        BY <2>4 DEF FinishedReceivingOutput
      <4>2. UNCHANGED <<queries, terminal>>
        BY <4>1 DEF DrainStopped, vars, controller_vars
      <4>3. QED BY <2>1, <3>1, <4>2 DEF Fires, CommandInFlight
    <3>3. QED BY <2>2, <2>3, <3>1, <3>2 DEF CompleteIsOver
  <2>5. CASE QueuedCommandFinished
    BY <2>1, <2>2, <2>3, <2>5
    DEF QueuedCommandFinished, Settled, CommandBesideNone, CommandInFlight
  <2>6. QED BY <2>1, <2>4, <2>5
<1>2. FiringInv /\ [QueueNext]_all_vars => [Fired => Lone]_all_vars
  BY <1>1
<1> HIDE DEF Fired, Lone
<1>3. QueueSpec => [][Fired => Lone]_all_vars
  BY <1>2, FiringInvInit, FiringInvStep, PTL DEF QueueSpec
<1>4. QED BY <1>3 DEF FiresAlone, Fired, Lone
=============================================================================
