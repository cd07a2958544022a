--------------------------- MODULE SequenceLemmas ---------------------------
(***************************************************************************)
(* What the models' operators on sequences return: flattening, keeping the *)
(* elements of a set, and the sequences of the elements of a set.          *)
(*                                                                         *)
(* FlattenSeq is recursive, and the induction theorems of the library take *)
(* an operator as a parameter.  Induction is stated here over a set of     *)
(* naturals instead, which is first order: to prove P(n) for every n,      *)
(* apply it to the set of the n with P(n).                                 *)
(***************************************************************************)
EXTENDS SequenceHelpers, SequenceTheorems, FiniteSetTheorems, WellFoundedInduction, TLAPS

-----------------------------------------------------------------------------
(* Induction *)

\* A nonempty set of naturals has a least element.
LEMMA LeastNumber ==
    ASSUME NEW T, T \subseteq Nat, T # {}
    PROVE  \E n \in T : \A m \in T : n <= m
<1> DEFINE R == {p \in Nat \X Nat : p[1] < p[2]}
<1>1. IsWellFoundedOn(OpToRel(<, Nat), Nat)
  BY NatLessThanWellFounded
<1>2. OpToRel(<, Nat) = R
  BY DEF OpToRel
<1>3. IsWellFoundedOn(R, Nat)
  BY <1>1, <1>2
<1>4. PICK n \in T : \A m \in T : <<m, n>> \notin R
  <2> HIDE DEF R
  <2>1. QED BY <1>3, WFMin
<1>5. \A m \in T : m \in Nat /\ n \in Nat /\ ~(m < n)
  BY <1>4
<1>6. \A m \in T : n <= m
  BY <1>5
<1>7. QED BY <1>6

\* A set of naturals with 0, and with n + 1 whenever it has n, is Nat.
LEMMA InductionOnASet ==
    ASSUME NEW T, 0 \in T, \A n \in Nat : n \in T => n + 1 \in T
    PROVE  \A n \in Nat : n \in T
<1> SUFFICES ASSUME Nat \ T # {} PROVE FALSE
  OBVIOUS
<1>1. PICK n \in Nat \ T : \A m \in Nat \ T : n <= m
  BY LeastNumber
<1>2. n # 0 /\ n - 1 \in Nat /\ ~(n <= n - 1) /\ (n - 1) + 1 = n
  BY <1>1
<1>3. n - 1 \in T
  BY <1>1, <1>2
<1>4. QED BY <1>1, <1>2, <1>3

-----------------------------------------------------------------------------
(* Flattening *)

\* The recursive function inside FlattenSeq is well defined: it has the
\* value that its defining equation states.
LEMMA FlattenDefined ==
    ASSUME NEW S, NEW ss \in Seq(Seq(S)), NEW n \in Nat, n <= Len(ss)
    PROVE  \E g : g = [i \in 1..n |-> IF i = 1 THEN ss[i] ELSE g[i - 1] \o ss[i]]
<1> DEFINE Next(g, i) == IF i = 1 THEN ss[i] ELSE g[i - 1] \o ss[i]
           P(m) == \E g : g = [i \in 1..m |-> Next(g, i)]
           T == {m \in Nat : P(m)}
<1>1. 0 \in T
  <2>1. 1..0 = {}
    OBVIOUS
  <2> DEFINE e == [i \in {} |-> i]
  <2>2. e = [i \in 1..0 |-> Next(e, i)]
    BY <2>1
  <2>3. QED BY <2>2
<1>2. ASSUME NEW m \in Nat, m \in T PROVE m + 1 \in T
  <2>1. PICK g : g = [i \in 1..m |-> Next(g, i)]
    BY <1>2
  <2> DEFINE h == [i \in 1..(m + 1) |-> IF i <= m THEN g[i] ELSE Next(g, m + 1)]
  <2>2. ASSUME NEW i \in 1..(m + 1) PROVE h[i] = Next(h, i)
    <3>1. CASE i <= m
      <4>0. i \in 1..m
        BY <3>1
      <4>1. h[i] = g[i] /\ g[i] = Next(g, i)
        <5>1. h[i] = g[i]
          BY <3>1
        <5>2. g[i] = Next(g, i)
          <6> HIDE DEF Next
          <6>1. QED BY <2>1, <4>0
        <5>3. QED BY <5>1, <5>2
      <4>2. CASE i = 1
        BY <4>1, <4>2
      <4>3. CASE i # 1
        <5>1. i - 1 \in 1..(m + 1) /\ i - 1 <= m
          BY <4>0, <4>3
        <5>2. h[i - 1] = g[i - 1]
          BY <5>1
        <5>3. QED BY <4>1, <4>3, <5>2
      <4>4. QED BY <4>2, <4>3
    <3>2. CASE i = m + 1
      <4>1. h[i] = Next(g, m + 1)
        BY <3>2
      <4>2. CASE i = 1
        BY <3>2, <4>1, <4>2
      <4>3. CASE i # 1
        <5>1. i - 1 = m /\ m \in 1..(m + 1) /\ m + 1 # 1
          BY <3>2, <4>3
        <5>2. h[m] = g[m] /\ (m + 1) - 1 = m
          BY <5>1
        <5>3. QED BY <3>2, <4>1, <4>3, <5>1, <5>2
      <4>4. QED BY <4>2, <4>3
    <3>3. QED BY <3>1, <3>2
  <2>3. h = [i \in 1..(m + 1) |-> Next(h, i)]
    BY <2>2
  <2> HIDE DEF h, Next
  <2>4. P(m + 1)
    BY <2>3
  <2> HIDE DEF P
  <2>5. m + 1 \in Nat
    OBVIOUS
  <2>6. QED BY <2>4, <2>5
<1>3. n \in T
  <2> HIDE DEF T
  <2>1. QED BY <1>1, <1>2, InductionOnASet
<1>4. QED BY <1>3

\* f lists the elements of the first n sequences of ss, one sequence after
\* another: its k-th element is the off[k]-th of sequence number sec[k].
Lists(f, ss, n, sec, off) ==
    /\ DOMAIN sec = 1..Len(f) /\ DOMAIN off = 1..Len(f)
    /\ \A k \in 1..Len(f) : sec[k] \in 1..n /\ off[k] \in 1..Len(ss[sec[k]])
    /\ \A k \in 1..Len(f) : f[k] = ss[sec[k]][off[k]]
    /\ \A k, l \in 1..Len(f) :
        k < l => sec[k] < sec[l] \/ (sec[k] = sec[l] /\ off[k] < off[l])
    /\ \A i \in 1..n : \A j \in 1..Len(ss[i]) :
        \E k \in 1..Len(f) : sec[k] = i /\ off[k] = j

LEMMA ListsFirst ==
    ASSUME NEW S, NEW ss \in Seq(Seq(S)), Len(ss) # 0
    PROVE  \E sec, off : Lists(ss[1], ss, 1, sec, off)
<1> DEFINE sec == [k \in 1..Len(ss[1]) |-> 1]
           off == [k \in 1..Len(ss[1]) |-> k]
<1>1. ss[1] \in Seq(S) /\ Len(ss[1]) \in Nat
  OBVIOUS
<1>2. Lists(ss[1], ss, 1, sec, off)
  BY <1>1 DEF Lists
<1> HIDE DEF sec, off
<1>3. QED BY <1>2

LEMMA ListsNext ==
    ASSUME NEW S, NEW ss \in Seq(Seq(S)), NEW n \in Nat, n < Len(ss),
           NEW f \in Seq(S), NEW sec, NEW off, Lists(f, ss, n, sec, off)
    PROVE  \E sec2, off2 : Lists(f \o ss[n + 1], ss, n + 1, sec2, off2)
<1> DEFINE s == ss[n + 1]
           g == f \o s
           sec2 == [k \in 1..Len(g) |-> IF k <= Len(f) THEN sec[k] ELSE n + 1]
           off2 == [k \in 1..Len(g) |-> IF k <= Len(f) THEN off[k] ELSE k - Len(f)]
<1>1. /\ n + 1 \in 1..Len(ss) /\ s \in Seq(S) /\ Len(s) \in Nat /\ Len(f) \in Nat
      /\ g \in Seq(S) /\ Len(g) = Len(f) + Len(s)
      /\ \A i \in 1..Len(ss) : ss[i] \in Seq(S) /\ Len(ss[i]) \in Nat
  OBVIOUS
<1>2. ASSUME NEW k \in 1..Len(g), k <= Len(f)
      PROVE  /\ k \in 1..Len(f) /\ sec2[k] = sec[k] /\ off2[k] = off[k]
             /\ sec2[k] \in 1..n /\ off2[k] \in 1..Len(ss[sec2[k]])
             /\ g[k] = ss[sec2[k]][off2[k]]
  <2>1. k \in 1..Len(f)
    BY <1>1, <1>2
  <2>2. sec2[k] = sec[k] /\ off2[k] = off[k]
    BY <1>2
  <2>3. sec[k] \in 1..n /\ off[k] \in 1..Len(ss[sec[k]]) /\ f[k] = ss[sec[k]][off[k]]
    BY <2>1 DEF Lists
  <2>4. g[k] = f[k]
    BY <1>1, <2>1
  <2> HIDE DEF sec2, off2, g
  <2>5. QED BY <2>1, <2>2, <2>3, <2>4
<1>3. ASSUME NEW k \in 1..Len(g), ~(k <= Len(f))
      PROVE  /\ sec2[k] = n + 1 /\ off2[k] = k - Len(f) /\ off2[k] \in 1..Len(s)
             /\ g[k] = s[off2[k]]
  BY <1>1, <1>3
<1>4. DOMAIN sec2 = 1..Len(g) /\ DOMAIN off2 = 1..Len(g)
  OBVIOUS
<1> HIDE DEF sec2, off2, g
<1>5. ASSUME NEW k \in 1..Len(g)
      PROVE  /\ sec2[k] \in 1..(n + 1) /\ off2[k] \in 1..Len(ss[sec2[k]])
             /\ g[k] = ss[sec2[k]][off2[k]]
  <2>1. CASE k <= Len(f)
    <3>1. sec2[k] \in 1..n /\ off2[k] \in 1..Len(ss[sec2[k]]) /\ g[k] = ss[sec2[k]][off2[k]]
      BY <1>2, <2>1
    <3>2. \A i \in 1..n : i \in 1..(n + 1)
      OBVIOUS
    <3>3. QED BY <3>1, <3>2
  <2>2. CASE ~(k <= Len(f))
    BY <1>3, <2>2 DEF s
  <2>3. QED BY <2>1, <2>2
<1>6. ASSUME NEW k \in 1..Len(g), NEW l \in 1..Len(g), k < l
      PROVE  sec2[k] < sec2[l] \/ (sec2[k] = sec2[l] /\ off2[k] < off2[l])
  <2>1. CASE l <= Len(f)
    <3>1. k <= Len(f)
      BY <1>1, <1>6, <2>1
    <3>2. k \in 1..Len(f) /\ l \in 1..Len(f)
      BY <1>2, <2>1, <3>1
    <3>3. sec[k] < sec[l] \/ (sec[k] = sec[l] /\ off[k] < off[l])
      BY <1>6, <3>2 DEF Lists
    <3>4. QED BY <1>2, <2>1, <3>1, <3>3
  <2>2. CASE k <= Len(f) /\ ~(l <= Len(f))
    <3>1. sec2[k] \in 1..n /\ sec2[l] = n + 1
      BY <1>2, <1>3, <2>2
    <3>2. QED BY <3>1
  <2>3. CASE ~(k <= Len(f))
    <3>1. ~(l <= Len(f))
      BY <1>1, <1>6, <2>3
    <3>2. sec2[k] = n + 1 /\ sec2[l] = n + 1 /\ off2[k] = k - Len(f) /\ off2[l] = l - Len(f)
      BY <1>3, <2>3, <3>1
    <3>3. QED BY <1>1, <1>6, <3>2
  <2>4. QED BY <2>1, <2>2, <2>3
<1>7. ASSUME NEW i \in 1..(n + 1), NEW j \in 1..Len(ss[i])
      PROVE  \E k \in 1..Len(g) : sec2[k] = i /\ off2[k] = j
  <2>1. CASE i <= n
    <3>1. i \in 1..n
      BY <2>1
    <3>2. PICK k \in 1..Len(f) : sec[k] = i /\ off[k] = j
      BY <3>1 DEF Lists
    <3>3. k \in 1..Len(g) /\ k <= Len(f)
      BY <1>1
    <3>4. QED BY <1>2, <3>2, <3>3
  <2>2. CASE i = n + 1
    <3>1. /\ Len(f) + j \in 1..Len(g) /\ ~(Len(f) + j <= Len(f))
          /\ (Len(f) + j) - Len(f) = j
      BY <1>1, <2>2 DEF s
    <3>2. sec2[Len(f) + j] = i /\ off2[Len(f) + j] = j
      BY <1>3, <2>2, <3>1
    <3>3. QED BY <3>1, <3>2
  <2>3. i <= n \/ i = n + 1
    OBVIOUS
  <2>4. QED BY <2>1, <2>2, <2>3
<1>8. Lists(g, ss, n + 1, sec2, off2)
  BY <1>4, <1>5, <1>6, <1>7 DEF Lists
<1>9. QED BY <1>8 DEF g

\* FlattenSeq lists every element of every sequence, in order.
LEMMA FlattenLists ==
    ASSUME NEW S, NEW ss \in Seq(Seq(S))
    PROVE  /\ FlattenSeq(ss) \in Seq(S)
           /\ \E sec, off : Lists(FlattenSeq(ss), ss, Len(ss), sec, off)
<1>1. CASE Len(ss) = 0
  <2>1. FlattenSeq(ss) = <<>> /\ ss = <<>>
    BY <1>1 DEF FlattenSeq
  <2>2. Lists(<<>>, <<>>, 0, <<>>, <<>>)
    BY DEF Lists
  <2>3. QED BY <1>1, <2>1, <2>2
<1>2. CASE Len(ss) # 0
  <2> DEFINE N == Len(ss)
             Good(g) == g = [i \in 1..N |-> IF i = 1 THEN ss[i] ELSE g[i - 1] \o ss[i]]
             g == CHOOSE g : Good(g)
             P(m) == g[m] \in Seq(S) /\ \E sec, off : Lists(g[m], ss, m, sec, off)
             T == {m \in Nat : m \in 1..N => P(m)}
  <2>1. FlattenSeq(ss) = g[N]
    BY <1>2 DEF FlattenSeq
  <2>2. N \in Nat /\ N \in 1..N
    BY <1>2
  <2>3. \E x : Good(x)
    <3>1. N <= Len(ss)
      BY <2>2
    <3>2. QED BY <2>2, <3>1, FlattenDefined
  <2>4. Good(g)
    <3> HIDE DEF Good
    <3>1. QED BY <2>3
  <2>5. \A i \in 1..N : g[i] = IF i = 1 THEN ss[i] ELSE g[i - 1] \o ss[i]
    BY <2>4
  <2> HIDE DEF g
  <2>6. 0 \in T
    BY <2>2
  <2>7. ASSUME NEW m \in Nat, m \in T PROVE m + 1 \in T
    <3>1. ASSUME m + 1 \in 1..N PROVE P(m + 1)
      <4>1. CASE m = 0
        <5>1. g[1] = ss[1] /\ ss[1] \in Seq(S) /\ m + 1 = 1
          BY <2>2, <2>5, <4>1
        <5>2. QED BY <1>2, <5>1, ListsFirst
      <4>2. CASE m # 0
        <5>1. m \in 1..N /\ m + 1 # 1 /\ (m + 1) - 1 = m /\ m < N
          BY <2>2, <3>1, <4>2
        <5>2. P(m)
          BY <2>7, <5>1
        <5>3. PICK sec, off : Lists(g[m], ss, m, sec, off)
          BY <5>2
        <5>4. g[m + 1] = g[m] \o ss[m + 1] /\ ss[m + 1] \in Seq(S)
          <6>1. g[m + 1] = IF m + 1 = 1 THEN ss[m + 1] ELSE g[(m + 1) - 1] \o ss[m + 1]
            BY <2>5, <3>1
          <6>2. ss[m + 1] \in Seq(S)
            BY <3>1
          <6>3. QED BY <5>1, <6>1, <6>2
        <5>5. \E sec2, off2 : Lists(g[m] \o ss[m + 1], ss, m + 1, sec2, off2)
          BY <5>1, <5>2, <5>3, ListsNext
        <5>6. g[m] \o ss[m + 1] \in Seq(S)
          BY <5>2, <5>4
        <5>7. QED BY <5>4, <5>5, <5>6
      <4>3. QED BY <4>1, <4>2
    <3> HIDE DEF P
    <3>2. QED BY <3>1
  <2>8. N \in T
    <3> HIDE DEF T
    <3>1. QED BY <2>2, <2>6, <2>7, InductionOnASet
  <2>9. P(N)
    BY <2>2, <2>8
  <2>10. QED BY <2>1, <2>9
<1>3. QED BY <1>1, <1>2

\* What flattening returns, without the positions.
LEMMA FlattenElements ==
    ASSUME NEW S, NEW ss \in Seq(Seq(S))
    PROVE  /\ FlattenSeq(ss) \in Seq(S)
           /\ \A i \in DOMAIN ss : \A j \in DOMAIN ss[i] :
                \E k \in DOMAIN FlattenSeq(ss) : FlattenSeq(ss)[k] = ss[i][j]
           /\ \A k \in DOMAIN FlattenSeq(ss) :
                \E i \in DOMAIN ss : \E j \in DOMAIN ss[i] : FlattenSeq(ss)[k] = ss[i][j]
<1> DEFINE f == FlattenSeq(ss)
<1>1. f \in Seq(S) /\ \E sec, off : Lists(f, ss, Len(ss), sec, off)
  BY FlattenLists
<1> HIDE DEF f
<1>2. PICK sec, off : Lists(f, ss, Len(ss), sec, off)
  BY <1>1
<1>3. DOMAIN f = 1..Len(f) /\ DOMAIN ss = 1..Len(ss)
  BY <1>1
<1>4. ASSUME NEW i \in DOMAIN ss PROVE DOMAIN ss[i] = 1..Len(ss[i])
  OBVIOUS
<1>5. ASSUME NEW i \in DOMAIN ss, NEW j \in DOMAIN ss[i]
      PROVE  \E k \in DOMAIN f : f[k] = ss[i][j]
  <2>1. i \in 1..Len(ss) /\ j \in 1..Len(ss[i])
    BY <1>3, <1>4
  <2>2. PICK k \in 1..Len(f) : sec[k] = i /\ off[k] = j
    BY <1>2, <2>1 DEF Lists
  <2>3. k \in DOMAIN f /\ f[k] = ss[sec[k]][off[k]]
    BY <1>2, <1>3, <2>2 DEF Lists
  <2>4. QED BY <2>2, <2>3
<1>6. ASSUME NEW k \in DOMAIN f
      PROVE  \E i \in DOMAIN ss : \E j \in DOMAIN ss[i] : f[k] = ss[i][j]
  <2>1. /\ sec[k] \in DOMAIN ss /\ off[k] \in 1..Len(ss[sec[k]])
        /\ f[k] = ss[sec[k]][off[k]]
    BY <1>2, <1>3, <1>6 DEF Lists
  <2>2. off[k] \in DOMAIN ss[sec[k]]
    BY <1>4, <2>1
  <2>3. QED BY <2>1, <2>2
<1>7. QED BY <1>1, <1>5, <1>6 DEF f

\* Keep lists the elements of s that are in S, in order, each once: its k-th
\* element is the at[k]-th of s.
Picks(f, s, S, at) ==
    /\ DOMAIN at = DOMAIN f
    /\ \A k \in DOMAIN f : at[k] \in DOMAIN s /\ f[k] = s[at[k]] /\ f[k] \in S
    /\ \A k, l \in DOMAIN f : k < l => at[k] < at[l]
    /\ \A i \in DOMAIN s : s[i] \in S => \E k \in DOMAIN f : at[k] = i

LEMMA KeepPicks ==
    ASSUME NEW T, NEW s \in Seq(T), NEW S
    PROVE  Keep(s, S) \in Seq(T) /\ \E at : Picks(Keep(s, S), s, S, at)
<1> DEFINE ss == [i \in DOMAIN s |-> IF s[i] \in S THEN <<s[i]>> ELSE <<>>]
           f == FlattenSeq(ss)
<1>1. ss \in Seq(Seq(T)) /\ Len(ss) = Len(s) /\ DOMAIN s = 1..Len(s) /\ Len(s) \in Nat
  <2>1. \A i \in DOMAIN s : (IF s[i] \in S THEN <<s[i]>> ELSE <<>>) \in Seq(T)
    OBVIOUS
  <2>2. DOMAIN s = 1..Len(s) /\ Len(s) \in Nat
    OBVIOUS
  <2>3. ss \in [1..Len(s) -> Seq(T)]
    BY <2>1, <2>2
  <2>4. QED BY <2>2, <2>3, IsASeq, LenProperties
<1>2. \A i \in DOMAIN s : ss[i] = IF s[i] \in S THEN <<s[i]>> ELSE <<>>
  OBVIOUS
<1>3. \A i \in DOMAIN s : s[i] \in S => Len(ss[i]) = 1 /\ ss[i][1] = s[i]
  OBVIOUS
<1>4. \A i \in DOMAIN s : s[i] \notin S => Len(ss[i]) = 0
  OBVIOUS
<1>5. Keep(s, S) = f
  BY DEF Keep
<1> HIDE DEF ss
<1>6. f \in Seq(T) /\ \E sec, off : Lists(f, ss, Len(ss), sec, off)
  BY <1>1, FlattenLists
<1> HIDE DEF f
<1>7. PICK at, off : Lists(f, ss, Len(ss), at, off)
  BY <1>6
<1>8. DOMAIN f = 1..Len(f) /\ Len(f) \in Nat
  BY <1>6
<1>9. ASSUME NEW k \in DOMAIN f
      PROVE  at[k] \in DOMAIN s /\ f[k] = s[at[k]] /\ f[k] \in S /\ off[k] = 1
  <2>1. at[k] \in DOMAIN s /\ off[k] \in 1..Len(ss[at[k]]) /\ f[k] = ss[at[k]][off[k]]
    BY <1>1, <1>7, <1>8 DEF Lists
  <2>2. s[at[k]] \in S
    BY <1>4, <2>1
  <2>3. off[k] = 1
    BY <1>3, <2>1, <2>2
  <2>4. QED BY <1>3, <2>1, <2>2, <2>3
<1>10. ASSUME NEW k \in DOMAIN f, NEW l \in DOMAIN f, k < l PROVE at[k] < at[l]
  <2>1. at[k] < at[l] \/ (at[k] = at[l] /\ off[k] < off[l])
    BY <1>7, <1>8, <1>10 DEF Lists
  <2>2. off[k] = 1 /\ off[l] = 1
    BY <1>9
  <2>3. QED BY <2>1, <2>2
<1>11. ASSUME NEW i \in DOMAIN s, s[i] \in S PROVE \E k \in DOMAIN f : at[k] = i
  <2>1. i \in 1..Len(ss) /\ 1 \in 1..Len(ss[i])
    BY <1>1, <1>3, <1>11
  <2>2. PICK k \in 1..Len(f) : at[k] = i /\ off[k] = 1
    BY <1>7, <2>1 DEF Lists
  <2>3. QED BY <1>8, <2>2
<1>12. DOMAIN at = DOMAIN f
  BY <1>7, <1>8 DEF Lists
<1>13. Picks(f, s, S, at)
  BY <1>9, <1>10, <1>11, <1>12 DEF Picks
<1>14. QED BY <1>5, <1>6, <1>13

\* Keep without the positions.
LEMMA KeepElements ==
    ASSUME NEW T, NEW s \in Seq(T), NEW S
    PROVE  /\ Keep(s, S) \in Seq(T)
           /\ ToSet(Keep(s, S)) = ToSet(s) \cap S
           /\ IsInjective(s) => IsInjective(Keep(s, S))
<1> DEFINE f == Keep(s, S)
<1>1. f \in Seq(T) /\ \E at : Picks(f, s, S, at)
  BY KeepPicks
<1> HIDE DEF f
<1>2. PICK at : Picks(f, s, S, at)
  BY <1>1
<1>3. /\ \A k \in DOMAIN f : at[k] \in DOMAIN s /\ f[k] = s[at[k]] /\ f[k] \in S
      /\ \A k, l \in DOMAIN f : k < l => at[k] < at[l]
      /\ \A i \in DOMAIN s : s[i] \in S => \E k \in DOMAIN f : at[k] = i
  BY <1>2 DEF Picks
<1>4. ToSet(f) = ToSet(s) \cap S
  BY <1>3 DEF ToSet
<1>5. ASSUME IsInjective(s) PROVE IsInjective(f)
  <2> SUFFICES ASSUME NEW k \in DOMAIN f, NEW l \in DOMAIN f, f[k] = f[l] PROVE k = l
    BY DEF IsInjective
  <2>1. at[k] = at[l]
    BY <1>3, <1>5 DEF IsInjective
  <2>2. k \in Nat /\ l \in Nat /\ at[k] \in Nat /\ at[l] \in Nat
    BY <1>1, <1>3
  <2>3. ~(k < l) /\ ~(l < k)
    BY <1>3, <2>1, <2>2
  <2>4. QED BY <2>2, <2>3
<1>6. QED BY <1>1, <1>4, <1>5 DEF f

\* Flattening sequences without repetition that share no element gives one
\* without repetition.
LEMMA FlattenInjective ==
    ASSUME NEW S, NEW ss \in Seq(Seq(S)),
           \A i \in DOMAIN ss : IsInjective(ss[i]),
           \A i, j \in DOMAIN ss : i # j => ToSet(ss[i]) \cap ToSet(ss[j]) = {}
    PROVE  IsInjective(FlattenSeq(ss))
<1> DEFINE f == FlattenSeq(ss)
<1>1. f \in Seq(S) /\ \E sec, off : Lists(f, ss, Len(ss), sec, off)
  BY FlattenLists
<1> HIDE DEF f
<1>2. PICK sec, off : Lists(f, ss, Len(ss), sec, off)
  BY <1>1
<1>3. /\ DOMAIN f = 1..Len(f) /\ Len(f) \in Nat
      /\ DOMAIN ss = 1..Len(ss) /\ Len(ss) \in Nat
  BY <1>1
<1>4. ASSUME NEW i \in DOMAIN ss PROVE DOMAIN ss[i] = 1..Len(ss[i]) /\ Len(ss[i]) \in Nat
  OBVIOUS
<1>5. ASSUME NEW k \in DOMAIN f
      PROVE  sec[k] \in DOMAIN ss /\ off[k] \in DOMAIN ss[sec[k]] /\ f[k] = ss[sec[k]][off[k]]
  BY <1>2, <1>3, <1>4 DEF Lists
<1>6. ASSUME NEW k \in DOMAIN f, NEW l \in DOMAIN f, f[k] = f[l], k < l PROVE FALSE
  <2>1. sec[k] < sec[l] \/ (sec[k] = sec[l] /\ off[k] < off[l])
    BY <1>2, <1>3, <1>6 DEF Lists
  <2>2. f[k] \in ToSet(ss[sec[k]]) /\ f[k] \in ToSet(ss[sec[l]])
    BY <1>5, <1>6 DEF ToSet
  <2>3. sec[k] = sec[l]
    BY <1>5, <2>2
  <2>4. off[k] = off[l]
    BY <1>5, <1>6, <2>3 DEF IsInjective
  <2>5. /\ sec[k] \in DOMAIN ss /\ off[k] \in DOMAIN ss[sec[k]]
        /\ sec[l] \in DOMAIN ss /\ off[l] \in DOMAIN ss[sec[l]]
    BY <1>5
  <2>6. sec[k] \in Nat /\ sec[l] \in Nat
    BY <1>3, <2>5
  <2>7. off[k] \in Nat /\ off[l] \in Nat
    BY <1>4, <2>5
  <2>8. QED BY <2>1, <2>3, <2>4, <2>6, <2>7
<1>7. IsInjective(f)
  <2> SUFFICES ASSUME NEW k \in DOMAIN f, NEW l \in DOMAIN f, f[k] = f[l] PROVE k = l
    BY DEF IsInjective
  <2>1. k \in Nat /\ l \in Nat
    BY <1>3
  <2>2. ~(k < l) /\ ~(l < k)
    BY <1>6
  <2>3. QED BY <2>1, <2>2
<1>8. QED BY <1>7 DEF f

-----------------------------------------------------------------------------
(* Parts of a sequence, and sequences of a set *)

LEMMA ElementsInSet ==
    ASSUME NEW S, NEW s \in Seq(S)
    PROVE  \A i \in DOMAIN s : s[i] \in S
OBVIOUS

\* The rest of a sequence after its first n elements.
LEMMA RestElements ==
    ASSUME NEW S, NEW s \in Seq(S), NEW n \in 0..Len(s)
    PROVE  /\ SubSeq(s, n + 1, Len(s)) \in Seq(S)
           /\ Len(SubSeq(s, n + 1, Len(s))) = Len(s) - n
           /\ \A i \in 1..(Len(s) - n) : SubSeq(s, n + 1, Len(s))[i] = s[n + i]
           /\ ToSet(SubSeq(s, n + 1, Len(s))) = {s[i] : i \in (n + 1)..Len(s)}
<1> DEFINE r == SubSeq(s, n + 1, Len(s))
<1>1. Len(s) \in Nat /\ DOMAIN s = 1..Len(s)
  OBVIOUS
<1>2. /\ r \in Seq(S) /\ Len(r) = Len(s) - n
      /\ \A i \in 1..(Len(s) - n) : r[i] = s[n + i]
  <2> DEFINE L == Len(s)
  <2>1. n \in Int /\ L \in Int /\ 0 <= n /\ n <= L
    BY <1>1
  <2>2. \A i \in (n + 1)..L : s[i] \in S
    <3>1. \A i \in (n + 1)..L : i \in 1..L
      BY <2>1
    <3>2. QED BY <3>1
  <2>3. /\ SubSeq(s, n + 1, L) \in Seq(S)
        /\ Len(SubSeq(s, n + 1, L)) = IF n + 1 <= L THEN L - (n + 1) + 1 ELSE 0
        /\ \A i \in 1..(L - (n + 1) + 1) : SubSeq(s, n + 1, L)[i] = s[(n + 1) + i - 1]
    <3>1. n + 1 \in Int
      BY <2>1
    <3> HIDE DEF L
    <3>2. QED BY <2>1, <2>2, <3>1, SubSeqProperties
  <2>4. /\ (IF n + 1 <= L THEN L - (n + 1) + 1 ELSE 0) = L - n
        /\ L - (n + 1) + 1 = L - n
        /\ \A i \in 1..(L - n) : (n + 1) + i - 1 = n + i
    <3> HIDE DEF L
    <3>1. QED BY <2>1
  <2> HIDE DEF L
  <2>5. QED BY <2>3, <2>4 DEF L
<1> HIDE DEF r
<1>3. DOMAIN r = 1..(Len(s) - n)
  BY <1>2
<1>4. ToSet(r) = {s[i] : i \in (n + 1)..Len(s)}
  <2>1. \A i \in 1..(Len(s) - n) : n + i \in (n + 1)..Len(s)
    BY <1>1
  <2>2. \A i \in (n + 1)..Len(s) : i - n \in 1..(Len(s) - n) /\ n + (i - n) = i
    BY <1>1
  <2>3. \A i \in (n + 1)..Len(s) : r[i - n] = s[i]
    BY <1>2, <2>2
  <2>4. ToSet(r) = {r[i] : i \in 1..(Len(s) - n)}
    BY <1>3 DEF ToSet
  <2>5. ASSUME NEW i \in 1..(Len(s) - n)
        PROVE  r[i] \in {s[k] : k \in (n + 1)..Len(s)}
    <3>1. r[i] = s[n + i] /\ n + i \in (n + 1)..Len(s)
      BY <1>2, <2>1
    <3>2. QED BY <3>1
  <2>6. ASSUME NEW k \in (n + 1)..Len(s)
        PROVE  s[k] \in {r[i] : i \in 1..(Len(s) - n)}
    <3>1. r[k - n] = s[k] /\ k - n \in 1..(Len(s) - n)
      BY <2>2, <2>3
    <3>2. QED BY <3>1
  <2>7. QED BY <2>4, <2>5, <2>6
<1>5. QED BY <1>2, <1>4 DEF r

LEMMA RestOfInjective ==
    ASSUME NEW S, NEW s \in Seq(S), NEW n \in 0..Len(s), IsInjective(s)
    PROVE  /\ IsInjective(SubSeq(s, n + 1, Len(s)))
           /\ ToSet(SubSeq(s, n + 1, Len(s))) = ToSet(s) \ {s[i] : i \in 1..n}
<1> DEFINE r == SubSeq(s, n + 1, Len(s))
<1>1. Len(s) \in Nat /\ DOMAIN s = 1..Len(s)
  OBVIOUS
<1>2. /\ r \in Seq(S) /\ Len(r) = Len(s) - n
      /\ \A i \in 1..(Len(s) - n) : r[i] = s[n + i]
      /\ ToSet(r) = {s[i] : i \in (n + 1)..Len(s)}
  BY RestElements
<1> HIDE DEF r
<1>3. DOMAIN r = 1..(Len(s) - n)
  BY <1>2
<1>4. IsInjective(r)
  <2> SUFFICES ASSUME NEW i \in DOMAIN r, NEW j \in DOMAIN r, r[i] = r[j] PROVE i = j
    BY DEF IsInjective
  <2>1. n + i \in DOMAIN s /\ n + j \in DOMAIN s /\ s[n + i] = s[n + j]
    BY <1>1, <1>2, <1>3
  <2>2. n + i = n + j
    BY <2>1 DEF IsInjective
  <2>3. QED BY <1>1, <1>3, <2>2
<1>5. \A i \in 1..n, j \in (n + 1)..Len(s) : i \in DOMAIN s /\ j \in DOMAIN s /\ i # j
  BY <1>1
<1>6. \A i \in DOMAIN s : i \in 1..n \/ i \in (n + 1)..Len(s)
  BY <1>1
<1>7. ToSet(r) = ToSet(s) \ {s[i] : i \in 1..n}
  <2>1. \A i \in 1..n, j \in (n + 1)..Len(s) : s[i] # s[j]
    BY <1>5 DEF IsInjective
  <2>2. ToSet(r) \subseteq ToSet(s)
    <3>1. \A j \in (n + 1)..Len(s) : j \in DOMAIN s
      BY <1>1
    <3>2. QED BY <1>2, <3>1 DEF ToSet
  <2>3. ToSet(s) \subseteq {s[i] : i \in 1..n} \cup ToSet(r)
    BY <1>2, <1>6 DEF ToSet
  <2>4. ToSet(r) \cap {s[i] : i \in 1..n} = {}
    BY <1>2, <2>1
  <2>5. QED BY <2>2, <2>3, <2>4
<1>8. QED BY <1>4, <1>7 DEF r

\* The first n elements of a sequence.
LEMMA FrontElements ==
    ASSUME NEW S, NEW s \in Seq(S), NEW n \in 0..Len(s)
    PROVE  /\ SubSeq(s, 1, n) \in Seq(S)
           /\ ToSet(SubSeq(s, 1, n)) = {s[i] : i \in 1..n}
           /\ IsInjective(s) => IsInjective(SubSeq(s, 1, n))
<1> DEFINE r == SubSeq(s, 1, n)
<1>1. Len(s) \in Nat /\ DOMAIN s = 1..Len(s)
  OBVIOUS
<1>2. r \in Seq(S) /\ DOMAIN r = 1..n /\ \A i \in 1..n : r[i] = s[i]
  BY <1>1
<1> HIDE DEF r
<1>3. \A i \in 1..n : i \in DOMAIN s
  BY <1>1
<1>4. QED BY <1>2, <1>3 DEF r, ToSet, IsInjective

\* Two sequences without repetition and without a common element, joined.
LEMMA ConcatInjective ==
    ASSUME NEW S, NEW s \in Seq(S), NEW t \in Seq(S), IsInjective(s), IsInjective(t),
           ToSet(s) \cap ToSet(t) = {}
    PROVE  IsInjective(s \o t)
<1> DEFINE c == s \o t
<1>1. /\ c \in Seq(S) /\ Len(c) = Len(s) + Len(t) /\ Len(s) \in Nat /\ Len(t) \in Nat
      /\ \A i \in 1..(Len(s) + Len(t)) : c[i] = IF i <= Len(s) THEN s[i] ELSE t[i - Len(s)]
  OBVIOUS
<1> HIDE DEF c
<1>2. DOMAIN c = 1..Len(c) /\ DOMAIN s = 1..Len(s) /\ DOMAIN t = 1..Len(t)
  BY <1>1
<1>3. ASSUME NEW i \in DOMAIN c, i <= Len(s) PROVE i \in DOMAIN s /\ c[i] = s[i]
  BY <1>1, <1>2, <1>3
<1>4. ASSUME NEW i \in DOMAIN c, ~(i <= Len(s))
      PROVE  i - Len(s) \in DOMAIN t /\ c[i] = t[i - Len(s)]
  BY <1>1, <1>2, <1>4
<1>5. ASSUME NEW i \in DOMAIN c, NEW j \in DOMAIN c, c[i] = c[j] PROVE i = j
  <2>1. CASE i <= Len(s) /\ j <= Len(s)
    BY <1>3, <1>5, <2>1 DEF IsInjective
  <2>2. CASE ~(i <= Len(s)) /\ ~(j <= Len(s))
    <3>1. i - Len(s) = j - Len(s)
      BY <1>4, <1>5, <2>2 DEF IsInjective
    <3>2. QED BY <1>1, <1>2, <3>1
  <2>3. CASE i <= Len(s) /\ ~(j <= Len(s))
    BY <1>3, <1>4, <1>5, <2>3 DEF ToSet
  <2>4. CASE ~(i <= Len(s)) /\ j <= Len(s)
    BY <1>3, <1>4, <1>5, <2>4 DEF ToSet
  <2>5. QED BY <2>1, <2>2, <2>3, <2>4
<1>6. IsInjective(c)
  BY <1>5 DEF IsInjective
<1>7. QED BY <1>6 DEF c

LEMMA ConcatElements ==
    ASSUME NEW S, NEW s \in Seq(S), NEW t \in Seq(S)
    PROVE  s \o t \in Seq(S) /\ ToSet(s \o t) = ToSet(s) \cup ToSet(t)
<1> DEFINE c == s \o t
<1>1. /\ c \in Seq(S) /\ Len(c) = Len(s) + Len(t) /\ Len(s) \in Nat /\ Len(t) \in Nat
      /\ \A i \in 1..(Len(s) + Len(t)) : c[i] = IF i <= Len(s) THEN s[i] ELSE t[i - Len(s)]
  OBVIOUS
<1> HIDE DEF c
<1>2. DOMAIN c = 1..Len(c) /\ DOMAIN s = 1..Len(s) /\ DOMAIN t = 1..Len(t)
  BY <1>1
<1>3. ASSUME NEW i \in DOMAIN s PROVE i \in DOMAIN c /\ c[i] = s[i]
  BY <1>1, <1>2
<1>4. ASSUME NEW i \in DOMAIN t
      PROVE  i + Len(s) \in DOMAIN c /\ c[i + Len(s)] = t[i]
  <2>1. i + Len(s) \in DOMAIN c /\ ~(i + Len(s) <= Len(s)) /\ (i + Len(s)) - Len(s) = i
    BY <1>1, <1>2
  <2>2. QED BY <1>1, <1>2, <2>1
<1>5. ASSUME NEW i \in DOMAIN c PROVE c[i] \in ToSet(s) \cup ToSet(t)
  <2>1. CASE i <= Len(s)
    BY <1>1, <1>2, <2>1 DEF ToSet
  <2>2. CASE ~(i <= Len(s))
    <3>1. i - Len(s) \in DOMAIN t /\ c[i] = t[i - Len(s)]
      BY <1>1, <1>2, <2>2
    <3>2. QED BY <3>1 DEF ToSet
  <2>3. QED BY <2>1, <2>2
<1>6. ToSet(c) = ToSet(s) \cup ToSet(t)
  BY <1>3, <1>4, <1>5 DEF ToSet
<1>7. QED BY <1>1, <1>6 DEF c

\* A sequence of the elements of a finite set lists each of them once.
LEMMA SequencesOfASet ==
    ASSUME NEW S, IsFiniteSet(S), NEW s \in SetToSeqs(S)
    PROVE  s \in Seq(S) /\ ToSet(s) = S /\ IsInjective(s)
<1> DEFINE D == 1..Cardinality(S)
<1>1. Cardinality(S) \in Nat
  BY FS_CardinalityType
<1>2. s \in [D -> S] /\ \A i, j \in D : i # j => s[i] # s[j]
  BY DEF SetToSeqs
<1>3. s \in Seq(S) /\ DOMAIN s = D
  BY <1>1, <1>2
<1>4. IsInjective(s)
  BY <1>2, <1>3 DEF IsInjective
<1>5. ToSet(s) = S
  <2>1. IsFiniteSet(D) /\ Cardinality(D) = Cardinality(S)
    BY <1>1, FS_Interval
  <2>2. s \in Injection(D, S)
    BY <1>2 DEF Injection, IsInjective
  <2>3. s \in Surjection(D, S)
    BY <2>1, <2>2, FS_Injection
  <2>4. QED BY <1>2, <1>3, <2>3 DEF Surjection, ToSet
<1>6. QED BY <1>3, <1>4, <1>5

\* The elements of a sequence with one more at its end.
LEMMA AppendedElements ==
    ASSUME NEW S, NEW seq \in Seq(S), NEW e \in S
    PROVE  ToSet(Append(seq, e)) = ToSet(seq) \cup {e}
<1> DEFINE t == Append(seq, e)
           n == Len(seq)
<1>1. n \in Nat /\ DOMAIN seq = 1..n /\ DOMAIN t = 1..(n + 1)
    OBVIOUS
<1>2. (\A k \in 1..n : t[k] = seq[k]) /\ t[n + 1] = e
    OBVIOUS
<1> HIDE DEF t, n
<1>3. 1..(n + 1) = (1..n) \cup {n + 1}
    BY <1>1
<1>4. {t[k] : k \in DOMAIN t} = {seq[k] : k \in DOMAIN seq} \cup {e}
    BY <1>1, <1>2, <1>3
<1>5. QED
    BY <1>4 DEF ToSet, t

\* The first element of a sequence, and the others.
LEMMA HeadAndTail ==
    ASSUME NEW S, NEW s \in Seq(S), s # <<>>
    PROVE  ToSet(s) = {Head(s)} \cup ToSet(Tail(s))
<1> DEFINE t == Tail(s)
<1>1. /\ DOMAIN t = 1..(Len(s) - 1) /\ DOMAIN s = 1..Len(s) /\ Len(s) \in Nat /\ Len(s) # 0
      /\ \A i \in 1..(Len(s) - 1) : t[i] = s[i + 1]
      /\ Head(s) = s[1]
  OBVIOUS
<1> HIDE DEF t
<1>2. 1 \in DOMAIN s
  BY <1>1
<1>3. \A i \in DOMAIN t : i + 1 \in DOMAIN s /\ t[i] = s[i + 1]
  BY <1>1
<1>4. \A i \in DOMAIN s : i = 1 \/ (i - 1 \in DOMAIN t /\ t[i - 1] = s[i])
  BY <1>1
<1>5. {s[i] : i \in DOMAIN s} = {s[1]} \cup {t[i] : i \in DOMAIN t}
  BY <1>2, <1>3, <1>4
<1>6. QED BY <1>1, <1>5 DEF ToSet, t
=============================================================================
