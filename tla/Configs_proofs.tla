--------------------------- MODULE Configs_proofs ---------------------------
(***************************************************************************)
(* Table, files, list, rows and service agree, for any number of names,    *)
(* ids and actions.                                                        *)
(***************************************************************************)
EXTENDS Configs, FiniteSetTheorems, SequenceTheorems, TLAPS

\* What refreshConfigs and findConfigsInDir work on.
Store == [table : [Ids -> Names \cup {0}], myList : Seq(Entries), born : Nat,
          checksum : [Ids -> Names \cup {0}], allowed : BOOLEAN]

OneRowPerName(t) == \A i, j \in Used(t) : t[i] = t[j] => i = j

\* No two entries have an id or a number in common.
Distinct(list) ==
    \A k, l \in 1 .. Len(list) :
       list[k].id = list[l].id \/ list[k].no = list[l].no => k = l
MadeBefore(list, made) == \A k \in 1 .. Len(list) : list[k].no <= made

\* An entry has the name of its row, unless the row has gone.
Follows(list, t) == \A k \in 1 .. Len(list) : t[list[k].id] \in {0, list[k].name}

Good(s) ==
    /\ s \in Store
    /\ OneRowPerName(s.table)
    /\ Distinct(s.myList)
    /\ MadeBefore(s.myList, s.born)
    /\ Follows(s.myList, s.table)

\* The list is the table, sorted.
Mirrors(list, t) ==
    /\ \A i \in Used(t) : \E k \in 1 .. Len(list) : list[k].id = i
    /\ \A k \in 1 .. Len(list) : t[list[k].id] = list[k].name
    /\ \A k, l \in 1 .. Len(list) : k < l => list[k].name < list[l].name

-----------------------------------------------------------------------------
\* Numbers, and sets of them in order.

\* Induction, as the principle of the least number.
LEMMA LeastNat ==
    ASSUME NEW T, T \subseteq Nat, T # {}
    PROVE  \E n \in T : \A m \in T : n <= m
<1> DEFINE R == {ss \in Nat \X Nat : ss[1] < ss[2]}
<1>1. IsWellFoundedOn(R, Nat)
  BY NatLessThanWellFounded DEF OpToRel
<1>2. PICK n \in T : \A m \in T : <<m, n>> \notin R
  <2> HIDE DEF R
  <2> QED BY <1>1, WFMin
<1>3. \A m \in T : n <= m
  <2> SUFFICES ASSUME NEW m \in T PROVE n <= m
    OBVIOUS
  <2>1. m \in Nat /\ n \in Nat
    OBVIOUS
  <2>2. ~(m < n)
    BY <1>2, <2>1
  <2> QED BY <2>1, <2>2
<1> QED BY <1>3

\* How many members of S there are up to p.
Rank(S, p) == Cardinality({m \in S : m <= p})

LEMMA RankType ==
    ASSUME NEW S, S \subseteq Nat, IsFiniteSet(S), NEW p \in Int
    PROVE  /\ IsFiniteSet({m \in S : m <= p})
           /\ Rank(S, p) \in Nat /\ Rank(S, p) <= Cardinality(S)
           /\ Cardinality(S) \in Nat
<1>1. {m \in S : m <= p} \in SUBSET S
  OBVIOUS
<1> QED BY <1>1, FS_Subset, FS_CardinalityType DEF Rank

LEMMA RankGrows ==
    ASSUME NEW S, S \subseteq Nat, IsFiniteSet(S), NEW p \in S, NEW q \in S, p < q
    PROVE  Rank(S, p) < Rank(S, q)
<1> DEFINE A == {m \in S : m <= p}
           B == {m \in S : m <= q}
<1>0. p \in Int /\ q \in Int
  OBVIOUS
<1>1. IsFiniteSet(B) /\ Rank(S, p) \in Nat /\ Rank(S, q) \in Nat
  BY <1>0, RankType
<1>2. A \in SUBSET B
  <2>1. \A m \in S : m \in Int /\ (m <= p => m <= q)
    BY <1>0
  <2> QED BY <2>1
<1>3. q \in B /\ q \notin A
  BY <1>0
<1>4. Cardinality(A) <= Cardinality(B) /\ Cardinality(A) # Cardinality(B)
  <2> HIDE DEF A, B
  <2> QED BY <1>1, <1>2, <1>3, FS_Subset
<1> QED BY <1>1, <1>4 DEF Rank

LEMMA RankOnto ==
    ASSUME NEW S, S \subseteq Nat, IsFiniteSet(S)
    PROVE  /\ Cardinality(S) \in Nat
           /\ \A p \in S : Rank(S, p) \in 1 .. Cardinality(S)
           /\ \A p, q \in S : Rank(S, p) = Rank(S, q) => p = q
           /\ \A k \in 1 .. Cardinality(S) : \E p \in S : Rank(S, p) = k
<1> DEFINE c == Cardinality(S)
           f == [p \in S |-> Rank(S, p)]
<1>1. c \in Nat
  BY FS_CardinalityType
<1>2. ASSUME NEW p \in S PROVE Rank(S, p) \in 1 .. c
  <2>1. p \in Int
    OBVIOUS
  <2>2. Rank(S, p) \in Nat /\ Rank(S, p) <= c /\ IsFiniteSet({m \in S : m <= p})
    BY <2>1, RankType
  <2>3. p \in {m \in S : m <= p}
    BY <2>1
  <2>4. Rank(S, p) # 0
    BY <2>2, <2>3, FS_EmptySet DEF Rank
  <2> QED BY <1>1, <2>2, <2>4
<1>3. ASSUME NEW p \in S, NEW q \in S, Rank(S, p) = Rank(S, q) PROVE p = q
  <2>1. p \in Nat /\ q \in Nat /\ Rank(S, p) \in Nat /\ Rank(S, q) \in Nat
    BY <1>2
  <2>2. p < q => Rank(S, p) < Rank(S, q)
    BY RankGrows
  <2>3. q < p => Rank(S, q) < Rank(S, p)
    BY RankGrows
  <2> QED BY <1>3, <2>1, <2>2, <2>3
<1>4. f \in [S -> 1 .. c] /\ \A a, b \in S : f[a] = f[b] => a = b
  BY <1>2, <1>3
<1>5. IsFiniteSet(1 .. c) /\ Cardinality(1 .. c) = c
  <2>1. 1 \in Int /\ c \in Int
    BY <1>1
  <2>2. IsFiniteSet(1 .. c) /\ Cardinality(1 .. c) = IF 1 > c THEN 0 ELSE c - 1 + 1
    BY <2>1, FS_Interval
  <2> QED BY <1>1, <2>2
<1>6. \A k \in 1 .. c : \E p \in S : f[p] = k
  <2> DEFINE I == 1 .. c
  <2>1. IsFiniteSet(I) /\ Cardinality(S) = Cardinality(I) /\ f \in [S -> I]
    BY <1>4, <1>5
  <2>2. f \in Injection(S, I)
    BY <1>4, <2>1 DEF Injection, IsInjective
  <2> HIDE DEF f, I
  <2>3. f \in Surjection(S, I)
    BY <2>1, <2>2, FS_Injection
  <2>4. \A k \in I : \E p \in S : f[p] = k
    BY <2>3 DEF Surjection
  <2> QED BY <2>4 DEF I
<1> QED BY <1>1, <1>2, <1>3, <1>6

\* InOrder lists the members of S one by one, in ascending order.
LEMMA InOrderLists ==
    ASSUME NEW S, S \subseteq Nat, IsFiniteSet(S)
    PROVE  /\ Cardinality(S) \in Nat
           /\ InOrder(S) \in [1 .. Cardinality(S) -> S]
           /\ \A k \in 1 .. Cardinality(S) : Rank(S, InOrder(S)[k]) = k
           /\ \A p \in S : Rank(S, p) \in 1 .. Cardinality(S) /\ InOrder(S)[Rank(S, p)] = p
<1>1. /\ Cardinality(S) \in Nat
      /\ \A p \in S : Rank(S, p) \in 1 .. Cardinality(S)
      /\ \A p, q \in S : Rank(S, p) = Rank(S, q) => p = q
      /\ \A k \in 1 .. Cardinality(S) : \E p \in S : Rank(S, p) = k
  BY RankOnto
<1>2. InOrder(S) = [k \in 1 .. Cardinality(S) |-> CHOOSE i \in S : Rank(S, i) = k]
  BY DEF InOrder, Rank
<1>3. ASSUME NEW k \in 1 .. Cardinality(S)
      PROVE  InOrder(S)[k] \in S /\ Rank(S, InOrder(S)[k]) = k
  <2>1. InOrder(S)[k] = CHOOSE i \in S : Rank(S, i) = k
    BY <1>2
  <2>2. \E i \in S : Rank(S, i) = k
    BY <1>1
  <2> QED BY <2>1, <2>2
<1>4. InOrder(S) \in [1 .. Cardinality(S) -> S]
  BY <1>2, <1>3
<1>5. \A p \in S : InOrder(S)[Rank(S, p)] = p
  BY <1>1, <1>3
<1> QED BY <1>1, <1>3, <1>4, <1>5

-----------------------------------------------------------------------------
\* What refreshConfigs makes of the list.

LEMMA NamesAreNumbers ==
    /\ \A name \in Names : name \in Nat /\ name # 0
    /\ MaxId \in Nat /\ Ids \subseteq Nat /\ IsFiniteSet(Ids)
    /\ \A e \in Entries : e.id \in Ids /\ e.name \in Names /\ e.name \in Nat /\ e.no \in Nat /\ e.no # 0
<1>1. IsFiniteSet(1 .. MaxId)
  BY ConfigsAssumption, FS_Interval
<1>2. \A name \in Names : name \in Nat /\ name # 0
  BY ConfigsAssumption
<1>3. MaxId \in Nat /\ Ids \subseteq Nat /\ IsFiniteSet(Ids)
  BY <1>1, ConfigsAssumption DEF Ids
<1>4. \A e \in Entries : e.id \in Ids /\ e.name \in Names /\ e.no \in Nat /\ e.no # 0
  BY DEF Entries
<1> QED BY <1>2, <1>3, <1>4

\* Sorting moves the entries to other places.
LEMMA SortedByNameSorts ==
    ASSUME NEW list \in Seq(Entries),
           \A k, l \in 1 .. Len(list) : list[k].name = list[l].name => k = l
    PROVE  \E p \in [1 .. Len(list) -> 1 .. Len(list)] :
              /\ SortedByName(list) = [n \in 1 .. Len(list) |-> list[p[n]]]
              /\ \A m, n \in 1 .. Len(list) : p[m] = p[n] => m = n
              /\ \A k \in 1 .. Len(list) : \E n \in 1 .. Len(list) : p[n] = k
              /\ \A m, n \in 1 .. Len(list) : m < n => list[p[m]].name < list[p[n]].name
<1> DEFINE D == 1 .. Len(list)
           Upto(k) == {m \in D : list[m].name <= list[k].name}
           f == [k \in D |-> Cardinality(Upto(k))]
<1>1. Len(list) \in Nat /\ \A k \in D : list[k] \in Entries /\ list[k].name \in Nat
  BY NamesAreNumbers
<1>2. IsFiniteSet(D) /\ Cardinality(D) = Len(list)
  <2>1. 1 \in Int /\ Len(list) \in Int
    BY <1>1
  <2>2. IsFiniteSet(D) /\ Cardinality(D) = IF 1 > Len(list) THEN 0 ELSE Len(list) - 1 + 1
    BY <2>1, FS_Interval
  <2> QED BY <1>1, <2>2
<1>3. ASSUME NEW k \in D PROVE SortedPlace(list, k) = Cardinality(Upto(k))
  <2>1. {m \in D : list[m].name < list[k].name} \cup {m \in 1 .. k : list[m].name = list[k].name} = Upto(k)
    <3>1. 1 .. k \subseteq D
      BY <1>1
    <3>2. \A m \in D : list[m].name = list[k].name => m = k
      OBVIOUS
    <3>3. k \in 1 .. k
      BY <1>1
    <3>4. \A m \in D : list[m].name <= list[k].name <=> list[m].name < list[k].name \/ m = k
      BY <1>1, <3>2
    <3> QED BY <3>1, <3>2, <3>3, <3>4
  <2> QED BY <2>1 DEF SortedPlace
<1>4. ASSUME NEW k \in D
      PROVE  IsFiniteSet(Upto(k)) /\ Cardinality(Upto(k)) \in D
  <2>1. Upto(k) \in SUBSET D /\ k \in Upto(k)
    BY <1>1
  <2> HIDE DEF Upto
  <2>2. IsFiniteSet(Upto(k)) /\ Cardinality(Upto(k)) <= Len(list)
    BY <1>2, <2>1, FS_Subset
  <2>3. Cardinality(Upto(k)) \in Nat /\ Cardinality(Upto(k)) # 0
    BY <2>1, <2>2, FS_CardinalityType, FS_EmptySet
  <2> QED BY <1>1, <2>2, <2>3
<1>5. ASSUME NEW k \in D, NEW l \in D, list[k].name < list[l].name
      PROVE  Cardinality(Upto(k)) < Cardinality(Upto(l))
  <2>1. Upto(k) \in SUBSET Upto(l)
    <3>1. \A m \in D : list[m].name <= list[k].name => list[m].name <= list[l].name
      BY <1>1, <1>5
    <3> QED BY <3>1
  <2>2. l \in Upto(l) /\ l \notin Upto(k)
    BY <1>1, <1>5
  <2>3. IsFiniteSet(Upto(l)) /\ Cardinality(Upto(l)) \in Nat /\ Cardinality(Upto(k)) \in Nat
    <3> HIDE DEF Upto
    <3>1. \A n \in D : n \in Nat
      BY <1>1
    <3> QED BY <1>4, <3>1
  <2> HIDE DEF Upto
  <2>4. Cardinality(Upto(k)) <= Cardinality(Upto(l)) /\ Cardinality(Upto(k)) # Cardinality(Upto(l))
    BY <2>1, <2>2, <2>3, FS_Subset
  <2> QED BY <2>3, <2>4
<1> HIDE DEF Upto
<1>6. f \in Injection(D, D)
  <2>1. f \in [D -> D]
    BY <1>4
  <2>2. ASSUME NEW k \in D, NEW l \in D, f[k] = f[l] PROVE k = l
    <3>1. f[k] = Cardinality(Upto(k)) /\ f[l] = Cardinality(Upto(l)) /\ f[k] \in Nat /\ f[l] \in Nat
      BY <1>1, <1>4
    <3>2. list[k].name < list[l].name => f[k] < f[l]
      BY <1>5, <3>1
    <3>3. list[l].name < list[k].name => f[l] < f[k]
      BY <1>5, <3>1
    <3>4. list[k].name = list[l].name
      BY <1>1, <2>2, <3>1, <3>2, <3>3
    <3> QED BY <3>4
  <2> QED BY <2>1, <2>2 DEF Injection, IsInjective
<1> HIDE DEF D, f
<1>7. f \in Surjection(D, D)
  BY <1>2, <1>6, FS_Injection
<1>8. /\ f \in [D -> D]
      /\ \A k, l \in D : f[k] = f[l] => k = l
      /\ \A n \in D : \E k \in D : f[k] = n
  BY <1>6, <1>7 DEF Injection, IsInjective, Surjection
<1> DEFINE p == [n \in D |-> CHOOSE k \in D : f[k] = n]
<1>9. ASSUME NEW n \in D PROVE p[n] \in D /\ f[p[n]] = n
  BY <1>8
<1>10. SortedByName(list) = [n \in D |-> list[p[n]]]
  <2>1. \A k \in D : SortedPlace(list, k) = f[k]
    BY <1>3 DEF f, D
  <2>2. \A n \in D : (CHOOSE k \in D : SortedPlace(list, k) = n) = CHOOSE k \in D : f[k] = n
    BY <2>1
  <2>3. SortedByName(list) = [n \in D |-> list[CHOOSE k \in D : SortedPlace(list, k) = n]]
    BY DEF SortedByName, D
  <2> QED BY <2>2, <2>3
<1>11. p \in [D -> D]
  BY <1>9
<1>12. \A m, n \in D : p[m] = p[n] => m = n
  BY <1>9
<1>13. \A k \in D : \E n \in D : p[n] = k
  <2> SUFFICES ASSUME NEW k \in D PROVE \E n \in D : p[n] = k
    OBVIOUS
  <2>1. f[k] \in D /\ f[p[f[k]]] = f[k] /\ p[f[k]] \in D
    BY <1>8, <1>9
  <2> HIDE DEF p
  <2>2. p[f[k]] = k
    BY <1>8, <2>1
  <2> QED BY <2>1, <2>2
<1>14. \A m, n \in D : m < n => list[p[m]].name < list[p[n]].name
  <2> SUFFICES ASSUME NEW m \in D, NEW n \in D, m < n PROVE list[p[m]].name < list[p[n]].name
    OBVIOUS
  <2>1. p[m] \in D /\ p[n] \in D /\ f[p[m]] = m /\ f[p[n]] = n
    BY <1>9
  <2> HIDE DEF p
  <2>2. m \in Nat /\ n \in Nat /\ list[p[m]].name \in Nat /\ list[p[n]].name \in Nat
    BY <1>1, <2>1 DEF D
  <2>3. m = Cardinality(Upto(p[m])) /\ n = Cardinality(Upto(p[n]))
    BY <2>1 DEF f
  <2>4. list[p[n]].name < list[p[m]].name => Cardinality(Upto(p[n])) < Cardinality(Upto(p[m]))
    BY <1>5, <2>1
  <2>5. list[p[m]].name # list[p[n]].name
    <3>1. list[p[m]].name = list[p[n]].name => p[m] = p[n]
      BY <2>1 DEF D
    <3> QED BY <2>1, <2>2, <3>1
  <2> QED BY <2>2, <2>3, <2>4, <2>5
<1> HIDE DEF p
<1> QED BY <1>10, <1>11, <1>12, <1>13, <1>14 DEF D

LEMMA PickedLists ==
    ASSUME NEW E, NEW list \in Seq(E), NEW S \in SUBSET (1 .. Len(list))
    PROVE  /\ S \subseteq Nat /\ IsFiniteSet(S) /\ Cardinality(S) \in Nat
           /\ Picked(list, S) \in Seq(E) /\ Len(Picked(list, S)) = Cardinality(S)
           /\ \A k \in 1 .. Cardinality(S) :
                 InOrder(S)[k] \in S /\ Picked(list, S)[k] = list[InOrder(S)[k]]
<1>1. Len(list) \in Nat /\ \A k \in 1 .. Len(list) : list[k] \in E
  OBVIOUS
<1>2. IsFiniteSet(1 .. Len(list))
  BY <1>1, FS_Interval
<1>3. S \subseteq Nat /\ IsFiniteSet(S)
  <2>1. S \subseteq Nat
    BY <1>1
  <2>2. S \in SUBSET (1 .. Len(list))
    OBVIOUS
  <2> QED BY <1>2, <2>1, <2>2, FS_Subset
<1>4. Cardinality(S) \in Nat /\ InOrder(S) \in [1 .. Cardinality(S) -> S]
  BY <1>3, InOrderLists
<1>5. \A k \in 1 .. Cardinality(S) : InOrder(S)[k] \in S /\ list[InOrder(S)[k]] \in E
  BY <1>1, <1>4
<1>6. Picked(list, S) \in [1 .. Cardinality(S) -> E]
  BY <1>5 DEF Picked
<1>7. Picked(list, S) \in Seq(E) /\ Len(Picked(list, S)) = Cardinality(S)
  BY <1>4, <1>6
<1> QED BY <1>3, <1>4, <1>5, <1>7 DEF Picked

\* The loop over the list, entry by entry.
Pops(list, ids, popped, k) ==
    IF popped < Len(ids) /\ ids[popped + 1] = list[k].id THEN popped + 1 ELSE popped

LEMMA RemovalsDefined ==
    ASSUME NEW list, NEW ids, Len(list) \in Nat
    PROVE  /\ removals(list, ids)[0] = 0
           /\ \A k \in 1 .. Len(list) :
                 removals(list, ids)[k] = Pops(list, ids, removals(list, ids)[k - 1], k)
<1> DEFINE Is(g, n) == g = [k \in 0 .. n |-> IF k = 0 THEN 0 ELSE Pops(list, ids, g[k - 1], k)]
           T == {n \in Nat : ~\E g : Is(g, n)}
<1>1. T = {}
  <2> SUFFICES ASSUME T # {} PROVE FALSE
    OBVIOUS
  <2>1. T \subseteq Nat
    OBVIOUS
  <2>2. PICK n \in T : \A m \in T : n <= m
    <3> HIDE DEF T
    <3> QED BY <2>1, LeastNat
  <2>3. n \in Nat
    OBVIOUS
  <2>4. CASE n = 0
    <3>1. 0 .. n = {0}
      BY <2>4
    <3>2. Is([k \in 0 .. n |-> 0], n)
      BY <3>1
    <3> QED BY <3>2
  <2>5. CASE n # 0
    <3>1. n - 1 \in Nat /\ n - 1 \notin T
      <4> HIDE DEF T
      <4> QED BY <2>2, <2>3, <2>5
    <3>2. PICK g : Is(g, n - 1)
      BY <3>1
    <3> DEFINE h == [k \in 0 .. n |-> IF k = n THEN Pops(list, ids, g[n - 1], n) ELSE g[k]]
    <3>3. \A k \in 0 .. n - 1 : h[k] = g[k]
      BY <2>3
    <3>4. \A k \in 0 .. n - 1 : g[k] = IF k = 0 THEN 0 ELSE Pops(list, ids, g[k - 1], k)
      BY <3>2
    <3>5. \A k \in 0 .. n : h[k] = IF k = 0 THEN 0 ELSE Pops(list, ids, h[k - 1], k)
      <4> SUFFICES ASSUME NEW k \in 0 .. n
                   PROVE  h[k] = IF k = 0 THEN 0 ELSE Pops(list, ids, h[k - 1], k)
        OBVIOUS
      <4>1. CASE k = n
        <5>1. h[k] = Pops(list, ids, g[n - 1], n) /\ n - 1 \in 0 .. n - 1
          BY <2>3, <3>1, <4>1
        <5> HIDE DEF h
        <5> QED BY <2>5, <3>3, <4>1, <5>1
      <4>2. CASE k = 0
        <5> HIDE DEF h
        <5>1. 0 \in 0 .. n - 1
          BY <3>1
        <5> QED BY <3>3, <3>4, <4>2, <5>1
      <4>3. CASE k # n /\ k # 0
        <5>1. k \in 0 .. n - 1 /\ k - 1 \in 0 .. n - 1
          BY <2>3, <4>3
        <5> HIDE DEF h
        <5>2. h[k] = g[k] /\ h[k - 1] = g[k - 1]
          BY <3>3, <5>1
        <5> QED BY <3>4, <4>3, <5>1, <5>2
      <4> QED BY <4>1, <4>2, <4>3
    <3>6. Is(h, n)
      BY <3>5
    <3> QED BY <3>6
  <2> QED BY <2>4, <2>5
<1>2. \E g : Is(g, Len(list))
  BY <1>1
<1>3. removals(list, ids) = CHOOSE g : Is(g, Len(list))
  BY DEF removals, Pops
<1>4. Is(removals(list, ids), Len(list))
  BY <1>2, <1>3
<1> QED
  <2>1. \A k \in 0 .. Len(list) :
          removals(list, ids)[k] = IF k = 0 THEN 0 ELSE Pops(list, ids, removals(list, ids)[k - 1], k)
    BY <1>4
  <2> QED BY <2>1

LEMMA RankSteps ==
    ASSUME NEW S, S \subseteq Nat \ {0}, IsFiniteSet(S)
    PROVE  /\ Rank(S, 0) = 0
           /\ \A k \in Nat \ {0} :
                 Rank(S, k) = IF k \in S THEN Rank(S, k - 1) + 1 ELSE Rank(S, k - 1)
<1>0. S \subseteq Nat /\ \A m \in S : m \in Nat /\ m # 0
  OBVIOUS
<1>1. Rank(S, 0) = 0
  <2>1. {m \in S : m <= 0} = {}
    <3>1. \A m \in S : ~(m <= 0)
      BY <1>0
    <3> QED BY <3>1
  <2> QED BY <2>1, FS_EmptySet DEF Rank
<1>2. ASSUME NEW k \in Nat \ {0}
      PROVE  Rank(S, k) = IF k \in S THEN Rank(S, k - 1) + 1 ELSE Rank(S, k - 1)
  <2>1. IsFiniteSet({m \in S : m <= k - 1})
    <3>1. k - 1 \in Int
      OBVIOUS
    <3> QED BY <1>0, <3>1, RankType
  <2>2. \A m \in S : m <= k <=> m <= k - 1 \/ m = k
    BY <1>0
  <2>3. CASE k \in S
    <3>1. {m \in S : m <= k} = {m \in S : m <= k - 1} \cup {k}
      BY <2>3, <2>2
    <3>2. k \notin {m \in S : m <= k - 1}
      OBVIOUS
    <3> QED BY <2>1, <2>3, <3>1, <3>2, FS_AddElement DEF Rank
  <2>4. CASE k \notin S
    <3>1. {m \in S : m <= k} = {m \in S : m <= k - 1}
      BY <2>4, <2>2
    <3> QED BY <2>4, <3>1 DEF Rank
  <2> QED BY <2>3, <2>4
<1> QED BY <1>1, <1>2

\* The pass that deletes finds exactly the entries without a row, although it
\* only looks at the first id that is left.
LEMMA DropsThem ==
    ASSUME NEW t, NEW all \in Seq(Entries),
           \A k, l \in 1 .. Len(all) : all[k].id = all[l].id => k = l
    PROVE  dropRemoved(all, RemovedIds(t, all))
             = Picked(all, {k \in 1 .. Len(all) : t[all[k].id] # 0})
<1> DEFINE n == Len(all)
           R == {k \in 1 .. n : t[all[k].id] = 0}
           ids == RemovedIds(t, all)
           popped == removals(all, ids)
           idSeq == [k \in 1 .. n |-> all[k].id]
<1>1. n \in Nat /\ R \subseteq 1 .. n
  OBVIOUS
<1>2. idSeq \in Seq(Ids) /\ Len(idSeq) = n
  BY <1>1, NamesAreNumbers
<1>3. /\ R \subseteq Nat /\ IsFiniteSet(R) /\ Cardinality(R) \in Nat
      /\ ids \in Seq(Ids) /\ Len(ids) = Cardinality(R)
      /\ \A k \in 1 .. Cardinality(R) : InOrder(R)[k] \in R /\ ids[k] = idSeq[InOrder(R)[k]]
  <2>1. ids = Picked(idSeq, R) /\ R \in SUBSET (1 .. Len(idSeq))
    BY <1>1, <1>2 DEF RemovedIds
  <2> HIDE DEF R, ids, idSeq
  <2>2. /\ R \subseteq Nat /\ IsFiniteSet(R) /\ Cardinality(R) \in Nat
        /\ Picked(idSeq, R) \in Seq(Ids) /\ Len(Picked(idSeq, R)) = Cardinality(R)
        /\ \A k \in 1 .. Cardinality(R) :
              InOrder(R)[k] \in R /\ Picked(idSeq, R)[k] = idSeq[InOrder(R)[k]]
    BY <1>2, <2>1, PickedLists
  <2> QED BY <2>1, <2>2
<1>4. \A k \in 1 .. Cardinality(R) : InOrder(R)[k] \in R /\ ids[k] = all[InOrder(R)[k]].id
  <2> HIDE DEF ids
  <2> QED BY <1>1, <1>3
<1>5. popped[0] = 0 /\ \A k \in 1 .. n : popped[k] = Pops(all, ids, popped[k - 1], k)
  <2> HIDE DEF ids
  <2> QED BY <1>1, RemovalsDefined
<1>6. \A p \in R : Rank(R, p) \in 1 .. Cardinality(R) /\ InOrder(R)[Rank(R, p)] = p
  <2> HIDE DEF R
  <2> QED BY <1>3, InOrderLists
<1>7. /\ Rank(R, 0) = 0
      /\ \A k \in 1 .. n : /\ Rank(R, k - 1) \in Nat
                           /\ Rank(R, k) = IF k \in R THEN Rank(R, k - 1) + 1 ELSE Rank(R, k - 1)
  <2>1. R \subseteq Nat \ {0}
    BY <1>1
  <2> HIDE DEF R
  <2>2. /\ Rank(R, 0) = 0
        /\ \A k \in Nat \ {0} : Rank(R, k) = IF k \in R THEN Rank(R, k - 1) + 1 ELSE Rank(R, k - 1)
    BY <1>3, <2>1, RankSteps
  <2>3. \A k \in 1 .. n : k - 1 \in Int /\ k \in Nat \ {0}
    BY <1>1
  <2>4. \A k \in Int : Rank(R, k) \in Nat
    BY <1>3, RankType
  <2> QED BY <2>2, <2>3, <2>4
<1> HIDE DEF ids, popped
<1>9. ASSUME NEW k \in 1 .. n, popped[k - 1] = Rank(R, k - 1) PROVE popped[k] = Rank(R, k)
  <2>1. popped[k] = Pops(all, ids, Rank(R, k - 1), k) /\ Rank(R, k - 1) \in Nat
    BY <1>5, <1>7, <1>9
  <2>2. CASE k \in R
    <3>1. Rank(R, k) = Rank(R, k - 1) + 1 /\ Rank(R, k) \in 1 .. Cardinality(R)
      BY <1>6, <1>7, <2>2
    <3>2. ids[Rank(R, k - 1) + 1] = all[k].id
      BY <1>4, <1>6, <2>2, <3>1
    <3>3. Rank(R, k - 1) < Len(ids)
      BY <1>3, <2>1, <3>1
    <3> QED BY <2>1, <3>1, <3>2, <3>3 DEF Pops
  <2>3. CASE k \notin R
    <3>1. Rank(R, k) = Rank(R, k - 1)
      BY <1>7, <2>3
    <3>2. ASSUME Rank(R, k - 1) < Len(ids) PROVE ids[Rank(R, k - 1) + 1] # all[k].id
      <4>1. Rank(R, k - 1) + 1 \in 1 .. Cardinality(R)
        BY <1>3, <2>1, <3>2
      <4>2. PICK p \in R : ids[Rank(R, k - 1) + 1] = all[p].id
        BY <1>4, <4>1
      <4>3. p \in 1 .. n /\ p # k
        BY <2>3
      <4> QED BY <4>2, <4>3
    <3> QED BY <2>1, <3>1, <3>2 DEF Pops
  <2> QED BY <2>2, <2>3
<1>10. \A k \in 0 .. n : popped[k] = Rank(R, k)
  <2> DEFINE T == {k \in 0 .. n : popped[k] # Rank(R, k)}
  <2> SUFFICES ASSUME T # {} PROVE FALSE
    OBVIOUS
  <2>1. T \subseteq Nat
    BY <1>1
  <2>2. PICK k \in T : \A m \in T : k <= m
    <3> HIDE DEF T
    <3> QED BY <2>1, LeastNat
  <2>3. k \in 0 .. n /\ popped[k] # Rank(R, k)
    OBVIOUS
  <2>4. k # 0
    BY <1>5, <1>7, <2>3
  <2>5. k - 1 \in 0 .. n /\ k - 1 \notin T /\ k \in 1 .. n
    BY <1>1, <2>2, <2>3, <2>4
  <2>6. popped[k - 1] = Rank(R, k - 1)
    BY <2>5
  <2> QED BY <1>9, <2>3, <2>5, <2>6
<1>11. \A k \in 1 .. n : popped[k] = popped[k - 1] <=> k \notin R
  <2> SUFFICES ASSUME NEW k \in 1 .. n PROVE popped[k] = popped[k - 1] <=> k \notin R
    OBVIOUS
  <2>1. k \in 0 .. n /\ k - 1 \in 0 .. n
    BY <1>1
  <2>2. popped[k] = Rank(R, k) /\ popped[k - 1] = Rank(R, k - 1)
    BY <1>10, <2>1
  <2> HIDE DEF R
  <2> QED BY <1>7, <2>2
<1>12. {k \in 1 .. n : popped[k] = popped[k - 1]} = {k \in 1 .. n : t[all[k].id] # 0}
  BY <1>11
<1>13. dropRemoved(all, ids) = Picked(all, {k \in 1 .. n : popped[k] = popped[k - 1]})
  BY DEF dropRemoved, popped
<1> QED BY <1>12, <1>13 DEF ids

\* What stays of a list, sorted: the entries that have a row.
Stays(t, all) == SortedByName(dropRemoved(all, RemovedIds(t, all)))

LEMMA StaysSorted ==
    ASSUME NEW t \in [Ids -> Names \cup {0}], NEW all \in Seq(Entries),
           OneRowPerName(t), Follows(all, t),
           \A k, l \in 1 .. Len(all) : all[k].id = all[l].id => k = l
    PROVE  /\ Stays(t, all) \in Seq(Entries)
           /\ \A n \in 1 .. Len(Stays(t, all)) :
                 \E k \in 1 .. Len(all) : t[all[k].id] # 0 /\ Stays(t, all)[n] = all[k]
           /\ \A k \in 1 .. Len(all) :
                 t[all[k].id] # 0 => \E n \in 1 .. Len(Stays(t, all)) : Stays(t, all)[n] = all[k]
           /\ \A m, n \in 1 .. Len(Stays(t, all)) : m < n => Stays(t, all)[m].name < Stays(t, all)[n].name
<1> DEFINE K == {k \in 1 .. Len(all) : t[all[k].id] # 0}
           kept == Picked(all, K)
           final == SortedByName(kept)
<1>1. Stays(t, all) = final
  <2>1. dropRemoved(all, RemovedIds(t, all)) = kept
    BY DropsThem
  <2> QED BY <2>1 DEF Stays
<1>2. /\ K \subseteq Nat /\ IsFiniteSet(K) /\ Cardinality(K) \in Nat
      /\ kept \in Seq(Entries) /\ Len(kept) = Cardinality(K)
      /\ \A k \in 1 .. Cardinality(K) : InOrder(K)[k] \in K /\ kept[k] = all[InOrder(K)[k]]
  <2>1. K \in SUBSET (1 .. Len(all))
    OBVIOUS
  <2> HIDE DEF K, kept
  <2>2. /\ K \subseteq Nat /\ IsFiniteSet(K) /\ Cardinality(K) \in Nat
        /\ Picked(all, K) \in Seq(Entries) /\ Len(Picked(all, K)) = Cardinality(K)
        /\ \A k \in 1 .. Cardinality(K) : InOrder(K)[k] \in K /\ Picked(all, K)[k] = all[InOrder(K)[k]]
    BY <2>1, PickedLists
  <2> QED BY <2>2 DEF kept
<1>3. /\ \A k \in 1 .. Cardinality(K) : Rank(K, InOrder(K)[k]) = k
      /\ \A p \in K : Rank(K, p) \in 1 .. Cardinality(K) /\ InOrder(K)[Rank(K, p)] = p
  <2> HIDE DEF K, kept
  <2> QED BY <1>2, InOrderLists
<1>4. \A k \in K : k \in 1 .. Len(all) /\ t[all[k].id] = all[k].name /\ all[k].id \in Used(t)
  <2>1. \A k \in 1 .. Len(all) : all[k] \in Entries /\ all[k].id \in Ids
    BY NamesAreNumbers
  <2> QED BY <2>1 DEF Follows, Used
<1> HIDE DEF K, kept
<1>5. \A k, l \in 1 .. Len(kept) : kept[k].name = kept[l].name => k = l
  <2> SUFFICES ASSUME NEW k \in 1 .. Cardinality(K), NEW l \in 1 .. Cardinality(K),
                      kept[k].name = kept[l].name
               PROVE  k = l
    BY <1>2
  <2>1. PICK p \in K : p = InOrder(K)[k] /\ kept[k] = all[p]
    BY <1>2
  <2>2. PICK q \in K : q = InOrder(K)[l] /\ kept[l] = all[q]
    BY <1>2
  <2>3. t[all[p].id] = t[all[q].id] /\ all[p].id \in Used(t) /\ all[q].id \in Used(t)
    BY <1>4, <2>1, <2>2
  <2>4. p = q
    <3>1. all[p].id = all[q].id
      BY <2>3 DEF OneRowPerName
    <3>2. p \in 1 .. Len(all) /\ q \in 1 .. Len(all)
      BY <1>4
    <3> QED BY <3>1, <3>2
  <2>5. Rank(K, p) = k /\ Rank(K, q) = l
    BY <1>3, <2>1, <2>2
  <2> QED BY <2>4, <2>5
<1>6. PICK p \in [1 .. Len(kept) -> 1 .. Len(kept)] :
         /\ final = [n \in 1 .. Len(kept) |-> kept[p[n]]]
         /\ \A m, n \in 1 .. Len(kept) : p[m] = p[n] => m = n
         /\ \A k \in 1 .. Len(kept) : \E n \in 1 .. Len(kept) : p[n] = k
         /\ \A m, n \in 1 .. Len(kept) : m < n => kept[p[m]].name < kept[p[n]].name
  BY <1>2, <1>5, SortedByNameSorts
<1>7. final \in Seq(Entries) /\ Len(final) = Len(kept)
  <2>0. kept \in Seq(Entries)
    BY <1>2
  <2>1. \A n \in 1 .. Len(kept) : kept[p[n]] \in Entries
    <3>1. \A k \in 1 .. Len(kept) : kept[k] \in Entries
      BY <2>0
    <3>2. \A n \in 1 .. Len(kept) : p[n] \in 1 .. Len(kept)
      BY <1>6
    <3> QED BY <3>1, <3>2
  <2>2. final \in [1 .. Len(kept) -> Entries] /\ Len(kept) \in Nat
    BY <1>2, <1>6, <2>1
  <2> QED BY <2>2
<1>8. \A n \in 1 .. Len(kept) : final[n] = kept[p[n]] /\ p[n] \in 1 .. Len(kept)
  BY <1>6
<1> HIDE DEF final
<1>9. ASSUME NEW n \in 1 .. Len(kept)
      PROVE  \E k \in 1 .. Len(all) : t[all[k].id] # 0 /\ final[n] = all[k]
  <2>1. final[n] = all[InOrder(K)[p[n]]] /\ InOrder(K)[p[n]] \in K
    BY <1>2, <1>8
  <2> QED BY <2>1 DEF K
<1>10. ASSUME NEW k \in 1 .. Len(all), t[all[k].id] # 0
       PROVE  \E n \in 1 .. Len(kept) : final[n] = all[k]
  <2>1. k \in K
    BY <1>10 DEF K
  <2>2. Rank(K, k) \in 1 .. Len(kept) /\ kept[Rank(K, k)] = all[k]
    BY <1>2, <1>3, <2>1
  <2>3. PICK n \in 1 .. Len(kept) : p[n] = Rank(K, k)
    BY <1>6, <2>2
  <2> QED BY <1>8, <2>2, <2>3
<1>11. \A m, n \in 1 .. Len(kept) : m < n => final[m].name < final[n].name
  BY <1>6, <1>8
<1> QED BY <1>1, <1>7, <1>9, <1>10, <1>11

\* The list a refresh works on, before anything is deleted: the entries there
\* were, and one for each row that had none.
AllEntries(s, t) == s.myList \o NewEntries(t, NewIds(t, s.myList), s.born)

\* list is a followed by b.
Joins(list, a, b) ==
    /\ Len(a) \in Nat /\ Len(b) \in Nat /\ Len(list) = Len(a) + Len(b)
    /\ \A k \in 1 .. Len(a) : k \in 1 .. Len(a) + Len(b) /\ list[k] = a[k]
    /\ \A k \in 1 .. Len(a) + Len(b) :
          k \notin 1 .. Len(a) => k - Len(a) \in 1 .. Len(b) /\ list[k] = b[k - Len(a)]
    /\ \A k \in 1 .. Len(b) : k + Len(a) \in 1 .. Len(a) + Len(b) /\ list[k + Len(a)] = b[k]

LEMMA Concatenated ==
    ASSUME NEW E, NEW a \in Seq(E), NEW b \in Seq(E)
    PROVE  a \o b \in Seq(E) /\ Joins(a \o b, a, b)
<1>1. Len(a) \in Nat /\ Len(b) \in Nat
  OBVIOUS
<1>2. a \o b \in Seq(E) /\ Len(a \o b) = Len(a) + Len(b)
  OBVIOUS
<1>3. \A k \in 1 .. Len(a) : k \in 1 .. Len(a) + Len(b) /\ (a \o b)[k] = a[k]
  BY <1>1
<1>4. \A k \in 1 .. Len(a) + Len(b) :
         k \notin 1 .. Len(a) => k - Len(a) \in 1 .. Len(b) /\ (a \o b)[k] = b[k - Len(a)]
  BY <1>1
<1>5. \A k \in 1 .. Len(b) : k + Len(a) \in 1 .. Len(a) + Len(b) /\ (a \o b)[k + Len(a)] = b[k]
  <2> SUFFICES ASSUME NEW k \in 1 .. Len(b)
               PROVE  k + Len(a) \in 1 .. Len(a) + Len(b) /\ (a \o b)[k + Len(a)] = b[k]
    OBVIOUS
  <2>1. k + Len(a) \in 1 .. Len(a) + Len(b) /\ k + Len(a) \notin 1 .. Len(a) /\ (k + Len(a)) - Len(a) = k
    BY <1>1
  <2> QED BY <1>4, <2>1
<1> QED BY <1>1, <1>2, <1>3, <1>4, <1>5 DEF Joins

\* The new entries: one for each of these ids, numbered on.
MadeFor(new, t, ids, made) ==
    /\ Cardinality(ids) \in Nat
    /\ new \in Seq(Entries) /\ Len(new) = Cardinality(ids)
    /\ \A k \in 1 .. Cardinality(ids) :
          /\ new[k].id \in ids /\ new[k].name = t[new[k].id]
          /\ new[k].state = "Disconnected" /\ new[k].no = made + k
    /\ \A k, l \in 1 .. Cardinality(ids) : new[k].id = new[l].id => k = l
    /\ \A i \in ids : \E k \in 1 .. Cardinality(ids) : new[k].id = i

LEMMA NewEntriesMade ==
    ASSUME NEW t \in [Ids -> Names \cup {0}], NEW ids \in SUBSET Used(t), NEW made \in Nat
    PROVE  MadeFor(NewEntries(t, ids, made), t, ids, made)
<1> DEFINE new == NewEntries(t, ids, made)
           c == Cardinality(ids)
<1>1. ids \subseteq Nat /\ IsFiniteSet(ids) /\ ids \subseteq Ids
  <2>1. ids \in SUBSET Ids
    BY DEF Used
  <2>2. Ids \subseteq Nat /\ IsFiniteSet(Ids)
    BY NamesAreNumbers
  <2> QED BY <2>1, <2>2, FS_Subset
<1>2. /\ c \in Nat /\ InOrder(ids) \in [1 .. c -> ids]
      /\ \A k \in 1 .. c : Rank(ids, InOrder(ids)[k]) = k
      /\ \A p \in ids : Rank(ids, p) \in 1 .. c /\ InOrder(ids)[Rank(ids, p)] = p
  BY <1>1, InOrderLists
<1> HIDE DEF c
<1>3. \A i \in ids : i \in Ids /\ t[i] \in Names
  BY <1>1 DEF Used
<1>4. ASSUME NEW k \in 1 .. c
      PROVE  /\ new[k] \in Entries /\ new[k].id = InOrder(ids)[k] /\ new[k].id \in ids
             /\ new[k].name = t[new[k].id] /\ new[k].state = "Disconnected" /\ new[k].no = made + k
  <2>1. new[k] = [id |-> InOrder(ids)[k], name |-> t[InOrder(ids)[k]], state |-> "Disconnected", no |-> made + k]
    BY DEF NewEntries, c
  <2>2. InOrder(ids)[k] \in ids /\ made + k \in Nat \ {0}
    BY <1>2
  <2> HIDE DEF new
  <2> QED BY <1>3, <2>1, <2>2 DEF Entries, States
<1>5. new \in Seq(Entries) /\ Len(new) = c
  <2>1. new = [k \in 1 .. c |-> new[k]]
    BY DEF NewEntries, c
  <2> HIDE DEF new
  <2>2. new \in [1 .. c -> Entries]
    BY <1>4, <2>1
  <2> QED BY <1>2, <2>2
<1> HIDE DEF new
<1>6. ASSUME NEW k \in 1 .. c, NEW l \in 1 .. c, new[k].id = new[l].id PROVE k = l
  <2>1. InOrder(ids)[k] = InOrder(ids)[l]
    BY <1>4, <1>6
  <2> QED BY <1>2, <2>1
<1>7. \A i \in ids : \E k \in 1 .. c : new[k].id = i
  BY <1>2, <1>4
<1> QED BY <1>2, <1>4, <1>5, <1>6, <1>7 DEF new, c, MadeFor

Gathers(all, s, t) ==
    /\ all \in Seq(Entries) /\ Follows(all, t) /\ Distinct(all)
    /\ Cardinality(NewIds(t, s.myList)) \in Nat
    /\ MadeBefore(all, s.born + Cardinality(NewIds(t, s.myList)))
    /\ \A i \in Used(t) : \E k \in 1 .. Len(all) : all[k].id = i
    /\ \A k \in 1 .. Len(s.myList) : k \in 1 .. Len(all) /\ all[k] = s.myList[k]
    /\ \A k \in 1 .. Len(all) :
          \/ all[k].no > s.born /\ all[k].state = "Disconnected"
          \/ k \in 1 .. Len(s.myList) /\ all[k] = s.myList[k]

LEMMA AllEntriesGood ==
    ASSUME NEW s, Good(s), NEW t \in [Ids -> Names \cup {0}], \A i \in Ids : t[i] \in {0, s.table[i]}
    PROVE  Gathers(AllEntries(s, t), s, t)
<1> DEFINE list == s.myList
           ids == NewIds(t, list)
           new == NewEntries(t, ids, s.born)
           all == list \o new
           n == Len(list)
           c == Cardinality(ids)
<1>1. list \in Seq(Entries) /\ n \in Nat /\ s.born \in Nat /\ s.table \in [Ids -> Names \cup {0}]
  BY DEF Good, Store
<1>2. ids \in SUBSET Used(t) /\ \A i \in ids : \A k \in 1 .. n : list[k].id # i
  <2>1. DOMAIN list = 1 .. n
    BY <1>1
  <2> QED BY <2>1 DEF NewIds, isConfigInList
<1>3. /\ c \in Nat /\ new \in Seq(Entries) /\ Len(new) = c
      /\ \A k \in 1 .. c :
            /\ new[k].id \in ids /\ new[k].name = t[new[k].id]
            /\ new[k].state = "Disconnected" /\ new[k].no = s.born + k
      /\ \A k, l \in 1 .. c : new[k].id = new[l].id => k = l
      /\ \A i \in ids : \E k \in 1 .. c : new[k].id = i
  <2> HIDE DEF ids
  <2>1. MadeFor(new, t, ids, s.born)
    BY <1>1, <1>2, NewEntriesMade
  <2> HIDE DEF new
  <2> QED BY <2>1 DEF MadeFor
<1>4. \A i \in Used(t) : i \in ids \/ \E k \in 1 .. n : list[k].id = i
  <2>1. DOMAIN list = 1 .. n
    BY <1>1
  <2> QED BY <2>1 DEF NewIds, isConfigInList
<1>5. \A k \in 1 .. n : list[k] \in Entries /\ list[k].id \in Ids /\ list[k].no \in Nat /\ list[k].no <= s.born
  <2>1. \A k \in 1 .. n : list[k] \in Entries
    BY <1>1
  <2> QED BY <2>1, NamesAreNumbers DEF Good, MadeBefore
<1>51. \A k \in 1 .. n : t[list[k].id] \in {0, list[k].name}
  BY <1>5 DEF Good, Follows
<1>52. \A k, l \in 1 .. n : list[k].id = list[l].id \/ list[k].no = list[l].no => k = l
  BY DEF Good, Distinct
<1> HIDE DEF list, ids, new, n, c
<1>6. /\ all \in Seq(Entries) /\ Len(all) = n + c
      /\ \A k \in 1 .. n : k \in 1 .. n + c /\ all[k] = list[k]
      /\ \A k \in 1 .. n + c : k \notin 1 .. n => k - n \in 1 .. c /\ all[k] = new[k - n]
      /\ \A k \in 1 .. c : k + n \in 1 .. n + c /\ all[k + n] = new[k]
  <2> HIDE DEF all
  <2>1. list \in Seq(Entries) /\ new \in Seq(Entries) /\ Len(list) = n /\ Len(new) = c
    BY <1>1, <1>3 DEF n
  <2>2. all = list \o new
    BY DEF all
  <2>3. all \in Seq(Entries) /\ Joins(all, list, new)
    BY <2>1, <2>2, Concatenated
  <2> QED BY <2>1, <2>3 DEF Joins
<1> HIDE DEF all
<1>7. \A k \in 1 .. n + c : \/ k \in 1 .. n /\ all[k] = list[k]
                            \/ /\ k \notin 1 .. n /\ k - n \in 1 .. c /\ all[k] = new[k - n]
                               /\ all[k].id \in ids /\ all[k].name = t[all[k].id]
                               /\ all[k].state = "Disconnected" /\ all[k].no = s.born + (k - n)
  BY <1>3, <1>6
<1>8. Follows(all, t)
  BY <1>51, <1>6, <1>7 DEF Follows
<1>9. Distinct(all)
  <2> SUFFICES ASSUME NEW k \in 1 .. n + c, NEW l \in 1 .. n + c,
                      all[k].id = all[l].id \/ all[k].no = all[l].no
               PROVE  k = l
    BY <1>6 DEF Distinct
  <2>0. k \in Int /\ l \in Int /\ n \in Int
    BY <1>1, <1>3
  <2>1. CASE k \in 1 .. n /\ l \in 1 .. n
    BY <1>52, <1>6, <2>1
  <2>2. CASE k \in 1 .. n /\ l \notin 1 .. n
    <3>1. all[k] = list[k] /\ all[k].no <= s.born /\ all[k].no \in Nat
      BY <1>5, <1>6, <2>2
    <3>2. all[l].id \in ids /\ all[l].no = s.born + (l - n) /\ l - n \in 1 .. c
      BY <1>7, <2>2
    <3>3. all[k].no # all[l].no
      BY <1>1, <1>3, <3>1, <3>2
    <3>4. all[k].id # all[l].id
      BY <1>2, <2>2, <3>1, <3>2
    <3> QED BY <3>3, <3>4
  <2>3. CASE k \notin 1 .. n /\ l \in 1 .. n
    <3>1. all[l] = list[l] /\ all[l].no <= s.born /\ all[l].no \in Nat
      BY <1>5, <1>6, <2>3
    <3>2. all[k].id \in ids /\ all[k].no = s.born + (k - n) /\ k - n \in 1 .. c
      BY <1>7, <2>3
    <3>3. all[k].no # all[l].no
      BY <1>1, <1>3, <3>1, <3>2
    <3>4. all[k].id # all[l].id
      BY <1>2, <2>3, <3>1, <3>2
    <3> QED BY <3>3, <3>4
  <2>4. CASE k \notin 1 .. n /\ l \notin 1 .. n
    <3>1. /\ all[k] = new[k - n] /\ k - n \in 1 .. c /\ all[k].no = s.born + (k - n)
          /\ all[l] = new[l - n] /\ l - n \in 1 .. c /\ all[l].no = s.born + (l - n)
      BY <1>7, <2>4
    <3>2. k - n = l - n
      <4>1. all[k].id = all[l].id => k - n = l - n
        BY <1>3, <3>1
      <4>2. all[k].no = all[l].no => k - n = l - n
        BY <1>1, <1>3, <3>1
      <4> QED BY <4>1, <4>2
    <3> QED BY <2>0, <3>2
  <2> QED BY <2>1, <2>2, <2>3, <2>4
<1>10. MadeBefore(all, s.born + c)
  <2> SUFFICES ASSUME NEW k \in 1 .. n + c PROVE all[k].no <= s.born + c
    BY <1>6 DEF MadeBefore
  <2>1. CASE k \in 1 .. n
    <3>1. all[k] = list[k] /\ list[k].no \in Nat /\ list[k].no <= s.born
      BY <1>5, <1>6, <2>1
    <3> QED BY <1>1, <1>3, <3>1
  <2>2. CASE k \notin 1 .. n
    <3>1. all[k].no = s.born + (k - n) /\ k - n \in 1 .. c
      BY <1>7, <2>2
    <3>2. c \in Nat /\ s.born \in Nat
      BY <1>1, <1>3
    <3> QED BY <3>1, <3>2
  <2> QED BY <2>1, <2>2
<1>11. \A i \in Used(t) : \E k \in 1 .. n + c : all[k].id = i
  <2> SUFFICES ASSUME NEW i \in Used(t) PROVE \E k \in 1 .. n + c : all[k].id = i
    OBVIOUS
  <2>1. CASE i \in ids
    <3>1. PICK k \in 1 .. c : new[k].id = i
      BY <1>3, <2>1
    <3> QED BY <1>6, <3>1
  <2>2. CASE \E k \in 1 .. n : list[k].id = i
    BY <1>6, <2>2
  <2> QED BY <1>4, <2>1, <2>2
<1>12. \A k \in 1 .. n + c : \/ all[k].no > s.born /\ all[k].state = "Disconnected"
                             \/ k \in 1 .. n /\ all[k] = list[k]
  <2> SUFFICES ASSUME NEW k \in 1 .. n + c, k \notin 1 .. n
               PROVE  all[k].no > s.born /\ all[k].state = "Disconnected"
    BY <1>6
  <2> QED BY <1>1, <1>3, <1>7
<1>13. all = AllEntries(s, t)
  BY DEF AllEntries, all, new, ids, list
<1> QED BY <1>3, <1>6, <1>8, <1>9, <1>10, <1>11, <1>12, <1>13 DEF n, list, c, ids, Gathers

\* A refresh: the list mirrors the rows that have a file, an entry is one of
\* those there were or a new one, and an entry whose row stays is kept.
OldOrNew(s, r) ==
    \A k \in 1 .. Len(r.myList) :
       \/ r.myList[k].no > s.born /\ r.myList[k].state = "Disconnected"
       \/ \E l \in 1 .. Len(s.myList) : r.myList[k] = s.myList[l]
KeepsEntries(s, r) ==
    \A l \in 1 .. Len(s.myList) :
       r.table[s.myList[l].id] # 0 => \E k \in 1 .. Len(r.myList) : r.myList[k] = s.myList[l]
Refreshes(s, r, there) ==
    /\ Good(r) /\ Mirrors(r.myList, r.table)
    /\ r.table = KeptRows(s.table, there)
    /\ r.checksum = s.checksum /\ r.allowed = s.allowed
    /\ s.born <= r.born
    /\ OldOrNew(s, r) /\ KeepsEntries(s, r)

LEMMA KeptRowsKept ==
    ASSUME NEW t \in [Ids -> Names \cup {0}], NEW there \in SUBSET Names
    PROVE  /\ KeptRows(t, there) \in [Ids -> Names \cup {0}]
           /\ \A i \in Ids : KeptRows(t, there)[i] \in {0, t[i]}
           /\ \A i \in Ids : KeptRows(t, there)[i] # 0 <=> t[i] \in there
           /\ OneRowPerName(t) => OneRowPerName(KeptRows(t, there))
<1>1. \A i \in Ids : KeptRows(t, there)[i] = IF t[i] \in there THEN t[i] ELSE 0
  BY DEF KeptRows
<1>2. KeptRows(t, there) \in [Ids -> Names \cup {0}]
  BY DEF KeptRows
<1>3. 0 \notin there
  BY NamesAreNumbers
<1>4. \A i \in Ids : KeptRows(t, there)[i] # 0 <=> t[i] \in there
  BY <1>1, <1>3
<1>5. OneRowPerName(t) => OneRowPerName(KeptRows(t, there))
  BY <1>1, <1>3 DEF OneRowPerName, Used
<1> QED BY <1>1, <1>2, <1>4, <1>5

LEMMA RefreshGood ==
    ASSUME NEW s, Good(s), NEW there \in SUBSET Names
    PROVE  Refreshes(s, refreshConfigs(s, there), there)
<1> DEFINE t == KeptRows(s.table, there)
           all == AllEntries(s, t)
           c == Cardinality(NewIds(t, s.myList))
           final == Stays(t, all)
           r == refreshConfigs(s, there)
<1>1. /\ s \in Store /\ s.table \in [Ids -> Names \cup {0}] /\ s.born \in Nat
      /\ s.myList \in Seq(Entries) /\ OneRowPerName(s.table)
  BY DEF Good, Store
<1>2. r = [s EXCEPT !.table = t, !.myList = final, !.born = @ + c]
  BY DEF refreshConfigs, AllEntries, Stays
<1>3. /\ t \in [Ids -> Names \cup {0}] /\ OneRowPerName(t)
      /\ \A i \in Ids : t[i] \in {0, s.table[i]}
  BY <1>1, KeptRowsKept
<1> HIDE DEF t
<1>4. Gathers(all, s, t)
  BY <1>3, AllEntriesGood
<1> HIDE DEF all
<1>5. /\ all \in Seq(Entries) /\ Follows(all, t) /\ Distinct(all)
      /\ c \in Nat /\ MadeBefore(all, s.born + c)
      /\ \A i \in Used(t) : \E k \in 1 .. Len(all) : all[k].id = i
      /\ \A k \in 1 .. Len(s.myList) : k \in 1 .. Len(all) /\ all[k] = s.myList[k]
      /\ \A k \in 1 .. Len(all) :
            \/ all[k].no > s.born /\ all[k].state = "Disconnected"
            \/ k \in 1 .. Len(s.myList) /\ all[k] = s.myList[k]
  BY <1>4 DEF Gathers
<1> HIDE DEF c
<1>6. \A k, l \in 1 .. Len(all) : all[k].id = all[l].id \/ all[k].no = all[l].no => k = l
  BY <1>5 DEF Distinct
<1>7. /\ final \in Seq(Entries)
      /\ \A n \in 1 .. Len(final) : \E k \in 1 .. Len(all) : t[all[k].id] # 0 /\ final[n] = all[k]
      /\ \A k \in 1 .. Len(all) : t[all[k].id] # 0 => \E n \in 1 .. Len(final) : final[n] = all[k]
      /\ \A m, n \in 1 .. Len(final) : m < n => final[m].name < final[n].name
  BY <1>3, <1>5, <1>6, StaysSorted
<1> HIDE DEF final
<1>71. \A n \in 1 .. Len(final) : \E k \in 1 .. Len(all) : t[all[k].id] # 0 /\ final[n] = all[k]
  BY <1>7
<1>72. \A k \in 1 .. Len(all) : t[all[k].id] # 0 => \E n \in 1 .. Len(final) : final[n] = all[k]
  BY <1>7
<1>73. \A m, n \in 1 .. Len(final) : m < n => final[m].name < final[n].name
  BY <1>7
<1>8. \A k \in 1 .. Len(final) : final[k] \in Entries /\ final[k].id \in Ids /\ final[k].name \in Nat
  <2>1. \A k \in 1 .. Len(final) : final[k] \in Entries
    BY <1>7
  <2> QED BY <2>1, NamesAreNumbers
<1>9. /\ r \in Store /\ r.table = t /\ r.myList = final /\ r.born = s.born + c
      /\ r.checksum = s.checksum /\ r.allowed = s.allowed
  <2> HIDE DEF r
  <2>1. s.born + c \in Nat
    BY <1>1, <1>5
  <2> QED BY <1>1, <1>2, <1>3, <1>7, <2>1 DEF Store
<1> HIDE DEF r
<1>10. Distinct(final)
  <2> SUFFICES ASSUME NEW m \in 1 .. Len(final), NEW n \in 1 .. Len(final),
                      final[m].id = final[n].id \/ final[m].no = final[n].no
               PROVE  m = n
    BY DEF Distinct
  <2>1. PICK k \in 1 .. Len(all) : final[m] = all[k]
    BY <1>7
  <2>2. PICK l \in 1 .. Len(all) : final[n] = all[l]
    BY <1>7
  <2>3. k = l
    BY <1>6, <2>1, <2>2
  <2>4. final[m].name = final[n].name /\ final[m].name \in Nat /\ m \in Nat /\ n \in Nat
    <3>1. Len(final) \in Nat
      BY <1>7
    <3> QED BY <1>8, <2>1, <2>2, <2>3, <3>1
  <2>5. ~(m < n) /\ ~(n < m)
    BY <1>73, <2>4
  <2> QED BY <2>4, <2>5
<1>11. MadeBefore(final, s.born + c)
  BY <1>5, <1>7 DEF MadeBefore
<1>12. \A k \in 1 .. Len(final) : t[final[k].id] = final[k].name
  <2>1. \A k \in 1 .. Len(all) : t[all[k].id] \in {0, all[k].name}
    BY <1>5 DEF Follows
  <2> QED BY <1>71, <2>1
<1>13. Mirrors(final, t)
  <2>1. \A i \in Used(t) : \E k \in 1 .. Len(final) : final[k].id = i
    <3> SUFFICES ASSUME NEW i \in Used(t) PROVE \E k \in 1 .. Len(final) : final[k].id = i
      OBVIOUS
    <3>1. PICK k \in 1 .. Len(all) : all[k].id = i
      BY <1>5
    <3>2. t[i] # 0
      BY DEF Used
    <3> QED BY <1>7, <3>1, <3>2
  <2> QED BY <1>7, <1>12, <2>1 DEF Mirrors
<1>14. Follows(final, t)
  BY <1>12 DEF Follows
<1>15. Good(r)
  BY <1>3, <1>9, <1>10, <1>11, <1>14 DEF Good
<1>16. OldOrNew(s, r)
  <2> SUFFICES ASSUME NEW n \in 1 .. Len(final)
               PROVE  \/ final[n].no > s.born /\ final[n].state = "Disconnected"
                      \/ \E l \in 1 .. Len(s.myList) : final[n] = s.myList[l]
    BY <1>9 DEF OldOrNew
  <2> QED BY <1>5, <1>7
<1>17. KeepsEntries(s, r)
  <2> SUFFICES ASSUME NEW l \in 1 .. Len(s.myList), t[s.myList[l].id] # 0
               PROVE  \E k \in 1 .. Len(final) : final[k] = s.myList[l]
    BY <1>9 DEF KeepsEntries
  <2>1. l \in 1 .. Len(all) /\ all[l] = s.myList[l]
    BY <1>5
  <2> QED BY <1>72, <2>1
<1>18. s.born <= r.born
  BY <1>1, <1>5, <1>9
<1> QED BY <1>9, <1>13, <1>15, <1>16, <1>17, <1>18 DEF r, t, Refreshes

-----------------------------------------------------------------------------
\* What findConfigsInDir makes of table and list.

\* A used id has the checksum of its own config or none.
OwnChecksums(s) == \A i \in Used(s.table) : s.checksum[i] \in {0, s.table[i]}

\* From s to r by handlers that know the same files.
Advances(s, r, there) ==
    /\ Good(r) /\ s.born <= r.born /\ r.allowed = s.allowed
    /\ s.allowed /\ OwnChecksums(s) => OwnChecksums(r)
    /\ \A i \in Ids : s.table[i] \in there => r.table[i] = s.table[i]
    /\ OldOrNew(s, r)
    /\ \A l \in 1 .. Len(s.myList) :
          s.table[s.myList[l].id] \in there => \E k \in 1 .. Len(r.myList) : r.myList[k] = s.myList[l]

\* There are ids left for the files that have no row.
Missing(t, there) == {name \in there : \A i \in Ids : t[i] # name}
Room(t, there) == \A i \in Used(t) : i + Cardinality(Missing(t, there)) <= MaxId

LEMMA AdvancesFirst ==
    ASSUME NEW s, Good(s), NEW there
    PROVE  Advances(s, s, there)
<1>1. s.born \in Nat
  BY DEF Good, Store
<1> QED BY <1>1 DEF Advances, OldOrNew

LEMMA AdvancesOn ==
    ASSUME NEW s, NEW q, NEW r, NEW there, Good(s), Advances(s, q, there), Advances(q, r, there)
    PROVE  Advances(s, r, there)
<1>1. /\ Good(q) /\ Good(r) /\ s.born \in Nat /\ q.born \in Nat /\ r.born \in Nat
      /\ s.myList \in Seq(Entries) /\ q.myList \in Seq(Entries) /\ r.myList \in Seq(Entries)
  BY DEF Advances, Good, Store
<1>2. s.born <= q.born /\ q.born <= r.born /\ q.allowed = s.allowed /\ r.allowed = q.allowed
  BY DEF Advances
<1>3. s.born <= r.born
  BY <1>1, <1>2
<1>4. s.allowed /\ OwnChecksums(s) => OwnChecksums(r)
  BY DEF Advances
<1>5. \A k \in 1 .. Len(s.myList) : s.myList[k] \in Entries /\ s.myList[k].id \in Ids
  <2>1. \A k \in 1 .. Len(s.myList) : s.myList[k] \in Entries
    BY <1>1
  <2> QED BY <2>1, NamesAreNumbers
<1>51. \A k \in 1 .. Len(r.myList) : r.myList[k] \in Entries /\ r.myList[k].no \in Nat
  <2>1. \A k \in 1 .. Len(r.myList) : r.myList[k] \in Entries
    BY <1>1
  <2> QED BY <2>1, NamesAreNumbers
<1>6. \A i \in Ids : s.table[i] \in there => q.table[i] = s.table[i] /\ r.table[i] = s.table[i]
  BY DEF Advances
<1>7. OldOrNew(s, r)
  <2> SUFFICES ASSUME NEW k \in 1 .. Len(r.myList)
               PROVE  \/ r.myList[k].no > s.born /\ r.myList[k].state = "Disconnected"
                      \/ \E l \in 1 .. Len(s.myList) : r.myList[k] = s.myList[l]
    BY DEF OldOrNew
  <2>1. CASE r.myList[k].no > q.born /\ r.myList[k].state = "Disconnected"
    BY <1>1, <1>2, <1>51, <2>1
  <2>2. CASE \E l \in 1 .. Len(q.myList) : r.myList[k] = q.myList[l]
    BY <2>2 DEF Advances, OldOrNew
  <2> QED BY <2>1, <2>2 DEF Advances, OldOrNew
<1>8. ASSUME NEW l \in 1 .. Len(s.myList), s.table[s.myList[l].id] \in there
      PROVE  \E k \in 1 .. Len(r.myList) : r.myList[k] = s.myList[l]
  <2>1. PICK m \in 1 .. Len(q.myList) : q.myList[m] = s.myList[l]
    BY <1>8 DEF Advances
  <2>2. q.table[q.myList[m].id] \in there
    BY <1>5, <1>6, <1>8, <2>1
  <2>3. PICK k \in 1 .. Len(r.myList) : r.myList[k] = q.myList[m]
    BY <2>2 DEF Advances
  <2> QED BY <2>1, <2>3
<1> QED BY <1>1, <1>2, <1>3, <1>4, <1>6, <1>7, <1>8 DEF Advances

LEMMA RefreshAdvances ==
    ASSUME NEW s, Good(s), NEW there \in SUBSET Names
    PROVE  LET r == refreshConfigs(s, there)
           IN  /\ Advances(s, r, there)
               /\ Mirrors(r.myList, r.table)
               /\ \A i \in Ids : r.table[i] # 0 <=> s.table[i] \in there
               /\ \A i \in Ids : r.table[i] \in {0, s.table[i]}
               /\ r.checksum = s.checksum
<1> DEFINE r == refreshConfigs(s, there)
<1>1. Refreshes(s, r, there)
  BY RefreshGood
<1> HIDE DEF r
<1>2. s.table \in [Ids -> Names \cup {0}] /\ s.myList \in Seq(Entries)
  BY DEF Good, Store
<1>3. /\ \A i \in Ids : r.table[i] # 0 <=> s.table[i] \in there
      /\ \A i \in Ids : r.table[i] \in {0, s.table[i]}
  <2>1. r.table = KeptRows(s.table, there)
    BY <1>1 DEF Refreshes
  <2> QED BY <1>2, <2>1, KeptRowsKept
<1>4. /\ Good(r) /\ Mirrors(r.myList, r.table) /\ s.born <= r.born /\ OldOrNew(s, r) /\ KeepsEntries(s, r)
      /\ r.checksum = s.checksum /\ r.allowed = s.allowed
  BY <1>1 DEF Refreshes
<1>5. \A i \in Ids : s.table[i] \in there => r.table[i] = s.table[i]
  BY <1>3
<1>6. OwnChecksums(s) => OwnChecksums(r)
  BY <1>3, <1>4 DEF OwnChecksums, Used
<1>7. ASSUME NEW l \in 1 .. Len(s.myList), s.table[s.myList[l].id] \in there
      PROVE  \E k \in 1 .. Len(r.myList) : r.myList[k] = s.myList[l]
  <2>1. s.myList[l].id \in Ids
    BY <1>2, NamesAreNumbers
  <2>2. r.table[s.myList[l].id] # 0
    BY <1>3, <1>7, <2>1
  <2> QED BY <1>4, <2>2 DEF KeepsEntries
<1>8. Advances(s, r, there)
  BY <1>4, <1>5, <1>6, <1>7 DEF Advances
<1> QED BY <1>3, <1>4, <1>8 DEF r

\* A new id is larger than all that are used.
LEMMA NewIdIsNew ==
    ASSUME NEW t \in [Ids -> Names \cup {0}]
    PROVE  /\ newId(t) \in Nat \ {0}
           /\ \A i \in Used(t) : i < newId(t)
           /\ Used(t) = {} => newId(t) = 1
           /\ Used(t) # {} => \E i \in Used(t) : newId(t) = i + 1
<1>1. MaxId \in Nat /\ \A i \in Used(t) : i \in Nat /\ i # 0 /\ i <= MaxId
  BY NamesAreNumbers DEF Used, Ids
<1>2. CASE Used(t) = {}
  BY <1>2 DEF newId
<1>3. CASE Used(t) # {}
  <2> DEFINE T == {MaxId - i : i \in Used(t)}
  <2>1. \E m \in Used(t) : \A i \in Used(t) : m >= i
    <3>1. T \subseteq Nat /\ T # {}
      BY <1>1, <1>3
    <3>2. PICK d \in T : \A e \in T : d <= e
      <4> HIDE DEF T
      <4> QED BY <3>1, LeastNat
    <3>3. PICK m \in Used(t) : d = MaxId - m
      BY <3>2
    <3>4. \A i \in Used(t) : MaxId - m <= MaxId - i
      BY <3>2, <3>3
    <3>5. \A i \in Used(t) : m >= i
      BY <1>1, <3>4
    <3> QED BY <3>5
  <2>2. Max(Used(t)) \in Used(t) /\ \A i \in Used(t) : Max(Used(t)) >= i
    BY <2>1 DEF Max
  <2>3. newId(t) = Max(Used(t)) + 1
    BY <1>3 DEF newId
  <2> QED BY <1>1, <1>3, <2>2, <2>3
<1> QED BY <1>2, <1>3

LEMMA MissingOnes ==
    ASSUME NEW t, NEW there \in SUBSET Names
    PROVE  /\ IsFiniteSet(Missing(t, there)) /\ Cardinality(Missing(t, there)) \in Nat
           /\ Cardinality(Missing(t, there)) <= MaxId
           /\ Missing(t, there) # {} => Cardinality(Missing(t, there)) >= 1
<1>1. IsFiniteSet(Names) /\ Cardinality(Names) <= MaxId /\ MaxId \in Nat
  BY ConfigsAssumption
<1>2. Missing(t, there) \in SUBSET Names
  BY DEF Missing
<1>3. IsFiniteSet(Missing(t, there)) /\ Cardinality(Missing(t, there)) <= Cardinality(Names)
  BY <1>1, <1>2, FS_Subset
<1>4. Cardinality(Missing(t, there)) \in Nat /\ Cardinality(Names) \in Nat
  BY <1>1, <1>3, FS_CardinalityType
<1>5. Missing(t, there) # {} => Cardinality(Missing(t, there)) # 0
  BY <1>3, FS_EmptySet
<1> QED BY <1>1, <1>3, <1>4, <1>5

\* A row for a file that had none.
LEMMA RowAdded ==
    ASSUME NEW r, Good(r), Mirrors(r.myList, r.table), NEW there \in SUBSET Names, Room(r.table, there),
           NEW name \in Missing(r.table, there)
    PROVE  LET id == newId(r.table)
               q == [r EXCEPT !.table[id] = name, !.checksum = createNewChecksum(r, id, name)]
           IN  /\ Advances(r, q, there) /\ Room(q.table, there)
               /\ id \in Ids /\ q.table[id] = name
<1> DEFINE t == r.table
           id == newId(t)
           c == Cardinality(Missing(t, there))
           sums == createNewChecksum(r, id, name)
           q == [r EXCEPT !.table[id] = name, !.checksum = sums]
           u == [t EXCEPT ![id] = name]
<1>1. /\ r \in Store /\ t \in [Ids -> Names \cup {0}] /\ r.checksum \in [Ids -> Names \cup {0}]
      /\ r.myList \in Seq(Entries) /\ r.born \in Nat /\ r.allowed \in BOOLEAN
  BY DEF Good, Store
<1>2. name \in there /\ name \in Names /\ name # 0 /\ \A i \in Ids : t[i] # name
  BY NamesAreNumbers DEF Missing
<1>3. IsFiniteSet(Missing(t, there)) /\ c \in Nat /\ c <= MaxId /\ c >= 1 /\ MaxId \in Nat
  BY MissingOnes, NamesAreNumbers
<1>4. /\ id \in Nat \ {0} /\ \A i \in Used(t) : i < id
      /\ Used(t) = {} => id = 1
      /\ Used(t) # {} => \E i \in Used(t) : id = i + 1
  BY <1>1, NewIdIsNew
<1>5. \A i \in Used(t) : i + c <= MaxId /\ i \in Nat
  BY NamesAreNumbers DEF Room, Used
<1> HIDE DEF id, c
<1>6. id + c <= MaxId + 1
  <2>1. CASE Used(t) = {}
    BY <1>3, <1>4, <2>1
  <2>2. CASE Used(t) # {}
    BY <1>3, <1>4, <1>5, <2>2
  <2> QED BY <2>1, <2>2
<1>7. id \in Ids /\ t[id] = 0
  <2>1. id \in Ids
    BY <1>3, <1>4, <1>6 DEF Ids
  <2>2. id \notin Used(t)
    BY <1>4
  <2> QED BY <2>1, <2>2 DEF Used
<1>8. u \in [Ids -> Names \cup {0}] /\ u[id] = name /\ \A i \in Ids : i # id => u[i] = t[i]
  BY <1>1, <1>2, <1>7
<1>9. /\ sums \in [Ids -> Names \cup {0}]
      /\ r.allowed => sums[id] = name
      /\ \A i \in Ids : i # id => sums[i] = r.checksum[i]
  BY <1>1, <1>2, <1>7 DEF createNewChecksum
<1> HIDE DEF sums, u
<1>10. /\ q \in Store /\ q.table = u /\ q.checksum = sums
       /\ q.myList = r.myList /\ q.born = r.born /\ q.allowed = r.allowed
  BY <1>1, <1>8, <1>9 DEF Store, u
<1> HIDE DEF q
<1>11. Used(u) = Used(t) \cup {id}
  BY <1>2, <1>7, <1>8 DEF Used
<1>12. OneRowPerName(u)
  <2>1. OneRowPerName(t)
    BY DEF Good
  <2> SUFFICES ASSUME NEW i \in Used(u), NEW j \in Used(u), u[i] = u[j] PROVE i = j
    BY DEF OneRowPerName
  <2>2. i \in Ids /\ j \in Ids
    BY DEF Used
  <2>3. (i # id => u[i] # name) /\ (j # id => u[j] # name)
    BY <1>2, <1>8, <2>2
  <2>4. CASE i = id \/ j = id
    BY <1>8, <2>3, <2>4
  <2>5. CASE i # id /\ j # id
    BY <1>8, <1>11, <2>1, <2>2, <2>5 DEF OneRowPerName
  <2> QED BY <2>4, <2>5
<1>13. \A k \in 1 .. Len(r.myList) : r.myList[k].id \in Ids /\ r.myList[k].id # id
  <2>1. \A k \in 1 .. Len(r.myList) : r.myList[k] \in Entries
    BY <1>1
  <2>2. \A k \in 1 .. Len(r.myList) : t[r.myList[k].id] = r.myList[k].name
    BY DEF Mirrors
  <2> QED BY <1>7, <2>1, <2>2, NamesAreNumbers
<1>14. Follows(r.myList, u)
  BY <1>8, <1>13 DEF Follows, Good
<1>15. Good(q)
  BY <1>10, <1>12, <1>14 DEF Good
<1>16. r.allowed /\ OwnChecksums(r) => OwnChecksums(q)
  <2> SUFFICES ASSUME r.allowed, OwnChecksums(r), NEW i \in Used(u) PROVE sums[i] \in {0, u[i]}
    BY <1>10 DEF OwnChecksums
  <2>1. i \in Ids
    BY DEF Used
  <2>2. CASE i = id
    BY <1>8, <1>9, <2>2
  <2>3. CASE i # id
    BY <1>8, <1>9, <1>11, <2>1, <2>3 DEF OwnChecksums
  <2> QED BY <2>2, <2>3
<1>17. \A i \in Ids : t[i] \in there => u[i] = t[i]
  <2>1. 0 \notin there
    BY NamesAreNumbers
  <2> QED BY <1>7, <1>8, <2>1
<1>18. Advances(r, q, there)
  <2>1. r.born <= q.born
    BY <1>1, <1>10
  <2>2. OldOrNew(r, q)
    BY <1>10 DEF OldOrNew
  <2> QED BY <1>10, <1>15, <1>16, <1>17, <2>1, <2>2 DEF Advances
<1>19. Missing(u, there) = Missing(t, there) \ {name}
  <2>1. \A n \in there : (\A i \in Ids : u[i] # n) <=> (n # name /\ \A i \in Ids : t[i] # n)
    <3> SUFFICES ASSUME NEW n \in there
                 PROVE  (\A i \in Ids : u[i] # n) <=> (n # name /\ \A i \in Ids : t[i] # n)
      OBVIOUS
    <3>1. n # 0
      BY NamesAreNumbers
    <3> QED BY <1>7, <1>8, <3>1
  <2> QED BY <2>1 DEF Missing
<1>20. Cardinality(Missing(u, there)) = c - 1
  BY <1>3, <1>19, FS_RemoveElement DEF c
<1>21. Room(u, there)
  <2> SUFFICES ASSUME NEW i \in Used(u) PROVE i + (c - 1) <= MaxId
    BY <1>20 DEF Room
  <2>1. CASE i = id
    BY <1>3, <1>4, <1>6, <2>1
  <2>2. CASE i \in Used(t)
    BY <1>3, <1>5, <2>2
  <2> QED BY <1>11, <2>1, <2>2
<1> QED BY <1>7, <1>8, <1>10, <1>18, <1>21 DEF q, sums, id

LEMMA FindsOneFinds ==
    ASSUME NEW s, Good(s), NEW there \in SUBSET Names, Room(s.table, there), NEW name \in there
    PROVE  LET q == FindsOne(s, there, name)
           IN  /\ Advances(s, q, there) /\ Room(q.table, there)
               /\ \E i \in Ids : q.table[i] = name
<1> DEFINE q == FindsOne(s, there, name)
           r == refreshConfigs(s, there)
           id == newId(r.table)
<1>1. CASE \E i \in Ids : s.table[i] = name
  <2>1. q = s
    BY <1>1 DEF FindsOne
  <2> QED BY <1>1, <2>1, AdvancesFirst
<1>2. CASE ~\E i \in Ids : s.table[i] = name
  <2>1. /\ Advances(s, r, there) /\ Mirrors(r.myList, r.table)
        /\ \A i \in Ids : r.table[i] # 0 <=> s.table[i] \in there
        /\ \A i \in Ids : r.table[i] \in {0, s.table[i]}
    BY RefreshAdvances
  <2> HIDE DEF r
  <2>2. name # 0
    BY NamesAreNumbers
  <2>3. \A i \in Ids : r.table[i] # name
    BY <1>2, <2>1, <2>2
  <2>4. Good(r) /\ r.myList \in Seq(Entries)
    BY <2>1 DEF Advances, Good, Store
  <2>5. ~\E k \in DOMAIN r.myList : r.myList[k].name = name
    <3>1. DOMAIN r.myList = 1 .. Len(r.myList) /\ \A k \in 1 .. Len(r.myList) : r.myList[k] \in Entries
      BY <2>4
    <3>2. \A k \in 1 .. Len(r.myList) : r.myList[k].id \in Ids /\ r.table[r.myList[k].id] = r.myList[k].name
      BY <2>1, <3>1, NamesAreNumbers DEF Mirrors
    <3> QED BY <2>3, <3>1, <3>2
  <2>6. q = [r EXCEPT !.table[id] = name, !.checksum = createNewChecksum(r, id, name)]
    BY <1>2, <2>5 DEF FindsOne, r
  <2>7. Missing(r.table, there) = Missing(s.table, there)
    <3>1. \A n \in there : (\A i \in Ids : r.table[i] # n) <=> (\A i \in Ids : s.table[i] # n)
      <4> SUFFICES ASSUME NEW n \in there
                   PROVE  (\A i \in Ids : r.table[i] # n) <=> (\A i \in Ids : s.table[i] # n)
        OBVIOUS
      <4>1. n # 0
        BY NamesAreNumbers
      <4> QED BY <2>1, <4>1
    <3> QED BY <3>1 DEF Missing
  <2>8. Room(r.table, there)
    <3>1. Used(r.table) \subseteq Used(s.table)
      BY <2>1 DEF Used
    <3> QED BY <2>7, <3>1 DEF Room
  <2>9. name \in Missing(r.table, there)
    BY <2>3 DEF Missing
  <2> DEFINE w == [r EXCEPT !.table[id] = name, !.checksum = createNewChecksum(r, id, name)]
  <2>10. Advances(r, w, there) /\ Room(w.table, there) /\ id \in Ids /\ w.table[id] = name
    <3>1. Good(r) /\ Mirrors(r.myList, r.table) /\ Room(r.table, there) /\ name \in Missing(r.table, there)
      BY <2>1, <2>4, <2>8, <2>9
    <3> QED BY <3>1, RowAdded
  <2> HIDE DEF w, id
  <2>11. q = w
    BY <2>6 DEF w, id
  <2> HIDE DEF q
  <2> QED BY <2>1, <2>10, <2>11, AdvancesOn DEF q
<1> QED BY <1>1, <1>2

\* The loop over the files, one by one.
FindsByFile(f, s, there) ==
    /\ findConfigsInDir(s, there) = f[Cardinality(there)]
    /\ f[0] = s
    /\ \A k \in 1 .. Cardinality(there) : f[k] = FindsOne(f[k - 1], there, InOrder(there)[k])

LEMMA FindsDefined ==
    ASSUME NEW s, NEW there, Cardinality(there) \in Nat
    PROVE  \E f : FindsByFile(f, s, there)
<1> DEFINE Is(g, n) == g = [k \in 0 .. n |-> IF k = 0 THEN s ELSE FindsOne(g[k - 1], there, InOrder(there)[k])]
           T == {n \in Nat : ~\E g : Is(g, n)}
<1>1. T = {}
  <2> SUFFICES ASSUME T # {} PROVE FALSE
    OBVIOUS
  <2>1. T \subseteq Nat
    OBVIOUS
  <2>2. PICK n \in T : \A m \in T : n <= m
    <3> HIDE DEF T
    <3> QED BY <2>1, LeastNat
  <2>3. n \in Nat
    OBVIOUS
  <2>4. CASE n = 0
    <3>1. \A k \in 0 .. n : k = 0
      BY <2>4
    <3> DEFINE g == [k \in 0 .. n |-> s]
    <3>2. \A k \in 0 .. n : g[k] = IF k = 0 THEN s ELSE FindsOne(g[k - 1], there, InOrder(there)[k])
      <4>1. \A k \in 0 .. n : g[k] = s
        OBVIOUS
      <4> HIDE DEF g
      <4> QED BY <3>1, <4>1
    <3>3. Is(g, n)
      <4>1. g = [k \in 0 .. n |-> g[k]]
        OBVIOUS
      <4> HIDE DEF g
      <4> QED BY <3>2, <4>1
    <3> HIDE DEF g
    <3> QED BY <3>3
  <2>5. CASE n # 0
    <3>1. n - 1 \in Nat /\ n - 1 \notin T
      <4> HIDE DEF T
      <4> QED BY <2>2, <2>3, <2>5
    <3>2. PICK g : Is(g, n - 1)
      BY <3>1
    <3> DEFINE h == [k \in 0 .. n |-> IF k = n THEN FindsOne(g[n - 1], there, InOrder(there)[n]) ELSE g[k]]
    <3>3. \A k \in 0 .. n - 1 : h[k] = g[k]
      BY <2>3
    <3>4. \A k \in 0 .. n - 1 : g[k] = IF k = 0 THEN s ELSE FindsOne(g[k - 1], there, InOrder(there)[k])
      BY <3>2
    <3>5. \A k \in 0 .. n : h[k] = IF k = 0 THEN s ELSE FindsOne(h[k - 1], there, InOrder(there)[k])
      <4> SUFFICES ASSUME NEW k \in 0 .. n
                   PROVE  h[k] = IF k = 0 THEN s ELSE FindsOne(h[k - 1], there, InOrder(there)[k])
        OBVIOUS
      <4>1. CASE k = n
        <5>1. h[k] = FindsOne(g[n - 1], there, InOrder(there)[n]) /\ n - 1 \in 0 .. n - 1
          BY <2>3, <3>1, <4>1
        <5> HIDE DEF h
        <5> QED BY <2>5, <3>3, <4>1, <5>1
      <4>2. CASE k = 0
        <5> HIDE DEF h
        <5>1. 0 \in 0 .. n - 1
          BY <3>1
        <5> QED BY <3>3, <3>4, <4>2, <5>1
      <4>3. CASE k # n /\ k # 0
        <5>1. k \in 0 .. n - 1 /\ k - 1 \in 0 .. n - 1
          BY <2>3, <4>3
        <5> HIDE DEF h
        <5>2. h[k] = g[k] /\ h[k - 1] = g[k - 1]
          BY <3>3, <5>1
        <5> QED BY <3>4, <4>3, <5>1, <5>2
      <4> QED BY <4>1, <4>2, <4>3
    <3>6. Is(h, n)
      BY <3>5
    <3> QED BY <3>6
  <2> QED BY <2>4, <2>5
<1> DEFINE c == Cardinality(there)
           f == CHOOSE g : Is(g, c)
<1>2. \E g : Is(g, c)
  BY <1>1
<1>3. findConfigsInDir(s, there) = f[c]
  BY DEF findConfigsInDir
<1>4. Is(f, c)
  BY <1>2
<1> HIDE DEF f
<1>5. \A k \in 0 .. c : f[k] = IF k = 0 THEN s ELSE FindsOne(f[k - 1], there, InOrder(there)[k])
  BY <1>4
<1> QED BY <1>3, <1>5 DEF FindsByFile

\* findConfigsInDir gives a row to every file.
LEMMA FindsThem ==
    ASSUME NEW s, Good(s), NEW there \in SUBSET Names, Room(s.table, there)
    PROVE  LET q == findConfigsInDir(s, there)
           IN  Advances(s, q, there) /\ \A name \in there : \E i \in Ids : q.table[i] = name
<1> DEFINE c == Cardinality(there)
           files1 == InOrder(there)
<1>1. there \subseteq Nat /\ IsFiniteSet(there)
  <2>1. IsFiniteSet(Names) /\ Names \subseteq Nat
    BY ConfigsAssumption
  <2> QED BY <2>1, FS_Subset
<1>2. /\ c \in Nat /\ files1 \in [1 .. c -> there]
      /\ \A p \in there : Rank(there, p) \in 1 .. c /\ files1[Rank(there, p)] = p
  BY <1>1, InOrderLists
<1>3. PICK f : /\ findConfigsInDir(s, there) = f[c]
               /\ f[0] = s
               /\ \A k \in 1 .. c : f[k] = FindsOne(f[k - 1], there, files1[k])
  <2>1. \E f : FindsByFile(f, s, there)
    BY <1>2, FindsDefined
  <2> QED BY <2>1 DEF FindsByFile
<1> HIDE DEF c, files1
<1> DEFINE P(k) == /\ Advances(s, f[k], there) /\ Room(f[k].table, there)
                   /\ \A j \in 1 .. k : \E i \in Ids : f[k].table[i] = files1[j]
<1>4. P(0)
  <2>1. 1 .. 0 = {}
    OBVIOUS
  <2> QED BY <1>3, <2>1, AdvancesFirst
<1>5. ASSUME NEW k \in 1 .. c, P(k - 1) PROVE P(k)
  <2>1. files1[k] \in there /\ f[k] = FindsOne(f[k - 1], there, files1[k]) /\ Good(f[k - 1])
    BY <1>2, <1>3, <1>5 DEF Advances
  <2>2. /\ Advances(f[k - 1], f[k], there) /\ Room(f[k].table, there)
        /\ \E i \in Ids : f[k].table[i] = files1[k]
    BY <1>5, <2>1, FindsOneFinds
  <2>3. Advances(s, f[k], there)
    BY <1>5, <2>2, AdvancesOn
  <2>4. ASSUME NEW j \in 1 .. k PROVE \E i \in Ids : f[k].table[i] = files1[j]
    <3>1. CASE j = k
      BY <2>2, <3>1
    <3>2. CASE j # k
      <4>1. j \in 1 .. k - 1 /\ j \in 1 .. c
        BY <1>2, <3>2
      <4>2. PICK i \in Ids : f[k - 1].table[i] = files1[j]
        BY <1>5, <4>1
      <4>3. files1[j] \in there
        BY <1>2, <4>1
      <4> QED BY <2>2, <4>2, <4>3 DEF Advances
    <3> QED BY <3>1, <3>2
  <2> QED BY <2>2, <2>3, <2>4
<1> HIDE DEF P
<1>6. P(c)
  <2> DEFINE T == {k \in 0 .. c : ~P(k)}
  <2> SUFFICES ASSUME T # {} PROVE FALSE
    BY <1>2
  <2>1. T \subseteq Nat
    BY <1>2
  <2>2. PICK k \in T : \A m \in T : k <= m
    <3> HIDE DEF T
    <3> QED BY <2>1, LeastNat
  <2>3. k \in 0 .. c /\ ~P(k)
    OBVIOUS
  <2>4. k # 0
    BY <1>4, <2>3
  <2>5. k - 1 \in 0 .. c /\ k - 1 \notin T /\ k \in 1 .. c
    BY <1>2, <2>2, <2>3, <2>4
  <2>6. P(k - 1)
    BY <2>5
  <2> QED BY <1>5, <2>3, <2>5, <2>6
<1>7. \A name \in there : \E i \in Ids : f[c].table[i] = name
  BY <1>2, <1>6 DEF P
<1> QED BY <1>3, <1>6, <1>7 DEF P

\* Both together, as the handlers call them.
Settles(s, r, there) ==
    /\ Advances(s, r, there) /\ Mirrors(r.myList, r.table)
    /\ \A i \in Used(r.table) : r.table[i] \in there

LEMMA RefreshSettles ==
    ASSUME NEW s, Good(s), NEW there \in SUBSET Names
    PROVE  Settles(s, refreshConfigs(s, there), there)
<1> DEFINE r == refreshConfigs(s, there)
<1>1. /\ Advances(s, r, there) /\ Mirrors(r.myList, r.table)
      /\ \A i \in Ids : r.table[i] # 0 <=> s.table[i] \in there
      /\ \A i \in Ids : r.table[i] \in {0, s.table[i]}
  BY RefreshAdvances
<1> HIDE DEF r
<1>2. \A i \in Used(r.table) : r.table[i] \in there
  BY <1>1 DEF Used
<1> QED BY <1>1, <1>2 DEF Settles, r

LEMMA FindSettles ==
    ASSUME NEW s, Good(s), NEW there \in SUBSET Names, Room(s.table, there)
    PROVE  LET r == refreshConfigs(findConfigsInDir(s, there), there)
           IN  Settles(s, r, there) /\ \A name \in there : \E i \in Ids : r.table[i] = name
<1> DEFINE q == findConfigsInDir(s, there)
           r == refreshConfigs(q, there)
<1>1. Advances(s, q, there) /\ \A name \in there : \E i \in Ids : q.table[i] = name
  BY FindsThem
<1> HIDE DEF q
<1>2. Good(q)
  BY <1>1 DEF Advances
<1>3. Settles(q, r, there)
  BY <1>2, RefreshSettles
<1> HIDE DEF r
<1>4. Advances(s, r, there)
  BY <1>1, <1>3, AdvancesOn DEF Settles
<1>5. \A name \in there : \E i \in Ids : r.table[i] = name
  BY <1>1, <1>3 DEF Settles, Advances
<1> QED BY <1>3, <1>4, <1>5 DEF Settles, r, q

-----------------------------------------------------------------------------
\* The inductive invariant.

Commands == [cmd : {"CLOSE", "STATUS", "REMOVE_CHECKSUM"}, id : Ids]
            \cup [cmd : {"OPEN"}, id : Ids, no : Nat \ {0}, name : Names]
Messages == [cmd : {"STATUS", "ERROR", "RECEIVEDIP"}, id : Ids, state : States]
            \cup [cmd : {"DISCONNECTED"}, id : Ids, state : {"Disconnected"}]

ConfigTypes ==
    /\ files \in SUBSET Names
    /\ rows \in Seq(Nat \ {0})
    /\ loading \in BOOLEAN
    /\ removing \in Nat
    /\ running \in [Ids -> [no : Nat, up : BOOLEAN]]
    /\ toService \in Seq(Commands)
    /\ toClient \in Seq(Messages)

Listed == Good(Configs(TRUE)) /\ Mirrors(myList, table)

\* Every file has a row, and a row its file unless one was lost.
Filed ==
    /\ \A name \in files : \E i \in Ids : table[i] = name
    /\ lost \/ \A i \in Used(table) : table[i] \in files

\* While an entry is being removed the rows stay as they are.
Removes ==
    removing # 0 => /\ ~loading /\ current \in 1 .. Len(rows)
                    /\ \E k \in 1 .. Len(myList) : myList[k].no = removing

Checked == declined \/ \A i \in Used(table) : checksum[i] \in {0, table[i]}

\* The entries that have opened a VPN, or will have: run is what the service
\* runs, out what is under way to it.
Opened(run, out) ==
    {run[i].no : i \in Ids} \cup {out[k].no : k \in {k \in 1 .. Len(out) : out[k].cmd = "OPEN"}}

\* An entry without a row has just been made: nobody can have used it.
Unused ==
    /\ \A no \in Opened(running, toService) : no <= born
    /\ \A k \in 1 .. Len(myList) :
          ~Contains(rows, myList[k].no) =>
             myList[k].no \notin Opened(running, toService) /\ myList[k].state = "Disconnected"

\* The service runs a VPN only for an entry, or it will be told to close it.
Closes(out, i, from) == \E k \in from .. Len(out) : out[k] = [cmd |-> "CLOSE", id |-> i]
HasEntry(list, i, no) == \E k \in 1 .. Len(list) : list[k].id = i /\ list[k].no = no
Owns(list, run, out) ==
    /\ \A i \in Ids : run[i].no # 0 => HasEntry(list, i, run[i].no) \/ Closes(out, i, 1)
    /\ \A k \in 1 .. Len(out) :
          out[k].cmd = "OPEN" => HasEntry(list, out[k].id, out[k].no) \/ Closes(out, out[k].id, k + 1)
Owned ==
    /\ \A i \in Ids : running[i].no = 0 => running[i] = NoVpn
    /\ lost \/ Owns(myList, running, toService)

\* The last message about an id tells whether its VPN is up; if there is none
\* under way, the entry does, unless a command is under way.
LastAbout(in, i, k) == in[k].id = i /\ \A l \in k + 1 .. Len(in) : in[l].id # i
Tell(in, run) ==
    \A i \in Ids : \A k \in 1 .. Len(in) :
       LastAbout(in, i, k) => (in[k].state = "Connected" <=> run[i].up)
Told == Tell(toClient, running)

Untold(in, i) == \A k \in 1 .. Len(in) : in[k].id # i
Asked(out, i) == \E k \in 1 .. Len(out) : out[k].id = i /\ out[k].cmd \in {"OPEN", "CLOSE"}
Truthful(e, run, in, out) ==
    Untold(in, e.id) =>
       /\ e.state = "Connected" => run[e.id].up
       /\ run[e.id] = [no |-> e.no, up |-> TRUE] => e.state = "Connected" \/ Asked(out, e.id)
Shown == \A k \in 1 .. Len(myList) : Truthful(myList[k], running, toClient, toService)

ConfigsInv ==
    /\ ConfigTypes /\ Listed /\ Filed
    /\ RowsAreLive /\ Removes /\ Checked
    /\ Unused /\ Owned /\ Told /\ Shown

-----------------------------------------------------------------------------
\* What the invariant says of list and rows.

LEMMA ListFacts ==
    ASSUME Listed
    PROVE  /\ table \in [Ids -> Names \cup {0}] /\ checksum \in [Ids -> Names \cup {0}]
           /\ myList \in Seq(Entries) /\ Len(myList) \in Nat /\ DOMAIN myList = 1 .. Len(myList)
           /\ born \in Nat /\ OneRowPerName(table)
<1>1. Configs(TRUE) \in Store /\ OneRowPerName(Configs(TRUE).table)
  BY DEF Listed, Good
<1>2. /\ Configs(TRUE).table = table /\ Configs(TRUE).checksum = checksum
      /\ Configs(TRUE).myList = myList /\ Configs(TRUE).born = born
  BY DEF Configs
<1>3. /\ table \in [Ids -> Names \cup {0}] /\ checksum \in [Ids -> Names \cup {0}]
      /\ myList \in Seq(Entries) /\ born \in Nat
  BY <1>1, <1>2 DEF Store
<1>4. Len(myList) \in Nat /\ DOMAIN myList = 1 .. Len(myList)
  BY <1>3
<1>5. OneRowPerName(table)
  BY <1>1, <1>2
<1> QED BY <1>3, <1>4, <1>5

LEMMA EntryFacts ==
    ASSUME Listed
    PROVE  /\ \A k \in 1 .. Len(myList) :
                 /\ myList[k] \in Entries /\ myList[k].id \in Ids /\ myList[k].name \in Names
                 /\ myList[k].no \in Nat /\ myList[k].no # 0 /\ myList[k].no <= born
                 /\ table[myList[k].id] = myList[k].name
           /\ \A k, l \in 1 .. Len(myList) :
                 myList[k].id = myList[l].id \/ myList[k].no = myList[l].no => k = l
<1>1. myList \in Seq(Entries)
  BY ListFacts
<1>2. Distinct(myList) /\ MadeBefore(myList, born)
  BY DEF Listed, Good, Configs
<1>3. \A k \in 1 .. Len(myList) : table[myList[k].id] = myList[k].name
  BY DEF Listed, Mirrors
<1>4. \A k \in 1 .. Len(myList) : myList[k] \in Entries
  BY <1>1
<1>5. \A k \in 1 .. Len(myList) : myList[k].no <= born
  BY <1>2 DEF MadeBefore
<1>6. \A k, l \in 1 .. Len(myList) : myList[k].id = myList[l].id \/ myList[k].no = myList[l].no => k = l
  BY <1>2 DEF Distinct
<1> QED BY <1>3, <1>4, <1>5, <1>6, NamesAreNumbers

LEMMA EntryOfFinds ==
    ASSUME Listed, NEW no, \E k \in 1 .. Len(myList) : myList[k].no = no
    PROVE  \E k \in 1 .. Len(myList) : EntryOf(no) = myList[k] /\ myList[k].no = no
<1>1. DOMAIN myList = 1 .. Len(myList)
  BY ListFacts
<1>2. \E e \in ToSet(myList) : e.no = no
  BY <1>1 DEF ToSet
<1>3. EntryOf(no) \in ToSet(myList) /\ EntryOf(no).no = no
  BY <1>2 DEF EntryOf
<1> QED BY <1>1, <1>3 DEF ToSet

\* The rows, once they are loaded.
LEMMA RowFacts ==
    ASSUME NEW list \in Seq(Entries)
    PROVE  LET rs == LoadConnections(list)
           IN  /\ rs \in Seq(Nat \ {0}) /\ Len(rs) = Len(list) /\ DOMAIN rs = 1 .. Len(list)
               /\ \A k \in 1 .. Len(list) : rs[k] = list[k].no
               /\ \A k \in 1 .. Len(list) : Contains(rs, list[k].no)
<1> DEFINE rs == LoadConnections(list)
<1>1. DOMAIN list = 1 .. Len(list) /\ Len(list) \in Nat
  OBVIOUS
<1>2. rs = [k \in 1 .. Len(list) |-> list[k].no]
  BY <1>1 DEF LoadConnections
<1> HIDE DEF rs
<1>21. \A k \in 1 .. Len(list) : list[k] \in Entries
  OBVIOUS
<1>3. rs \in [1 .. Len(list) -> Nat \ {0}]
  BY <1>2, <1>21, NamesAreNumbers
<1>4. rs \in Seq(Nat \ {0}) /\ Len(rs) = Len(list) /\ DOMAIN rs = 1 .. Len(list)
  BY <1>1, <1>3
<1>5. \A k \in 1 .. Len(list) : rs[k] = list[k].no
  BY <1>2
<1>6. \A k \in 1 .. Len(list) : Contains(rs, list[k].no)
  BY <1>4, <1>5 DEF Contains
<1> QED BY <1>4, <1>5, <1>6 DEF rs

-----------------------------------------------------------------------------
\* A handler that refreshes the list.

\* The list becomes that of r, made from s, in which a row may be missing.
Settled(s, r) ==
    /\ Good(s) /\ s.myList = myList /\ s.born = born
    /\ \A i \in Ids : s.table[i] \in {0, table[i]}
    /\ Settles(s, r, files') /\ Refreshed(r)

LEMMA SettledList ==
    ASSUME Listed, NEW s, NEW r, Settled(s, r)
    PROVE  /\ Listed' /\ born <= born'
           /\ \A i \in Used(table') : table'[i] \in files'
           /\ \A k \in 1 .. Len(myList') :
                 \/ myList'[k].no > born /\ myList'[k].state = "Disconnected"
                 \/ \E l \in 1 .. Len(myList) : myList'[k] = myList[l]
           /\ \A l \in 1 .. Len(myList) :
                 s.table[myList[l].id] \in files' => \E k \in 1 .. Len(myList') : myList'[k] = myList[l]
           /\ \A i \in Ids : s.table[i] \in files' => table'[i] = s.table[i]
<1>1. /\ Settles(s, r, files') /\ s.myList = myList /\ s.born = born
      /\ table' = r.table /\ myList' = r.myList /\ born' = r.born /\ checksum' = r.checksum
  BY DEF Settled, Refreshed
<1>2. /\ Good(r) /\ s.born <= r.born /\ Mirrors(r.myList, r.table)
      /\ \A i \in Ids : s.table[i] \in files' => r.table[i] = s.table[i]
      /\ OldOrNew(s, r)
      /\ \A i \in Used(r.table) : r.table[i] \in files'
  BY <1>1 DEF Settles, Advances
<1>3. \A l \in 1 .. Len(s.myList) :
         s.table[s.myList[l].id] \in files' => \E k \in 1 .. Len(r.myList) : r.myList[k] = s.myList[l]
  BY <1>1 DEF Settles, Advances
<1>4. Listed'
  <2> DEFINE c == [table |-> table', myList |-> myList', born |-> born', checksum |-> checksum', allowed |-> TRUE]
  <2>1. /\ c.table = r.table /\ c.myList = r.myList /\ c.born = r.born /\ c.checksum = r.checksum
        /\ c \in [table : {r.table}, myList : {r.myList}, born : {r.born}, checksum : {r.checksum},
                  allowed : BOOLEAN]
    BY <1>1
  <2>2. /\ r.table \in [Ids -> Names \cup {0}] /\ r.checksum \in [Ids -> Names \cup {0}]
        /\ r.myList \in Seq(Entries) /\ r.born \in Nat
    BY <1>2 DEF Good, Store
  <2> HIDE DEF c
  <2>3. c \in Store
    BY <2>1, <2>2 DEF Store
  <2>4. Good(c)
    BY <1>2, <2>1, <2>3 DEF Good
  <2> QED BY <1>1, <1>2, <2>4 DEF Listed, Configs, c
<1> QED BY <1>1, <1>2, <1>3, <1>4 DEF OldOrNew

\* What is told and shown, after any such handler: only the list has changed,
\* and commands may have been added.
LEMMA SettledShown ==
    ASSUME ConfigTypes, Listed, Unused, Shown, NEW s, NEW r, Settled(s, r),
           UNCHANGED <<running, toClient>>,
           \A i \in Ids : Asked(toService, i) => Asked(toService', i)
    PROVE  Shown'
<1> SUFFICES ASSUME NEW k \in 1 .. Len(myList'), NEW e, e = myList'[k], Untold(toClient, e.id)
             PROVE  /\ e.state = "Connected" => running[e.id].up
                    /\ running[e.id] = [no |-> e.no, up |-> TRUE] => e.state = "Connected" \/ Asked(toService', e.id)
  BY DEF Shown, Truthful
<1>1. \/ e.no > born /\ e.state = "Disconnected"
      \/ \E l \in 1 .. Len(myList) : e = myList[l]
  BY SettledList
<1>3. CASE \E l \in 1 .. Len(myList) : e = myList[l]
  <2>1. e.id \in Ids
    BY <1>3, EntryFacts
  <2>2. Truthful(e, running, toClient, toService)
    BY <1>3 DEF Shown
  <2> QED BY <2>1, <2>2 DEF Truthful
<1>4. CASE e.no > born /\ e.state = "Disconnected"
  <2>1. e.id \in Ids /\ e.no \in Nat /\ born \in Nat
    <3>1. myList' \in Seq(Entries) /\ born \in Nat
      <4>1. r.myList \in Seq(Entries) /\ myList' = r.myList
        BY DEF Settled, Settles, Advances, Good, Store, Refreshed
      <4> QED BY <4>1, ListFacts
    <3>2. e \in Entries
      BY <3>1
    <3> QED BY <3>1, <3>2, NamesAreNumbers
  <2>2. running[e.id].no \in Nat /\ running[e.id].no <= born
    <3>1. running[e.id].no \in Opened(running, toService)
      BY <2>1 DEF Opened
    <3> QED BY <2>1, <3>1 DEF Unused, ConfigTypes
  <2>3. running[e.id].no # e.no
    BY <1>4, <2>1, <2>2
  <2> QED BY <1>4, <2>3
<1> QED BY <1>1, <1>3, <1>4

LEMMA OpenedFacts ==
    ASSUME ConfigTypes, Unused
    PROVE  \A no \in Opened(running, toService) : no \in Nat /\ no <= born
<1>1. \A i \in Ids : running[i].no \in Nat
  BY DEF ConfigTypes
<1>2. \A k \in 1 .. Len(toService) : toService[k].cmd = "OPEN" => toService[k].no \in Nat
  <2>1. \A k \in 1 .. Len(toService) : toService[k] \in Commands
    BY DEF ConfigTypes
  <2> QED BY <2>1 DEF Commands
<1>3. \A no \in Opened(running, toService) : no \in Nat
  BY <1>1, <1>2 DEF Opened
<1> QED BY <1>3 DEF Unused

LEMMA GoodNow ==
    ASSUME Listed, NEW allowed \in BOOLEAN
    PROVE  Good(Configs(allowed))
<1>1. /\ Configs(allowed).table = table /\ Configs(allowed).checksum = checksum
      /\ Configs(allowed).myList = myList /\ Configs(allowed).born = born
      /\ Configs(TRUE).table = table /\ Configs(TRUE).checksum = checksum
      /\ Configs(TRUE).myList = myList /\ Configs(TRUE).born = born
  BY DEF Configs
<1>2. Configs(allowed) \in Store
  BY ListFacts DEF Configs, Store
<1> QED BY <1>1, <1>2 DEF Listed, Good

\* Nothing is removed: a file may be new.
Grows(allowed, r) ==
    /\ files \subseteq files' /\ files' \in SUBSET Names
    /\ Settles(Configs(allowed), r, files') /\ Refreshed(r)
    /\ \A name \in files' : \E i \in Ids : r.table[i] = name
    /\ declined' \/ (~declined /\ allowed)
    /\ \/ rows' = LoadConnections(myList') /\ UNCHANGED loading
       \/ UNCHANGED rows /\ loading' = TRUE
    /\ UNCHANGED <<removing, current, running, toService, toClient, lost>>

LEMMA GrowsInv ==
    ASSUME ConfigsInv, removing = 0, ~loading, NEW allowed \in BOOLEAN, NEW r, Grows(allowed, r)
    PROVE  ConfigsInv'
<1> DEFINE s == Configs(allowed)
<1>1. /\ ConfigTypes /\ Listed /\ Filed /\ RowsAreLive /\ Removes /\ Checked
      /\ Unused /\ Owned /\ Told /\ Shown
  BY DEF ConfigsInv
<1>2. Settled(s, r)
  <2>1. Good(s)
    BY <1>1, GoodNow
  <2>2. s.table = table /\ s.myList = myList /\ s.born = born
    BY DEF Configs
  <2> QED BY <2>1, <2>2 DEF Settled, Grows
<1>3. s.table = table /\ s.checksum = checksum /\ s.allowed = allowed
  BY DEF Configs
<1> HIDE DEF s
<1>4. /\ Listed' /\ born <= born'
      /\ \A i \in Used(table') : table'[i] \in files'
  BY <1>1, <1>2, SettledList
<1>5. \A k \in 1 .. Len(myList') :
         \/ myList'[k].no > born /\ myList'[k].state = "Disconnected"
         \/ \E l \in 1 .. Len(myList) : myList'[k] = myList[l]
  BY <1>1, <1>2, SettledList
<1>6. lost \/ \A l \in 1 .. Len(myList) : \E k \in 1 .. Len(myList') : myList'[k] = myList[l]
  <2>1. \A l \in 1 .. Len(myList) :
           s.table[myList[l].id] \in files' => \E k \in 1 .. Len(myList') : myList'[k] = myList[l]
    BY <1>1, <1>2, SettledList
  <2>2. ASSUME ~lost, NEW l \in 1 .. Len(myList) PROVE s.table[myList[l].id] \in files'
    <3>1. myList[l].id \in Ids /\ table[myList[l].id] = myList[l].name /\ myList[l].name # 0
      BY <1>1, EntryFacts, NamesAreNumbers
    <3>2. table[myList[l].id] \in files
      BY <1>1, <2>2, <3>1 DEF Filed, Used
    <3> QED BY <1>3, <3>2 DEF Grows
  <2> QED BY <2>1, <2>2
<1>7. rows = LoadConnections(myList) /\ myList \in Seq(Entries) /\ born \in Nat
  BY <1>1, ListFacts DEF RowsAreLive
<1>8. /\ DOMAIN rows = 1 .. Len(myList)
      /\ \A k \in 1 .. Len(myList) : rows[k] = myList[k].no /\ Contains(rows, myList[k].no)
  BY <1>7, RowFacts
<1>9. myList' \in Seq(Entries) /\ DOMAIN myList' = 1 .. Len(myList') /\ born' \in Nat
  <2>1. myList' \in Seq(Entries) /\ born' \in Nat
    BY <1>2 DEF Settled, Settles, Advances, Good, Store, Refreshed
  <2> QED BY <2>1
<1>10. ConfigTypes'
  <2>1. rows' \in Seq(Nat \ {0})
    BY <1>1, <1>9, RowFacts DEF Grows, ConfigTypes
  <2> QED BY <1>1, <2>1 DEF Grows, ConfigTypes
<1>11. Filed'
  BY <1>4 DEF Filed, Grows, Refreshed
<1>12. RowsAreLive'
  <2>1. CASE rows' = LoadConnections(myList')
    <3>1. \A k \in DOMAIN rows' : k \in DOMAIN myList' /\ rows'[k] = myList'[k].no
      BY <1>9, <2>1, RowFacts
    <3> QED BY <2>1, <3>1 DEF RowsAreLive, ToSet
  <2>2. CASE UNCHANGED rows /\ loading' = TRUE
    <3>1. lost \/ \A k \in DOMAIN rows : \E e \in ToSet(myList') : e.no = rows[k]
      BY <1>6, <1>8, <1>9 DEF ToSet
    <3> QED BY <2>2, <3>1 DEF RowsAreLive, Grows
  <2> QED BY <2>1, <2>2 DEF Grows
<1>13. Removes'
  BY DEF Removes, Grows
<1>14. Checked'
  <2>1. declined' \/ (~declined /\ allowed)
    BY DEF Grows
  <2>2. ASSUME ~declined, allowed PROVE OwnChecksums(r)
    <3>1. OwnChecksums(s)
      BY <1>1, <1>3, <2>2 DEF Checked, OwnChecksums
    <3> QED BY <1>2, <1>3, <2>2, <3>1 DEF Settled, Settles, Advances
  <2>3. table' = r.table /\ checksum' = r.checksum
    BY DEF Grows, Refreshed
  <2> QED BY <2>1, <2>2, <2>3 DEF Checked, OwnChecksums
<1>15. Unused'
  <2>1. \A no \in Opened(running, toService) : no \in Nat /\ no <= born
    BY <1>1, OpenedFacts
  <2>2. \A no \in Opened(running, toService) : no <= born'
    BY <1>4, <1>7, <1>9, <2>1
  <2>3. ASSUME NEW k \in 1 .. Len(myList'), ~Contains(rows', myList'[k].no)
        PROVE  myList'[k].no \notin Opened(running, toService) /\ myList'[k].state = "Disconnected"
    <3>1. CASE rows' = LoadConnections(myList')
      BY <1>9, <2>3, <3>1, RowFacts
    <3>2. CASE UNCHANGED rows
      <4>1. ~\E l \in 1 .. Len(myList) : myList'[k] = myList[l]
        BY <1>8, <2>3, <3>2
      <4>2. myList'[k].no > born /\ myList'[k].state = "Disconnected"
        BY <1>5, <4>1
      <4>3. myList'[k].no \in Nat
        BY <1>9, NamesAreNumbers
      <4> QED BY <1>7, <2>1, <4>2, <4>3
    <3> QED BY <3>1, <3>2 DEF Grows
  <2> QED BY <2>2, <2>3 DEF Unused, Grows
<1>16. Owned'
  <2>1. \A i, no : ~lost /\ HasEntry(myList, i, no) => HasEntry(myList', i, no)
    BY <1>6 DEF HasEntry
  <2>2. ~lost => Owns(myList', running, toService)
    BY <1>1, <2>1 DEF Owned, Owns
  <2> QED BY <1>1, <2>2 DEF Owned, Grows
<1>17. Told'
  BY <1>1 DEF Told, Grows
<1>18. Shown'
  BY <1>1, <1>2, SettledShown DEF Grows
<1> QED BY <1>4, <1>10, <1>11, <1>12, <1>13, <1>14, <1>15, <1>16, <1>17, <1>18 DEF ConfigsInv

\* There is an id for a config that has just been written.
LEMMA RoomForNew ==
    ASSUME Listed, Filed, files \in SUBSET Names, NEW name \in Names, New(name)
    PROVE  files' \in SUBSET Names /\ files \subseteq files' /\ Room(table, files')
<1>1. files' = files \cup {name} /\ \A i \in Used(table) : i < MaxId
  BY DEF New
<1>2. files' \in SUBSET Names /\ files \subseteq files'
  BY <1>1
<1>3. Missing(table, files') \in SUBSET {name}
  BY <1>1 DEF Missing, Filed
<1>4. IsFiniteSet({name}) /\ Cardinality({name}) = 1
  BY FS_Singleton
<1>5. Cardinality(Missing(table, files')) <= 1
  BY <1>3, <1>4, FS_Subset
<1>6. Cardinality(Missing(table, files')) \in Nat /\ MaxId \in Nat /\ Used(table) \subseteq Nat
  BY <1>2, MissingOnes, NamesAreNumbers DEF Used
<1>7. Room(table, files')
  <2> SUFFICES ASSUME NEW i \in Used(table) PROVE i + Cardinality(Missing(table, files')) <= MaxId
    BY DEF Room
  <2>1. i \in Nat /\ i < MaxId
    BY <1>1, <1>6
  <2> QED BY <1>5, <1>6, <2>1
<1> QED BY <1>2, <1>7

LEMMA RoomForNone ==
    ASSUME Listed, Filed, files \in SUBSET Names
    PROVE  Room(table, files)
<1>1. Missing(table, files) = {}
  BY DEF Missing, Filed
<1>2. Cardinality(Missing(table, files)) = 0
  BY <1>1, FS_EmptySet
<1>3. \A i \in Used(table) : i \in Nat /\ i <= MaxId
  BY NamesAreNumbers DEF Used, Ids
<1> QED BY <1>2, <1>3, NamesAreNumbers DEF Room

LEMMA FindsNow ==
    ASSUME Listed, NEW allowed \in BOOLEAN, NEW there \in SUBSET Names, Room(table, there)
    PROVE  LET r == refreshConfigs(findConfigsInDir(Configs(allowed), there), there)
           IN  Settles(Configs(allowed), r, there) /\ \A name \in there : \E i \in Ids : r.table[i] = name
<1>1. Good(Configs(allowed)) /\ Configs(allowed).table = table
  BY GoodNow DEF Configs
<1> QED BY <1>1, FindSettles

LEMMA ImportInv ==
    ASSUME ConfigsInv, NEW name \in Names, NEW allowed \in BOOLEAN, Import(name, allowed)
    PROVE  ConfigsInv'
<1> DEFINE r == refreshConfigs(findConfigsInDir(Configs(allowed), files'), files')
<1>1. Listed /\ Filed /\ files \in SUBSET Names
  BY DEF ConfigsInv, ConfigTypes
<1>2. files' \in SUBSET Names /\ files \subseteq files' /\ Room(table, files')
  BY <1>1, RoomForNew DEF Import
<1>3. Settles(Configs(allowed), r, files') /\ \A n \in files' : \E i \in Ids : r.table[i] = n
  BY <1>1, <1>2, FindsNow
<1>4. /\ Becomes(r) /\ declined' = (declined \/ ~allowed)
      /\ UNCHANGED <<loading, removing, current, running, toService, toClient, lost>>
  BY DEF Import
<1>5. removing = 0 /\ ~loading
  BY DEF Import, Acts
<1> HIDE DEF r
<1>6. Grows(allowed, r)
  <2>1. declined' \/ (~declined /\ allowed)
    BY <1>4, Zenon
  <2>2. Refreshed(r) /\ rows' = LoadConnections(myList')
    BY <1>4 DEF Becomes, Refreshed
  <2> QED BY <1>2, <1>3, <1>4, <2>1, <2>2 DEF Grows
<1> QED BY <1>5, <1>6, GrowsInv

LEMMA checkForNewInv ==
    ASSUME ConfigsInv, NEW allowed \in BOOLEAN, checkForNewConfigAndRefreshUI(allowed)
    PROVE  ConfigsInv'
<1> DEFINE r == refreshConfigs(findConfigsInDir(Configs(allowed), files'), files')
<1>1. Listed /\ Filed /\ files \in SUBSET Names
  BY DEF ConfigsInv, ConfigTypes
<1>2. files' \in SUBSET Names /\ files \subseteq files' /\ Room(table, files')
  <2>1. CASE \E name \in Names : New(name)
    BY <1>1, <2>1, RoomForNew
  <2>2. CASE UNCHANGED files
    BY <1>1, <2>2, RoomForNone
  <2> QED BY <2>1, <2>2 DEF checkForNewConfigAndRefreshUI
<1>3. Settles(Configs(allowed), r, files') /\ \A n \in files' : \E i \in Ids : r.table[i] = n
  BY <1>1, <1>2, FindsNow
<1>4. /\ Refreshed(r) /\ declined' = (declined \/ ~allowed) /\ loading' = TRUE
      /\ UNCHANGED <<rows, removing, current, running, toService, toClient, lost>>
  BY DEF checkForNewConfigAndRefreshUI
<1>5. removing = 0 /\ ~loading
  BY DEF checkForNewConfigAndRefreshUI, Acts
<1> HIDE DEF r
<1>6. Grows(allowed, r)
  <2>1. declined' \/ (~declined /\ allowed)
    BY <1>4, Zenon
  <2> QED BY <1>2, <1>3, <1>4, <2>1 DEF Grows
<1> QED BY <1>5, <1>6, GrowsInv

LEMMA ShowInv ==
    ASSUME ConfigsInv, Show
    PROVE  ConfigsInv'
<1> DEFINE r == refreshConfigs(Configs(TRUE), files)
<1>1. Listed /\ Filed /\ files \in SUBSET Names
  BY DEF ConfigsInv, ConfigTypes
<1>2. Settles(Configs(TRUE), r, files)
  BY <1>1, GoodNow, RefreshSettles
<1>3. /\ Becomes(r)
      /\ UNCHANGED <<files, loading, removing, current, running, toService, toClient, lost, declined>>
  BY DEF Show
<1>4. removing = 0 /\ ~loading
  BY DEF Show, Acts
<1> HIDE DEF r
<1>5. \A name \in files : \E i \in Ids : r.table[i] = name
  <2>1. \A i \in Ids : table[i] \in files => r.table[i] = table[i]
    BY <1>2 DEF Settles, Advances, Configs
  <2> QED BY <1>1, <2>1 DEF Filed
<1>6. CASE declined
  <2>1. Grows(TRUE, r)
    BY <1>1, <1>2, <1>3, <1>5, <1>6 DEF Grows, Becomes, Refreshed
  <2> QED BY <1>4, <2>1, GrowsInv
<1>7. CASE ~declined
  <2>1. Grows(TRUE, r)
    BY <1>1, <1>2, <1>3, <1>5, <1>7 DEF Grows, Becomes, Refreshed
  <2> QED BY <1>4, <2>1, GrowsInv
<1> QED BY <1>6, <1>7

LEMMA UIRefreshedInv ==
    ASSUME ConfigsInv, UIRefreshed
    PROVE  ConfigsInv'
<1>1. /\ ConfigTypes /\ Listed /\ Filed /\ RowsAreLive /\ Removes /\ Checked
      /\ Unused /\ Owned /\ Told /\ Shown
  BY DEF ConfigsInv
<1>2. /\ loading /\ loading' = FALSE /\ rows' = LoadConnections(myList)
      /\ UNCHANGED <<table, files, myList, removing, current, checksum, running, toService, toClient,
                     born, acts, lost, declined>>
  BY DEF UIRefreshed
<1>3. myList \in Seq(Entries) /\ DOMAIN myList = 1 .. Len(myList)
  BY <1>1, ListFacts
<1>4. /\ rows' \in Seq(Nat \ {0}) /\ DOMAIN rows' = 1 .. Len(myList)
      /\ \A k \in 1 .. Len(myList) : rows'[k] = myList[k].no
      /\ \A k \in 1 .. Len(myList) : Contains(rows', myList[k].no)
  BY <1>2, <1>3, RowFacts
<1>5. Configs(TRUE)' = Configs(TRUE)
  BY <1>2 DEF Configs
<1>6. ConfigTypes' /\ Listed' /\ Filed' /\ Checked' /\ Owned' /\ Told' /\ Shown'
  <2>1. ConfigTypes'
    BY <1>1, <1>2, <1>4 DEF ConfigTypes
  <2>2. Listed'
    BY <1>1, <1>2, <1>5 DEF Listed
  <2>3. Filed' /\ Checked' /\ Owned' /\ Told' /\ Shown'
    BY <1>1, <1>2 DEF Filed, Checked, Owned, Told, Shown
  <2> QED BY <2>1, <2>2, <2>3
<1>7. RowsAreLive'
  BY <1>2, <1>3, <1>4 DEF RowsAreLive, ToSet
<1>8. Removes'
  BY <1>1, <1>2 DEF Removes
<1>9. Unused'
  BY <1>1, <1>2, <1>4 DEF Unused
<1> QED BY <1>6, <1>7, <1>8, <1>9 DEF ConfigsInv

LEMMA VanishInv ==
    ASSUME ConfigsInv, NEW name \in Names, Vanish(name)
    PROVE  ConfigsInv'
<1>1. /\ ConfigTypes /\ Listed /\ Filed /\ RowsAreLive /\ Removes /\ Checked
      /\ Unused /\ Owned /\ Told /\ Shown
  BY DEF ConfigsInv
<1>2. /\ files' = files \ {name} /\ lost' = TRUE
      /\ UNCHANGED <<table, myList, rows, loading, removing, current, checksum, running, toService, toClient,
                     born, declined>>
  BY DEF Vanish
<1>3. ConfigTypes'
  BY <1>1, <1>2 DEF ConfigTypes
<1>4. Listed'
  <2>1. Configs(TRUE)' = Configs(TRUE)
    BY <1>2 DEF Configs
  <2> QED BY <1>1, <1>2, <2>1 DEF Listed
<1>5. Filed' /\ RowsAreLive' /\ Owned'
  BY <1>1, <1>2 DEF Filed, RowsAreLive, Owned
<1>6. Removes' /\ Checked' /\ Unused' /\ Told' /\ Shown'
  BY <1>1, <1>2 DEF Removes, Checked, Unused, Told, Shown
<1> QED BY <1>3, <1>4, <1>5, <1>6 DEF ConfigsInv

\* The row of an entry is taken out of the table.
LEMMA RowRemoved ==
    ASSUME Listed, NEW id \in Ids
    PROVE  LET s == [Configs(TRUE) EXCEPT !.table[id] = 0]
           IN  /\ Good(s) /\ s.myList = myList /\ s.born = born /\ s.checksum = checksum /\ s.allowed = TRUE
               /\ s.table = [table EXCEPT ![id] = 0]
               /\ \A i \in Ids : s.table[i] = IF i = id THEN 0 ELSE table[i]
<1> DEFINE s == [Configs(TRUE) EXCEPT !.table[id] = 0]
           t == [table EXCEPT ![id] = 0]
<1>1. /\ table \in [Ids -> Names \cup {0}] /\ checksum \in [Ids -> Names \cup {0}]
      /\ myList \in Seq(Entries) /\ born \in Nat /\ OneRowPerName(table)
  BY ListFacts
<1> DEFINE c == Configs(TRUE)
<1>2. /\ c.table = table /\ c.myList = myList /\ c.born = born /\ c.checksum = checksum /\ c.allowed = TRUE
      /\ c \in Store
  BY <1>1 DEF Configs, Store
<1> HIDE DEF c
<1>21. s = [c EXCEPT !.table = [c.table EXCEPT ![id] = 0]]
  BY DEF c
<1>3. t \in [Ids -> Names \cup {0}] /\ \A i \in Ids : t[i] = IF i = id THEN 0 ELSE table[i]
  BY <1>1
<1> HIDE DEF s, t
<1>4. /\ s.table = t /\ s.myList = myList /\ s.born = born /\ s.checksum = checksum /\ s.allowed = TRUE
      /\ s \in Store
  BY <1>1, <1>2, <1>21, <1>3 DEF Store, t
<1>5. OneRowPerName(t)
  BY <1>1, <1>3 DEF OneRowPerName, Used
<1>6. Follows(myList, t)
  <2>1. \A k \in 1 .. Len(myList) : myList[k].id \in Ids /\ table[myList[k].id] = myList[k].name
    BY EntryFacts
  <2> QED BY <1>3, <2>1 DEF Follows
<1>7. Distinct(myList) /\ MadeBefore(myList, born)
  BY DEF Listed, Good, Configs
<1>8. Good(s)
  BY <1>4, <1>5, <1>6, <1>7 DEF Good
<1> QED BY <1>3, <1>4, <1>8 DEF s, t

\* What ContextRemove sends: nothing is opened.
LEMMA RemoveSendsTypes ==
    ASSUME NEW closed \in Entries, NEW removed \in Entries, NEW list \in Seq(Entries)
    PROVE  LET q == RemoveSends(closed, removed, list)
           IN  /\ q \in Seq(Commands) /\ Len(q) \in Nat /\ Len(q) >= 1
               /\ q[1] = [cmd |-> "CLOSE", id |-> closed.id]
               /\ \A k \in 1 .. Len(q) : q[k].cmd # "OPEN"
<1> DEFINE a == <<[cmd |-> "CLOSE", id |-> closed.id], [cmd |-> "REMOVE_CHECKSUM", id |-> removed.id]>>
           b == [k \in DOMAIN list |-> [cmd |-> "STATUS", id |-> list[k].id]]
           E == [cmd : {"CLOSE", "STATUS", "REMOVE_CHECKSUM"}, id : Ids]
<1>1. closed.id \in Ids /\ removed.id \in Ids
  BY NamesAreNumbers
<1>2. a \in Seq(E) /\ Len(a) = 2 /\ a[1] = [cmd |-> "CLOSE", id |-> closed.id]
  BY <1>1
<1>3. DOMAIN list = 1 .. Len(list) /\ Len(list) \in Nat /\ \A k \in 1 .. Len(list) : list[k].id \in Ids
  BY NamesAreNumbers
<1>4. b \in [1 .. Len(list) -> E]
  BY <1>3
<1>5. b \in Seq(E)
  <2> HIDE DEF b, E
  <2> QED BY <1>3, <1>4
<1>6. RemoveSends(closed, removed, list) = a \o b
  BY DEF RemoveSends
<1> HIDE DEF a, b
<1>7. a \o b \in Seq(E) /\ Joins(a \o b, a, b)
  <2> HIDE DEF E
  <2> QED BY <1>2, <1>5, Concatenated
<1> DEFINE q == a \o b
<1> HIDE DEF q
<1>8. q \in Seq(E) /\ Len(q) \in Nat /\ Len(q) >= 1 /\ q[1] = a[1]
  <2>1. q \in Seq(E) /\ Joins(q, a, b)
    BY <1>7 DEF q
  <2>2. Len(q) = 2 + Len(b) /\ Len(b) \in Nat /\ 1 \in 1 .. Len(a)
    BY <1>2, <2>1 DEF Joins
  <2> QED BY <2>1, <2>2 DEF Joins
<1>9. \A k \in 1 .. Len(q) : q[k] \in E
  <2> HIDE DEF E
  <2> QED BY <1>8
<1>10. E \subseteq Commands /\ \A m \in E : m.cmd # "OPEN"
  BY DEF Commands
<1>11. q \in Seq(Commands)
  <2> HIDE DEF E
  <2> QED BY <1>8, <1>10
<1> QED BY <1>2, <1>6, <1>8, <1>9, <1>10, <1>11 DEF q

\* Closing an entry and removing one: it is the same unless something is lost.
LEMMA RemoveEntryInv ==
    ASSUME ConfigsInv, NEW a \in 1 .. Len(myList), NEW b \in 1 .. Len(myList),
           RemoveEntry(myList[a], myList[b]), lost' \/ (~lost /\ a = b)
    PROVE  ConfigsInv'
<1> DEFINE id == myList[b].id
           s == [Configs(TRUE) EXCEPT !.table[id] = 0]
           r == refreshConfigs(s, files')
           more == RemoveSends(myList[a], myList[b], r.myList)
<1>1. /\ ConfigTypes /\ Listed /\ Filed /\ RowsAreLive /\ Removes /\ Checked
      /\ Unused /\ Owned /\ Told /\ Shown
  BY DEF ConfigsInv
<1>2. /\ files' = files \ {myList[b].name} /\ Becomes(r)
      /\ toService' = toService \o more
      /\ removing' = 0 /\ UNCHANGED <<loading, running, toClient, declined>>
  BY DEF RemoveEntry
<1>3. /\ myList[b].id \in Ids /\ table[myList[b].id] = myList[b].name
      /\ myList[a] \in Entries /\ myList[b] \in Entries
  BY <1>1, EntryFacts
<1>4. /\ Good(s) /\ s.myList = myList /\ s.born = born /\ s.checksum = checksum /\ s.allowed = TRUE
      /\ \A i \in Ids : s.table[i] = IF i = id THEN 0 ELSE table[i]
  BY <1>1, <1>3, RowRemoved
<1> HIDE DEF s
<1>5. files' \in SUBSET Names
  BY <1>1, <1>2 DEF ConfigTypes
<1>6. Settles(s, r, files')
  BY <1>4, <1>5, RefreshSettles
<1> HIDE DEF r, more
<1>7. Settled(s, r)
  <2>1. \A i \in Ids : s.table[i] \in {0, table[i]}
    BY <1>4
  <2> QED BY <1>2, <1>4, <1>6, <2>1 DEF Settled, Becomes
<1>8. /\ Listed' /\ born <= born'
      /\ \A i \in Used(table') : table'[i] \in files'
      /\ \A i \in Ids : s.table[i] \in files' => table'[i] = s.table[i]
  BY <1>1, <1>7, SettledList
<1>9. \A l \in 1 .. Len(myList) :
         s.table[myList[l].id] \in files' => \E k \in 1 .. Len(myList') : myList'[k] = myList[l]
  BY <1>1, <1>7, SettledList
<1>10. /\ myList' \in Seq(Entries) /\ DOMAIN myList' = 1 .. Len(myList') /\ born' \in Nat /\ born \in Nat
       /\ myList' = r.myList
  <2>1. myList' \in Seq(Entries) /\ born' \in Nat /\ myList' = r.myList
    BY <1>7 DEF Settled, Settles, Advances, Good, Store, Refreshed
  <2> QED BY <1>1, <2>1, ListFacts
<1>11. /\ rows' = LoadConnections(myList') /\ rows' \in Seq(Nat \ {0}) /\ DOMAIN rows' = 1 .. Len(myList')
       /\ \A k \in 1 .. Len(myList') : rows'[k] = myList'[k].no /\ Contains(rows', myList'[k].no)
  <2>1. rows' = LoadConnections(myList')
    BY <1>2, <1>10 DEF Becomes
  <2> QED BY <1>10, <2>1, RowFacts
<1>12. /\ more \in Seq(Commands) /\ Len(more) \in Nat /\ Len(more) >= 1
       /\ more[1] = [cmd |-> "CLOSE", id |-> myList[a].id]
       /\ \A k \in 1 .. Len(more) : more[k].cmd # "OPEN"
  BY <1>3, <1>10, RemoveSendsTypes DEF more
<1>13. toService' \in Seq(Commands) /\ Joins(toService', toService, more)
  BY <1>1, <1>2, <1>12, Concatenated DEF ConfigTypes
<1> DEFINE n == Len(toService)
<1>14. /\ n \in Nat /\ Len(toService') = n + Len(more)
       /\ \A k \in 1 .. n : k \in 1 .. Len(toService') /\ toService'[k] = toService[k]
       /\ \A k \in 1 .. Len(toService') : k \notin 1 .. n => toService'[k].cmd # "OPEN"
       /\ n + 1 \in 1 .. Len(toService') /\ toService'[n + 1] = [cmd |-> "CLOSE", id |-> myList[a].id]
  <2>1. 1 \in 1 .. Len(more)
    BY <1>12
  <2>2. /\ n \in Nat /\ Len(toService') = n + Len(more)
        /\ \A k \in 1 .. n : k \in 1 .. Len(toService') /\ toService'[k] = toService[k]
        /\ \A k \in 1 .. Len(toService') : k \notin 1 .. n => k - n \in 1 .. Len(more) /\ toService'[k] = more[k - n]
        /\ 1 + n \in 1 .. Len(toService') /\ toService'[1 + n] = more[1]
    BY <1>13, <2>1 DEF Joins
  <2>3. 1 + n = n + 1
    BY <2>2
  <2> QED BY <1>12, <2>2, <2>3
<1> HIDE DEF n
<1>15. ConfigTypes'
  BY <1>1, <1>2, <1>5, <1>11, <1>13 DEF ConfigTypes
<1>16. Filed'
  <2>1. ASSUME NEW name \in files' PROVE \E i \in Ids : table'[i] = name
    <3>1. PICK i \in Ids : table[i] = name
      BY <1>1, <1>2 DEF Filed
    <3>2. i # id
      BY <1>2, <1>3, <3>1
    <3> QED BY <1>4, <1>8, <3>1, <3>2
  <2> QED BY <1>8, <2>1 DEF Filed
<1>17. RowsAreLive'
  BY <1>10, <1>11 DEF RowsAreLive, ToSet
<1>18. Removes'
  BY <1>2 DEF Removes
<1>19. Checked'
  <2>1. ~declined => OwnChecksums(s)
    BY <1>1, <1>4 DEF Checked, OwnChecksums, Used
  <2>2. OwnChecksums(s) => OwnChecksums(r)
    BY <1>4, <1>6 DEF Settles, Advances
  <2>3. table' = r.table /\ checksum' = r.checksum
    BY <1>2 DEF Becomes, Refreshed
  <2> QED BY <1>2, <2>1, <2>2, <2>3 DEF Checked, OwnChecksums
<1>20. Unused'
  <2>1. Opened(running, toService') \subseteq Opened(running, toService)
    BY <1>14 DEF Opened, n
  <2>2. \A no \in Opened(running, toService) : no \in Nat /\ no <= born
    BY <1>1, OpenedFacts
  <2>3. \A no \in Opened(running, toService') : no <= born'
    BY <1>8, <1>10, <2>1, <2>2
  <2> QED BY <1>2, <1>11, <2>3 DEF Unused
<1>21. Owned'
  <2>1. ASSUME ~lost, a = b, NEW i, NEW no, HasEntry(myList, i, no)
        PROVE  HasEntry(myList', i, no) \/ i = myList[a].id
    <3>1. PICK l \in 1 .. Len(myList) : myList[l].id = i /\ myList[l].no = no
      BY <2>1 DEF HasEntry
    <3>2. CASE i # myList[a].id
      <4>1. i \in Ids /\ table[i] = myList[l].name /\ table[i] # 0 /\ i # id
        BY <1>1, <2>1, <3>1, <3>2, EntryFacts, NamesAreNumbers
      <4>2. table[i] \in files
        BY <1>1, <2>1, <4>1 DEF Filed, Used
      <4>3. table[i] # myList[b].name
        <5>1. OneRowPerName(table) /\ table[id] # 0
          BY <1>1, <1>3, ListFacts, NamesAreNumbers
        <5>2. i \in Used(table) /\ id \in Used(table)
          BY <1>3, <4>1, <5>1 DEF Used
        <5> QED BY <1>3, <4>1, <5>1, <5>2 DEF OneRowPerName
      <4>4. s.table[myList[l].id] \in files'
        BY <1>2, <1>4, <3>1, <4>1, <4>2, <4>3
      <4> QED BY <1>9, <3>1, <4>4 DEF HasEntry
    <3> QED BY <3>2
  <2>2. ASSUME NEW i, NEW k \in 1 .. n + 1, Closes(toService, i, k) PROVE Closes(toService', i, k)
    <3>1. PICK l \in k .. n : toService[l] = [cmd |-> "CLOSE", id |-> i]
      BY <2>2 DEF Closes, n
    <3>2. l \in 1 .. n /\ l \in k .. Len(toService')
      BY <1>12, <1>14
    <3>3. toService'[l] = toService[l]
      BY <1>14, <3>2
    <3> QED BY <3>1, <3>2, <3>3 DEF Closes
  <2>3. ASSUME NEW k \in 1 .. n + 1 PROVE Closes(toService', myList[a].id, k)
    <3>1. n + 1 \in k .. Len(toService')
      BY <1>12, <1>14
    <3> QED BY <1>14, <3>1 DEF Closes
  <2>4. ASSUME ~lost, a = b PROVE Owns(myList', running, toService')
    <3>0. Owns(myList, running, toService)
      BY <1>1, <2>4 DEF Owned
    <3>1. ASSUME NEW i \in Ids, running[i].no # 0
          PROVE  HasEntry(myList', i, running[i].no) \/ Closes(toService', i, 1)
      <4>1. HasEntry(myList, i, running[i].no) \/ Closes(toService, i, 1)
        BY <3>0, <3>1 DEF Owns
      <4>2. 1 \in 1 .. n + 1
        BY <1>14
      <4> QED BY <2>1, <2>2, <2>3, <2>4, <4>1, <4>2
    <3>2. ASSUME NEW k \in 1 .. Len(toService'), toService'[k].cmd = "OPEN"
          PROVE  HasEntry(myList', toService'[k].id, toService'[k].no) \/ Closes(toService', toService'[k].id, k + 1)
      <4>1. k \in 1 .. n /\ toService'[k] = toService[k]
        BY <1>14, <3>2
      <4>2. HasEntry(myList, toService[k].id, toService[k].no) \/ Closes(toService, toService[k].id, k + 1)
        BY <3>0, <3>2, <4>1 DEF Owns, n
      <4>3. k + 1 \in 1 .. n + 1
        BY <1>14, <4>1
      <4> QED BY <2>1, <2>2, <2>3, <2>4, <4>1, <4>2, <4>3
    <3> QED BY <3>1, <3>2 DEF Owns
  <2> QED BY <1>1, <1>2, <2>4 DEF Owned
<1>22. Told'
  BY <1>1, <1>2 DEF Told
<1>23. Shown'
  <2>1. \A i \in Ids : Asked(toService, i) => Asked(toService', i)
    BY <1>14 DEF Asked, n
  <2> QED BY <1>1, <1>2, <1>7, <2>1, SettledShown
<1> QED BY <1>8, <1>15, <1>16, <1>17, <1>18, <1>19, <1>20, <1>21, <1>22, <1>23 DEF ConfigsInv

LEMMA SelectInv ==
    ASSUME ConfigsInv, NEW k \in DOMAIN rows, Select(k)
    PROVE  ConfigsInv'
<1>1. /\ ConfigTypes /\ Listed /\ Filed /\ RowsAreLive /\ Removes /\ Checked
      /\ Unused /\ Owned /\ Told /\ Shown
  BY DEF ConfigsInv
<1>2. /\ current' = k
      /\ UNCHANGED <<table, files, myList, rows, loading, removing, checksum, running, toService, toClient,
                     born, acts, lost, declined>>
  BY DEF Select
<1>3. k \in 1 .. Len(rows)
  BY <1>1 DEF ConfigTypes
<1>4. Configs(TRUE)' = Configs(TRUE)
  BY <1>2 DEF Configs
<1>5. ConfigTypes' /\ Listed' /\ Filed' /\ Checked'
  BY <1>1, <1>2, <1>4 DEF ConfigTypes, Listed, Filed, Checked
<1>6. RowsAreLive' /\ Unused' /\ Owned' /\ Told' /\ Shown'
  BY <1>1, <1>2 DEF RowsAreLive, Unused, Owned, Told, Shown
<1>7. Removes'
  BY <1>1, <1>2, <1>3 DEF Removes
<1> QED BY <1>5, <1>6, <1>7 DEF ConfigsInv

\* The entry a row stands for, as long as the rows are loaded.
LEMMA EntryOfRow ==
    ASSUME ConfigTypes, Listed, RowsAreLive, ~loading, NEW k \in 1 .. Len(rows)
    PROVE  \E l \in 1 .. Len(myList) : EntryOf(rows[k]) = myList[l] /\ myList[l].no = rows[k]
<1>1. rows = LoadConnections(myList) /\ myList \in Seq(Entries)
  BY ListFacts DEF RowsAreLive
<1>2. k \in 1 .. Len(myList) /\ rows[k] = myList[k].no
  BY <1>1, RowFacts
<1> QED BY <1>2, EntryOfFinds

LEMMA ContextRemoveInv ==
    ASSUME ConfigsInv, NEW k \in DOMAIN rows, ContextRemove(k)
    PROVE  ConfigsInv'
<1>1. /\ ConfigTypes /\ Listed /\ Filed /\ RowsAreLive /\ Removes /\ Checked
      /\ Unused /\ Owned /\ Told /\ Shown
  BY DEF ConfigsInv
<1>2. removing = 0 /\ ~loading /\ lost' = lost
  BY DEF ContextRemove, Acts
<1>3. k \in 1 .. Len(rows)
  BY <1>1 DEF ConfigTypes
<1>4. PICK l \in 1 .. Len(myList) : EntryOf(rows[k]) = myList[l] /\ myList[l].no = rows[k]
  BY <1>1, <1>2, <1>3, EntryOfRow
<1>5. CASE RemoveEntry(myList[l], myList[l])
  BY <1>2, <1>5, RemoveEntryInv
<1>6. CASE /\ removing' = myList[l].no /\ current' = k
           /\ UNCHANGED <<table, files, myList, rows, loading, checksum, running, toService, toClient,
                          born, declined>>
  <2>1. Configs(TRUE)' = Configs(TRUE)
    BY <1>6 DEF Configs
  <2>2. myList[l].no \in Nat
    BY <1>1, EntryFacts
  <2>3. ConfigTypes' /\ Listed' /\ Filed' /\ Checked'
    BY <1>1, <1>2, <1>6, <2>1, <2>2 DEF ConfigTypes, Listed, Filed, Checked
  <2>4. RowsAreLive' /\ Unused' /\ Owned' /\ Told' /\ Shown'
    BY <1>1, <1>2, <1>6 DEF RowsAreLive, Unused, Owned, Told, Shown
  <2>5. Removes'
    BY <1>2, <1>3, <1>6 DEF Removes
  <2> QED BY <2>3, <2>4, <2>5 DEF ConfigsInv
<1> QED BY <1>4, <1>5, <1>6 DEF ContextRemove

LEMMA ScriptStartedInv ==
    ASSUME ConfigsInv, ScriptStarted
    PROVE  ConfigsInv'
<1>1. ConfigTypes /\ Listed /\ RowsAreLive /\ Removes
  BY DEF ConfigsInv
<1>2. /\ ~loading /\ current \in 1 .. Len(rows)
      /\ \E k \in 1 .. Len(myList) : myList[k].no = removing
  BY <1>1 DEF Removes, ScriptStarted
<1>3. PICK a \in 1 .. Len(myList) : EntryOf(removing) = myList[a] /\ myList[a].no = removing
  BY <1>1, <1>2, EntryOfFinds
<1>4. PICK b \in 1 .. Len(myList) : EntryOf(rows[current]) = myList[b] /\ myList[b].no = rows[current]
  BY <1>1, <1>2, EntryOfRow
<1>5. RemoveEntry(myList[a], myList[b]) /\ lost' = (lost \/ rows[current] # removing)
  BY <1>3, <1>4 DEF ScriptStarted
<1>6. rows[current] = removing => a = b
  BY <1>1, <1>3, <1>4, EntryFacts
<1>7. lost' \/ (~lost /\ rows[current] = removing)
  BY <1>5, Zenon
<1> QED BY <1>5, <1>6, <1>7, RemoveEntryInv

-----------------------------------------------------------------------------
\* A handler that changes the state of entries only.
Relabels(list) ==
    /\ list \in Seq(Entries) /\ Len(list) = Len(myList)
    /\ \A k \in 1 .. Len(myList) :
          list[k].id = myList[k].id /\ list[k].name = myList[k].name /\ list[k].no = myList[k].no

LEMMA RelabelsListed ==
    ASSUME Listed, Relabels(myList'), UNCHANGED <<table, born>>, checksum' \in [Ids -> Names \cup {0}]
    PROVE  Listed'
<1> DEFINE c == [table |-> table', myList |-> myList', born |-> born', checksum |-> checksum', allowed |-> TRUE]
<1>1. c.table = table /\ c.myList = myList' /\ c.born = born
  OBVIOUS
<1>2. c \in Store
  BY ListFacts DEF Store, Relabels
<1> HIDE DEF c
<1>3. \A k, l \in 1 .. Len(myList) : myList[k].id = myList[l].id \/ myList[k].no = myList[l].no => k = l
  BY EntryFacts
<1>4. Distinct(myList')
  BY <1>3 DEF Distinct, Relabels
<1>5. MadeBefore(myList', born)
  BY EntryFacts DEF MadeBefore, Relabels
<1>6. \A k \in 1 .. Len(myList') : table[myList'[k].id] = myList'[k].name
  BY EntryFacts DEF Relabels
<1>7. Follows(myList', table)
  BY <1>6 DEF Follows
<1>8. Good(c)
  BY <1>1, <1>2, <1>4, <1>5, <1>7, ListFacts DEF Good
<1>9. Mirrors(myList', table)
  <2>1. Mirrors(myList, table)
    BY DEF Listed
  <2> QED BY <1>6, <2>1 DEF Mirrors, Relabels
<1> QED BY <1>8, <1>9 DEF Listed, Configs, c

\* Nothing else of the list and the rows changes with them.
LEMMA RelabelsRows ==
    ASSUME ConfigTypes, Listed, RowsAreLive, Removes, Relabels(myList'),
           UNCHANGED <<rows, loading, removing, current, lost>>
    PROVE  RowsAreLive' /\ Removes' /\ \A i, no : HasEntry(myList, i, no) => HasEntry(myList', i, no)
<1>1. /\ DOMAIN myList = 1 .. Len(myList) /\ DOMAIN myList' = 1 .. Len(myList)
      /\ \A k \in 1 .. Len(myList) : myList'[k].no = myList[k].no
  BY ListFacts DEF Relabels
<1>2. LoadConnections(myList') = LoadConnections(myList)
  BY <1>1 DEF LoadConnections
<1>3. \A e \in ToSet(myList) : \E f \in ToSet(myList') : f.no = e.no
  BY <1>1 DEF ToSet
<1>4. RowsAreLive'
  BY <1>2, <1>3 DEF RowsAreLive
<1>5. Removes'
  BY DEF Removes, Relabels
<1>6. \A i, no : HasEntry(myList, i, no) => HasEntry(myList', i, no)
  BY DEF HasEntry, Relabels
<1> QED BY <1>4, <1>5, <1>6

\* A queue with one more at its end, and without its head.
Adds(list, q, m) ==
    /\ Len(q) \in Nat /\ Len(list) = Len(q) + 1
    /\ \A k \in 1 .. Len(q) : k \in 1 .. Len(list) /\ list[k] = q[k]
    /\ \A k \in 1 .. Len(list) : k \in 1 .. Len(q) \/ k = Len(q) + 1
    /\ Len(q) + 1 \in 1 .. Len(list) /\ list[Len(q) + 1] = m
Drops(list, q) ==
    /\ Len(q) \in Nat /\ 1 \in 1 .. Len(q) /\ Head(q) = q[1] /\ Len(list) = Len(q) - 1
    /\ \A k \in 1 .. Len(list) : k + 1 \in 1 .. Len(q) /\ list[k] = q[k + 1]
    /\ \A k \in 1 .. Len(q) : k # 1 => k - 1 \in 1 .. Len(list) /\ list[k - 1] = q[k]

LEMMA Appended ==
    ASSUME NEW E, NEW q \in Seq(E), NEW m \in E
    PROVE  Append(q, m) \in Seq(E) /\ Adds(Append(q, m), q, m)
<1>1. Len(q) \in Nat /\ Append(q, m) \in Seq(E) /\ Len(Append(q, m)) = Len(q) + 1
  OBVIOUS
<1>2. \A k \in 1 .. Len(q) : k \in 1 .. Len(q) + 1 /\ Append(q, m)[k] = q[k]
  BY <1>1
<1>3. \A k \in 1 .. Len(q) + 1 : k \in 1 .. Len(q) \/ k = Len(q) + 1
  BY <1>1
<1>4. Len(q) + 1 \in 1 .. Len(q) + 1 /\ Append(q, m)[Len(q) + 1] = m
  BY <1>1
<1> QED BY <1>1, <1>2, <1>3, <1>4 DEF Adds

LEMMA Dropped ==
    ASSUME NEW E, NEW q \in Seq(E), q # << >>
    PROVE  Tail(q) \in Seq(E) /\ Head(q) \in E /\ Drops(Tail(q), q)
<1>1. /\ Len(q) \in Nat /\ Len(q) # 0 /\ Head(q) = q[1] /\ q[1] \in E
      /\ Tail(q) \in Seq(E) /\ Len(Tail(q)) = Len(q) - 1
  OBVIOUS
<1>2. \A k \in 1 .. Len(q) - 1 : k + 1 \in 1 .. Len(q) /\ Tail(q)[k] = q[k + 1]
  BY <1>1
<1>3. \A k \in 1 .. Len(q) : k # 1 => k - 1 \in 1 .. Len(q) - 1 /\ Tail(q)[k - 1] = q[k]
  <2> SUFFICES ASSUME NEW k \in 1 .. Len(q), k # 1
               PROVE  k - 1 \in 1 .. Len(q) - 1 /\ Tail(q)[k - 1] = q[k]
    OBVIOUS
  <2>1. k - 1 \in 1 .. Len(q) - 1 /\ (k - 1) + 1 = k
    BY <1>1
  <2> QED BY <1>2, <2>1
<1>4. 1 \in 1 .. Len(q)
  BY <1>1
<1> QED BY <1>1, <1>2, <1>3, <1>4 DEF Drops

LEMMA connectionButtonClickedInv ==
    ASSUME ConfigsInv, NEW k \in DOMAIN rows, connectionButtonClicked(k)
    PROVE  ConfigsInv'
<1>1. /\ ConfigTypes /\ Listed /\ Filed /\ RowsAreLive /\ Removes /\ Checked
      /\ Unused /\ Owned /\ Told /\ Shown
  BY DEF ConfigsInv
<1>2. /\ removing = 0 /\ ~loading
      /\ UNCHANGED <<table, files, rows, loading, removing, current, checksum, running, toClient,
                     born, lost, declined>>
  BY DEF connectionButtonClicked, Acts
<1>3. k \in 1 .. Len(rows)
  BY <1>1 DEF ConfigTypes
<1>4. PICK l \in 1 .. Len(myList) : EntryOf(rows[k]) = myList[l] /\ myList[l].no = rows[k]
  BY <1>1, <1>2, <1>3, EntryOfRow
<1> DEFINE e == myList[l]
<1>5. e \in Entries /\ e.id \in Ids /\ e.name \in Names /\ e.no \in Nat \ {0} /\ e.no <= born
  BY <1>1, EntryFacts
<1>6. PICK m \in Commands, state \in States \ {"Connected"} :
         /\ toService' = Append(toService, m) /\ myList' = WithState(e.no, state)
         /\ m.id = e.id /\ m.cmd \in {"OPEN", "CLOSE"} /\ (m.cmd = "OPEN" => m.no = e.no)
  <2> HIDE DEF e
  <2>1. CASE /\ toService' = Append(toService, [cmd |-> "CLOSE", id |-> e.id])
             /\ myList' = WithState(e.no, "Disconnecting")
    <3>1. [cmd |-> "CLOSE", id |-> e.id] \in Commands /\ "Disconnecting" \in States \ {"Connected"}
      BY <1>5 DEF Commands, States
    <3> QED BY <2>1, <3>1
  <2>2. CASE /\ toService' = Append(toService, [cmd |-> "OPEN", id |-> e.id, no |-> e.no, name |-> e.name])
             /\ myList' = WithState(e.no, "Connecting")
    <3>1. /\ [cmd |-> "OPEN", id |-> e.id, no |-> e.no, name |-> e.name] \in Commands
          /\ "Connecting" \in States \ {"Connected"}
      BY <1>5 DEF Commands, States
    <3> QED BY <2>2, <3>1
  <2> QED BY <1>4, <2>1, <2>2 DEF connectionButtonClicked, e
<1> HIDE DEF e
<1>7. toService' \in Seq(Commands) /\ Adds(toService', toService, m)
  BY <1>1, <1>6, Appended DEF ConfigTypes
<1> DEFINE n == Len(toService)
<1>8. /\ n \in Nat /\ Len(toService') = n + 1
      /\ \A j \in 1 .. n : j \in 1 .. Len(toService') /\ toService'[j] = toService[j]
      /\ \A j \in 1 .. Len(toService') : j \in 1 .. n \/ j = n + 1
      /\ n + 1 \in 1 .. Len(toService') /\ toService'[n + 1] = m
  BY <1>7 DEF Adds
<1>9. myList \in Seq(Entries) /\ DOMAIN myList = 1 .. Len(myList) /\ Len(myList) \in Nat /\ born \in Nat
  BY <1>1, ListFacts
<1>10. /\ DOMAIN myList' = 1 .. Len(myList)
       /\ \A j \in 1 .. Len(myList) :
             myList'[j] = IF j = l THEN [myList[j] EXCEPT !.state = state] ELSE myList[j]
  <2>1. \A j \in 1 .. Len(myList) : myList[j].no = e.no <=> j = l
    BY <1>1, EntryFacts DEF e
  <2> QED BY <1>6, <1>9, <2>1 DEF WithState
<1>11. \A j \in 1 .. Len(myList) :
          /\ myList'[j] \in Entries
          /\ myList'[j].id = myList[j].id /\ myList'[j].name = myList[j].name /\ myList'[j].no = myList[j].no
          /\ myList'[j].state = IF j = l THEN state ELSE myList[j].state
  <2> SUFFICES ASSUME NEW j \in 1 .. Len(myList)
               PROVE  /\ myList'[j] \in Entries
                      /\ myList'[j].id = myList[j].id /\ myList'[j].name = myList[j].name
                      /\ myList'[j].no = myList[j].no
                      /\ myList'[j].state = IF j = l THEN state ELSE myList[j].state
    OBVIOUS
  <2>1. myList[j] \in Entries
    BY <1>9
  <2> QED BY <1>6, <1>10, <2>1 DEF Entries
<1>12. Relabels(myList')
  <2>1. myList' = [j \in 1 .. Len(myList) |-> myList'[j]]
    BY <1>6, <1>9 DEF WithState
  <2>2. myList' \in [1 .. Len(myList) -> Entries]
    BY <1>11, <2>1
  <2>3. myList' \in Seq(Entries) /\ Len(myList') = Len(myList)
    BY <1>9, <2>2
  <2> QED BY <1>11, <2>3 DEF Relabels
<1>13. Listed'
  BY <1>1, <1>2, <1>12, RelabelsListed, ListFacts
<1>14. RowsAreLive' /\ Removes' /\ \A i, no : HasEntry(myList, i, no) => HasEntry(myList', i, no)
  BY <1>1, <1>2, <1>12, RelabelsRows
<1>15. ConfigTypes' /\ Filed' /\ Checked' /\ Told'
  BY <1>1, <1>2, <1>7 DEF ConfigTypes, Filed, Checked, Told
<1>16. Unused'
  <2>1. \A no \in Opened(running, toService') : no \in Opened(running, toService) \/ no = e.no
    BY <1>6, <1>8 DEF Opened
  <2>2. \A no \in Opened(running, toService') : no <= born
    BY <1>1, <1>5, <2>1 DEF Unused
  <2>3. \A j \in 1 .. Len(myList) : Contains(rows, myList[j].no)
    <3>1. rows = LoadConnections(myList)
      BY <1>1, <1>2 DEF RowsAreLive
    <3> QED BY <1>9, <3>1, RowFacts
  <2> QED BY <1>2, <1>11, <1>12, <2>2, <2>3 DEF Unused, Relabels
<1>17. Owned'
  <2>1. ASSUME NEW i, NEW j \in 1 .. n + 1, Closes(toService, i, j) PROVE Closes(toService', i, j)
    <3>1. PICK p \in j .. n : toService[p] = [cmd |-> "CLOSE", id |-> i]
      BY <2>1 DEF Closes
    <3> HIDE DEF n
    <3>2. p \in 1 .. n /\ p \in j .. Len(toService')
      BY <1>8
    <3>3. toService'[p] = toService[p]
      BY <1>8, <3>2
    <3> QED BY <3>1, <3>2, <3>3 DEF Closes
  <2>2. ASSUME ~lost PROVE Owns(myList', running, toService')
    <3>0. Owns(myList, running, toService)
      BY <1>1, <2>2 DEF Owned
    <3>1. ASSUME NEW i \in Ids, running[i].no # 0
          PROVE  HasEntry(myList', i, running[i].no) \/ Closes(toService', i, 1)
      <4>1. 1 \in 1 .. n + 1
        BY <1>8
      <4> QED BY <1>14, <2>1, <3>0, <3>1, <4>1 DEF Owns
    <3>2. ASSUME NEW j \in 1 .. Len(toService'), toService'[j].cmd = "OPEN"
          PROVE  HasEntry(myList', toService'[j].id, toService'[j].no) \/ Closes(toService', toService'[j].id, j + 1)
      <4>1. CASE j \in 1 .. n
        <5>1. toService'[j] = toService[j] /\ j + 1 \in 1 .. n + 1
          BY <1>8, <4>1
        <5>2. HasEntry(myList, toService[j].id, toService[j].no) \/ Closes(toService, toService[j].id, j + 1)
          BY <3>0, <3>2, <4>1, <5>1 DEF Owns
        <5> QED BY <1>14, <2>1, <5>1, <5>2
      <4>2. CASE j = n + 1
        <5>1. toService'[j].id = e.id /\ toService'[j].no = e.no
          BY <1>6, <1>8, <3>2, <4>2
        <5>2. HasEntry(myList, e.id, e.no)
          BY DEF HasEntry, e
        <5> QED BY <1>14, <5>1, <5>2
      <4> QED BY <1>8, <4>1, <4>2
    <3> QED BY <3>1, <3>2 DEF Owns
  <2> QED BY <1>1, <1>2, <2>2 DEF Owned
<1>18. Shown'
  <2> SUFFICES ASSUME NEW j \in 1 .. Len(myList), Untold(toClient, myList[j].id)
               PROVE  /\ myList'[j].state = "Connected" => running[myList[j].id].up
                      /\ running[myList[j].id] = [no |-> myList[j].no, up |-> TRUE]
                            => myList'[j].state = "Connected" \/ Asked(toService', myList[j].id)
    BY <1>2, <1>11, <1>12 DEF Shown, Truthful, Relabels
  <2>1. CASE j = l
    <3>1. Asked(toService', e.id)
      BY <1>6, <1>8 DEF Asked
    <3>2. myList'[j].state # "Connected"
      BY <1>6, <1>11, <2>1
    <3> QED BY <2>1, <3>1, <3>2 DEF e
  <2>2. CASE j # l
    <3>1. Truthful(myList[j], running, toClient, toService) /\ myList'[j].state = myList[j].state
      BY <1>1, <1>11, <2>2 DEF Shown
    <3>2. Asked(toService, myList[j].id) => Asked(toService', myList[j].id)
      BY <1>8 DEF Asked
    <3> QED BY <3>1, <3>2 DEF Truthful
  <2> QED BY <2>1, <2>2
<1> QED BY <1>13, <1>14, <1>15, <1>16, <1>17, <1>18 DEF ConfigsInv

LEMMA ReceiveInv ==
    ASSUME ConfigsInv, Receive
    PROVE  ConfigsInv'
<1>1. /\ ConfigTypes /\ Listed /\ Filed /\ RowsAreLive /\ Removes /\ Checked
      /\ Unused /\ Owned /\ Told /\ Shown
  BY DEF ConfigsInv
<1> DEFINE m == Head(toClient)
           Reached(j) == myList[j].id = m.id /\ Contains(rows, myList[j].no)
<1>2. /\ toClient # << >> /\ toClient' = Tail(toClient)
      /\ myList' = [j \in DOMAIN myList |-> IF Reached(j) THEN Shows(m, myList[j]) ELSE myList[j]]
      /\ UNCHANGED <<table, files, rows, loading, removing, current, checksum, running, toService,
                     born, acts, lost, declined>>
  BY DEF Receive
<1>3. toClient' \in Seq(Messages) /\ m \in Messages /\ Drops(toClient', toClient)
  BY <1>1, <1>2, Dropped DEF ConfigTypes
<1> DEFINE n == Len(toClient)
<1>4. /\ n \in Nat /\ 1 \in 1 .. n /\ m = toClient[1] /\ Len(toClient') = n - 1
      /\ \A j \in 1 .. Len(toClient') : j + 1 \in 1 .. n /\ toClient'[j] = toClient[j + 1]
      /\ \A j \in 1 .. n : j # 1 => j - 1 \in 1 .. Len(toClient') /\ toClient'[j - 1] = toClient[j]
  BY <1>3 DEF Drops
<1> HIDE DEF m
<1>5. m.id \in Ids /\ m.state \in States /\ (m.cmd = "DISCONNECTED" => m.state = "Disconnected")
  BY <1>3 DEF Messages, States
<1>6. myList \in Seq(Entries) /\ DOMAIN myList = 1 .. Len(myList) /\ Len(myList) \in Nat
  BY <1>1, ListFacts
<1>7. \A j \in 1 .. Len(myList) : myList'[j] = IF Reached(j) THEN Shows(m, myList[j]) ELSE myList[j]
  BY <1>2, <1>6
<1> HIDE DEF Reached
<1>8. ASSUME NEW j \in 1 .. Len(myList)
      PROVE  /\ myList'[j] \in Entries
             /\ myList'[j].id = myList[j].id /\ myList'[j].name = myList[j].name /\ myList'[j].no = myList[j].no
             /\ ~Reached(j) => myList'[j].state = myList[j].state
             /\ Reached(j) => \/ myList'[j].state = m.state
                              \/ myList'[j].state = "Error" /\ m.state = "Disconnected"
  <2>1. myList[j] \in Entries
    BY <1>6
  <2>2. CASE Reached(j)
    <3>1. myList'[j] = Shows(m, myList[j])
      BY <1>7, <2>2
    <3>2. CASE m.cmd = "DISCONNECTED" /\ myList[j].state = "Error"
      BY <1>5, <2>1, <2>2, <3>1, <3>2 DEF Shows
    <3>3. CASE ~(m.cmd = "DISCONNECTED" /\ myList[j].state = "Error")
      <4>1. myList'[j] = [myList[j] EXCEPT !.state = m.state]
        BY <3>1, <3>3 DEF Shows
      <4> QED BY <1>5, <2>1, <2>2, <4>1 DEF Entries
    <3> QED BY <3>2, <3>3
  <2>3. CASE ~Reached(j)
    BY <1>7, <2>1, <2>3
  <2> QED BY <2>2, <2>3
<1>9. Relabels(myList')
  <2>1. myList' = [j \in 1 .. Len(myList) |-> myList'[j]]
    BY <1>2, <1>6
  <2>2. myList' \in [1 .. Len(myList) -> Entries]
    BY <1>8, <2>1
  <2>3. myList' \in Seq(Entries) /\ Len(myList') = Len(myList)
    BY <1>6, <2>2
  <2> QED BY <1>8, <2>3 DEF Relabels
<1>10. Listed'
  BY <1>1, <1>2, <1>9, RelabelsListed, ListFacts
<1>11. RowsAreLive' /\ Removes' /\ \A i, no : HasEntry(myList, i, no) => HasEntry(myList', i, no)
  BY <1>1, <1>2, <1>9, RelabelsRows
<1>12. ConfigTypes' /\ Filed' /\ Checked'
  BY <1>1, <1>2, <1>3 DEF ConfigTypes, Filed, Checked
<1>13. Unused'
  <2>1. \A j \in 1 .. Len(myList) :
           ~Contains(rows, myList[j].no) => ~Reached(j)
    BY DEF Reached
  <2> QED BY <1>1, <1>2, <1>8, <1>9, <2>1 DEF Unused, Relabels
<1>14. Owned'
  BY <1>1, <1>2, <1>11 DEF Owned, Owns
<1>15. ASSUME NEW i \in Ids, NEW j \in 1 .. Len(toClient'), LastAbout(toClient', i, j)
       PROVE  LastAbout(toClient, i, j + 1)
  <2>1. j + 1 \in 1 .. n /\ toClient'[j] = toClient[j + 1]
    BY <1>4
  <2>2. ASSUME NEW p \in (j + 1) + 1 .. n PROVE toClient[p].id # i
    <3>1. p \in 1 .. n /\ p # 1 /\ p - 1 \in j + 1 .. Len(toClient')
      BY <1>4, <2>1
    <3>2. toClient'[p - 1] = toClient[p]
      BY <1>4, <3>1
    <3> QED BY <1>15, <3>1, <3>2 DEF LastAbout
  <2> QED BY <1>15, <2>1, <2>2 DEF LastAbout
<1>16. Told'
  <2>1. ASSUME NEW i \in Ids, NEW j \in 1 .. Len(toClient'), LastAbout(toClient', i, j)
        PROVE  toClient'[j].state = "Connected" <=> running[i].up
    <3>1. j + 1 \in 1 .. n /\ toClient'[j] = toClient[j + 1] /\ LastAbout(toClient, i, j + 1)
      BY <1>4, <1>15, <2>1
    <3> QED BY <1>1, <3>1 DEF Told, Tell
  <2> QED BY <1>2, <2>1 DEF Told, Tell
<1>17. Shown'
  <2> SUFFICES ASSUME NEW j \in 1 .. Len(myList), Untold(toClient', myList[j].id)
               PROVE  /\ myList'[j].state = "Connected" => running[myList[j].id].up
                      /\ running[myList[j].id] = [no |-> myList[j].no, up |-> TRUE]
                            => myList'[j].state = "Connected" \/ Asked(toService, myList[j].id)
    <3>1. /\ running' = running /\ toService' = toService /\ Len(myList') = Len(myList)
          /\ \A j \in 1 .. Len(myList) : myList'[j].id = myList[j].id /\ myList'[j].no = myList[j].no
      BY <1>2, <1>9 DEF Relabels
    <3> QED BY <3>1 DEF Shown, Truthful
  <2>0. \A p \in 1 .. n : p # 1 => toClient[p].id # myList[j].id
    BY <1>4 DEF Untold
  <2>1. CASE myList[j].id # m.id
    <3>1. Untold(toClient, myList[j].id)
      BY <1>4, <2>0, <2>1 DEF Untold
    <3>2. ~Reached(j)
      BY <2>1 DEF Reached
    <3> QED BY <1>1, <1>8, <3>1, <3>2 DEF Shown, Truthful
  <2>2. CASE myList[j].id = m.id
    <3>1. LastAbout(toClient, m.id, 1)
      <4>1. \A p \in 1 + 1 .. n : p \in 1 .. n /\ p # 1
        BY <1>4
      <4> QED BY <1>4, <2>0, <2>2, <4>1 DEF LastAbout
    <3>2. m.state = "Connected" <=> running[m.id].up
      BY <1>1, <1>4, <1>5, <3>1 DEF Told, Tell
    <3>3. CASE Reached(j)
      <4>1. myList'[j].state = m.state \/ (myList'[j].state = "Error" /\ m.state = "Disconnected")
        BY <1>8, <3>3
      <4> QED BY <2>2, <3>2, <4>1
    <3>4. CASE ~Reached(j)
      <4>1. ~Contains(rows, myList[j].no)
        BY <2>2, <3>4 DEF Reached
      <4>2. myList[j].no \notin Opened(running, toService) /\ myList[j].state = "Disconnected"
        BY <1>1, <4>1 DEF Unused
      <4>3. running[m.id].no \in Opened(running, toService)
        BY <1>5 DEF Opened
      <4>4. running[m.id].no # myList[j].no
        BY <4>2, <4>3
      <4> QED BY <1>8, <2>2, <3>4, <4>2, <4>4
    <3> QED BY <3>3, <3>4
  <2> QED BY <2>1, <2>2
<1> QED BY <1>10, <1>11, <1>12, <1>13, <1>14, <1>16, <1>17 DEF ConfigsInv

-----------------------------------------------------------------------------
\* The service.

\* A message at the end of the queue is the last about its id.
LEMMA TellsLast ==
    ASSUME NEW in \in Seq(Messages), NEW run, NEW next, Tell(in, run), NEW w \in Messages,
           \A i \in Ids : i # w.id => next[i].up = run[i].up,
           w.state = "Connected" <=> next[w.id].up
    PROVE  /\ Append(in, w) \in Seq(Messages) /\ Tell(Append(in, w), next)
           /\ \A i : Untold(Append(in, w), i) => i # w.id /\ Untold(in, i)
<1> DEFINE out == Append(in, w)
           n == Len(in)
<1>1. out \in Seq(Messages) /\ Adds(out, in, w)
  BY Appended
<1> HIDE DEF out
<1>2. /\ n \in Nat /\ Len(out) = n + 1
      /\ \A k \in 1 .. n : k \in 1 .. Len(out) /\ out[k] = in[k]
      /\ \A k \in 1 .. Len(out) : k \in 1 .. n \/ k = n + 1
      /\ n + 1 \in 1 .. Len(out) /\ out[n + 1] = w
  BY <1>1 DEF Adds
<1> HIDE DEF n
<1>3. ASSUME NEW i \in Ids, NEW k \in 1 .. Len(out), LastAbout(out, i, k)
      PROVE  out[k].state = "Connected" <=> next[i].up
  <2>1. CASE k = n + 1
    BY <1>2, <1>3, <2>1 DEF LastAbout
  <2>2. CASE k \in 1 .. n
    <3>1. i # w.id
      <4>1. n + 1 \in k + 1 .. Len(out)
        BY <1>2, <2>2
      <4> QED BY <1>2, <1>3, <4>1 DEF LastAbout
    <3>2. LastAbout(in, i, k)
      <4>1. \A l \in k + 1 .. n : l \in 1 .. n /\ l \in k + 1 .. Len(out)
        BY <1>2, <2>2
      <4>2. \A l \in k + 1 .. n : in[l].id # i
        BY <1>2, <1>3, <4>1 DEF LastAbout
      <4> QED BY <1>2, <1>3, <2>2, <4>2 DEF LastAbout, n
    <3>3. in[k].state = "Connected" <=> run[i].up
      BY <2>2, <3>2 DEF Tell, n
    <3> QED BY <1>2, <2>2, <3>1, <3>3
  <2> QED BY <1>2, <2>1, <2>2
<1>4. \A i : Untold(out, i) => i # w.id /\ Untold(in, i)
  BY <1>2 DEF Untold, n
<1> QED BY <1>1, <1>3, <1>4 DEF Tell, out

\* The service has dealt with command m: it changes nothing but what it runs
\* by that id, and tells so unless no VPN is up.
Served(m) ==
    /\ toService # << >> /\ m = Head(toService) /\ toService' = Tail(toService)
    /\ running' \in [Ids -> [no : Nat, up : BOOLEAN]]
    /\ \A i \in Ids : running'[i].no = 0 => running'[i] = NoVpn
    /\ \A i \in Ids : i # m.id => running'[i] = running[i]
    /\ \/ running'[m.id].no \in {0, running[m.id].no}
       \/ m.cmd = "OPEN" /\ running'[m.id].no = m.no
    /\ m.cmd = "CLOSE" => running'[m.id].no = 0
    /\ checksum' \in {checksum, [checksum EXCEPT ![m.id] = 0]}
    /\ UNCHANGED <<table, files, myList, rows, loading, removing, current, born, acts, lost, declined>>
Answered(m) ==
    \/ \E w \in Messages : /\ w.id = m.id /\ toClient' = Append(toClient, w)
                           /\ w.state = "Connected" <=> running'[m.id].up
    \/ /\ UNCHANGED toClient /\ running'[m.id].up = running[m.id].up
       /\ \/ m.cmd \notin {"OPEN", "CLOSE"} /\ running'[m.id] = running[m.id]
          \/ ~running'[m.id].up

LEMMA ServedInv ==
    ASSUME ConfigsInv, NEW m, Served(m), Answered(m)
    PROVE  ConfigsInv'
<1>1. /\ ConfigTypes /\ Listed /\ Filed /\ RowsAreLive /\ Removes /\ Checked
      /\ Unused /\ Owned /\ Told /\ Shown
  BY DEF ConfigsInv
<1>2. /\ toService # << >> /\ m = Head(toService) /\ toService' = Tail(toService)
      /\ UNCHANGED <<table, files, myList, rows, loading, removing, current, born, acts, lost, declined>>
  BY DEF Served
<1>3. toService' \in Seq(Commands) /\ m \in Commands /\ Drops(toService', toService)
  BY <1>1, <1>2, Dropped DEF ConfigTypes
<1> DEFINE n == Len(toService)
<1>4. /\ n \in Nat /\ 1 \in 1 .. n /\ m = toService[1] /\ Len(toService') = n - 1
      /\ \A j \in 1 .. Len(toService') : j + 1 \in 1 .. n /\ toService'[j] = toService[j + 1]
      /\ \A j \in 1 .. n : j # 1 => j - 1 \in 1 .. Len(toService') /\ toService'[j - 1] = toService[j]
  BY <1>2, <1>3 DEF Drops
<1>5. m.id \in Ids
  BY <1>3 DEF Commands
<1>7. /\ running' \in [Ids -> [no : Nat, up : BOOLEAN]]
      /\ \A i \in Ids : running'[i].no = 0 => running'[i] = NoVpn
      /\ \A i \in Ids : i # m.id => running'[i] = running[i]
      /\ \/ running'[m.id].no \in {0, running[m.id].no}
         \/ m.cmd = "OPEN" /\ running'[m.id].no = m.no
      /\ m.cmd = "CLOSE" => running'[m.id].no = 0
  BY DEF Served
<1>8. checksum' \in [Ids -> Names \cup {0}] /\ \A i \in Ids : checksum'[i] \in {0, checksum[i]}
  <2>1. checksum \in [Ids -> Names \cup {0}]
    BY <1>1, ListFacts
  <2> QED BY <1>5, <2>1 DEF Served
<1>9. Listed'
  <2>1. Relabels(myList')
    <3>1. myList' = myList /\ myList \in Seq(Entries)
      BY <1>1, <1>2, ListFacts
    <3> QED BY <3>1 DEF Relabels
  <2> QED BY <1>1, <1>2, <1>8, <2>1, RelabelsListed
<1>10. Filed' /\ RowsAreLive' /\ Removes'
  BY <1>1, <1>2 DEF Filed, RowsAreLive, Removes
<1>11. Checked'
  <2>1. \A i \in Used(table) : i \in Ids
    BY DEF Used
  <2> QED BY <1>1, <1>2, <1>8, <2>1 DEF Checked
<1>12. ConfigTypes'
  <2>1. toClient' \in Seq(Messages)
    <3>1. toClient \in Seq(Messages)
      BY <1>1 DEF ConfigTypes
    <3>2. \A w \in Messages : Append(toClient, w) \in Seq(Messages)
      BY <3>1
    <3>3. toClient' = toClient \/ \E w \in Messages : toClient' = Append(toClient, w)
      BY DEF Answered
    <3> QED BY <3>1, <3>2, <3>3
  <2> QED BY <1>1, <1>2, <1>3, <1>7, <2>1 DEF ConfigTypes
<1>13. Unused'
  <2>1. ASSUME NEW no \in Opened(running', toService') PROVE no = 0 \/ no \in Opened(running, toService)
    <3>1. CASE \E i \in Ids : no = running'[i].no
      <4>1. PICK i \in Ids : no = running'[i].no
        BY <3>1
      <4>2. CASE i # m.id
        BY <1>7, <4>1, <4>2 DEF Opened
      <4>3. CASE i = m.id
        BY <1>4, <1>7, <4>1, <4>3 DEF Opened
      <4> QED BY <4>2, <4>3
    <3>2. CASE \E j \in 1 .. Len(toService') : toService'[j].cmd = "OPEN" /\ no = toService'[j].no
      <4>1. PICK j \in 1 .. Len(toService') : toService'[j].cmd = "OPEN" /\ no = toService'[j].no
        BY <3>2
      <4>2. j + 1 \in 1 .. n /\ toService[j + 1].cmd = "OPEN" /\ no = toService[j + 1].no
        BY <1>4, <4>1
      <4> QED BY <4>2 DEF Opened
    <3> QED BY <3>1, <3>2 DEF Opened
  <2>2. born \in Nat
    BY <1>1, ListFacts
  <2>3. \A no \in Opened(running', toService') : no <= born
    BY <1>1, <2>1, <2>2 DEF Unused
  <2>4. \A j \in 1 .. Len(myList) : myList[j].no # 0
    BY <1>1, EntryFacts
  <2> QED BY <1>1, <1>2, <2>1, <2>3, <2>4 DEF Unused
<1>14. Owned'
  <2>1. ASSUME NEW i, NEW j \in 1 .. n, Closes(toService, i, j + 1) PROVE Closes(toService', i, j)
    <3>1. PICK p \in j + 1 .. n : toService[p] = [cmd |-> "CLOSE", id |-> i]
      BY <2>1 DEF Closes
    <3>2. p \in 1 .. n /\ p # 1 /\ p - 1 \in j .. Len(toService')
      BY <1>4
    <3> QED BY <1>4, <3>1, <3>2 DEF Closes
  <2>2. ASSUME NEW i, Closes(toService, i, 1), m # [cmd |-> "CLOSE", id |-> i] PROVE Closes(toService', i, 1)
    <3>1. PICK p \in 1 .. n : toService[p] = [cmd |-> "CLOSE", id |-> i]
      BY <2>2 DEF Closes
    <3>2. p # 1
      BY <1>4, <2>2, <3>1
    <3>3. p - 1 \in 1 .. Len(toService') /\ toService'[p - 1] = toService[p]
      BY <1>4, <3>1, <3>2
    <3> QED BY <3>1, <3>3 DEF Closes
  <2>3. ASSUME ~lost PROVE Owns(myList, running', toService')
    <3>0. Owns(myList, running, toService)
      BY <1>1, <2>3 DEF Owned
    <3>1. ASSUME NEW i \in Ids, running'[i].no # 0
          PROVE  HasEntry(myList, i, running'[i].no) \/ Closes(toService', i, 1)
      <4>1. CASE running'[i].no = running[i].no
        <5>1. HasEntry(myList, i, running[i].no) \/ Closes(toService, i, 1)
          BY <3>0, <3>1, <4>1 DEF Owns
        <5>2. m # [cmd |-> "CLOSE", id |-> i]
          BY <1>7, <3>1
        <5> QED BY <2>2, <4>1, <5>1, <5>2
      <4>2. CASE i = m.id /\ m.cmd = "OPEN" /\ running'[i].no = m.no
        <5>1. HasEntry(myList, m.id, m.no) \/ Closes(toService, m.id, 1 + 1)
          BY <1>4, <3>0, <4>2 DEF Owns
        <5> QED BY <1>4, <2>1, <4>2, <5>1
      <4>3. running'[i].no = running[i].no \/ (i = m.id /\ m.cmd = "OPEN" /\ running'[i].no = m.no)
        BY <1>7, <3>1
      <4> QED BY <4>1, <4>2, <4>3
    <3>2. ASSUME NEW j \in 1 .. Len(toService'), toService'[j].cmd = "OPEN"
          PROVE  HasEntry(myList, toService'[j].id, toService'[j].no) \/ Closes(toService', toService'[j].id, j + 1)
      <4>1. j + 1 \in 1 .. n /\ toService'[j] = toService[j + 1]
        BY <1>4
      <4>2. HasEntry(myList, toService'[j].id, toService'[j].no) \/ Closes(toService, toService'[j].id, (j + 1) + 1)
        BY <3>0, <3>2, <4>1 DEF Owns
      <4> QED BY <2>1, <4>1, <4>2
    <3> QED BY <3>1, <3>2 DEF Owns
  <2> QED BY <1>1, <1>2, <1>7, <2>3 DEF Owned
<1>15. ASSUME NEW i, Asked(toService, i), i # m.id \/ m.cmd \notin {"OPEN", "CLOSE"}
       PROVE  Asked(toService', i)
  <2>1. PICK p \in 1 .. n : toService[p].id = i /\ toService[p].cmd \in {"OPEN", "CLOSE"}
    BY <1>15 DEF Asked
  <2>2. p # 1
    BY <1>4, <1>15, <2>1
  <2>3. p - 1 \in 1 .. Len(toService') /\ toService'[p - 1] = toService[p]
    BY <1>4, <2>1, <2>2
  <2> QED BY <2>1, <2>3 DEF Asked
<1>16. CASE \E w \in Messages : /\ w.id = m.id /\ toClient' = Append(toClient, w)
                                /\ w.state = "Connected" <=> running'[m.id].up
  <2>1. PICK w \in Messages : /\ w.id = m.id /\ toClient' = Append(toClient, w)
                              /\ w.state = "Connected" <=> running'[m.id].up
    BY <1>16
  <2>2. /\ Tell(toClient', running')
        /\ \A i : Untold(toClient', i) => i # m.id /\ Untold(toClient, i)
    <3>1. toClient \in Seq(Messages) /\ Tell(toClient, running)
      BY <1>1 DEF ConfigTypes, Told
    <3>2. \A i \in Ids : i # w.id => running'[i].up = running[i].up
      BY <1>7, <2>1
    <3>3. w.state = "Connected" <=> running'[w.id].up
      BY <2>1
    <3> QED BY <2>1, <3>1, <3>2, <3>3, TellsLast
  <2>3. Shown'
    <3> SUFFICES ASSUME NEW j \in 1 .. Len(myList), Untold(toClient', myList[j].id)
                 PROVE  /\ myList[j].state = "Connected" => running'[myList[j].id].up
                        /\ running'[myList[j].id] = [no |-> myList[j].no, up |-> TRUE]
                              => myList[j].state = "Connected" \/ Asked(toService', myList[j].id)
      BY <1>2 DEF Shown, Truthful
    <3>1. myList[j].id # m.id /\ Untold(toClient, myList[j].id)
      BY <2>2
    <3>2. running'[myList[j].id] = running[myList[j].id]
      <4>1. myList[j].id \in Ids
        BY <1>1, EntryFacts
      <4> QED BY <1>7, <3>1, <4>1
    <3>3. Truthful(myList[j], running, toClient, toService)
      BY <1>1 DEF Shown
    <3>4. Asked(toService, myList[j].id) => Asked(toService', myList[j].id)
      BY <1>15, <3>1
    <3> QED BY <3>1, <3>2, <3>3, <3>4 DEF Truthful
  <2> QED BY <1>9, <1>10, <1>11, <1>12, <1>13, <1>14, <2>2, <2>3 DEF ConfigsInv, Told
<1>17. CASE /\ UNCHANGED toClient /\ running'[m.id].up = running[m.id].up
            /\ \/ m.cmd \notin {"OPEN", "CLOSE"} /\ running'[m.id] = running[m.id]
               \/ ~running'[m.id].up
  <2>1. \A i \in Ids : running'[i].up = running[i].up
    BY <1>7, <1>17
  <2>2. Told'
    BY <1>1, <1>17, <2>1 DEF Told, Tell
  <2>3. Shown'
    <3> SUFFICES ASSUME NEW j \in 1 .. Len(myList), Untold(toClient, myList[j].id)
                 PROVE  /\ myList[j].state = "Connected" => running'[myList[j].id].up
                        /\ running'[myList[j].id] = [no |-> myList[j].no, up |-> TRUE]
                              => myList[j].state = "Connected" \/ Asked(toService', myList[j].id)
      BY <1>2, <1>17 DEF Shown, Truthful
    <3>1. myList[j].id \in Ids
      BY <1>1, EntryFacts
    <3>2. Truthful(myList[j], running, toClient, toService)
      BY <1>1 DEF Shown
    <3>3. myList[j].state = "Connected" => running'[myList[j].id].up
      BY <2>1, <3>1, <3>2 DEF Truthful
    <3>4. ASSUME running'[myList[j].id] = [no |-> myList[j].no, up |-> TRUE]
          PROVE  myList[j].state = "Connected" \/ Asked(toService', myList[j].id)
      <4>1. running'[myList[j].id].up = TRUE
        BY <3>4
      <4>2. myList[j].id # m.id \/ m.cmd \notin {"OPEN", "CLOSE"}
        BY <1>17, <4>1
      <4>3. running[myList[j].id] = running'[myList[j].id]
        BY <1>7, <1>17, <3>1, <4>1
      <4>4. myList[j].state = "Connected" \/ Asked(toService, myList[j].id)
        BY <3>2, <3>4, <4>3 DEF Truthful
      <4> QED BY <1>15, <4>2, <4>4
    <3> QED BY <3>3, <3>4
  <2> QED BY <1>9, <1>10, <1>11, <1>12, <1>13, <1>14, <2>2, <2>3 DEF ConfigsInv
<1> QED BY <1>16, <1>17 DEF Answered

LEMMA ServeServes ==
    ASSUME ConfigsInv, Serve
    PROVE  \E m : Served(m) /\ Answered(m)
<1> DEFINE m == Head(toService)
<1>1. ConfigTypes /\ Listed /\ Owned
  BY DEF ConfigsInv
<1>2. /\ toService # << >> /\ toService' = Tail(toService)
      /\ UNCHANGED <<table, files, myList, rows, loading, removing, current, born, acts, lost, declined>>
  BY DEF Serve
<1>3. m \in Commands
  BY <1>1, <1>2, Dropped DEF ConfigTypes
<1> HIDE DEF m
<1>4. m.id \in Ids /\ (m.cmd = "OPEN" => m.no \in Nat \ {0})
  BY <1>3 DEF Commands
<1>5. running \in [Ids -> [no : Nat, up : BOOLEAN]] /\ \A i \in Ids : running[i].no = 0 => running[i] = NoVpn
  BY <1>1 DEF ConfigTypes, Owned
<1>51. running[m.id].no \in Nat /\ running[m.id].up \in BOOLEAN
  BY <1>4, <1>5
<1>52. NoVpn \in [no : Nat, up : BOOLEAN] /\ NoVpn.no = 0 /\ NoVpn.up = FALSE
  BY DEF NoVpn
<1>6. ASSUME NEW cmd \in {"STATUS", "ERROR"}, NEW state \in States, Tells(cmd, m.id, state),
             state = "Connected" <=> running'[m.id].up
      PROVE  Answered(m)
  <2>1. [cmd |-> cmd, id |-> m.id, state |-> state] \in Messages
    BY <1>4 DEF Messages
  <2> QED BY <1>6, <2>1 DEF Answered, Tells
<1>7. StatusOf(running[m.id]) \in States /\ (StatusOf(running[m.id]) = "Connected" <=> running[m.id].up)
  BY DEF StatusOf, States
<1>8. ASSUME UNCHANGED running, checksum' \in {checksum, [checksum EXCEPT ![m.id] = 0]}, m.cmd # "CLOSE"
      PROVE  Served(m)
  BY <1>2, <1>5, <1>8 DEF Served, m
<1>9. CASE m.cmd = "OPEN" /\ ServeOPEN(m)
  <2>1. checksum' = checksum
    BY <1>9 DEF ServeOPEN
  <2>2. CASE running[m.id] # NoVpn /\ Tells("STATUS", m.id, StatusOf(running[m.id])) /\ UNCHANGED running
    <3>1. Answered(m)
      BY <1>6, <1>7, <2>2
    <3>2. Served(m)
      BY <1>8, <1>9, <2>1, <2>2
    <3> QED BY <3>1, <3>2
  <2>3. CASE running[m.id] = NoVpn /\ Tells("ERROR", m.id, "Error") /\ UNCHANGED running
    <3>1. "Error" \in States /\ running'[m.id].up = FALSE
      BY <1>52, <2>3 DEF States
    <3>2. Answered(m)
      BY <1>6, <2>3, <3>1
    <3>3. Served(m)
      BY <1>8, <1>9, <2>1, <2>3
    <3> QED BY <3>2, <3>3
  <2>4. CASE /\ running[m.id] = NoVpn /\ UNCHANGED toClient
             /\ running' = [running EXCEPT ![m.id] = [no |-> m.no, up |-> FALSE]]
    <3>1. /\ running' \in [Ids -> [no : Nat, up : BOOLEAN]]
          /\ running'[m.id] = [no |-> m.no, up |-> FALSE] /\ m.no # 0
          /\ \A i \in Ids : i # m.id => running'[i] = running[i]
      <4>1. m.no \in Nat \ {0} /\ [no |-> m.no, up |-> FALSE] \in [no : Nat, up : BOOLEAN]
        BY <1>4, <1>9
      <4> QED BY <1>4, <1>5, <2>4, <4>1
    <3>2. running'[m.id].no = m.no /\ running'[m.id].up = FALSE
      BY <3>1
    <3>3. \A i \in Ids : running'[i].no = 0 => running'[i] = NoVpn
      BY <1>5, <3>1, <3>2
    <3>4. Served(m)
      BY <1>2, <1>9, <2>1, <3>1, <3>2, <3>3 DEF Served, m
    <3>5. Answered(m)
      BY <1>52, <2>4, <3>2 DEF Answered
    <3> QED BY <3>4, <3>5
  <2> QED BY <1>9, <2>2, <2>3, <2>4 DEF ServeOPEN
<1>10. CASE m.cmd = "CLOSE" /\ ServeCLOSE(m)
  <2>1. checksum' = checksum /\ running' = [running EXCEPT ![m.id] = NoVpn]
    BY <1>10 DEF ServeCLOSE
  <2>2. /\ running' \in [Ids -> [no : Nat, up : BOOLEAN]] /\ running'[m.id] = NoVpn
        /\ \A i \in Ids : i # m.id => running'[i] = running[i]
    BY <1>4, <1>5, <1>52, <2>1
  <2>3. \A i \in Ids : running'[i].no = 0 => running'[i] = NoVpn
    BY <1>5, <2>2
  <2>4. Served(m)
    BY <1>2, <1>10, <1>52, <2>1, <2>2, <2>3 DEF Served, m
  <2>5. CASE running[m.id] # NoVpn
    <3>1. toClient' = Append(toClient, [cmd |-> "DISCONNECTED", id |-> m.id, state |-> "Disconnected"])
      BY <1>10, <2>5 DEF ServeCLOSE, Tells
    <3>2. [cmd |-> "DISCONNECTED", id |-> m.id, state |-> "Disconnected"] \in Messages
      BY <1>4 DEF Messages
    <3>3. Answered(m)
      BY <1>52, <2>2, <3>1, <3>2 DEF Answered
    <3> QED BY <2>4, <3>3
  <2>6. CASE running[m.id] = NoVpn
    <3>1. UNCHANGED toClient
      BY <1>10, <2>6 DEF ServeCLOSE
    <3>2. Answered(m)
      BY <1>52, <2>2, <2>6, <3>1 DEF Answered
    <3> QED BY <2>4, <3>2
  <2> QED BY <2>5, <2>6
<1>11. CASE /\ m.cmd = "STATUS" /\ Tells("STATUS", m.id, StatusOf(running[m.id]))
            /\ UNCHANGED <<running, checksum>>
  <2>1. Answered(m)
    BY <1>6, <1>7, <1>11
  <2>2. Served(m)
    BY <1>8, <1>11
  <2> QED BY <2>1, <2>2
<1>12. CASE m.cmd = "REMOVE_CHECKSUM" /\ ServeREMOVE_CHECKSUM(m)
  <2>1. checksum' = [checksum EXCEPT ![m.id] = 0] /\ UNCHANGED <<running, toClient>>
    BY <1>12 DEF ServeREMOVE_CHECKSUM
  <2>2. Served(m)
    BY <1>8, <1>12, <2>1
  <2>3. Answered(m)
    BY <1>12, <2>1 DEF Answered
  <2> QED BY <2>2, <2>3
<1> QED BY <1>9, <1>10, <1>11, <1>12 DEF Serve, m

LEMMA UpInv ==
    ASSUME ConfigsInv, NEW id \in Ids, Up(id)
    PROVE  ConfigsInv'
<1>1. /\ ConfigTypes /\ Listed /\ Filed /\ RowsAreLive /\ Removes /\ Checked
      /\ Unused /\ Owned /\ Told /\ Shown
  BY DEF ConfigsInv
<1> DEFINE w == [cmd |-> "RECEIVEDIP", id |-> id, state |-> "Connected"]
<1>2. /\ running[id] # NoVpn
      /\ running' = [running EXCEPT ![id].up = TRUE]
      /\ toClient' = Append(toClient, w)
      /\ UNCHANGED <<table, files, myList, rows, loading, removing, current, checksum, toService,
                     born, acts, lost, declined>>
  BY DEF Up, Tells
<1>3. w \in Messages /\ w.id = id /\ w.state = "Connected"
  BY DEF Messages, States
<1> HIDE DEF w
<1>4. running \in [Ids -> [no : Nat, up : BOOLEAN]] /\ \A i \in Ids : running[i].no = 0 => running[i] = NoVpn
  BY <1>1 DEF ConfigTypes, Owned
<1>5. /\ running' \in [Ids -> [no : Nat, up : BOOLEAN]]
      /\ \A i \in Ids : running'[i].no = running[i].no
      /\ running'[id].up = TRUE
      /\ \A i \in Ids : i # id => running'[i] = running[i]
  BY <1>2, <1>4
<1>6. /\ toClient' \in Seq(Messages) /\ Tell(toClient', running')
      /\ \A i : Untold(toClient', i) => i # id /\ Untold(toClient, i)
  <2>1. toClient \in Seq(Messages) /\ Tell(toClient, running)
    BY <1>1 DEF ConfigTypes, Told
  <2>2. \A i \in Ids : i # w.id => running'[i].up = running[i].up
    BY <1>3, <1>5
  <2>3. w.state = "Connected" <=> running'[w.id].up
    BY <1>3, <1>5
  <2>4. /\ Append(toClient, w) \in Seq(Messages) /\ Tell(Append(toClient, w), running')
        /\ \A i : Untold(Append(toClient, w), i) => i # w.id /\ Untold(toClient, i)
    BY <1>3, <2>1, <2>2, <2>3, TellsLast
  <2> QED BY <1>2, <1>3, <2>4
<1>7. Configs(TRUE)' = Configs(TRUE)
  BY <1>2 DEF Configs
<1>8. ConfigTypes' /\ Listed' /\ Filed' /\ RowsAreLive' /\ Removes' /\ Checked'
  BY <1>1, <1>2, <1>5, <1>6, <1>7 DEF ConfigTypes, Listed, Filed, RowsAreLive, Removes, Checked
<1>9. Opened(running', toService) = Opened(running, toService)
  BY <1>5 DEF Opened
<1>10. Unused'
  BY <1>1, <1>2, <1>9 DEF Unused
<1>11. Owned'
  <2>1. \A i \in Ids : running'[i].no = 0 => running'[i] = NoVpn
    BY <1>2, <1>4, <1>5
  <2>2. ~lost => Owns(myList, running', toService)
    BY <1>1, <1>5 DEF Owned, Owns
  <2> QED BY <1>2, <2>1, <2>2 DEF Owned
<1>12. Shown'
  <2> SUFFICES ASSUME NEW j \in 1 .. Len(myList), Untold(toClient', myList[j].id)
               PROVE  /\ myList[j].state = "Connected" => running'[myList[j].id].up
                      /\ running'[myList[j].id] = [no |-> myList[j].no, up |-> TRUE]
                            => myList[j].state = "Connected" \/ Asked(toService, myList[j].id)
    BY <1>2 DEF Shown, Truthful
  <2>1. myList[j].id # id /\ Untold(toClient, myList[j].id) /\ myList[j].id \in Ids
    BY <1>1, <1>6, EntryFacts
  <2>2. running'[myList[j].id] = running[myList[j].id]
    BY <1>5, <2>1
  <2> QED BY <1>1, <2>1, <2>2 DEF Shown, Truthful
<1>13. Told'
  BY <1>6 DEF Told
<1> QED BY <1>8, <1>10, <1>11, <1>12, <1>13 DEF ConfigsInv

-----------------------------------------------------------------------------
\* The theorems.

LEMMA StartInv ==
    ASSUME Init
    PROVE  ConfigsInv
<1>1. PICK t \in [Ids -> Names \cup {0}], once \in SUBSET Ids :
         /\ \A i, j \in Used(t) : t[i] = t[j] => i = j
         /\ \A i \in Used(t) : i + Cardinality(files \ {t[j] : j \in Ids \ once}) <= MaxId
         /\ LET s == refreshConfigs(findConfigsInDir(
                       [table |-> cleanupConfigs(t, once), myList |-> << >>, born |-> 0,
                        checksum |-> t, allowed |-> TRUE], files), files)
            IN  /\ table = s.table /\ myList = s.myList /\ born = s.born /\ checksum = s.checksum
                /\ rows = LoadConnections(s.myList)
  BY DEF Init
<1> DEFINE u == cleanupConfigs(t, once)
           o == [table |-> u, myList |-> << >>, born |-> 0, checksum |-> t, allowed |-> TRUE]
           r == refreshConfigs(findConfigsInDir(o, files), files)
<1>2. /\ table = r.table /\ myList = r.myList /\ born = r.born /\ checksum = r.checksum
      /\ rows = LoadConnections(r.myList)
  BY <1>1
<1>3. /\ files \in SUBSET Names /\ loading = FALSE /\ removing = 0
      /\ running = [i \in Ids |-> NoVpn] /\ toService = << >> /\ toClient = << >>
      /\ lost = FALSE /\ declined = FALSE
  BY DEF Init
<1>4. u \in [Ids -> Names \cup {0}] /\ \A i \in Ids : u[i] = IF i \in once THEN 0 ELSE t[i]
  BY DEF cleanupConfigs
<1> HIDE DEF u
<1>5. /\ o.table = u /\ o.myList = << >> /\ o.born = 0 /\ o.checksum = t /\ o.allowed = TRUE
      /\ o \in Store
  <2>1. << >> \in Seq(Entries)
    OBVIOUS
  <2> QED BY <1>4, <2>1 DEF Store
<1> HIDE DEF o
<1>6. Good(o)
  <2>1. OneRowPerName(u)
    BY <1>1, <1>4 DEF OneRowPerName, Used
  <2>2. Len(<< >>) = 0 /\ 1 .. 0 = {}
    OBVIOUS
  <2>3. Distinct(<< >>) /\ MadeBefore(<< >>, 0) /\ Follows(<< >>, u)
    BY <2>2 DEF Distinct, MadeBefore, Follows
  <2> QED BY <1>5, <2>1, <2>3 DEF Good
<1>7. Room(u, files)
  <2>1. Missing(u, files) = files \ {t[j] : j \in Ids \ once}
    <3>1. 0 \notin files
      BY <1>3, NamesAreNumbers
    <3>2. \A name \in files : (\A i \in Ids : u[i] # name) <=> name \notin {t[j] : j \in Ids \ once}
      BY <1>4, <3>1
    <3> QED BY <3>2 DEF Missing
  <2>2. Used(u) \subseteq Used(t)
    BY <1>4 DEF Used
  <2> QED BY <1>1, <2>1, <2>2 DEF Room
<1>8. Settles(o, r, files) /\ \A name \in files : \E i \in Ids : r.table[i] = name
  BY <1>3, <1>5, <1>6, <1>7, FindSettles
<1> HIDE DEF r
<1>9. Good(r) /\ r.allowed = TRUE /\ Mirrors(r.myList, r.table) /\ OwnChecksums(r)
  <2>1. OwnChecksums(o)
    BY <1>4, <1>5 DEF OwnChecksums, Used
  <2> QED BY <1>5, <1>8, <2>1 DEF Settles, Advances
<1>10. r \in Store /\ r.myList \in Seq(Entries)
  BY <1>9 DEF Good, Store
<1>11. Listed
  <2>1. /\ Configs(TRUE).table = r.table /\ Configs(TRUE).checksum = r.checksum
        /\ Configs(TRUE).myList = r.myList /\ Configs(TRUE).born = r.born
    BY <1>2 DEF Configs
  <2>2. Configs(TRUE) \in Store
    BY <1>2, <1>10 DEF Configs, Store
  <2>3. Good(Configs(TRUE))
    BY <1>9, <2>1, <2>2 DEF Good
  <2> QED BY <1>2, <1>9, <2>3 DEF Listed
<1>12. /\ rows = LoadConnections(myList) /\ rows \in Seq(Nat \ {0}) /\ DOMAIN rows = 1 .. Len(myList)
       /\ myList \in Seq(Entries) /\ DOMAIN myList = 1 .. Len(myList)
       /\ \A k \in 1 .. Len(myList) : rows[k] = myList[k].no /\ Contains(rows, myList[k].no)
  BY <1>2, <1>10, RowFacts
<1>13. \A i \in Ids : running[i] = NoVpn
  BY <1>3
<1>14. NoVpn \in [no : Nat, up : BOOLEAN] /\ NoVpn.no = 0 /\ NoVpn.up = FALSE
  BY DEF NoVpn
<1>15. Len(toService) = 0 /\ Len(toClient) = 0 /\ 1 .. 0 = {}
  BY <1>3
<1>16. ConfigTypes
  <2>1. running \in [Ids -> [no : Nat, up : BOOLEAN]]
    BY <1>3, <1>14
  <2>2. << >> \in Seq(Commands) /\ << >> \in Seq(Messages)
    OBVIOUS
  <2> QED BY <1>3, <1>12, <2>1, <2>2 DEF ConfigTypes
<1>17. Filed
  BY <1>2, <1>8 DEF Filed, Settles
<1>18. RowsAreLive
  BY <1>12 DEF RowsAreLive, ToSet
<1>19. Removes
  BY <1>3 DEF Removes
<1>20. Checked
  BY <1>2, <1>9 DEF Checked, OwnChecksums
<1>21. Unused
  <2>1. born \in Nat
    BY <1>11, ListFacts
  <2>2. \A no \in Opened(running, toService) : no = 0
    BY <1>13, <1>14, <1>15 DEF Opened
  <2> QED BY <1>12, <2>1, <2>2 DEF Unused
<1>22. Owned
  BY <1>13, <1>14, <1>15 DEF Owned, Owns
<1>23. Told
  BY <1>15 DEF Told, Tell
<1>24. Shown
  <2> SUFFICES ASSUME NEW k \in 1 .. Len(myList)
               PROVE  /\ myList[k].state # "Connected"
                      /\ running[myList[k].id] # [no |-> myList[k].no, up |-> TRUE]
    BY DEF Shown, Truthful
  <2>1. myList[k].id \in Ids
    BY <1>11, EntryFacts
  <2>2. myList[k].state = "Disconnected"
    <3>1. Len(o.myList) = 0 /\ 1 .. 0 = {}
      BY <1>5
    <3>2. OldOrNew(o, r)
      BY <1>8 DEF Settles, Advances
    <3> QED BY <1>2, <3>1, <3>2 DEF OldOrNew
  <2>3. running[myList[k].id].up = FALSE
    BY <1>13, <1>14, <2>1
  <2> QED BY <2>2, <2>3
<1> QED BY <1>11, <1>16, <1>17, <1>18, <1>19, <1>20, <1>21, <1>22, <1>23, <1>24 DEF ConfigsInv

LEMMA StepInv ==
    ASSUME ConfigsInv, [Next]_vars
    PROVE  ConfigsInv'
<1>1. CASE UNCHANGED vars
  <2>1. /\ ConfigTypes /\ Listed /\ Filed /\ RowsAreLive /\ Removes /\ Checked
        /\ Unused /\ Owned /\ Told /\ Shown
    BY DEF ConfigsInv
  <2>2. UNCHANGED <<table, files, myList, rows, loading, removing, current, checksum, running,
                    toService, toClient, born, lost, declined>>
    BY <1>1 DEF vars
  <2>3. Configs(TRUE)' = Configs(TRUE)
    BY <2>2 DEF Configs
  <2>4. ConfigTypes' /\ Listed' /\ Filed' /\ RowsAreLive' /\ Removes' /\ Checked'
    BY <2>1, <2>2, <2>3 DEF ConfigTypes, Listed, Filed, RowsAreLive, Removes, Checked
  <2>5. Unused' /\ Owned' /\ Told' /\ Shown'
    BY <2>1, <2>2 DEF Unused, Owned, Told, Shown
  <2> QED BY <2>4, <2>5 DEF ConfigsInv
<1>2. CASE \E name \in Names, allowed \in BOOLEAN : Import(name, allowed)
  BY <1>2, ImportInv
<1>3. CASE \E allowed \in BOOLEAN : checkForNewConfigAndRefreshUI(allowed)
  BY <1>3, checkForNewInv
<1>4. CASE UIRefreshed
  BY <1>4, UIRefreshedInv
<1>5. CASE \E name \in Names : Vanish(name)
  BY <1>5, VanishInv
<1>6. CASE \E k \in DOMAIN rows : connectionButtonClicked(k)
  BY <1>6, connectionButtonClickedInv
<1>7. CASE \E k \in DOMAIN rows : ContextRemove(k)
  BY <1>7, ContextRemoveInv
<1>8. CASE \E k \in DOMAIN rows : Select(k)
  BY <1>8, SelectInv
<1>9. CASE Show
  BY <1>9, ShowInv
<1>10. CASE ScriptStarted
  BY <1>10, ScriptStartedInv
<1>11. CASE Receive
  BY <1>11, ReceiveInv
<1>12. CASE Serve
  BY <1>12, ServeServes, ServedInv
<1>13. CASE \E id \in Ids : Up(id)
  BY <1>13, UpInv
<1> QED BY <1>1, <1>2, <1>3, <1>4, <1>5, <1>6, <1>7, <1>8, <1>9, <1>10, <1>11, <1>12, <1>13 DEF Next

\* Table, files, list, rows, checksums and service agree in every reachable
\* state: the inductive invariant of the handlers of Configs, FrmMain and SrvCLI.
THEOREM ConfigsInvariant == Spec => []ConfigsInv
<1>1. Init => ConfigsInv
  BY StartInv
<1>2. ConfigsInv /\ [Next]_vars => ConfigsInv'
  BY StepInv
<1> QED BY <1>1, <1>2, PTL DEF Spec

\* The rows of the main window never point to an entry that refreshConfigs has
\* deleted, unless a file was lost while the window was being repainted.
THEOREM ConfigsRowsAreLive == Spec => []RowsAreLive
<1>1. ConfigsInv => RowsAreLive
  BY DEF ConfigsInv
<1> QED BY <1>1, ConfigsInvariant, PTL

\* The list mirrors the table and is sorted, although the pass that deletes
\* compares with one id only and every id may have had other owners.
THEOREM ConfigsListMatchesTable == Spec => []ListMatchesTable
<1>1. ConfigsInv => ListMatchesTable
  <2> SUFFICES ASSUME ConfigsInv PROVE ListMatchesTable
    OBVIOUS
  <2>1. Listed /\ Mirrors(myList, table)
    BY DEF ConfigsInv, Listed
  <2>2. myList \in Seq(Entries) /\ Len(myList) \in Nat /\ DOMAIN myList = 1 .. Len(myList)
    BY <2>1, ListFacts
  <2>3. \A k \in 1 .. Len(myList) :
           myList[k].id \in Ids /\ table[myList[k].id] = myList[k].name /\ myList[k].name # 0
    BY <2>1, EntryFacts, NamesAreNumbers
  <2>4. ASSUME NEW i \in Used(table)
        PROVE  \E k \in DOMAIN myList : myList[k].id = i /\ myList[k].name = table[i]
    <3>1. PICK k \in 1 .. Len(myList) : myList[k].id = i
      BY <2>1 DEF Mirrors
    <3> QED BY <2>2, <2>3, <3>1
  <2>5. Len(myList) = Cardinality(Used(table))
    <3> DEFINE D == 1 .. Len(myList)
               f == [k \in D |-> myList[k].id]
    <3>1. IsFiniteSet(D) /\ Cardinality(D) = Len(myList)
      <4>1. 1 \in Int /\ Len(myList) \in Int
        BY <2>2
      <4>2. IsFiniteSet(D) /\ Cardinality(D) = IF 1 > Len(myList) THEN 0 ELSE Len(myList) - 1 + 1
        BY <4>1, FS_Interval
      <4> QED BY <2>2, <4>2
    <3>2. f \in [D -> Used(table)]
      BY <2>3 DEF Used
    <3>3. \A k, l \in D : f[k] = f[l] => k = l
      BY <2>1, EntryFacts
    <3>4. \A i \in Used(table) : \E k \in D : f[k] = i
      BY <2>1 DEF Mirrors
    <3> HIDE DEF D, f
    <3>5. f \in Bijection(D, Used(table))
      BY <3>2, <3>3, <3>4 DEF Bijection, Injection, Surjection, IsInjective
    <3>6. Cardinality(Used(table)) = Cardinality(D)
      BY <3>1, <3>5, FS_Bijection DEF ExistsBijection
    <3> QED BY <3>1, <3>6
  <2>6. ASSUME NEW k \in 1 .. Len(myList) - 1 PROVE myList[k].name < myList[k + 1].name
    <3>1. k \in 1 .. Len(myList) /\ k + 1 \in 1 .. Len(myList) /\ k < k + 1
      BY <2>2
    <3> QED BY <2>1, <3>1 DEF Mirrors
  <2> QED BY <2>4, <2>5, <2>6 DEF ListMatchesTable
<1> QED BY <1>1, ConfigsInvariant, PTL

\* As long as checksum.exe is allowed to run, an entry never meets the
\* checksum of a config that had its id before.
THEOREM ConfigsNoForeignChecksum == Spec => []NoForeignChecksum
<1>1. ConfigsInv => NoForeignChecksum
  <2> SUFFICES ASSUME ConfigsInv, ~declined, NEW e \in ToSet(myList) PROVE checksum[e.id] \in {0, e.name}
    BY DEF NoForeignChecksum
  <2>1. Listed /\ Checked
    BY DEF ConfigsInv
  <2>2. PICK k \in 1 .. Len(myList) : e = myList[k]
    BY <2>1, ListFacts DEF ToSet
  <2>3. e.id \in Ids /\ table[e.id] = e.name /\ e.name # 0
    BY <2>1, <2>2, EntryFacts, NamesAreNumbers
  <2>4. e.id \in Used(table)
    BY <2>3 DEF Used
  <2> QED BY <2>1, <2>3, <2>4 DEF Checked
<1> QED BY <1>1, ConfigsInvariant, PTL

\* When nothing is under way, the service runs no VPN whose entry was removed.
THEOREM ConfigsNoOrphan == Spec => []NoOrphan
<1>1. ConfigsInv => NoOrphan
  <2> SUFFICES ASSUME ConfigsInv, AtRest, ~lost, NEW i \in Ids, running[i] # NoVpn
               PROVE  \E e \in ToSet(myList) : e.no = running[i].no /\ e.id = i
    BY DEF NoOrphan
  <2>1. Listed /\ Owned
    BY DEF ConfigsInv
  <2>2. Len(toService) = 0 /\ 1 .. 0 = {}
    BY DEF AtRest
  <2>3. running[i].no # 0 /\ Owns(myList, running, toService)
    BY <2>1 DEF Owned
  <2>4. HasEntry(myList, i, running[i].no)
    BY <2>2, <2>3 DEF Owns, Closes
  <2>5. DOMAIN myList = 1 .. Len(myList)
    BY <2>1, ListFacts
  <2> QED BY <2>4, <2>5 DEF HasEntry, ToSet
<1> QED BY <1>1, ConfigsInvariant, PTL

\* When nothing is under way, an entry is shown as connected if and only if
\* the VPN it opened itself is up.
THEOREM ConfigsShownAsIs == Spec => []ShownAsIs
<1>1. ConfigsInv => ShownAsIs
  <2> SUFFICES ASSUME ConfigsInv, AtRest, ~lost, NEW e \in ToSet(myList)
               PROVE  e.state = "Connected" <=> running[e.id] = [no |-> e.no, up |-> TRUE]
    BY DEF ShownAsIs
  <2>1. ConfigTypes /\ Listed /\ Owned /\ Shown
    BY DEF ConfigsInv
  <2>2. Len(toService) = 0 /\ Len(toClient) = 0 /\ 1 .. 0 = {}
    BY DEF AtRest
  <2>3. PICK k \in 1 .. Len(myList) : e = myList[k]
    BY <2>1, ListFacts DEF ToSet
  <2>4. e.id \in Ids
    BY <2>1, <2>3, EntryFacts
  <2>5. running[e.id] \in [no : Nat, up : BOOLEAN] /\ NoVpn.up = FALSE
    BY <2>1, <2>4 DEF ConfigTypes, NoVpn
  <2>6. /\ e.state = "Connected" => running[e.id].up
        /\ running[e.id] = [no |-> e.no, up |-> TRUE] => e.state = "Connected"
    <3>1. Untold(toClient, e.id) /\ ~Asked(toService, e.id)
      BY <2>2 DEF Untold, Asked
    <3> QED BY <2>1, <2>3, <3>1 DEF Shown, Truthful
  <2>7. running[e.id].up => running[e.id].no = e.no
    <3> SUFFICES ASSUME running[e.id].up PROVE running[e.id].no = e.no
      OBVIOUS
    <3>1. running[e.id].no # 0
      BY <2>1, <2>4, <2>5 DEF Owned
    <3>2. HasEntry(myList, e.id, running[e.id].no)
      BY <2>1, <2>2, <2>4, <3>1 DEF Owned, Owns, Closes
    <3>3. PICK l \in 1 .. Len(myList) : myList[l].id = e.id /\ myList[l].no = running[e.id].no
      BY <3>2 DEF HasEntry
    <3>4. l = k
      BY <2>1, <2>3, <3>3, EntryFacts
    <3> QED BY <2>3, <3>3, <3>4
  <2>8. running[e.id].up => running[e.id] = [no |-> e.no, up |-> TRUE]
    BY <2>5, <2>7
  <2> QED BY <2>6, <2>8
<1> QED BY <1>1, ConfigsInvariant, PTL
=============================================================================
