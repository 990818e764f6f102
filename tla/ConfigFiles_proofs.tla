------------------------- MODULE ConfigFiles_proofs -------------------------
(***************************************************************************)
(* Configs name their files and entries stay, for every set of names,      *)
(* sources and picks, every failure and any number of actions.             *)
(***************************************************************************)
EXTENDS ConfigFiles, FiniteSetTheorems, SequenceTheorems, TLAPS

-----------------------------------------------------------------------------
\* Numbers.

\* Induction, as the principle of the least number.
LEMMA LeastNat ==
    ASSUME NEW T, T \subseteq Nat, T # {}
    PROVE  \E n \in T : \A m \in T : n <= m
<1> DEFINE R == {ss \in Nat \X Nat : ss[1] < ss[2]}
<1>1. IsWellFoundedOn(R, Nat)
  BY NatLessThanWellFounded DEF OpToRel
<1>2. PICK n \in T : \A m \in T : <<m, n>> \notin R
  <2> HIDE DEF R
  <2> QED BY <1>1, WFMin
<1>3. \A m \in T : n <= m
  <2> SUFFICES ASSUME NEW m \in T PROVE n <= m
    OBVIOUS
  <2>1. m \in Nat /\ n \in Nat
    OBVIOUS
  <2>2. ~(m < n)
    BY <1>2, <2>1
  <2> QED BY <2>1, <2>2
<1> QED BY <1>3

\* A finite set of numbers has a largest one: the one with the fewest above.
LEMMA FiniteHasMax ==
    ASSUME NEW S, S \subseteq Nat, IsFiniteSet(S), S # {}
    PROVE  Max(S) \in S /\ \A n \in S : Max(S) >= n
<1> DEFINE Above(x) == {y \in S : y > x}
           T == {Cardinality(Above(x)) : x \in S}
<1>1. \A x \in S : IsFiniteSet(Above(x)) /\ Cardinality(Above(x)) \in Nat
  <2> SUFFICES ASSUME NEW x \in S PROVE IsFiniteSet(Above(x)) /\ Cardinality(Above(x)) \in Nat
    OBVIOUS
  <2>1. Above(x) \in SUBSET S
    OBVIOUS
  <2> HIDE DEF Above
  <2>2. IsFiniteSet(Above(x))
    BY <2>1, FS_Subset
  <2> QED BY <2>2, FS_CardinalityType
<1>2. PICK n \in T : \A m \in T : n <= m
  <2>1. T \subseteq Nat /\ T # {}
    BY <1>1
  <2> HIDE DEF T
  <2> QED BY <2>1, LeastNat
<1>3. PICK x \in S : n = Cardinality(Above(x))
  OBVIOUS
<1>4. \A y \in S : x >= y
  <2> SUFFICES ASSUME NEW y \in S, ~(x >= y) PROVE FALSE
    OBVIOUS
  <2>1. x \in Nat /\ y \in Nat /\ y > x
    OBVIOUS
  <2>2. Above(y) \in SUBSET Above(x) /\ y \in Above(x) /\ y \notin Above(y)
    <3>1. \A z \in S : z \in Nat
      OBVIOUS
    <3>2. \A z \in S : z > y => z > x
      BY <2>1, <3>1
    <3>3. ~(y > y)
      BY <2>1
    <3>4. y \in Above(x) /\ y \notin Above(y)
      BY <2>1, <3>3, Zenon
    <3>5. Above(y) \in SUBSET Above(x)
      BY <3>2, Zenon
    <3> QED BY <3>4, <3>5, Zenon
  <2>3. Cardinality(Above(x)) <= Cardinality(Above(y))
    BY <1>2, <1>3
  <2>4. IsFiniteSet(Above(x)) /\ Cardinality(Above(x)) \in Nat /\ Cardinality(Above(y)) \in Nat
    BY <1>1
  <2> HIDE DEF Above
  <2>5. Cardinality(Above(y)) <= Cardinality(Above(x))
    BY <2>2, <2>4, FS_Subset
  <2>6. Above(y) = Above(x)
    BY <2>2, <2>3, <2>4, <2>5, FS_Subset
  <2> QED BY <2>2, <2>6
<1> QED BY <1>4 DEF Max

LEMMA LastIsLast == Last \in Nat /\ \A n \in Names : n \in Nat /\ n <= Last
<1>1. Names \subseteq Nat /\ IsFiniteSet(Names)
  BY FilesAssumption
<1>2. {0} \cup Names \subseteq Nat /\ {0} \cup Names # {}
  BY <1>1
<1>3. IsFiniteSet({0} \cup Names)
  BY <1>1, FS_AddElement
<1>4. Max({0} \cup Names) \in {0} \cup Names /\ \A n \in {0} \cup Names : Max({0} \cup Names) >= n
  BY <1>2, <1>3, FiniteHasMax
<1>5. Last \in {0} \cup Names /\ \A n \in {0} \cup Names : Last >= n
  BY <1>4 DEF Last
<1>6. Last \in Nat
  BY <1>1, <1>5
<1> QED BY <1>1, <1>5, <1>6

-----------------------------------------------------------------------------
\* refreshConfigs and findConfigsInDir.

\* What a table is like: ids are numbers, names are not used twice, and an
\* entry has the name of its file.
Tidy(t) ==
    /\ DOMAIN t \subseteq Nat /\ IsFiniteSet(DOMAIN t)
    /\ \A n \in DOMAIN t : t[n].file = t[n].name
    /\ \A m, n \in DOMAIN t : t[m].name = t[n].name => m = n

\* An entry in memory shows its row.
Agrees(c) == \A n \in DOMAIN c.l \cap DOMAIN c.t : c.l[n] = c.t[n]

\* No row of t0 whose config is there has gone or changed.
Keeps(t0, t, d) == \A n \in DOMAIN t0 : Readable(d, t0[n]) => n \in DOMAIN t /\ t[n] = t0[n]

Good(t0, c, d) == Tidy(c.t) /\ Agrees(c) /\ Keeps(t0, c.t, d)

LEMMA RefreshGood ==
    ASSUME NEW c, NEW d, NEW key, Tidy(c.t), Agrees(c)
    PROVE  LET r == refreshConfigs(c, d, key)
           IN  /\ Tidy(r.t) /\ Agrees(r) /\ r.l = r.t
               /\ DOMAIN r.t \subseteq DOMAIN c.t
               /\ \A n \in DOMAIN r.t : r.t[n] = c.t[n] /\ Readable(d, r.t[n])
               /\ key = "own" => Keeps(c.t, r.t, d)
<1> DEFINE r == refreshConfigs(c, d, key)
           kept == {n \in DOMAIN c.t : Decodes(key) /\ Readable(d, c.t[n])}
<1>1. /\ r.t = [n \in kept |-> c.t[n]]
      /\ r.l = [n \in kept |-> IF n \in DOMAIN c.l THEN c.l[n] ELSE c.t[n]]
  BY DEF refreshConfigs, Restrict
<1>2. kept \in SUBSET DOMAIN c.t
  OBVIOUS
<1>3. r.l = r.t
  BY <1>1 DEF Agrees
<1>4. DOMAIN r.t = kept /\ \A n \in kept : r.t[n] = c.t[n] /\ Readable(d, r.t[n])
  BY <1>1
<1>5. Tidy(r.t)
  <2>1. IsFiniteSet(kept)
    BY <1>2, FS_Subset DEF Tidy
  <2> HIDE DEF kept, r
  <2> QED BY <1>2, <1>4, <2>1 DEF Tidy
<1>6. Agrees(r)
  BY <1>3 DEF Agrees
<1>7. key = "own" => Keeps(c.t, r.t, d)
  BY <1>4 DEF Keeps, Decodes
<1> HIDE DEF r, kept
<1> QED BY <1>2, <1>3, <1>4, <1>5, <1>6, <1>7 DEF r

\* A new id is not in use.
LEMMA NextIdIsNew ==
    ASSUME NEW t, DOMAIN t \subseteq Nat, IsFiniteSet(DOMAIN t)
    PROVE  NextId(t) \in Nat /\ NextId(t) \notin DOMAIN t
<1> DEFINE S == {0} \cup DOMAIN t
<1>1. S \subseteq Nat /\ S # {} /\ IsFiniteSet(S)
  BY FS_AddElement
<1>2. Max(S) \in S /\ \A n \in S : Max(S) >= n
  <2> HIDE DEF S
  <2> QED BY <1>1, FiniteHasMax
<1> DEFINE x == Max(S)
<1>3. NextId(t) = x + 1
  BY DEF NextId
<1>4. x \in Nat /\ \A n \in DOMAIN t : n \in Nat /\ x >= n
  BY <1>1, <1>2
<1> HIDE DEF x
<1> QED BY <1>3, <1>4

\* One file found: its row is new, and so is its name.
LEMMA FindsOneGood ==
    ASSUME NEW t0, NEW c, NEW d, NEW m, NEW n, Good(t0, c, d)
    PROVE  Good(t0, FindsOne(c, d, m, n), d)
<1> DEFINE r == refreshConfigs(c, d, "own")
           id == NextId(r.t)
           new == [t |-> With(r.t, id, Row(m, n)), l |-> r.l]
<1>1. /\ Tidy(r.t) /\ Agrees(r) /\ r.l = r.t /\ Keeps(c.t, r.t, d)
  BY RefreshGood DEF Good
<1>2. Keeps(t0, r.t, d)
  BY <1>1 DEF Good, Keeps
<1>3. Good(t0, r, d)
  BY <1>1, <1>2 DEF Good
<1>4. ASSUME n \notin NamesOf(r.l)
      PROVE  Good(t0, new, d)
  <2> HIDE DEF r
  <2>1. id \in Nat /\ id \notin DOMAIN r.t
    BY <1>1, NextIdIsNew DEF Tidy
  <2>2. /\ DOMAIN new.t = DOMAIN r.t \cup {id} /\ new.l = r.t
        /\ \A k \in DOMAIN r.t : new.t[k] = r.t[k]
        /\ new.t[id].name = n /\ new.t[id].file = n
    BY <1>1, <2>1 DEF With, Row
  <2>3. \A k \in DOMAIN r.t : r.t[k].name # n
    BY <1>1, <1>4 DEF NamesOf
  <2> HIDE DEF id, new
  <2>4. IsFiniteSet(DOMAIN r.t \cup {id})
    BY <1>1, FS_AddElement DEF Tidy
  <2>5. Tidy(new.t)
    <3>1. DOMAIN new.t \subseteq Nat /\ IsFiniteSet(DOMAIN new.t)
      BY <1>1, <2>1, <2>2, <2>4 DEF Tidy
    <3>2. \A k \in DOMAIN new.t : new.t[k].file = new.t[k].name
      BY <1>1, <2>2 DEF Tidy
    <3>3. \A j, k \in DOMAIN new.t : new.t[j].name = new.t[k].name => j = k
      BY <1>1, <2>2, <2>3 DEF Tidy
    <3> QED BY <3>1, <3>2, <3>3 DEF Tidy
  <2>6. Agrees(new)
    BY <2>2 DEF Agrees
  <2>7. Keeps(t0, new.t, d)
    BY <1>2, <2>2 DEF Keeps
  <2> QED BY <2>5, <2>6, <2>7 DEF Good
<1>5. FindsOne(c, d, m, n) \in {c, r} \/ (n \notin NamesOf(r.l) /\ FindsOne(c, d, m, n) = new)
  BY DEF FindsOne
<1> HIDE DEF r, id, new
<1> QED BY <1>3, <1>4, <1>5

\* The loop over the files of a folder, and the one over the folders.
FindsByFile(f, c, d, m) ==
    /\ FindsIn(c, d, m) = f[Last + 1]
    /\ f[0] = c
    /\ \A k \in 1 .. Last + 1 : f[k] = FindsFile(f[k - 1], d, m, k - 1)
FindsByFolder(f, c, d) ==
    /\ findConfigsInDir(c, d) = f[Last + 1]
    /\ f[0] = c
    /\ \A k \in 1 .. Last + 1 : f[k] = FindsFolder(f[k - 1], d, k - 1)

LEMMA FindsInDefined ==
    ASSUME NEW c, NEW d, NEW m
    PROVE  \E f : FindsByFile(f, c, d, m)
<1> DEFINE Is(g, n) == g = [k \in 0 .. n |-> IF k = 0 THEN c ELSE FindsFile(g[k - 1], d, m, k - 1)]
           T == {n \in Nat : ~\E g : Is(g, n)}
<1>1. T = {}
  <2> SUFFICES ASSUME T # {} PROVE FALSE
    OBVIOUS
  <2>1. T \subseteq Nat
    OBVIOUS
  <2>2. PICK n \in T : \A q \in T : n <= q
    <3> HIDE DEF T
    <3> QED BY <2>1, LeastNat
  <2>3. n \in Nat
    OBVIOUS
  <2>4. CASE n = 0
    <3>1. \A k \in 0 .. n : k = 0
      BY <2>4
    <3> DEFINE g == [k \in 0 .. n |-> c]
    <3>2. \A k \in 0 .. n : g[k] = IF k = 0 THEN c ELSE FindsFile(g[k - 1], d, m, k - 1)
      <4>1. \A k \in 0 .. n : g[k] = c
        OBVIOUS
      <4> HIDE DEF g
      <4> QED BY <3>1, <4>1
    <3>3. Is(g, n)
      <4>1. g = [k \in 0 .. n |-> g[k]]
        OBVIOUS
      <4> HIDE DEF g
      <4> QED BY <3>2, <4>1
    <3> HIDE DEF g
    <3> QED BY <3>3
  <2>5. CASE n # 0
    <3>1. n - 1 \in Nat /\ n - 1 \notin T
      <4> HIDE DEF T
      <4> QED BY <2>2, <2>3, <2>5
    <3>2. PICK g : Is(g, n - 1)
      BY <3>1
    <3> DEFINE h == [k \in 0 .. n |-> IF k = n THEN FindsFile(g[n - 1], d, m, n - 1) ELSE g[k]]
    <3>3. \A k \in 0 .. n - 1 : h[k] = g[k]
      BY <2>3
    <3>4. \A k \in 0 .. n - 1 : g[k] = IF k = 0 THEN c ELSE FindsFile(g[k - 1], d, m, k - 1)
      BY <3>2
    <3>5. \A k \in 0 .. n : h[k] = IF k = 0 THEN c ELSE FindsFile(h[k - 1], d, m, k - 1)
      <4> SUFFICES ASSUME NEW k \in 0 .. n
                   PROVE  h[k] = IF k = 0 THEN c ELSE FindsFile(h[k - 1], d, m, k - 1)
        OBVIOUS
      <4>1. CASE k = n
        <5>1. h[k] = FindsFile(g[n - 1], d, m, n - 1) /\ n - 1 \in 0 .. n - 1
          BY <2>3, <3>1, <4>1
        <5> HIDE DEF h
        <5> QED BY <2>5, <3>3, <4>1, <5>1
      <4>2. CASE k = 0
        <5> HIDE DEF h
        <5>1. 0 \in 0 .. n - 1
          BY <3>1
        <5> QED BY <3>3, <3>4, <4>2, <5>1
      <4>3. CASE k # n /\ k # 0
        <5>1. k \in 0 .. n - 1 /\ k - 1 \in 0 .. n - 1
          BY <2>3, <4>3
        <5> HIDE DEF h
        <5>2. h[k] = g[k] /\ h[k - 1] = g[k - 1]
          BY <3>3, <5>1
        <5> QED BY <3>4, <4>3, <5>1, <5>2
      <4> QED BY <4>1, <4>2, <4>3
    <3>6. Is(h, n)
      BY <3>5
    <3> QED BY <3>6
  <2> QED BY <2>4, <2>5
<1> DEFINE last == Last + 1
           f == CHOOSE g : Is(g, last)
<1>2. \E g : Is(g, last)
  <2>1. last \in Nat
    BY LastIsLast
  <2> HIDE DEF last
  <2> QED BY <1>1, <2>1
<1>3. FindsIn(c, d, m) = f[last]
  BY DEF FindsIn
<1>4. Is(f, last)
  BY <1>2
<1> HIDE DEF f
<1>5. \A k \in 0 .. last : f[k] = IF k = 0 THEN c ELSE FindsFile(f[k - 1], d, m, k - 1)
  BY <1>4
<1>6. last \in Nat
  BY LastIsLast
<1> QED BY <1>3, <1>5, <1>6 DEF FindsByFile

LEMMA FindsDefined ==
    ASSUME NEW c, NEW d
    PROVE  \E f : FindsByFolder(f, c, d)
<1> DEFINE Is(g, n) == g = [k \in 0 .. n |-> IF k = 0 THEN c ELSE FindsFolder(g[k - 1], d, k - 1)]
           T == {n \in Nat : ~\E g : Is(g, n)}
<1>1. T = {}
  <2> SUFFICES ASSUME T # {} PROVE FALSE
    OBVIOUS
  <2>1. T \subseteq Nat
    OBVIOUS
  <2>2. PICK n \in T : \A m \in T : n <= m
    <3> HIDE DEF T
    <3> QED BY <2>1, LeastNat
  <2>3. n \in Nat
    OBVIOUS
  <2>4. CASE n = 0
    <3>1. \A k \in 0 .. n : k = 0
      BY <2>4
    <3> DEFINE g == [k \in 0 .. n |-> c]
    <3>2. \A k \in 0 .. n : g[k] = IF k = 0 THEN c ELSE FindsFolder(g[k - 1], d, k - 1)
      <4>1. \A k \in 0 .. n : g[k] = c
        OBVIOUS
      <4> HIDE DEF g
      <4> QED BY <3>1, <4>1
    <3>3. Is(g, n)
      <4>1. g = [k \in 0 .. n |-> g[k]]
        OBVIOUS
      <4> HIDE DEF g
      <4> QED BY <3>2, <4>1
    <3> HIDE DEF g
    <3> QED BY <3>3
  <2>5. CASE n # 0
    <3>1. n - 1 \in Nat /\ n - 1 \notin T
      <4> HIDE DEF T
      <4> QED BY <2>2, <2>3, <2>5
    <3>2. PICK g : Is(g, n - 1)
      BY <3>1
    <3> DEFINE h == [k \in 0 .. n |-> IF k = n THEN FindsFolder(g[n - 1], d, n - 1) ELSE g[k]]
    <3>3. \A k \in 0 .. n - 1 : h[k] = g[k]
      BY <2>3
    <3>4. \A k \in 0 .. n - 1 : g[k] = IF k = 0 THEN c ELSE FindsFolder(g[k - 1], d, k - 1)
      BY <3>2
    <3>5. \A k \in 0 .. n : h[k] = IF k = 0 THEN c ELSE FindsFolder(h[k - 1], d, k - 1)
      <4> SUFFICES ASSUME NEW k \in 0 .. n
                   PROVE  h[k] = IF k = 0 THEN c ELSE FindsFolder(h[k - 1], d, k - 1)
        OBVIOUS
      <4>1. CASE k = n
        <5>1. h[k] = FindsFolder(g[n - 1], d, n - 1) /\ n - 1 \in 0 .. n - 1
          BY <2>3, <3>1, <4>1
        <5> HIDE DEF h
        <5> QED BY <2>5, <3>3, <4>1, <5>1
      <4>2. CASE k = 0
        <5> HIDE DEF h
        <5>1. 0 \in 0 .. n - 1
          BY <3>1
        <5> QED BY <3>3, <3>4, <4>2, <5>1
      <4>3. CASE k # n /\ k # 0
        <5>1. k \in 0 .. n - 1 /\ k - 1 \in 0 .. n - 1
          BY <2>3, <4>3
        <5> HIDE DEF h
        <5>2. h[k] = g[k] /\ h[k - 1] = g[k - 1]
          BY <3>3, <5>1
        <5> QED BY <3>4, <4>3, <5>1, <5>2
      <4> QED BY <4>1, <4>2, <4>3
    <3>6. Is(h, n)
      BY <3>5
    <3> QED BY <3>6
  <2> QED BY <2>4, <2>5
<1> DEFINE last == Last + 1
           f == CHOOSE g : Is(g, last)
<1>2. \E g : Is(g, last)
  <2>1. last \in Nat
    BY LastIsLast
  <2> HIDE DEF last
  <2> QED BY <1>1, <2>1
<1>3. findConfigsInDir(c, d) = f[last]
  BY DEF findConfigsInDir
<1>4. Is(f, last)
  BY <1>2
<1> HIDE DEF f
<1>5. \A k \in 0 .. last : f[k] = IF k = 0 THEN c ELSE FindsFolder(f[k - 1], d, k - 1)
  BY <1>4
<1>6. last \in Nat
  BY LastIsLast
<1> QED BY <1>3, <1>5, <1>6 DEF FindsByFolder

LEMMA FindsInGood ==
    ASSUME NEW t0, NEW c, NEW d, NEW m, Good(t0, c, d)
    PROVE  Good(t0, FindsIn(c, d, m), d)
<1>1. PICK f : FindsByFile(f, c, d, m)
  BY FindsInDefined
<1>2. /\ FindsIn(c, d, m) = f[Last + 1] /\ f[0] = c
      /\ \A k \in 1 .. Last + 1 : f[k] = FindsFile(f[k - 1], d, m, k - 1)
  BY <1>1 DEF FindsByFile
<1> DEFINE T == {k \in 0 .. Last + 1 : ~Good(t0, f[k], d)}
<1>3. T = {}
  <2> SUFFICES ASSUME T # {} PROVE FALSE
    OBVIOUS
  <2>1. T \subseteq Nat
    BY LastIsLast
  <2>2. PICK k \in T : \A j \in T : k <= j
    <3> HIDE DEF T
    <3> QED BY <2>1, LeastNat
  <2>3. k \in 0 .. Last + 1 /\ ~Good(t0, f[k], d)
    OBVIOUS
  <2>4. k # 0
    BY <1>2, <2>3
  <2>5. k - 1 \in 0 .. Last + 1 /\ k \in 1 .. Last + 1 /\ ~(k <= k - 1)
    BY <2>3, <2>4, LastIsLast
  <2>6. Good(t0, f[k - 1], d)
    BY <2>2, <2>5
  <2>7. f[k] = FindsFile(f[k - 1], d, m, k - 1)
    BY <1>2, <2>5
  <2> HIDE DEF T
  <2>8. Good(t0, f[k], d)
    BY <2>6, <2>7, FindsOneGood DEF FindsFile
  <2> QED BY <2>3, <2>8
<1>4. Last + 1 \in 0 .. Last + 1
  BY LastIsLast
<1> QED BY <1>2, <1>3, <1>4

LEMMA FindsGood ==
    ASSUME NEW t0, NEW c, NEW d, Good(t0, c, d)
    PROVE  Good(t0, findConfigsInDir(c, d), d)
<1>1. PICK f : FindsByFolder(f, c, d)
  BY FindsDefined
<1>2. /\ findConfigsInDir(c, d) = f[Last + 1] /\ f[0] = c
      /\ \A k \in 1 .. Last + 1 : f[k] = FindsFolder(f[k - 1], d, k - 1)
  BY <1>1 DEF FindsByFolder
<1> DEFINE T == {k \in 0 .. Last + 1 : ~Good(t0, f[k], d)}
<1>3. T = {}
  <2> SUFFICES ASSUME T # {} PROVE FALSE
    OBVIOUS
  <2>1. T \subseteq Nat
    BY LastIsLast
  <2>2. PICK k \in T : \A j \in T : k <= j
    <3> HIDE DEF T
    <3> QED BY <2>1, LeastNat
  <2>3. k \in 0 .. Last + 1 /\ ~Good(t0, f[k], d)
    OBVIOUS
  <2>4. k # 0
    BY <1>2, <2>3
  <2>5. k - 1 \in 0 .. Last + 1 /\ k \in 1 .. Last + 1 /\ ~(k <= k - 1)
    BY <2>3, <2>4, LastIsLast
  <2>6. Good(t0, f[k - 1], d)
    BY <2>2, <2>5
  <2>7. f[k] = FindsFolder(f[k - 1], d, k - 1)
    BY <1>2, <2>5
  <2> HIDE DEF T
  <2>8. Good(t0, f[k], d)
    BY <2>6, <2>7, FindsInGood DEF FindsFolder
  <2> QED BY <2>3, <2>8
<1>4. Last + 1 \in 0 .. Last + 1
  BY LastIsLast
<1> QED BY <1>2, <1>3, <1>4

\* After a search and a refresh the list is the table, every config of it is
\* there, and no row went whose config was.
Settles(t0, q, d) ==
    /\ Tidy(q.t) /\ q.l = q.t
    /\ \A n \in DOMAIN q.t : Readable(d, q.t[n])
    /\ Keeps(t0, q.t, d)

LEMMA RefreshSettles ==
    ASSUME NEW t0, NEW c, NEW d, Good(t0, c, d)
    PROVE  Settles(t0, refreshConfigs(c, d, "own"), d)
<1> DEFINE q == refreshConfigs(c, d, "own")
<1>1. /\ Tidy(q.t) /\ q.l = q.t /\ Keeps(c.t, q.t, d)
      /\ \A n \in DOMAIN q.t : Readable(d, q.t[n])
  BY RefreshGood DEF Good
<1> HIDE DEF q
<1>2. Keeps(t0, q.t, d)
  BY <1>1 DEF Good, Keeps
<1> QED BY <1>1, <1>2 DEF Settles, q

LEMMA FindSettles ==
    ASSUME NEW t0, NEW l, NEW d, Tidy(t0), \A n \in DOMAIN l \cap DOMAIN t0 : l[n] = t0[n]
    PROVE  Settles(t0, refreshConfigs(findConfigsInDir([t |-> t0, l |-> l], d), d, "own"), d)
<1> DEFINE c == [t |-> t0, l |-> l]
<1>1. Good(t0, c, d)
  BY DEF Good, Agrees, Keeps
<1> HIDE DEF c
<1>2. Good(t0, findConfigsInDir(c, d), d)
  BY <1>1, FindsGood
<1>3. Settles(t0, refreshConfigs(findConfigsInDir(c, d), d, "own"), d)
  BY <1>2, RefreshSettles
<1> QED BY <1>3 DEF c

-----------------------------------------------------------------------------
\* The inductive invariant.

\* List and table agree, and the config of a row is there unless a rename
\* has torn them apart.
RowsInv ==
    /\ Tidy(table) /\ myList = table
    /\ \A n \in DOMAIN table \ torn : Readable(dirs, table[n])

\* The key is foreign only while the box is open.
KeyInv == box \/ secretKey = "own"

\* Every folder and every backup is complete.
Right(d) == \A n \in DOMAIN d.ovpn : d.ovpn[n].plain => FilesArePresent(d, d.ovpn[n])
RightInv == (\A m \in DOMAIN dirs : Right(dirs[m])) /\ (\A x \in archives : Right(x))

FilesInv == RowsInv /\ KeyInv /\ RightInv

\* No config has gone from its folder.
Grows(d, e) == \A m \in DOMAIN d : m \in DOMAIN e /\ DOMAIN d[m].ovpn \subseteq DOMAIN e[m].ovpn

\* Who may vanish in a step.
MayVanish(id) == id \in gone' \cup torn \/ (box /\ secretKey # "own")
Vanishes == \A id \in DOMAIN table \ DOMAIN table' : MayVanish(id)

LEMMA StaysReadable ==
    ASSUME NEW d, NEW e, NEW r, Grows(d, e), Readable(d, r)
    PROVE  Readable(e, r)
BY DEF Grows, Readable

\* A search, whatever was new in the folders.
LEMMA FoundInv ==
    ASSUME RowsInv, NEW l, l = myList \/ l = << >>,
           Grows(dirs, dirs'), checkForNewConfigAndRefreshUI(dirs', l)
    PROVE  RowsInv' /\ Vanishes
<1> DEFINE d == dirs'
           q == refreshConfigs(findConfigsInDir([t |-> table, l |-> l], d), d, "own")
<1>1. table' = q.t /\ myList' = q.l
  BY DEF checkForNewConfigAndRefreshUI
<1>2. Tidy(table) /\ \A n \in DOMAIN l \cap DOMAIN table : l[n] = table[n]
  BY DEF RowsInv
<1>3. Settles(table, q, d)
  <2> HIDE DEF d
  <2> QED BY <1>2, FindSettles
<1> HIDE DEF q
<1>4. Tidy(q.t) /\ q.l = q.t /\ (\A n \in DOMAIN q.t : Readable(d, q.t[n])) /\ Keeps(table, q.t, d)
  BY <1>3 DEF Settles
<1>5. RowsInv'
  BY <1>1, <1>4 DEF RowsInv
<1>6. Vanishes
  <2> SUFFICES ASSUME NEW id \in DOMAIN table, id \notin DOMAIN table'
               PROVE  id \in torn
    BY DEF Vanishes, MayVanish
  <2>1. ~Readable(d, table[id])
    BY <1>1, <1>4 DEF Keeps
  <2>2. ~Readable(dirs, table[id])
    BY <2>1, StaysReadable
  <2> QED BY <2>2 DEF RowsInv
<1> QED BY <1>5, <1>6

\* A refresh: with the own key a search for nothing, with a foreign one the
\* end of the table.
LEMMA RefreshedInv ==
    ASSUME RowsInv, NEW t, DOMAIN t \subseteq DOMAIN table, \A n \in DOMAIN t : t[n] = table[n],
           Refreshes(dirs', t)
    PROVE  /\ RowsInv'
           /\ secretKey = "own" => \A id \in DOMAIN t : Readable(dirs', table[id]) => id \in DOMAIN table'
<1> DEFINE d == dirs'
           c == [t |-> t, l |-> myList]
           q == refreshConfigs(c, d, secretKey)
<1>1. table' = q.t /\ myList' = q.l
  BY DEF Refreshes
<1>3. Tidy(t)
  <2>1. IsFiniteSet(DOMAIN t)
    BY FS_Subset DEF RowsInv, Tidy
  <2> QED BY <2>1 DEF RowsInv, Tidy
<1>4. c.t = t /\ c.l = myList /\ Agrees(c)
  BY DEF RowsInv, Agrees
<1> HIDE DEF c, d
<1>5. /\ Tidy(q.t) /\ q.l = q.t /\ (secretKey = "own" => Keeps(c.t, q.t, d))
      /\ \A n \in DOMAIN q.t : Readable(d, q.t[n])
  BY <1>3, <1>4, RefreshGood
<1> HIDE DEF q
<1>6. RowsInv'
  BY <1>1, <1>5 DEF RowsInv, d
<1>7. secretKey = "own" => \A id \in DOMAIN t : Readable(d, table[id]) => id \in DOMAIN table'
  BY <1>1, <1>4, <1>5 DEF Keeps
<1> QED BY <1>6, <1>7 DEF d

\* Nothing but the folders has changed.
LEMMA RowsStay ==
    ASSUME RowsInv, Grows(dirs, dirs'), UNCHANGED <<table, myList>>, Forgets
    PROVE  RowsInv' /\ Vanishes
<1>1. torn \cap DOMAIN table = torn'
  BY DEF Forgets, StillTorn
<1>2. \A n \in DOMAIN table \ torn' : Readable(dirs', table[n])
  BY <1>1, StaysReadable DEF RowsInv
<1> QED BY <1>2 DEF RowsInv, Vanishes

-----------------------------------------------------------------------------
\* The files an import copies.

LEMMA KeyFacts == Len(keys) = 13 /\ DOMAIN keys = 1 .. Len(keys)
BY DEF keys

\* The loop over the keys.
Uncopied(lines) == [lines |-> lines, files |-> << >>]
CopiesByKey(f, lines) ==
    /\ copiesOf(lines) = f[Len(keys)]
    /\ f[0] = Uncopied(lines)
    /\ \A k \in 1 .. Len(keys) : f[k] = copyConfigFile(f[k - 1], keys[k])

LEMMA CopiesDefined ==
    ASSUME NEW lines
    PROVE  \E f : CopiesByKey(f, lines)
<1> DEFINE Is(g, n) == g = [k \in 0 .. n |-> IF k = 0 THEN Uncopied(lines) ELSE copyConfigFile(g[k - 1], keys[k])]
           T == {n \in Nat : ~\E g : Is(g, n)}
<1>1. T = {}
  <2> SUFFICES ASSUME T # {} PROVE FALSE
    OBVIOUS
  <2>1. T \subseteq Nat
    OBVIOUS
  <2>2. PICK n \in T : \A m \in T : n <= m
    <3> HIDE DEF T
    <3> QED BY <2>1, LeastNat
  <2>3. n \in Nat
    OBVIOUS
  <2>4. CASE n = 0
    <3>1. \A k \in 0 .. n : k = 0
      BY <2>4
    <3> DEFINE g == [k \in 0 .. n |-> Uncopied(lines)]
    <3>2. \A k \in 0 .. n : g[k] = IF k = 0 THEN Uncopied(lines) ELSE copyConfigFile(g[k - 1], keys[k])
      <4>1. \A k \in 0 .. n : g[k] = Uncopied(lines)
        OBVIOUS
      <4> HIDE DEF g
      <4> QED BY <3>1, <4>1
    <3>3. Is(g, n)
      <4>1. g = [k \in 0 .. n |-> g[k]]
        OBVIOUS
      <4> HIDE DEF g
      <4> QED BY <3>2, <4>1
    <3> HIDE DEF g
    <3> QED BY <3>3
  <2>5. CASE n # 0
    <3>1. n - 1 \in Nat /\ n - 1 \notin T
      <4> HIDE DEF T
      <4> QED BY <2>2, <2>3, <2>5
    <3>2. PICK g : Is(g, n - 1)
      BY <3>1
    <3> DEFINE h == [k \in 0 .. n |-> IF k = n THEN copyConfigFile(g[n - 1], keys[n]) ELSE g[k]]
    <3>3. \A k \in 0 .. n - 1 : h[k] = g[k]
      BY <2>3
    <3>4. \A k \in 0 .. n - 1 : g[k] = IF k = 0 THEN Uncopied(lines) ELSE copyConfigFile(g[k - 1], keys[k])
      BY <3>2
    <3>5. \A k \in 0 .. n : h[k] = IF k = 0 THEN Uncopied(lines) ELSE copyConfigFile(h[k - 1], keys[k])
      <4> SUFFICES ASSUME NEW k \in 0 .. n
                   PROVE  h[k] = IF k = 0 THEN Uncopied(lines) ELSE copyConfigFile(h[k - 1], keys[k])
        OBVIOUS
      <4>1. CASE k = n
        <5>1. h[k] = copyConfigFile(g[n - 1], keys[n]) /\ n - 1 \in 0 .. n - 1
          BY <2>3, <3>1, <4>1
        <5> HIDE DEF h
        <5> QED BY <2>5, <3>3, <4>1, <5>1
      <4>2. CASE k = 0
        <5> HIDE DEF h
        <5>1. 0 \in 0 .. n - 1
          BY <3>1
        <5> QED BY <3>3, <3>4, <4>2, <5>1
      <4>3. CASE k # n /\ k # 0
        <5>1. k \in 0 .. n - 1 /\ k - 1 \in 0 .. n - 1
          BY <2>3, <4>3
        <5> HIDE DEF h
        <5>2. h[k] = g[k] /\ h[k - 1] = g[k - 1]
          BY <3>3, <5>1
        <5> QED BY <3>4, <4>3, <5>1, <5>2
      <4> QED BY <4>1, <4>2, <4>3
    <3>6. Is(h, n)
      BY <3>5
    <3> QED BY <3>6
  <2> QED BY <2>4, <2>5
<1> DEFINE last == Len(keys)
           f == CHOOSE g : Is(g, last)
<1>2. \E g : Is(g, last)
  <2>1. last \in Nat
    BY KeyFacts
  <2> HIDE DEF last
  <2> QED BY <1>1, <2>1
<1>3. copiesOf(lines) = f[last]
  BY DEF copiesOf, Uncopied
<1>4. Is(f, last)
  BY <1>2
<1> HIDE DEF f
<1>5. \A k \in 0 .. last : f[k] = IF k = 0 THEN Uncopied(lines) ELSE copyConfigFile(f[k - 1], keys[k])
  BY <1>4
<1>6. last \in Nat
  BY KeyFacts
<1> QED BY <1>3, <1>5, <1>6 DEF CopiesByKey

\* A line whose file is beside the config.
Done(s, c, n) ==
    /\ c.lines[n].path.dir = "here" /\ c.lines[n].path.name = s[n].path.name
    /\ ~c.lines[n].path.spaced /\ s[n].path.name \in DOMAIN c.files

\* How far the loop has come after the keys ks.
Copying(s, c, ks) ==
    /\ DOMAIN c.lines = DOMAIN s
    /\ \A n \in DOMAIN s : s[n].path = NoFile => c.lines[n] = s[n]
    /\ \A n \in DOMAIN s : s[n].path # NoFile =>
          /\ c.lines[n].key = s[n].key
          /\ c.lines[n] = s[n] \/ Done(s, c, n)
          /\ s[n].key \in ks => Done(s, c, n)
    /\ \A x \in DOMAIN c.files :
          \E n \in DOMAIN s : s[n].path # NoFile /\ s[n].path.name = x /\ c.files[x] = s[n].path

LEMMA HereIsAPath == ASSUME NEW p, p.dir = "here" PROVE p # NoFile /\ Beside(p) /\ ~isGivenPathAbsolute(p)
BY DEF NoFile, isGivenPathAbsolute, NoColon, Beside

\* What valueFromConfigKey finds of a plain config.
LEMMA ValueFound ==
    ASSUME NEW s \in Seq(Lines), Plain(s), NEW c, NEW ks, Copying(s, c, ks), NEW key
    PROVE  \/ /\ valueFromConfigKey(c.lines, key) = NoFile
              /\ \A n \in DOMAIN s : s[n].path # NoFile => s[n].key # key
           \/ \E n \in DOMAIN s : /\ s[n].path # NoFile /\ s[n].key = key
                                 /\ valueFromConfigKey(c.lines, key) = c.lines[n].path
                                 /\ c.lines[n].path # NoFile
<1> DEFINE at == {n \in DOMAIN c.lines : c.lines[n].key = key /\ c.lines[n].path # NoFile}
<1>1. \A n \in DOMAIN s : s[n].path # NoFile => c.lines[n].path # NoFile /\ ~c.lines[n].path.spaced
  <2> SUFFICES ASSUME NEW n \in DOMAIN s, s[n].path # NoFile
               PROVE  c.lines[n].path # NoFile /\ ~c.lines[n].path.spaced
    OBVIOUS
  <2>1. CASE c.lines[n] = s[n]
    BY <2>1 DEF Plain, PlainLine
  <2>2. CASE Done(s, c, n)
    BY <2>2, HereIsAPath DEF Done
  <2> QED BY <2>1, <2>2 DEF Copying
<1>2. at = {n \in DOMAIN s : s[n].path # NoFile /\ s[n].key = key}
  BY <1>1 DEF Copying
<1>3. CASE at = {}
  <2>1. valueFromConfigKey(c.lines, key) = NoFile
    BY <1>3 DEF valueFromConfigKey
  <2> QED BY <1>2, <1>3, <2>1
<1>4. CASE at # {}
  <2>1. PICK n \in DOMAIN s : n \in at /\ s[n].path # NoFile /\ s[n].key = key
    BY <1>2, <1>4
  <2>2. at = {n}
    BY <1>2, <2>1 DEF Plain, PlainLine
  <2>3. n \in Nat
    BY <2>1
  <2>4. (CHOOSE k \in at : \A m \in at : k <= m) = n
    <3> HIDE DEF at
    <3> QED BY <2>2, <2>3
  <2>5. valueFromConfigKey(c.lines, key) = c.lines[n].path
    <3>1. valueFromConfigKey(c.lines, key) =
             LET l == c.lines[CHOOSE k \in at : \A m \in at : k <= m]
             IN  IF at = {} THEN NoFile
                 ELSE IF l.path.spaced /\ ~l.extra THEN [dir |-> l.path.dir, name |-> "cut", spaced |-> FALSE]
                 ELSE l.path
      BY DEF valueFromConfigKey
    <3> HIDE DEF at
    <3> QED BY <1>1, <1>4, <2>1, <2>4, <3>1
  <2> QED BY <1>1, <2>1, <2>5
<1> QED BY <1>3, <1>4

\* Copying the file of one line.
LEMMA CopyStep ==
    ASSUME NEW s \in Seq(Lines), Plain(s), NEW c, NEW ks, Copying(s, c, ks), NEW key
    PROVE  Copying(s, copyConfigFile(c, key), ks \cup {key})
<1> DEFINE p == valueFromConfigKey(c.lines, key)
           q == copyConfigFile(c, key)
<1>1. CASE p = NoFile
  <2>1. q = c
    BY <1>1 DEF copyConfigFile
  <2>2. \A n \in DOMAIN s : s[n].path # NoFile => s[n].key # key
    BY <1>1, ValueFound
  <2> QED BY <2>1, <2>2 DEF Copying
<1>2. CASE p # NoFile
  <2>1. PICK n \in DOMAIN s : s[n].path # NoFile /\ s[n].key = key /\ p = c.lines[n].path
    BY <1>2, ValueFound
  <2>2. /\ q.lines = IF isGivenPathAbsolute(p)
                     THEN changeKeyValueInConfig(c.lines, key, fileNameOfAbsolutePath(p)) ELSE c.lines
        /\ q.files = IF isGivenPathAbsolute(p) \/ Beside(p) THEN Copied(c.files, p, p.name) ELSE c.files
    BY <1>2 DEF copyConfigFile
  <2>3. PlainLine(s, n)
    BY <2>1 DEF Plain
  <2> HIDE DEF p, q
  <2>4. CASE Done(s, c, n)
    <3>1. ~isGivenPathAbsolute(p) /\ p.name \in DOMAIN c.files
      BY <2>1, <2>4, HereIsAPath DEF Done
    <3>2. q.lines = c.lines /\ q.files = c.files
      BY <2>2, <3>1 DEF Copied
    <3>3. \A m \in DOMAIN s : Done(s, q, m) <=> Done(s, c, m)
      BY <3>2 DEF Done
    <3>4. \A m \in DOMAIN s : s[m].path # NoFile /\ s[m].key = key => m = n
      BY <2>1, <2>3 DEF PlainLine
    <3>5. Copying(s, q, ks \cup {key})
      BY <2>4, <3>2, <3>3, <3>4 DEF Copying
    <3> QED BY <3>5 DEF q
  <2>5. CASE ~Done(s, c, n)
    <3>1. c.lines[n] = s[n] /\ p = s[n].path
      BY <2>1, <2>5 DEF Copying
    <3>2. p \notin Missing /\ ~p.spaced /\ (isGivenPathAbsolute(p) \/ Beside(p))
      BY <2>3, <3>1 DEF PlainLine
    <3>3. /\ DOMAIN q.files = DOMAIN c.files \cup {p.name}
          /\ \A x \in DOMAIN c.files : q.files[x] = c.files[x]
          /\ p.name \in DOMAIN c.files \/ q.files[p.name] = p
      BY <2>2, <3>2 DEF Copied, With
    <3>4. /\ DOMAIN q.lines = DOMAIN s
          /\ \A m \in DOMAIN s : m # n => q.lines[m] = c.lines[m]
          /\ q.lines[n].key = key /\ q.lines[n].path.dir = "here"
          /\ q.lines[n].path.name = p.name /\ ~q.lines[n].path.spaced
      <4>1. CASE isGivenPathAbsolute(p)
        <5>1. \A m \in DOMAIN s : m # n => ~startsWith(c.lines[m].key, key)
          <6>1. \A m \in DOMAIN s : c.lines[m].key = s[m].key
            BY DEF Copying
          <6>2. \A m \in DOMAIN s : m # n => ~startsWith(s[m].key, s[n].key)
            BY <2>3, <3>1, <4>1 DEF PlainLine
          <6> QED BY <2>1, <6>1, <6>2
        <5>2. startsWith(c.lines[n].key, key)
          BY <2>1, <3>1 DEF startsWith
        <5>3. q.lines = [m \in DOMAIN s |->
                 IF startsWith(c.lines[m].key, key)
                 THEN [key |-> key, path |-> fileNameOfAbsolutePath(p), extra |-> FALSE] ELSE c.lines[m]]
          BY <2>2, <4>1 DEF changeKeyValueInConfig, Copying
        <5>4. q.lines[n] = [key |-> key, path |-> fileNameOfAbsolutePath(p), extra |-> FALSE]
          BY <2>1, <5>2, <5>3
        <5>5. \A m \in DOMAIN s : m # n => q.lines[m] = c.lines[m]
          BY <5>1, <5>3
        <5>6. DOMAIN q.lines = DOMAIN s
          BY <5>3
        <5>7. q.lines[n].key = key /\ q.lines[n].path = fileNameOfAbsolutePath(p)
          BY <5>4
        <5>8. /\ fileNameOfAbsolutePath(p).dir = "here" /\ fileNameOfAbsolutePath(p).name = p.name
              /\ ~fileNameOfAbsolutePath(p).spaced
          BY DEF fileNameOfAbsolutePath
        <5> QED BY <5>5, <5>6, <5>7, <5>8
      <4>2. CASE ~isGivenPathAbsolute(p)
        BY <2>1, <2>2, <3>1, <3>2, <4>2 DEF Beside, Copying
      <4> QED BY <4>1, <4>2
    <3>5. Done(s, q, n)
      BY <3>1, <3>3, <3>4 DEF Done
    <3>6. \A m \in DOMAIN s : m # n /\ Done(s, c, m) => Done(s, q, m)
      BY <3>3, <3>4 DEF Done
    <3>7. \A m \in DOMAIN s : s[m].path # NoFile /\ s[m].key = key => m = n
      BY <2>1, <2>3 DEF PlainLine
    <3>8. \A m \in DOMAIN s : s[m].path = NoFile => q.lines[m] = s[m]
      BY <2>1, <3>4 DEF Copying
    <3>9. \A m \in DOMAIN s : s[m].path # NoFile =>
             /\ q.lines[m].key = s[m].key
             /\ q.lines[m] = s[m] \/ Done(s, q, m)
             /\ s[m].key \in ks \cup {key} => Done(s, q, m)
      <4> SUFFICES ASSUME NEW m \in DOMAIN s, s[m].path # NoFile
                   PROVE  /\ q.lines[m].key = s[m].key
                          /\ q.lines[m] = s[m] \/ Done(s, q, m)
                          /\ s[m].key \in ks \cup {key} => Done(s, q, m)
        OBVIOUS
      <4>1. CASE m = n
        BY <2>1, <3>4, <3>5, <4>1
      <4>2. CASE m # n
        BY <3>4, <3>6, <3>7, <4>2 DEF Copying
      <4> QED BY <4>1, <4>2
    <3>10. \A x \in DOMAIN q.files :
             \E m \in DOMAIN s : s[m].path # NoFile /\ s[m].path.name = x /\ q.files[x] = s[m].path
      <4> SUFFICES ASSUME NEW x \in DOMAIN q.files
                   PROVE  \E m \in DOMAIN s : s[m].path # NoFile /\ s[m].path.name = x /\ q.files[x] = s[m].path
        OBVIOUS
      <4>1. CASE x \in DOMAIN c.files
        BY <3>3, <4>1 DEF Copying
      <4>2. CASE x \notin DOMAIN c.files
        BY <2>1, <3>1, <3>3, <4>2
      <4> QED BY <4>1, <4>2
    <3>11. Copying(s, q, ks \cup {key})
      BY <3>4, <3>8, <3>9, <3>10 DEF Copying
    <3> QED BY <3>11 DEF q
  <2> QED BY <2>4, <2>5
<1> QED BY <1>1, <1>2

\* An import of a plain config is complete.
LEMMA CopiesRight ==
    ASSUME NEW s \in Seq(Lines), Plain(s), NEW d, NEW c,
           d.files = copiesOf(s).files, c.lines = copiesOf(s).lines, c.want = Wanted(s)
    PROVE  FilesArePresent(d, c)
<1>1. PICK f : /\ copiesOf(s) = f[Len(keys)] /\ f[0] = Uncopied(s)
               /\ \A k \in 1 .. Len(keys) : f[k] = copyConfigFile(f[k - 1], keys[k])
  BY CopiesDefined DEF CopiesByKey
<1> DEFINE ks(k) == {keys[j] : j \in 1 .. k}
           T == {k \in 0 .. Len(keys) : ~Copying(s, f[k], ks(k))}
<1>2. T = {}
  <2> SUFFICES ASSUME T # {} PROVE FALSE
    OBVIOUS
  <2>1. T \subseteq Nat
    BY KeyFacts
  <2>2. PICK k \in T : \A j \in T : k <= j
    <3> HIDE DEF T
    <3> QED BY <2>1, LeastNat
  <2>3. k \in 0 .. Len(keys) /\ ~Copying(s, f[k], ks(k))
    OBVIOUS
  <2>4. CASE k = 0
    <3>1. f[k].lines = s /\ f[k].files = << >>
      BY <1>1, <2>4 DEF Uncopied
    <3>2. ks(k) = {} /\ DOMAIN << >> = {}
      BY <2>4
    <3> HIDE DEF ks
    <3>3. Copying(s, f[k], ks(k))
      BY <3>1, <3>2 DEF Copying
    <3> QED BY <2>3, <3>3
  <2>5. CASE k # 0
    <3>1. k - 1 \in 0 .. Len(keys) /\ k \in 1 .. Len(keys) /\ ~(k <= k - 1)
      BY <2>3, <2>5, KeyFacts
    <3>2. Copying(s, f[k - 1], ks(k - 1))
      BY <2>2, <3>1
    <3>3. ks(k) = ks(k - 1) \cup {keys[k]}
      <4>1. 1 .. k = (1 .. k - 1) \cup {k}
        BY <3>1
      <4> QED BY <4>1
    <3> HIDE DEF ks, T
    <3>4. Copying(s, f[k], ks(k))
      BY <1>1, <3>1, <3>2, <3>3, CopyStep
    <3> QED BY <2>3, <3>4
  <2> QED BY <2>4, <2>5
<1> DEFINE to == copiesOf(s)
<1>3. Copying(s, to, ks(Len(keys)))
  <2>1. Len(keys) \in 0 .. Len(keys)
    BY KeyFacts
  <2> QED BY <1>1, <1>2, <2>1
<1>4. \A x \in Range(keys) : x \in ks(Len(keys))
  BY KeyFacts DEF Range
<1> HIDE DEF ks, T
<1> SUFFICES ASSUME NEW n \in DOMAIN to.lines, to.lines[n].path # NoFile
             PROVE  /\ Beside(to.lines[n].path)
                    /\ to.lines[n].path.name \in DOMAIN to.files
                    /\ to.files[to.lines[n].path.name] = s[n].path
  <2>1. \A n \in DOMAIN to.lines : c.want[n] = s[n].path
    BY <1>3 DEF Wanted, Copying
  <2> HIDE DEF to
  <2> QED BY <2>1 DEF FilesArePresent, to
<1> HIDE DEF to
<1>5. n \in DOMAIN s /\ s[n].path # NoFile
  BY <1>3 DEF Copying
<1>6. PlainLine(s, n)
  BY <1>5 DEF Plain
<1>7. Done(s, to, n)
  BY <1>3, <1>4, <1>5, <1>6 DEF Copying, PlainLine
<1>8. PICK m \in DOMAIN s : s[m].path.name = s[n].path.name /\ to.files[s[n].path.name] = s[m].path
  BY <1>3, <1>7 DEF Copying, Done
<1>9. s[m].path = s[n].path
  BY <1>6, <1>8 DEF PlainLine
<1> QED BY <1>7, <1>8, <1>9, HereIsAPath DEF Done

-----------------------------------------------------------------------------
\* The files of the wizard.

\* A pick, or one of its name before it, is copied.
LEMMA FirstOfName ==
    ASSUME NEW p, NEW n \in 1 .. 3
    PROVE  \E k \in 1 .. 3 : ~Again(p, k) /\ p[k].name = p[n].name
<1>1. ~Again(p, 1)
  BY DEF Again
<1>2. Again(p, 2) => p[1].name = p[2].name
  BY DEF Again
<1>3. Again(p, 3) => p[1].name = p[3].name \/ p[2].name = p[3].name
  BY DEF Again
<1>4. n = 1 \/ n = 2 \/ n = 3
  OBVIOUS
<1> QED BY <1>1, <1>2, <1>3, <1>4

LEMMA WizardKeeps ==
    ASSUME NEW p, NEW old, NEW fails
    PROVE  \A x \in DOMAIN old : /\ x \in DOMAIN WizardFiles(p, old, fails)
                                 /\ WizardFiles(p, old, fails)[x] = old[x]
BY DEF WizardFiles

LEMMA WizardRight ==
    ASSUME NEW p, PlainPicks(p), NEW old, NEW fails, Refused(p, old, fails) = {}, NEW d, NEW c,
           d.files = WizardFiles(p, old, fails), c.lines = WizardLines(p), c.want = p
    PROVE  FilesArePresent(d, c)
<1> DEFINE copied == {k \in 1 .. 3 : ~Again(p, k) /\ \A j \in 1 .. k : j \notin Refused(p, old, fails)}
<1>1. copied = {k \in 1 .. 3 : ~Again(p, k)}
  OBVIOUS
<1>2. d.files = [x \in DOMAIN old \cup {p[k].name : k \in copied} |->
                    IF x \in DOMAIN old THEN old[x] ELSE p[CHOOSE k \in copied : p[k].name = x]]
  BY DEF WizardFiles
<1>3. DOMAIN c.lines = 1 .. 3 /\ \A n \in 1 .. 3 : c.lines[n].path = fileNameOfAbsolutePath(p[n])
  BY DEF WizardLines
<1> HIDE DEF copied
<1> SUFFICES ASSUME NEW n \in 1 .. 3
             PROVE  /\ Beside(c.lines[n].path)
                    /\ c.lines[n].path.name \in DOMAIN d.files
                    /\ d.files[c.lines[n].path.name] = p[n]
  BY <1>3 DEF FilesArePresent
<1>4. Beside(c.lines[n].path) /\ c.lines[n].path.name = p[n].name
  BY <1>3 DEF fileNameOfAbsolutePath, Beside
<1>5. PICK k \in copied : p[k].name = p[n].name
  BY <1>1, FirstOfName
<1>6. p[n].name \notin DOMAIN old
  BY <1>1, <1>5 DEF Refused
<1> DEFINE x == p[n].name
           h == CHOOSE j \in copied : p[j].name = x
<1>7. h \in copied /\ p[h].name = x
  BY <1>5
<1> HIDE DEF h
<1>8. x \in DOMAIN d.files /\ d.files[x] = p[h]
  BY <1>2, <1>5, <1>6 DEF h
<1>9. p[h] = p[n]
  BY <1>1, <1>7 DEF PlainPicks
<1> QED BY <1>4, <1>8, <1>9

-----------------------------------------------------------------------------
\* Folders.

LEMMA WithoutFacts ==
    ASSUME NEW f, NEW S
    PROVE  DOMAIN Without(f, S) = DOMAIN f \ S /\ \A x \in DOMAIN f \ S : Without(f, S)[x] = f[x]
BY DEF Without, Restrict

LEMMA EmptyRight == Right(EmptyDir) /\ DOMAIN EmptyDir.ovpn = {}
<1>1. EmptyDir.ovpn = << >> /\ DOMAIN << >> = {}
  BY DEF EmptyDir
<1> QED BY <1>1 DEF Right

LEMMA FolderPut ==
    ASSUME NEW d, NEW n, NEW x, \A m \in DOMAIN d : Right(d[m]), Right(x)
    PROVE  \A m \in DOMAIN With(d, n, x) : Right(With(d, n, x)[m])
<1> DEFINE e == With(d, n, x)
<1>1. DOMAIN e = DOMAIN d \cup {n} /\ e[n] = x /\ \A m \in DOMAIN d : m # n => e[m] = d[m]
  BY DEF With
<1> HIDE DEF e
<1>2. \A m \in DOMAIN e : Right(e[m])
  BY <1>1
<1> QED BY <1>2 DEF e

LEMMA PutGrows ==
    ASSUME NEW d, NEW n, NEW x, n \in DOMAIN d => DOMAIN d[n].ovpn \subseteq DOMAIN x.ovpn
    PROVE  Grows(d, With(d, n, x))
<1> DEFINE e == With(d, n, x)
<1>1. DOMAIN e = DOMAIN d \cup {n} /\ e[n] = x /\ \A m \in DOMAIN d : m # n => e[m] = d[m]
  BY DEF With
<1> HIDE DEF e
<1>2. Grows(d, e)
  BY <1>1 DEF Grows
<1> QED BY <1>2 DEF e

\* More files in a folder do not hurt.
LEMMA MoreFiles ==
    ASSUME NEW d, NEW e, NEW c, FilesArePresent(d, c),
           \A x \in DOMAIN d.files : x \in DOMAIN e.files /\ e.files[x] = d.files[x]
    PROVE  FilesArePresent(e, c)
BY DEF FilesArePresent

\* Nor does another name of a config.
LEMMA RenamedRight ==
    ASSUME NEW d, NEW e, NEW m, NEW n, Right(d), m \in DOMAIN d.ovpn,
           e.files = d.files, e.ovpn = With(Without(d.ovpn, {m}), n, d.ovpn[m])
    PROVE  Right(e)
<1> DEFINE o == Without(d.ovpn, {m})
<1>1. DOMAIN o = DOMAIN d.ovpn \ {m} /\ \A x \in DOMAIN o : o[x] = d.ovpn[x]
  BY WithoutFacts
<1>2. /\ DOMAIN e.ovpn = DOMAIN o \cup {n} /\ e.ovpn[n] = d.ovpn[m]
      /\ \A x \in DOMAIN o : x # n => e.ovpn[x] = o[x]
  <2> DEFINE v == d.ovpn[m]
             w == With(o, n, v)
  <2>1. e.ovpn = w
    OBVIOUS
  <2> HIDE DEF o, v
  <2>2. DOMAIN w = DOMAIN o \cup {n} /\ w[n] = v /\ \A x \in DOMAIN o : x # n => w[x] = o[x]
    BY DEF With
  <2> HIDE DEF w
  <2> QED BY <2>1, <2>2 DEF v
<1> HIDE DEF o
<1> SUFFICES ASSUME NEW x \in DOMAIN e.ovpn, e.ovpn[x].plain PROVE FilesArePresent(e, e.ovpn[x])
  BY DEF Right
<1>3. PICK y \in DOMAIN d.ovpn : e.ovpn[x] = d.ovpn[y]
  BY <1>1, <1>2
<1>4. FilesArePresent(d, d.ovpn[y])
  BY <1>3 DEF Right
<1> QED BY <1>3, <1>4, MoreFiles

-----------------------------------------------------------------------------
\* Step by step.

LEMMA ImportOvpnInv ==
    ASSUME FilesInv, NEW s \in Sources, NEW n, NEW opens, ImportOvpn(s, n, opens)
    PROVE  FilesInv' /\ Vanishes
<1> DEFINE to == copiesOf(s)
           c == [lines |-> to.lines, want |-> Wanted(s), plain |-> Plain(s)]
           x == [ovpn |-> With(<< >>, n, c), files |-> to.files]
<1>1. n \notin DOMAIN dirs /\ UNCHANGED <<secretKey, box, archives>> /\ Forgets
  BY DEF ImportOvpn
<1>2. Right(x)
  <2>1. DOMAIN x.ovpn = {n} /\ x.ovpn[n] = c /\ x.files = to.files
    <3>1. DOMAIN << >> = {}
      OBVIOUS
    <3> HIDE DEF to, c
    <3> QED BY <3>1 DEF With
  <2>2. c.lines = to.lines /\ c.want = Wanted(s) /\ (c.plain <=> Plain(s))
    OBVIOUS
  <2>3. s \in Seq(Lines)
    BY FilesAssumption
  <2> HIDE DEF x, c
  <2>4. Plain(s) => FilesArePresent(x, c)
    BY <2>1, <2>2, <2>3, CopiesRight
  <2> QED BY <2>1, <2>2, <2>4 DEF Right
<1>3. /\ \/ dirs' = With(dirs, n, x) /\ checkForNewConfigAndRefreshUI(dirs', myList)
         \/ dirs' = With(dirs, n, EmptyDir) /\ UNCHANGED <<table, myList>>
  BY DEF ImportOvpn
<1> HIDE DEF x
<1>4. Grows(dirs, dirs')
  BY <1>1, <1>3, PutGrows
<1>5. RowsInv' /\ Vanishes
  BY <1>1, <1>3, <1>4, FoundInv, RowsStay DEF FilesInv
<1>6. RightInv'
  BY <1>1, <1>2, <1>3, FolderPut, EmptyRight DEF FilesInv, RightInv
<1> QED BY <1>1, <1>5, <1>6 DEF FilesInv, KeyInv

LEMMA ExportInv ==
    ASSUME FilesInv, NEW id \in DOMAIN myList, NEW written, Export(id, written)
    PROVE  FilesInv' /\ Vanishes
<1> DEFINE x == archive(dirs[myList[id].dir], myList[id].file)
<1>1. UNCHANGED <<dirs, table, myList, secretKey, box>> /\ Forgets /\ Readable(dirs, myList[id])
  BY DEF Export
<1>2. \A y \in archives' : y \in archives \/ y = x
  BY DEF Export
<1>3. Right(x)
  <2>1. Right(dirs[myList[id].dir])
    BY <1>1 DEF FilesInv, RightInv, Readable
  <2>2. x.ovpn = dirs[myList[id].dir].ovpn /\ x.files = dirs[myList[id].dir].files
    BY DEF archive
  <2> HIDE DEF x
  <2> DEFINE d == dirs[myList[id].dir]
  <2>3. \A c : FilesArePresent(d, c) => FilesArePresent(x, c)
    BY <2>2 DEF FilesArePresent
  <2> HIDE DEF d
  <2>4. x.ovpn = d.ovpn /\ Right(d)
    BY <2>1, <2>2 DEF d
  <2> QED BY <2>3, <2>4 DEF Right
<1> HIDE DEF x
<1>4. RightInv'
  BY <1>1, <1>2, <1>3 DEF FilesInv, RightInv
<1>5. Grows(dirs, dirs')
  BY <1>1 DEF Grows
<1> QED BY <1>1, <1>4, <1>5, RowsStay DEF FilesInv, KeyInv

LEMMA RenameArchiveInv ==
    ASSUME FilesInv, NEW x \in archives, NEW n, RenameArchive(x, n)
    PROVE  FilesInv' /\ Vanishes
<1>1. UNCHANGED <<dirs, table, myList, secretKey, box>> /\ Forgets
  BY DEF RenameArchive
<1>2. archives' \subseteq archives \cup {archive(x, n)}
  BY DEF RenameArchive
<1>3. Right(archive(x, n))
  BY DEF FilesInv, RightInv, Right, FilesArePresent, archive
<1>4. RightInv'
  BY <1>1, <1>2, <1>3 DEF FilesInv, RightInv
<1>5. Grows(dirs, dirs')
  BY <1>1 DEF Grows
<1> QED BY <1>1, <1>4, <1>5, RowsStay DEF FilesInv, KeyInv

LEMMA CryptImportInv ==
    ASSUME FilesInv, NEW x \in archives, NEW n, CryptImport(x, n)
    PROVE  FilesInv' /\ Vanishes
<1> DEFINE to == extract(x)
           ovpn == IF x.base \in DOMAIN to.ovpn /\ n \notin DOMAIN to.ovpn
                   THEN With(Without(to.ovpn, {x.base}), n, to.ovpn[x.base]) ELSE to.ovpn
           e == [ovpn |-> ovpn, files |-> to.files]
<1>1. /\ UNCHANGED <<secretKey, box, archives>> /\ Forgets /\ MayUnpack(n)
      /\ dirs' = With(dirs, n, e)
      /\ \/ checkForNewConfigAndRefreshUI(dirs', myList)
         \/ UNCHANGED <<table, myList>>
  BY DEF CryptImport
<1>2. Right(e)
  <2>1. to.ovpn = x.ovpn /\ to.files = x.files
    BY DEF extract
  <2>2. Right(x)
    BY DEF FilesInv, RightInv
  <2>3. CASE x.base \in DOMAIN to.ovpn /\ n \notin DOMAIN to.ovpn
    <3>1. e.files = x.files /\ e.ovpn = With(Without(x.ovpn, {x.base}), n, x.ovpn[x.base])
      BY <2>1, <2>3
    <3> HIDE DEF e, to
    <3> QED BY <2>1, <2>2, <2>3, <3>1, RenamedRight
  <2>4. CASE ~(x.base \in DOMAIN to.ovpn /\ n \notin DOMAIN to.ovpn)
    <3>1. e.files = x.files /\ e.ovpn = x.ovpn
      BY <2>1, <2>4
    <3> HIDE DEF e
    <3> QED BY <2>2, <3>1 DEF Right, FilesArePresent
  <2> QED BY <2>3, <2>4
<1> HIDE DEF e
<1>3. Grows(dirs, dirs')
  BY <1>1, PutGrows, EmptyRight DEF MayUnpack
<1>4. RowsInv' /\ Vanishes
  BY <1>1, <1>3, FoundInv, RowsStay DEF FilesInv
<1>5. RightInv'
  BY <1>1, <1>2, FolderPut DEF FilesInv, RightInv
<1> QED BY <1>1, <1>4, <1>5 DEF FilesInv, KeyInv

LEMMA CryptFailsInv ==
    ASSUME FilesInv, NEW n, CryptFails(n)
    PROVE  FilesInv' /\ Vanishes
<1>1. /\ UNCHANGED <<table, myList, archives>> /\ Forgets /\ MayUnpack(n) /\ box'
      /\ dirs' = With(dirs, n, EmptyDir)
  BY DEF CryptFails
<1>2. Grows(dirs, dirs')
  BY <1>1, PutGrows DEF MayUnpack
<1>3. RightInv'
  BY <1>1, FolderPut, EmptyRight DEF FilesInv, RightInv
<1> QED BY <1>1, <1>2, <1>3, RowsStay DEF FilesInv, KeyInv

LEMMA BoxClosedInv ==
    ASSUME FilesInv, BoxClosed
    PROVE  FilesInv' /\ Vanishes
<1>1. UNCHANGED <<dirs, table, myList, archives>> /\ Forgets /\ secretKey' = "own"
  BY DEF BoxClosed
<1>2. Grows(dirs, dirs')
  BY <1>1 DEF Grows
<1> QED BY <1>1, <1>2, RowsStay DEF FilesInv, KeyInv, RightInv

LEMMA WizardInv ==
    ASSUME FilesInv, NEW p, NEW n, NEW fails, Wizard(p, n, fails)
    PROVE  FilesInv' /\ Vanishes
<1> DEFINE old == IF n \in DOMAIN dirs THEN dirs[n] ELSE EmptyDir
           c == [lines |-> WizardLines(p), want |-> p,
                 plain |-> PlainPicks(p) /\ Refused(p, old.files, fails) = {}]
           x == [ovpn |-> With(old.ovpn, n, c), files |-> WizardFiles(p, old.files, fails)]
<1>1. /\ UNCHANGED <<secretKey, box, archives>> /\ Forgets
      /\ dirs' = With(dirs, n, x) /\ checkForNewConfigAndRefreshUI(dirs', myList)
  BY DEF Wizard
<1>2. Right(old)
  BY EmptyRight DEF FilesInv, RightInv
<1>3. c.lines = WizardLines(p) /\ c.want = p /\ (c.plain => PlainPicks(p) /\ Refused(p, old.files, fails) = {})
  <2> HIDE DEF old
  <2> QED OBVIOUS
<1>4. n \in DOMAIN dirs => old = dirs[n]
  OBVIOUS
<1> HIDE DEF old, c
<1>5. /\ DOMAIN x.ovpn = DOMAIN old.ovpn \cup {n} /\ x.ovpn[n] = c
      /\ \A m \in DOMAIN old.ovpn : m # n => x.ovpn[m] = old.ovpn[m]
      /\ x.files = WizardFiles(p, old.files, fails)
  BY DEF With
<1> HIDE DEF x
<1>6. Right(x)
  <2> SUFFICES ASSUME NEW m \in DOMAIN x.ovpn, x.ovpn[m].plain PROVE FilesArePresent(x, x.ovpn[m])
    BY DEF Right
  <2>1. CASE m = n
    BY <1>3, <1>5, <2>1, WizardRight
  <2>2. CASE m # n
    <3>1. FilesArePresent(old, old.ovpn[m]) /\ x.ovpn[m] = old.ovpn[m]
      BY <1>2, <1>5, <2>2 DEF Right
    <3>2. \A y \in DOMAIN old.files : y \in DOMAIN x.files /\ x.files[y] = old.files[y]
      BY <1>5, WizardKeeps
    <3> QED BY <3>1, <3>2, MoreFiles
  <2> QED BY <2>1, <2>2
<1>7. Grows(dirs, dirs')
  BY <1>1, <1>4, <1>5, PutGrows
<1>8. RowsInv' /\ Vanishes
  BY <1>1, <1>7, FoundInv DEF FilesInv
<1>9. RightInv'
  BY <1>1, <1>6, FolderPut DEF FilesInv, RightInv
<1> QED BY <1>1, <1>8, <1>9 DEF FilesInv, KeyInv

\* The rename: another entry loses its config only with a folder they share.
LEMMA SetNameInv ==
    ASSUME FilesInv, NEW id, NEW n, NEW moves \in BOOLEAN, on_cmdSetName_clicked(id, n, moves)
    PROVE  FilesInv' /\ Vanishes
<1> DEFINE old == myList[id].name
           moved == moves /\ old \in DOMAIN dirs /\ n \notin DOMAIN dirs
           d == IF moved THEN With(Without(dirs, {old}), n, dirs[old]) ELSE dirs
           o == IF n \in DOMAIN d THEN d[n].ovpn ELSE << >>
           beside == {m \in DOMAIN table \ {id} : moved /\ table[m].dir = old}
           x == [ovpn |-> With(Without(o, {old}), n, o[old]), files |-> d[n].files]
           renames == old \in DOMAIN o /\ n \notin DOMAIN o
<1>1. /\ id \in DOMAIN table /\ myList = table
      /\ \A m \in DOMAIN table : m # id => table[m].name # n
      /\ table' = With(table, id, Row(n, n)) /\ myList' = With(myList, id, Row(n, n))
      /\ UNCHANGED <<secretKey, box, archives>>
  <2>1. id \in DOMAIN myList /\ n \notin NamesOf(Without(table, {id}))
    BY DEF on_cmdSetName_clicked
  <2>2. \A m \in DOMAIN table : m # id => table[m].name # n
    BY <2>1 DEF NamesOf, Without, Restrict
  <2> QED BY <2>1, <2>2 DEF FilesInv, RowsInv, on_cmdSetName_clicked, Updates
<1>2. dirs' = IF renames THEN With(d, n, x) ELSE d
  BY DEF on_cmdSetName_clicked
<1>3. torn' = beside \cup IF moved /\ old \in DOMAIN o THEN torn \ {id} ELSE torn \cup {id}
  BY DEF on_cmdSetName_clicked
<1>4. /\ DOMAIN table' = DOMAIN table /\ table'[id] = Row(n, n)
      /\ \A m \in DOMAIN table : m # id => table'[m] = table[m]
  BY <1>1 DEF With
<1>5. Vanishes
  BY <1>4 DEF Vanishes
<1>6. Tidy(table')
  <2>1. Row(n, n).name = n /\ Row(n, n).file = n
    BY DEF Row
  <2>2. Tidy(table)
    BY DEF FilesInv, RowsInv
  <2>3. DOMAIN table' \subseteq Nat /\ IsFiniteSet(DOMAIN table')
    BY <1>4, <2>2 DEF Tidy
  <2>4. \A k \in DOMAIN table' : table'[k].file = table'[k].name
    BY <1>4, <2>1, <2>2 DEF Tidy
  <2>5. \A j, k \in DOMAIN table' : table'[j].name = table'[k].name => j = k
    BY <1>1, <1>4, <2>1, <2>2 DEF Tidy
  <2> QED BY <2>3, <2>4, <2>5 DEF Tidy
<1>7. /\ moved => /\ DOMAIN d = (DOMAIN dirs \ {old}) \cup {n} /\ d[n] = dirs[old]
                  /\ \A m \in DOMAIN dirs : m # old => d[m] = dirs[m]
      /\ ~moved => d = dirs
  <2>1. CASE moved
    <3>1. d = With(Without(dirs, {old}), n, dirs[old]) /\ n \notin DOMAIN dirs
      BY <2>1
    <3> HIDE DEF d, moved, old
    <3>2. DOMAIN d = (DOMAIN dirs \ {old}) \cup {n} /\ d[n] = dirs[old]
      BY <3>1 DEF With, Without, Restrict
    <3>3. \A m \in DOMAIN dirs : m # old => d[m] = dirs[m]
      BY <3>1 DEF With, Without, Restrict
    <3> QED BY <2>1, <3>2, <3>3
  <2>2. CASE ~moved
    BY <2>2
  <2> QED BY <2>1, <2>2
<1>8. n \in DOMAIN d => o = d[n].ovpn
  OBVIOUS
<1>9. old \in DOMAIN o => n \in DOMAIN d
  <2>1. DOMAIN << >> = {}
    OBVIOUS
  <2> HIDE DEF old, d
  <2> QED BY <2>1
<1>10. /\ DOMAIN x.ovpn = (DOMAIN o \ {old}) \cup {n} /\ x.files = d[n].files
       /\ x.ovpn = With(Without(o, {old}), n, o[old])
  <2> HIDE DEF o, d, old
  <2> QED BY DEF With, Without, Restrict
<1>11. /\ renames => /\ DOMAIN dirs' = DOMAIN d \cup {n} /\ dirs'[n] = x
                     /\ \A m \in DOMAIN d : m # n => dirs'[m] = d[m]
       /\ ~renames => dirs' = d
  <2> HIDE DEF x, d, renames
  <2> QED BY <1>2 DEF With
<1>12. moved => old \in DOMAIN dirs /\ n \notin DOMAIN dirs
  OBVIOUS
<1>13. renames <=> old \in DOMAIN o /\ n \notin DOMAIN o
  OBVIOUS
<1>14. \A k \in DOMAIN table : k # id /\ moved /\ table[k].dir = old => k \in beside
  <2> HIDE DEF moved, old
  <2> QED OBVIOUS
<1>15. id \notin beside
  OBVIOUS
<1>16. old = table[id].name
  BY <1>1
<1> HIDE DEF old, moved, d, o, beside, x, renames
<1>17. RightInv'
  <2>1. (\A m \in DOMAIN dirs : Right(dirs[m])) /\ \A y \in archives : Right(y)
    BY DEF FilesInv, RightInv
  <2>2. \A m \in DOMAIN d : Right(d[m])
    BY <1>7, <1>12, <2>1
  <2>3. \A m \in DOMAIN dirs' : Right(dirs'[m])
    <3>1. CASE renames
      <4>1. n \in DOMAIN d /\ old \in DOMAIN d[n].ovpn /\ o = d[n].ovpn /\ Right(d[n])
        BY <1>8, <1>9, <1>13, <2>2, <3>1
      <4>2. Right(x)
        BY <1>10, <4>1, RenamedRight
      <4> QED BY <1>11, <2>2, <3>1, <4>2
    <3>2. CASE ~renames
      BY <1>11, <2>2, <3>2
    <3> QED BY <3>1, <3>2
  <2> QED BY <1>1, <2>1, <2>3 DEF RightInv
<1>18. ASSUME NEW k \in DOMAIN table', k \notin torn'
       PROVE  Readable(dirs', table'[k])
  <2>1. CASE k = id
    <3>1. moved /\ old \in DOMAIN o
      BY <1>3, <1>18, <2>1
    <3>2. n \in DOMAIN dirs' /\ n \in DOMAIN dirs'[n].ovpn
      <4>1. CASE renames
        BY <1>10, <1>11, <4>1
      <4>2. CASE ~renames
        BY <1>8, <1>9, <1>11, <1>13, <3>1, <4>2
      <4> QED BY <4>1, <4>2
    <3>3. table'[k].dir = n /\ table'[k].file = n
      BY <1>4, <2>1 DEF Row
    <3> QED BY <3>2, <3>3 DEF Readable
  <2>2. CASE k # id
    <3> DEFINE r == table[k]
    <3>1. table'[k] = r /\ k \in DOMAIN table
      BY <1>4, <2>2
    <3>2. k \notin torn /\ k \notin beside
      BY <1>3, <1>18, <2>2
    <3>3. r.dir \in DOMAIN dirs /\ r.file \in DOMAIN dirs[r.dir].ovpn
      BY <3>1, <3>2 DEF FilesInv, RowsInv, Readable
    <3>4. r.file # old
      BY <1>1, <1>16, <2>2, <3>1 DEF FilesInv, RowsInv, Tidy
    <3>5. moved => r.dir # old /\ r.dir # n
      BY <1>12, <1>14, <2>2, <3>1, <3>2, <3>3
    <3> HIDE DEF r
    <3>6. r.dir \in DOMAIN d /\ d[r.dir] = dirs[r.dir]
      BY <1>7, <3>3, <3>5
    <3>7. r.dir \in DOMAIN dirs' /\ r.file \in DOMAIN dirs'[r.dir].ovpn
      <4>1. CASE ~renames
        BY <1>11, <3>3, <3>6, <4>1
      <4>2. CASE renames /\ r.dir # n
        BY <1>11, <3>3, <3>6, <4>2
      <4>3. CASE renames /\ r.dir = n
        <5>1. r.file \in DOMAIN o
          BY <1>8, <3>3, <3>6, <4>3
        <5>2. r.file \in DOMAIN x.ovpn
          BY <1>10, <3>4, <5>1
        <5> QED BY <1>11, <4>3, <5>2
      <4> QED BY <4>1, <4>2, <4>3
    <3> QED BY <3>1, <3>7 DEF Readable
  <2> QED BY <2>1, <2>2
<1>19. RowsInv'
  BY <1>1, <1>6, <1>18 DEF RowsInv
<1> QED BY <1>1, <1>5, <1>17, <1>19 DEF FilesInv, KeyInv

LEMMA ContextRemoveInv ==
    ASSUME FilesInv, NEW id, ContextRemove(id)
    PROVE  FilesInv' /\ Vanishes
<1> DEFINE dir == myList[id].dir
           t == Without(table, {id})
<1>1. /\ id \in DOMAIN table /\ myList = table /\ secretKey = "own"
      /\ dirs' = Without(dirs, {dir}) /\ Refreshes(dirs', t)
      /\ gone' = {m \in DOMAIN table : table[m].dir = dir}
      /\ UNCHANGED <<secretKey, box, archives>>
  BY DEF ContextRemove, Acts, FilesInv, RowsInv, KeyInv
<1>2. DOMAIN t = DOMAIN table \ {id} /\ \A m \in DOMAIN t : t[m] = table[m]
  BY DEF Without, Restrict
<1>3. DOMAIN dirs' = DOMAIN dirs \ {dir} /\ \A m \in DOMAIN dirs' : dirs'[m] = dirs[m]
  BY <1>1 DEF Without, Restrict
<1> HIDE DEF t, dir
<1>4. RowsInv' /\ \A k \in DOMAIN t : Readable(dirs', table[k]) => k \in DOMAIN table'
  BY <1>1, <1>2, RefreshedInv DEF FilesInv
<1>5. Vanishes
  <2> SUFFICES ASSUME NEW k \in DOMAIN table, k \notin DOMAIN table'
               PROVE  k \in gone' \cup torn
    BY DEF Vanishes, MayVanish
  <2>1. CASE k = id
    BY <1>1, <2>1 DEF dir
  <2>2. CASE k # id
    <3>1. ~Readable(dirs', table[k])
      BY <1>2, <1>4, <2>2
    <3>2. table[k].dir = dir \/ ~Readable(dirs, table[k])
      BY <1>3, <3>1 DEF Readable
    <3> QED BY <1>1, <3>2 DEF FilesInv, RowsInv
  <2> QED BY <2>1, <2>2
<1>6. RightInv'
  BY <1>1, <1>3 DEF FilesInv, RightInv
<1> QED BY <1>1, <1>4, <1>5, <1>6 DEF FilesInv, KeyInv

LEMMA ShowWindowInv ==
    ASSUME FilesInv, ShowWindow
    PROVE  FilesInv' /\ Vanishes
<1>1. UNCHANGED <<dirs, secretKey, box, archives>> /\ Refreshes(dirs', table)
  BY DEF ShowWindow
<1>2. /\ RowsInv'
      /\ secretKey = "own" => \A k \in DOMAIN table : Readable(dirs, table[k]) => k \in DOMAIN table'
  BY <1>1, RefreshedInv DEF FilesInv
<1>3. Vanishes
  BY <1>2 DEF Vanishes, MayVanish, FilesInv, RowsInv, KeyInv
<1> QED BY <1>1, <1>2, <1>3 DEF FilesInv, KeyInv, RightInv

LEMMA RestartInv ==
    ASSUME FilesInv, Restart
    PROVE  FilesInv' /\ Vanishes
<1>1. UNCHANGED <<dirs, archives>> /\ secretKey' = "own" /\ checkForNewConfigAndRefreshUI(dirs', << >>)
  BY DEF Restart
<1>2. Grows(dirs, dirs')
  BY <1>1 DEF Grows
<1> QED BY <1>1, <1>2, FoundInv DEF FilesInv, KeyInv, RightInv

-----------------------------------------------------------------------------
\* The theorems.

LEMMA FilesStart == FilesInit => FilesInv
<1> SUFFICES ASSUME FilesInit PROVE FilesInv
  OBVIOUS
<1>1. /\ dirs \in Given /\ table = << >> /\ myList = << >> /\ secretKey = "own" /\ archives = {}
  BY DEF FilesInit
<1>2. DOMAIN table = {}
  BY <1>1
<1>3. RowsInv
  BY <1>1, <1>2, FS_EmptySet DEF RowsInv, Tidy
<1>4. \A m \in DOMAIN dirs : Right(dirs[m])
  BY <1>1, FilesAssumption DEF GivenFolder, Right
<1> QED BY <1>1, <1>3, <1>4 DEF FilesInv, KeyInv, RightInv

LEMMA FilesStep ==
    ASSUME FilesInv, [Next]_fileVars
    PROVE  FilesInv' /\ Vanishes
<1>1. CASE UNCHANGED fileVars
  <2>1. UNCHANGED <<dirs, table, myList, secretKey, box, archives, torn>>
    BY <1>1 DEF fileVars
  <2> QED BY <2>1 DEF FilesInv, RowsInv, KeyInv, RightInv, Vanishes
<1>2. CASE \E s \in Sources, n \in Names, opens \in BOOLEAN : ImportOvpn(s, n, opens)
  BY <1>2, ImportOvpnInv
<1>3. CASE \E id \in DOMAIN myList, written \in BOOLEAN : Export(id, written)
  BY <1>3, ExportInv
<1>4. CASE \E x \in archives, n \in Names : RenameArchive(x, n) \/ CryptImport(x, n)
  BY <1>4, RenameArchiveInv, CryptImportInv
<1>5. CASE \E n \in Names : CryptFails(n)
  BY <1>5, CryptFailsInv
<1>6. CASE BoxClosed
  BY <1>6, BoxClosedInv
<1>7. CASE \E p \in Picks, n \in Names, fails \in 1 .. 4 : Wizard(p, n, fails)
  BY <1>7, WizardInv
<1>8. CASE \E id \in DOMAIN table, n \in Names, moves \in BOOLEAN : on_cmdSetName_clicked(id, n, moves)
  BY <1>8, SetNameInv
<1>9. CASE \E id \in DOMAIN table : ContextRemove(id)
  BY <1>9, ContextRemoveInv
<1>10. CASE ShowWindow
  BY <1>10, ShowWindowInv
<1>11. CASE Restart
  BY <1>11, RestartInv
<1> QED BY <1>1, <1>2, <1>3, <1>4, <1>5, <1>6, <1>7, <1>8, <1>9, <1>10, <1>11 DEF Next

\* List and table agree, the configs of the rows are there unless a rename
\* tore them apart, the key is the own one unless a box is open, and every
\* folder and backup is complete: the inductive invariant of all handlers.
THEOREM FilesInvariant == Spec => []FilesInv
<1>1. FilesInv /\ [Next]_fileVars => FilesInv'
  BY FilesStep
<1> QED BY <1>1, FilesStart, PTL DEF Spec

\* Every plain config that is listed names the files that were meant when it
\* was imported or made, over copies, renames, backups and restarts.
THEOREM FilesRefsRight == Spec => []RefsRight
<1>1. FilesInv => RefsRight
  BY DEF FilesInv, RightInv, Right, RefsRight, Readable
<1> QED BY <1>1, FilesInvariant, PTL

\* No entry vanishes but by a removal, a rename that left its files behind or
\* took a shared folder away, or a refresh under a foreign key.
THEOREM FilesEntryKept == Spec => EntryKept
<1>1. FilesInv /\ [Next]_fileVars =>
        [\A id \in DOMAIN table \ DOMAIN table' :
            id \in gone' \cup torn \/ (box /\ secretKey # "own")]_fileVars
  BY FilesStep DEF Vanishes, MayVanish
<1> QED BY <1>1, FilesInvariant, PTL DEF Spec, EntryKept
=============================================================================
