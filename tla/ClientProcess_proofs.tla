------------------------ MODULE ClientProcess_proofs ------------------------
(***************************************************************************)
(* The client as a process, for every command line, every number of runs   *)
(* and crashes, every list of entries and every answer of the server.      *)
(***************************************************************************)
EXTENDS ClientProcess, FiniteSetTheorems, SequenceTheorems, TLAPS

-----------------------------------------------------------------------------
\* The command line.  CommandLineToArgvA never writes outside the block it
\* allocates, and it splits as the reference does, for command lines of any
\* length.  Fits alone is not inductive: that half a pointer per character is
\* enough rests on the fact that an argument can only start behind a blank,
\* so that k arguments take 2k - 1 characters, and one more before the next
\* may start.  Nor is SplitsAsQuoted, which only speaks of the end: SplitInv
\* says what has been written after each character of the line.

\* The arguments so far take two characters each, the last one perhaps one.
ArgumentsTakeTwo == 2 * argc <= i + (IF in_SPACE THEN 0 ELSE 1)

\* A character of the line adds at most one character or NUL.
WritesWhatItReads == j <= i

ScanInv == ScanTypeOK /\ ArgumentsTakeTwo /\ WritesWhatItReads

\* Writing a character, and starting an argument or not.
LEMMA PutsOne ==
  ASSUME NEW S, NEW s \in Seq(S), NEW e \in S
  PROVE  Append(s, e) \in Seq(S) /\ Len(Append(s, e)) = Len(s) + 1
  OBVIOUS

LEMMA LengthIsNat ==
  ASSUME NEW S, NEW s \in Seq(S)
  PROVE  Len(s) \in Nat
  OBVIOUS

\* The scanner starts with nothing read and nothing written.
LEMMA ScanInitInv == ScanInit => ScanInv
<1> SUFFICES ASSUME NEW line \in Lines, ScanStarts(line) PROVE ScanInv
  BY DEF ScanInit
<1>1. CmdLine \in Seq(Chars)
  BY CommandLineAssumption DEF ScanStarts
<1>2. len \in Nat
  BY <1>1, LengthIsNat DEF len
<1>3. argv = << >> /\ _argv = << >> /\ i = 0 /\ in_SPACE = TRUE
  BY DEF ScanStarts
<1>4. argc = 0 /\ j = 0
  BY <1>3 DEF argc, j
<1>5. ScanTypeOK
  <2>1. in_QM \in BOOLEAN /\ in_TEXT \in BOOLEAN /\ in_SPACE \in BOOLEAN
    BY Zenon DEF ScanStarts
  <2>2. i \in 0 .. len
    BY <1>2, <1>3
  <2>3. argv \in Seq(Nat) /\ _argv \in Seq(Chars \cup {NUL})
    BY <1>3
  <2> QED
    BY <1>1, <2>1, <2>2, <2>3 DEF ScanTypeOK
<1> QED
  BY <1>3, <1>4, <1>5 DEF ScanInv, ArgumentsTakeTwo, WritesWhatItReads

\* Each branch of the loop keeps the two counts.
LEMMA ScanStepInv == ScanInv /\ [Scan]_scanVars => ScanInv'
<1> SUFFICES ASSUME ScanInv, [Scan]_scanVars PROVE ScanInv'
  OBVIOUS
<1> USE DEF ScanInv
<1>1. CASE UNCHANGED scanVars
  BY <1>1 DEF scanVars, ScanTypeOK, ArgumentsTakeTwo, WritesWhatItReads, argc, j, len
<1>2. CASE Scan
  <2>1. /\ CmdLine' = CmdLine /\ len' = len /\ len \in Nat
        /\ i' = i + 1 /\ i \in 0 .. len /\ i' \in 0 .. len
        /\ argc \in Nat /\ j \in Nat
    <3>1. len \in Nat /\ argc \in Nat /\ j \in Nat
      BY LengthIsNat DEF ScanTypeOK, len, argc, j
    <3> QED
      BY <1>2, <3>1 DEF Scan, Scanning, ScanTypeOK, len
  <2>2. a \in Chars
    BY <1>2, <2>1 DEF Scan, Scanning, a, ScanTypeOK, len
  <2>3. ASSUME NEW c \in Chars \cup {NUL}, Puts(c)
        PROVE  _argv' \in Seq(Chars \cup {NUL}) /\ j' = j + 1
    BY <2>3, PutsOne DEF Puts, ScanTypeOK, j
  <2>4. ASSUME UNCHANGED _argv
        PROVE  _argv' \in Seq(Chars \cup {NUL}) /\ j' = j
    BY <2>4 DEF ScanTypeOK, j
  <2>5. ASSUME UNCHANGED argv
        PROVE  argv' \in Seq(Nat) /\ argc' = argc
    BY <2>5 DEF ScanTypeOK, argc
  <2>6. ASSUME StartsArgument(in_SPACE)
        PROVE  /\ argv' \in Seq(Nat)
               /\ argc' = IF in_SPACE THEN argc + 1 ELSE argc
    <3>1. CASE in_SPACE
      <4>1. argv' = Append(argv, j)
        BY <2>6, <3>1 DEF StartsArgument
      <4>2. argv \in Seq(Nat)
        BY DEF ScanTypeOK
      <4> QED
        BY <2>1, <3>1, <4>1, <4>2, PutsOne DEF argc
    <3>2. CASE ~in_SPACE
      BY <2>6, <3>2 DEF StartsArgument, ScanTypeOK, argc
    <3> QED
      BY <3>1, <3>2
  <2>7. CASE Quoted
    <3>1. argv' \in Seq(Nat) /\ argc' = argc
      BY <2>5, <2>7 DEF Quoted
    <3>2. _argv' \in Seq(Chars \cup {NUL}) /\ j' \in {j, j + 1}
      <4>1. CASE a = QUOTE
        BY <2>4, <2>7, <4>1 DEF Quoted
      <4>2. CASE a # QUOTE
        BY <2>2, <2>3, <2>7, <4>2 DEF Quoted
      <4> QED
        BY <4>1, <4>2
    <3>3. in_SPACE' = in_SPACE /\ in_TEXT' = in_TEXT /\ in_QM' \in BOOLEAN
      BY <2>7 DEF Quoted, ScanTypeOK
    <3>4. ScanTypeOK'
      BY <2>1, <3>1, <3>2, <3>3 DEF ScanTypeOK
    <3> QED
      BY <2>1, <3>1, <3>2, <3>3, <3>4 DEF ArgumentsTakeTwo, WritesWhatItReads
  <2>8. CASE OpeningQuote
    <3>1. _argv' \in Seq(Chars \cup {NUL}) /\ j' = j
      BY <2>4, <2>8 DEF OpeningQuote
    <3>2. argv' \in Seq(Nat) /\ argc' = IF in_SPACE THEN argc + 1 ELSE argc
      BY <2>6, <2>8 DEF OpeningQuote
    <3>3. in_SPACE' = FALSE /\ in_TEXT' \in BOOLEAN /\ in_QM' \in BOOLEAN
      BY <2>8 DEF OpeningQuote
    <3>4. ScanTypeOK'
      BY <2>1, <3>1, <3>2, <3>3 DEF ScanTypeOK
    <3> QED
      BY <2>1, <3>1, <3>2, <3>3, <3>4 DEF ArgumentsTakeTwo, WritesWhatItReads
  <2>9. CASE Blank
    <3>1. argv' \in Seq(Nat) /\ argc' = argc
      BY <2>5, <2>9 DEF Blank
    <3>2. _argv' \in Seq(Chars \cup {NUL}) /\ j' \in {j, j + 1}
      <4>1. CASE in_TEXT
        BY <2>3, <2>9, <4>1 DEF Blank
      <4>2. CASE ~in_TEXT
        BY <2>4, <2>9, <4>2 DEF Blank
      <4> QED
        BY <4>1, <4>2
    <3>3. in_SPACE' = TRUE /\ in_TEXT' \in BOOLEAN /\ in_QM' \in BOOLEAN
      BY <2>9 DEF Blank, ScanTypeOK
    <3>4. ScanTypeOK'
      BY <2>1, <3>1, <3>2, <3>3 DEF ScanTypeOK
    <3> QED
      BY <2>1, <3>1, <3>2, <3>3, <3>4 DEF ArgumentsTakeTwo, WritesWhatItReads
  <2>10. CASE Letter
    <3>1. _argv' \in Seq(Chars \cup {NUL}) /\ j' = j + 1
      BY <2>2, <2>3, <2>10 DEF Letter
    <3>2. argv' \in Seq(Nat) /\ argc' = IF in_SPACE THEN argc + 1 ELSE argc
      BY <2>6, <2>10 DEF Letter
    <3>3. in_SPACE' = FALSE /\ in_TEXT' \in BOOLEAN /\ in_QM' \in BOOLEAN
      BY <2>10 DEF Letter, ScanTypeOK
    <3>4. ScanTypeOK'
      BY <2>1, <3>1, <3>2, <3>3 DEF ScanTypeOK
    <3> QED
      BY <2>1, <3>1, <3>2, <3>3, <3>4 DEF ArgumentsTakeTwo, WritesWhatItReads
  <2> QED
    BY <1>2, <2>7, <2>8, <2>9, <2>10 DEF Scan
<1> QED
  BY <1>1, <1>2

\* The two counts give the bound: a line of length len has at most
\* (len + 1) / 2 arguments and adds at most len characters.
LEMMA ScanInvFits == ScanInv => Fits
<1> SUFFICES ASSUME ScanInv PROVE Fits
  OBVIOUS
<1>1. len \in Nat /\ argc \in Nat /\ j \in Nat /\ i \in 0 .. len
  BY LengthIsNat DEF ScanInv, ScanTypeOK, len, argc, j
<1>2. 2 * argc <= len + 1 /\ j <= len
  BY <1>1 DEF ScanInv, ArgumentsTakeTwo, WritesWhatItReads
<1>3. argc <= (len + 2) \div 2
  BY <1>1, <1>2
<1> QED
  BY <1>1, <1>2, <1>3 DEF Fits, Slots, Room

\* CommandLineToArgvA writes only into the block it allocated, whatever the
\* command line.
THEOREM CommandLineFits == ScanSpec => []Fits
<1>1. ScanInit => ScanInv
  BY ScanInitInv
<1>2. ScanInv /\ [Scan]_scanVars => ScanInv'
  BY ScanStepInv
<1>3. ScanInv => Fits
  BY ScanInvFits
<1> QED
  BY <1>1, <1>2, <1>3, PTL DEF ScanSpec

-----------------------------------------------------------------------------
\* The arguments are those of the reference, which speaks of positions of the
\* line.  Rank turns positions into offsets.

\* What the scanner writes, by position: the characters that are kept, and a
\* NUL for a separator that ends an argument.
Writes == {q \in 1 .. len : CmdLine[q] # QUOTE /\ (Separates(q) => q > 1 /\ ~Separates(q - 1))}
Put(q) == IF Separates(q) THEN NUL ELSE CmdLine[q]

\* How many members of S there are up to p.
Rank(S, p) == Cardinality({q \in S : q <= p})

\* The flags say where the scanner is.
Flags ==
    /\ in_QM <=> QuotesBefore(i + 1) % 2 = 1
    /\ in_SPACE <=> i = 0 \/ Separates(i)
    /\ in_TEXT <=> ~in_SPACE
    /\ in_QM => ~in_SPACE

\* The characters written are those of Writes, in order.
Texts ==
    /\ j = Rank(Writes, i)
    /\ \A q \in Writes : q <= i => _argv[Rank(Writes, q)] = Put(q)
    /\ \A e \in 1 .. j : \E q \in Writes : q <= i /\ Rank(Writes, q) = e

\* The pointers written are those of Runs, in order, each to the first
\* character behind what was written before.
Pointers ==
    /\ argc = Rank(Runs, i)
    /\ \A p \in Runs : p <= i => argv[Rank(Runs, p)] = Rank(Writes, p - 1)

\* Every argument that has begun has an end, or goes on.
Closed(p, e) == (\A q \in p .. e : ~Separates(q)) /\ Separates(e + 1)
RunsEnd ==
    \A p \in Runs : p <= i => \/ \E e \in p .. i - 1 : Closed(p, e)
                              \/ \A q \in p .. i : ~Separates(q)

SplitInv == ScanInv /\ Flags /\ Texts /\ Pointers /\ RunsEnd
-----------------------------------------------------------------------------
\* Facts about Rank.

LEMMA RankType ==
    ASSUME NEW n \in Nat, NEW S, \A s \in S : s \in 1 .. n, NEW p \in Int
    PROVE  IsFiniteSet({q \in S : q <= p}) /\ Rank(S, p) \in Nat
<1>1. IsFiniteSet(1 .. n)
  BY FS_Interval
<1>2. {q \in S : q <= p} \in SUBSET (1 .. n)
  OBVIOUS
<1>3. IsFiniteSet({q \in S : q <= p})
  BY <1>1, <1>2, FS_Subset
<1> QED
  BY <1>3, FS_CardinalityType DEF Rank

LEMMA RankZero ==
    ASSUME NEW n \in Nat, NEW S, \A s \in S : s \in 1 .. n
    PROVE  Rank(S, 0) = 0
<1>1. {q \in S : q <= 0} = {}
  OBVIOUS
<1> QED
  BY <1>1, FS_EmptySet DEF Rank

LEMMA RankStep ==
    ASSUME NEW n \in Nat, NEW S, \A s \in S : s \in 1 .. n, NEW p \in Nat
    PROVE  Rank(S, p + 1) = IF p + 1 \in S THEN Rank(S, p) + 1 ELSE Rank(S, p)
<1>1. IsFiniteSet({q \in S : q <= p})
  BY RankType
<1>2. CASE p + 1 \in S
  <2>1. {q \in S : q <= p + 1} = {q \in S : q <= p} \cup {p + 1}
    BY <1>2
  <2>2. p + 1 \notin {q \in S : q <= p}
    OBVIOUS
  <2> QED
    BY <1>1, <1>2, <2>1, <2>2, FS_AddElement DEF Rank
<1>3. CASE p + 1 \notin S
  <2>1. {q \in S : q <= p + 1} = {q \in S : q <= p}
    BY <1>3
  <2> QED
    BY <1>3, <2>1 DEF Rank
<1> QED
  BY <1>2, <1>3

LEMMA RankMonotone ==
    ASSUME NEW n \in Nat, NEW S, \A s \in S : s \in 1 .. n, NEW p \in Int, NEW q \in Int, p <= q
    PROVE  Rank(S, p) <= Rank(S, q)
<1>1. {r \in S : r <= p} \in SUBSET {r \in S : r <= q}
  OBVIOUS
<1>2. IsFiniteSet({r \in S : r <= q})
  BY RankType
<1> QED
  BY <1>1, <1>2, FS_Subset DEF Rank

\* Members of S come in the order of their ranks.
LEMMA RankStrict ==
    ASSUME NEW n \in Nat, NEW S, \A s \in S : s \in 1 .. n, NEW p \in Int, NEW q \in S
    PROVE  Rank(S, p) < Rank(S, q) <=> p < q
<1>1. Rank(S, p) \in Nat /\ Rank(S, q) \in Nat /\ q \in Int
  <2>1. q \in 1 .. n /\ q \in Int
    OBVIOUS
  <2> QED
    BY <2>1, RankType
<1>2. ASSUME p < q PROVE Rank(S, p) < Rank(S, q)
  <2>0. p <= q /\ \A r \in S : r \in Int
    BY <1>1, <1>2
  <2>1. {r \in S : r <= p} \in SUBSET {r \in S : r <= q}
    <3>1. \A r \in S : r <= p => r <= q
      BY <1>1, <2>0
    <3> QED
      BY <3>1
  <2>2. IsFiniteSet({r \in S : r <= q})
    BY <1>1, RankType
  <2>3. q \in {r \in S : r <= q} /\ q \notin {r \in S : r <= p}
    BY <1>1, <1>2
  <2>4. Rank(S, p) <= Rank(S, q) /\ Rank(S, p) # Rank(S, q)
    BY <2>1, <2>2, <2>3, FS_Subset DEF Rank
  <2> QED
    BY <1>1, <2>4
<1>3. ASSUME ~(p < q) PROVE ~(Rank(S, p) < Rank(S, q))
  <2>0. q <= p
    BY <1>1, <1>3
  <2>1. Rank(S, q) <= Rank(S, p)
    BY <1>1, <2>0, RankMonotone
  <2> QED
    BY <1>1, <2>1
<1> QED
  BY <1>2, <1>3

\* The members of S in an interval are counted by two ranks.
LEMMA RankBetween ==
    ASSUME NEW n \in Nat, NEW S, \A s \in S : s \in 1 .. n, NEW p \in Int, NEW q \in Int, p - 1 <= q
    PROVE  /\ IsFiniteSet({r \in S : p <= r /\ r <= q})
           /\ Cardinality({r \in S : p <= r /\ r <= q}) = Rank(S, q) - Rank(S, p - 1)
<1> DEFINE low == {r \in S : r <= p - 1}
           mid == {r \in S : p <= r /\ r <= q}
<1>1. IsFiniteSet(low) /\ Cardinality(low) \in Nat
  <2>1. p - 1 \in Int
    OBVIOUS
  <2> QED
    BY <2>1, RankType DEF Rank
<1>2. IsFiniteSet({r \in S : r <= q})
  BY RankType
<1>3. mid \in SUBSET {r \in S : r <= q}
  OBVIOUS
<1>4. IsFiniteSet(mid)
  BY <1>2, <1>3, FS_Subset
<1>5. Cardinality(mid) \in Nat
  BY <1>4, FS_CardinalityType
<1>6. low \cup mid = {r \in S : r <= q} /\ low \cap mid = {}
  OBVIOUS
<1>7. Cardinality({r \in S : r <= q}) = Cardinality(low) + Cardinality(mid) - 0
  BY <1>1, <1>4, <1>6, FS_Union, FS_EmptySet
<1> QED
  BY <1>1, <1>4, <1>5, <1>7 DEF Rank

-----------------------------------------------------------------------------
\* One pass of the loop, in the terms of the reference.

LEMMA LineFrame ==
    ASSUME CmdLine' = CmdLine
    PROVE  /\ len' = len /\ Runs' = Runs /\ Writes' = Writes
           /\ \A q : Separates(q)' <=> Separates(q)
           /\ \A q : Put(q)' = Put(q)
           /\ \A q : QuotesBefore(q)' = QuotesBefore(q)
BY DEF len, Runs, Begins, Writes, Separates, QuotesBefore, Put

LEMMA QuotesStep ==
    ASSUME NEW p \in Nat, p >= 1
    PROVE  /\ QuotesBefore(p) \in Nat
           /\ QuotesBefore(p + 1) = QuotesBefore(p) + IF CmdLine[p] = QUOTE THEN 1 ELSE 0
<1> DEFINE before == {q \in 1 .. p - 1 : CmdLine[q] = QUOTE}
           upto == {q \in 1 .. p : CmdLine[q] = QUOTE}
<1>1. IsFiniteSet(before)
  <2>1. IsFiniteSet(1 .. p - 1)
    BY FS_Interval
  <2>2. before \in SUBSET (1 .. p - 1)
    OBVIOUS
  <2> QED
    BY <2>1, <2>2, FS_Subset
<1>2. Cardinality(before) \in Nat
  BY <1>1, FS_CardinalityType
<1>3. p \notin before
  OBVIOUS
<1>4. upto = IF CmdLine[p] = QUOTE THEN before \cup {p} ELSE before
  OBVIOUS
<1>5. Cardinality(upto) = Cardinality(before) + IF CmdLine[p] = QUOTE THEN 1 ELSE 0
  <2> HIDE DEF before, upto
  <2>1. CASE CmdLine[p] = QUOTE
    BY <1>1, <1>2, <1>3, <1>4, <2>1, FS_AddElement
  <2>2. CASE CmdLine[p] # QUOTE
    BY <1>2, <1>4, <2>2
  <2> QED
    BY <2>1, <2>2
<1>6. p + 1 - 1 = p
  OBVIOUS
<1> QED
  BY <1>2, <1>5, <1>6 DEF QuotesBefore

\* What the flags say of the next character.
LEMMA NextIs ==
    ASSUME SplitInv, i < len
    PROVE  /\ i \in Nat /\ len \in Nat /\ i + 1 \in 1 .. len /\ a = CmdLine[i + 1]
           /\ Separates(i + 1) <=> a = BLANK /\ ~in_QM
           /\ i + 1 \in Runs <=> ~Separates(i + 1) /\ in_SPACE
           /\ i + 1 \in Writes <=> a # QUOTE /\ (Separates(i + 1) => ~in_SPACE)
<1>1. len \in Nat /\ i \in 0 .. len
  BY LengthIsNat DEF SplitInv, ScanInv, ScanTypeOK, len
<1>2. i \in Nat /\ i + 1 \in 1 .. len /\ a = CmdLine[i + 1] /\ (i + 1) - 1 = i
  BY <1>1 DEF a
<1>3. QuotesBefore(i + 1) \in Nat
  BY <1>2, QuotesStep
<1>4. in_QM <=> QuotesBefore(i + 1) % 2 = 1
  BY DEF SplitInv, Flags
<1>5. in_SPACE <=> i = 0 \/ Separates(i)
  BY DEF SplitInv, Flags
<1>6. ~in_QM <=> QuotesBefore(i + 1) % 2 = 0
  BY <1>3, <1>4
<1>7. Separates(i + 1) <=> a = BLANK /\ ~in_QM
  BY <1>2, <1>6 DEF Separates
<1>8. (i + 1 = 1 <=> i = 0) /\ (i + 1 > 1 <=> i # 0)
  BY <1>2
<1>9. i + 1 \in Runs <=> ~Separates(i + 1) /\ in_SPACE
  BY <1>2, <1>5, <1>8 DEF Runs, Begins
<1>10. i + 1 \in Writes <=> a # QUOTE /\ (Separates(i + 1) => ~in_SPACE)
  BY <1>2, <1>5, <1>8 DEF Writes
<1> QED
  BY <1>1, <1>2, <1>7, <1>9, <1>10

LEMMA ScanEffect ==
    ASSUME SplitInv, Scan
    PROVE  /\ i < len /\ CmdLine' = CmdLine /\ i' = i + 1
           /\ argv' = IF i + 1 \in Runs THEN Append(argv, j) ELSE argv
           /\ _argv' = IF i + 1 \in Writes THEN Append(_argv, Put(i + 1)) ELSE _argv
           /\ in_SPACE' <=> Separates(i + 1)
           /\ in_TEXT' <=> ~Separates(i + 1)
           /\ in_QM' <=> IF a = QUOTE THEN ~in_QM ELSE in_QM
<1>1. i < len /\ CmdLine' = CmdLine /\ i' = i + 1
  BY DEF Scan, Scanning
<1>2. /\ a = CmdLine[i + 1]
      /\ Separates(i + 1) <=> a = BLANK /\ ~in_QM
      /\ i + 1 \in Runs <=> ~Separates(i + 1) /\ in_SPACE
      /\ i + 1 \in Writes <=> a # QUOTE /\ (Separates(i + 1) => ~in_SPACE)
  BY <1>1, NextIs
<1>3. Put(i + 1) = IF Separates(i + 1) THEN NUL ELSE a
  BY <1>2 DEF Put
<1>4. (in_TEXT <=> ~in_SPACE) /\ (in_QM => ~in_SPACE)
  BY DEF SplitInv, Flags
<1>5. QUOTE # BLANK /\ (a \in Letters => a # QUOTE /\ a # BLANK)
  BY CommandLineAssumption DEF QUOTE, BLANK
<1>6. CASE Quoted
  <2>1. in_QM /\ ~in_SPACE /\ in_TEXT /\ ~Separates(i + 1) /\ i + 1 \notin Runs
    BY <1>2, <1>4, <1>6 DEF Quoted
  <2>2. argv' = argv /\ in_SPACE' = in_SPACE /\ in_TEXT' = in_TEXT
    BY <1>6 DEF Quoted
  <2>3. CASE a = QUOTE
    BY <1>1, <1>2, <1>6, <2>1, <2>2, <2>3 DEF Quoted
  <2>4. CASE a # QUOTE
    BY <1>1, <1>2, <1>3, <1>6, <2>1, <2>2, <2>4 DEF Quoted, Puts
  <2> QED
    BY <2>3, <2>4
<1>7. CASE OpeningQuote
  BY <1>1, <1>2, <1>5, <1>7 DEF OpeningQuote, StartsArgument
<1>8. CASE Blank
  <2>1. /\ ~in_QM /\ in_QM' = in_QM /\ a # QUOTE /\ Separates(i + 1) /\ argv' = argv
        /\ in_TEXT' = FALSE /\ in_SPACE' = TRUE /\ i + 1 \notin Runs
    BY <1>2, <1>5, <1>8 DEF Blank
  <2>2. _argv' = IF in_TEXT THEN Append(_argv, NUL) ELSE _argv
    BY <1>8 DEF Blank, Puts
  <2> QED
    BY <1>1, <1>2, <1>3, <1>4, <2>1, <2>2
<1>9. CASE Letter
  <2>1. /\ ~in_QM /\ in_QM' = in_QM /\ a # QUOTE /\ ~Separates(i + 1)
        /\ in_TEXT' = TRUE /\ in_SPACE' = FALSE
    BY <1>2, <1>5, <1>9 DEF Letter
  <2>2. argv' = (IF in_SPACE THEN Append(argv, j) ELSE argv) /\ _argv' = Append(_argv, a)
    BY <1>9 DEF Letter, Puts, StartsArgument
  <2> QED
    BY <1>1, <1>2, <1>3, <2>1, <2>2
<1> QED
  BY <1>6, <1>7, <1>8, <1>9 DEF Scan

\* The sets of positions lie within the line.
LEMMA PositionsInLine ==
    ASSUME SplitInv
    PROVE  len \in Nat /\ i \in 0 .. len /\ j \in Nat /\ argc \in Nat
           /\ (\A q \in Runs : q \in 1 .. len) /\ (\A q \in Writes : q \in 1 .. len)
<1>1. len \in Nat /\ i \in 0 .. len /\ j \in Nat /\ argc \in Nat
  BY LengthIsNat DEF SplitInv, ScanInv, ScanTypeOK, len, j, argc
<1> QED
  BY <1>1 DEF Runs, Writes

LEMMA AppendAt ==
    ASSUME NEW S, NEW s \in Seq(S), NEW e \in S
    PROVE  /\ Len(Append(s, e)) = Len(s) + 1 /\ Append(s, e)[Len(s) + 1] = e
           /\ \A k \in 1 .. Len(s) : Append(s, e)[k] = s[k]
OBVIOUS

LEMMA FlagsStep ==
    ASSUME SplitInv, Scan
    PROVE  Flags'
<1>1. /\ CmdLine' = CmdLine /\ i' = i + 1 /\ i < len
      /\ in_SPACE' <=> Separates(i + 1)
      /\ in_TEXT' <=> ~Separates(i + 1)
      /\ in_QM' <=> IF a = QUOTE THEN ~in_QM ELSE in_QM
  BY ScanEffect
<1>2. /\ \A q : Separates(q)' <=> Separates(q)
      /\ \A q : QuotesBefore(q)' = QuotesBefore(q)
  BY <1>1, LineFrame
<1>3. i \in Nat /\ a = CmdLine[i + 1] /\ (Separates(i + 1) <=> a = BLANK /\ ~in_QM)
  BY <1>1, NextIs
<1>4. /\ QuotesBefore(i + 1) \in Nat
      /\ QuotesBefore(i + 2) = QuotesBefore(i + 1) + IF a = QUOTE THEN 1 ELSE 0
  <2>1. i + 1 \in Nat /\ i + 1 >= 1 /\ (i + 1) + 1 = i + 2
    BY <1>3
  <2> QED
    BY <1>3, <2>1, QuotesStep
<1>5. in_QM <=> QuotesBefore(i + 1) % 2 = 1
  BY DEF SplitInv, Flags
<1>6. in_QM' <=> QuotesBefore(i + 2) % 2 = 1
  <2>1. CASE a = QUOTE
    BY <1>1, <1>4, <1>5, <2>1
  <2>2. CASE a # QUOTE
    BY <1>1, <1>4, <1>5, <2>2
  <2> QED
    BY <2>1, <2>2
<1>7. i' + 1 = i + 2 /\ i' # 0
  BY <1>1, <1>3
<1>8. in_QM' <=> QuotesBefore(i + 1)' % 2 = 1
  <2>1. QuotesBefore(i + 1)' = QuotesBefore(i + 2)
    BY <1>1, <1>7 DEF QuotesBefore
  <2> QED
    BY <1>6, <2>1
<1>9. in_SPACE' <=> i' = 0 \/ Separates(i)'
  <2>1. Separates(i)' <=> Separates(i + 1)
    BY <1>1, <1>2 DEF Separates, QuotesBefore
  <2> QED
    BY <1>1, <1>7, <2>1
<1>10. in_TEXT' <=> ~in_SPACE'
  BY <1>1
<1>11. in_QM' => ~in_SPACE'
  <2>1. QUOTE # BLANK
    BY DEF QUOTE, BLANK
  <2> QED
    BY <1>1, <1>3, <2>1
<1> QED
  BY <1>8, <1>9, <1>10, <1>11 DEF Flags

LEMMA TextsStep ==
    ASSUME SplitInv, Scan
    PROVE  Texts'
<1>1. /\ CmdLine' = CmdLine /\ i' = i + 1 /\ i < len
      /\ _argv' = IF i + 1 \in Writes THEN Append(_argv, Put(i + 1)) ELSE _argv
  BY ScanEffect
<1>2. Writes' = Writes /\ \A q : Put(q)' = Put(q)
  BY <1>1, LineFrame
<1>3. len \in Nat /\ i \in Nat /\ (\A q \in Writes : q \in 1 .. len) /\ j \in Nat
  BY PositionsInLine
<1>4. Rank(Writes, i + 1) = IF i + 1 \in Writes THEN Rank(Writes, i) + 1 ELSE Rank(Writes, i)
  BY <1>3, RankStep
<1>5. /\ j = Rank(Writes, i)
      /\ \A q \in Writes : q <= i => _argv[Rank(Writes, q)] = Put(q)
      /\ \A e \in 1 .. j : \E q \in Writes : q <= i /\ Rank(Writes, q) = e
  BY DEF SplitInv, Texts
<1>6. \A q \in Writes : q <= i + 1 => q <= i \/ q = i + 1
  BY <1>3
<1>7. \A q \in Writes : q <= i => Rank(Writes, q) \in 1 .. j
  <2> SUFFICES ASSUME NEW q \in Writes, q <= i PROVE Rank(Writes, q) \in 1 .. j
    OBVIOUS
  <2>1. q \in 1 .. len /\ q \in Int /\ 0 < q /\ i \in Int /\ 0 \in Int
    BY <1>3
  <2>2. Rank(Writes, q) <= Rank(Writes, i)
    BY <1>3, <2>1, RankMonotone
  <2>3. Rank(Writes, 0) < Rank(Writes, q)
    BY <1>3, <2>1, RankStrict
  <2>4. Rank(Writes, 0) = 0 /\ Rank(Writes, q) \in Nat
    BY <1>3, <2>1, RankZero, RankType
  <2> QED
    BY <1>3, <1>5, <2>2, <2>3, <2>4
<1>8. CASE i + 1 \in Writes
  <2>1. Put(i + 1) \in Chars \cup {NUL}
    BY <1>1, <1>3 DEF Put, SplitInv, ScanInv, ScanTypeOK, len
  <2>2. _argv' = Append(_argv, Put(i + 1)) /\ _argv \in Seq(Chars \cup {NUL})
    BY <1>1, <1>8 DEF SplitInv, ScanInv, ScanTypeOK
  <2>3. /\ j' = j + 1 /\ _argv'[j + 1] = Put(i + 1)
        /\ \A k \in 1 .. j : _argv'[k] = _argv[k]
    BY <2>1, <2>2, AppendAt DEF j
  <2>4. Rank(Writes, i + 1) = j + 1
    BY <1>4, <1>5, <1>8
  <2>5. \A q \in Writes : q <= i + 1 => _argv'[Rank(Writes, q)] = Put(q)
    BY <1>5, <1>6, <1>7, <2>3, <2>4
  <2>6. \A e \in 1 .. j + 1 : \E q \in Writes : q <= i + 1 /\ Rank(Writes, q) = e
    <3> SUFFICES ASSUME NEW e \in 1 .. j + 1
                 PROVE  \E q \in Writes : q <= i + 1 /\ Rank(Writes, q) = e
      OBVIOUS
    <3>1. CASE e \in 1 .. j
      <4>1. PICK q \in Writes : q <= i /\ Rank(Writes, q) = e
        BY <1>5, <3>1
      <4>2. q <= i + 1
        BY <1>3, <4>1
      <4> QED
        BY <4>1, <4>2
    <3>2. CASE e = j + 1
      BY <1>3, <1>8, <2>4, <3>2
    <3> QED
      BY <1>3, <3>1, <3>2
  <2> QED
    BY <1>1, <1>2, <2>3, <2>4, <2>5, <2>6 DEF Texts
<1>9. CASE i + 1 \notin Writes
  <2>1. _argv' = _argv /\ j' = j
    BY <1>1, <1>9 DEF j
  <2>2. \A q \in Writes : q <= i + 1 <=> q <= i
    BY <1>3, <1>6, <1>9
  <2> QED
    BY <1>1, <1>2, <1>4, <1>5, <1>9, <2>1, <2>2 DEF Texts
<1> QED
  BY <1>8, <1>9

LEMMA PointersStep ==
    ASSUME SplitInv, Scan
    PROVE  Pointers'
<1>1. /\ CmdLine' = CmdLine /\ i' = i + 1 /\ i < len
      /\ argv' = IF i + 1 \in Runs THEN Append(argv, j) ELSE argv
  BY ScanEffect
<1>2. Writes' = Writes /\ Runs' = Runs
  BY <1>1, LineFrame
<1>3. len \in Nat /\ i \in Nat /\ (\A q \in Runs : q \in 1 .. len) /\ argc \in Nat /\ j \in Nat
  BY PositionsInLine
<1>4. Rank(Runs, i + 1) = IF i + 1 \in Runs THEN Rank(Runs, i) + 1 ELSE Rank(Runs, i)
  BY <1>3, RankStep
<1>5. /\ argc = Rank(Runs, i)
      /\ \A p \in Runs : p <= i => argv[Rank(Runs, p)] = Rank(Writes, p - 1)
  BY DEF SplitInv, Pointers
<1>6. \A p \in Runs : p <= i + 1 => p <= i \/ p = i + 1
  BY <1>3
<1>7. CASE i + 1 \in Runs
  <2>1. \A p \in Runs : p <= i => Rank(Runs, p) \in 1 .. argc
    <3> SUFFICES ASSUME NEW p \in Runs, p <= i PROVE Rank(Runs, p) \in 1 .. argc
      OBVIOUS
    <3>1. p \in 1 .. len /\ p \in Int /\ 0 < p /\ i \in Int /\ 0 \in Int
      BY <1>3
    <3>2. Rank(Runs, p) <= Rank(Runs, i)
      BY <1>3, <3>1, RankMonotone
    <3>3. Rank(Runs, 0) < Rank(Runs, p)
      BY <1>3, <3>1, RankStrict
    <3>4. Rank(Runs, 0) = 0 /\ Rank(Runs, p) \in Nat
      BY <1>3, <3>1, RankZero, RankType
    <3> QED
      BY <1>3, <1>5, <3>2, <3>3, <3>4
  <2>2. argv' = Append(argv, j) /\ argv \in Seq(Nat)
    BY <1>1, <1>7 DEF SplitInv, ScanInv, ScanTypeOK
  <2>3. /\ argc' = argc + 1 /\ argv'[argc + 1] = j
        /\ \A k \in 1 .. argc : argv'[k] = argv[k]
    BY <1>3, <2>2, AppendAt DEF argc
  <2>4. Rank(Runs, i + 1) = argc + 1
    BY <1>4, <1>5, <1>7
  <2>5. j = Rank(Writes, (i + 1) - 1)
    <3>1. (i + 1) - 1 = i
      BY <1>3
    <3> QED
      BY <3>1 DEF SplitInv, Texts
  <2>6. \A p \in Runs : p <= i + 1 => argv'[Rank(Runs, p)] = Rank(Writes, p - 1)
    BY <1>5, <1>6, <2>1, <2>3, <2>4, <2>5
  <2> QED
    BY <1>1, <1>2, <2>3, <2>4, <2>6 DEF Pointers
<1>8. CASE i + 1 \notin Runs
  <2>1. argv' = argv /\ argc' = argc
    BY <1>1, <1>8 DEF argc
  <2>2. \A p \in Runs : p <= i + 1 => p <= i
    BY <1>6, <1>8
  <2> QED
    BY <1>1, <1>2, <1>4, <1>5, <1>8, <2>1, <2>2 DEF Pointers
<1> QED
  BY <1>7, <1>8

LEMMA RunsEndStep ==
    ASSUME SplitInv, Scan
    PROVE  RunsEnd'
<1>1. CmdLine' = CmdLine /\ i' = i + 1
  BY ScanEffect
<1>2. /\ Runs' = Runs
      /\ \A q : Separates(q)' <=> Separates(q)
  BY <1>1, LineFrame
<1>3. len \in Nat /\ i \in Nat /\ \A q \in Runs : q \in 1 .. len
  BY PositionsInLine
<1>4. \A p \in Runs : p <= i => \/ \E e \in p .. i - 1 : Closed(p, e)
                                \/ \A q \in p .. i : ~Separates(q)
  BY DEF SplitInv, RunsEnd
<1>5. ASSUME NEW p \in Runs, p <= i + 1
      PROVE  \/ \E e \in p .. i : Closed(p, e)
             \/ \A q \in p .. i + 1 : ~Separates(q)
  <2>1. p \in Nat /\ (p <= i \/ p = i + 1)
    BY <1>3, <1>5
  <2>2. CASE p = i + 1
    <3>1. ~Separates(i + 1)
      BY <2>2 DEF Runs, Begins
    <3>2. \A q \in p .. i + 1 : q = i + 1
      BY <1>3, <2>2
    <3> QED
      BY <3>1, <3>2
  <2>3. CASE p <= i /\ \E e \in p .. i - 1 : Closed(p, e)
    <3>1. p .. i - 1 \subseteq p .. i
      BY <1>3, <2>1
    <3> QED
      BY <2>3, <3>1
  <2>4. CASE p <= i /\ \A q \in p .. i : ~Separates(q)
    <3>1. CASE Separates(i + 1)
      BY <1>3, <2>1, <2>4, <3>1 DEF Closed
    <3>2. CASE ~Separates(i + 1)
      <4>1. \A q \in p .. i + 1 : q \in p .. i \/ q = i + 1
        BY <1>3, <2>1
      <4> QED
        BY <2>4, <3>2, <4>1
    <3> QED
      BY <3>1, <3>2
  <2> QED
    BY <1>4, <2>1, <2>2, <2>3, <2>4
<1>6. \A p, e : Closed(p, e)' <=> Closed(p, e)
  BY <1>2 DEF Closed
<1>7. (i + 1) - 1 = i
  BY <1>3
<1> QED
  BY <1>1, <1>2, <1>5, <1>6, <1>7 DEF RunsEnd

LEMMA SplitInit == ScanInit => SplitInv
<1> SUFFICES ASSUME ScanInit PROVE SplitInv
  OBVIOUS
<1>1. ScanInv
  BY ScanInitInv
<1>2. i = 0 /\ argv = << >> /\ _argv = << >> /\ in_QM = FALSE /\ in_TEXT = FALSE /\ in_SPACE = TRUE
  BY DEF ScanInit, ScanStarts
<1>3. len \in Nat /\ j = 0 /\ argc = 0
  BY <1>1, <1>2, LengthIsNat DEF ScanInv, ScanTypeOK, len, j, argc
<1>4. (\A q \in Runs : q \in 1 .. len) /\ (\A q \in Writes : q \in 1 .. len)
  BY DEF Runs, Writes
<1>5. Rank(Runs, 0) = 0 /\ Rank(Writes, 0) = 0
  BY <1>3, <1>4, RankZero
<1>6. \A q \in Runs \cup Writes : ~(q <= 0)
  BY <1>3, <1>4
<1>7. QuotesBefore(1) % 2 = 0
  <2>1. {q \in 1 .. 1 - 1 : CmdLine[q] = QUOTE} = {}
    OBVIOUS
  <2>2. QuotesBefore(1) = 0
    BY <2>1, FS_EmptySet DEF QuotesBefore
  <2> QED
    BY <2>2
<1>8. Flags
  BY <1>2, <1>7 DEF Flags
<1>9. Texts
  BY <1>2, <1>3, <1>5, <1>6 DEF Texts
<1>10. Pointers /\ RunsEnd
  BY <1>2, <1>3, <1>5, <1>6 DEF Pointers, RunsEnd
<1> QED
  BY <1>1, <1>8, <1>9, <1>10 DEF SplitInv

LEMMA SplitStep == SplitInv /\ [Scan]_scanVars => SplitInv'
<1> SUFFICES ASSUME SplitInv, [Scan]_scanVars PROVE SplitInv'
  OBVIOUS
<1>1. ScanInv'
  BY ScanStepInv DEF SplitInv
<1>2. CASE Scan
  BY <1>1, <1>2, FlagsStep, TextsStep, PointersStep, RunsEndStep DEF SplitInv
<1>3. CASE UNCHANGED scanVars
  <2>1. UNCHANGED <<CmdLine, i, argv, _argv, in_QM, in_TEXT, in_SPACE>>
    BY <1>3 DEF scanVars
  <2>2. /\ Runs' = Runs /\ Writes' = Writes /\ j' = j /\ argc' = argc
        /\ \A q : Separates(q)' <=> Separates(q)
        /\ \A q : Put(q)' = Put(q)
        /\ \A q : QuotesBefore(q)' = QuotesBefore(q)
    BY <2>1, LineFrame DEF j, argc
  <2>3. Flags'
    BY <2>1 DEF SplitInv, Flags, Separates, QuotesBefore
  <2>4. Texts'
    BY <2>1, <2>2 DEF SplitInv, Texts
  <2>5. Pointers'
    BY <2>1, <2>2 DEF SplitInv, Pointers
  <2>6. RunsEnd'
    BY <2>1, <2>2 DEF SplitInv, RunsEnd, Closed
  <2> QED
    BY <1>1, <2>3, <2>4, <2>5, <2>6 DEF SplitInv
<1> QED
  BY <1>2, <1>3

-----------------------------------------------------------------------------
\* The end of the loop.

\* The run of an argument has the end that RunEnd takes.
LEMMA RunEndIs ==
    ASSUME SplitInv, i = len, NEW p \in Runs
    PROVE  /\ RunEnd(p) \in p .. len
           /\ \A q \in p .. RunEnd(p) : ~Separates(q)
           /\ RunEnd(p) = len \/ Separates(RunEnd(p) + 1)
<1>1. len \in Nat /\ p \in 1 .. len
  BY PositionsInLine
<1>2. \/ \E e \in p .. len - 1 : Closed(p, e)
      \/ \A q \in p .. len : ~Separates(q)
  BY <1>1 DEF SplitInv, RunsEnd
<1>3. \E e \in p .. len : /\ \A q \in p .. e : ~Separates(q)
                          /\ e = len \/ Separates(e + 1)
  <2>1. CASE \E e \in p .. len - 1 : Closed(p, e)
    <3>1. p .. len - 1 \subseteq p .. len
      BY <1>1
    <3> QED
      BY <2>1, <3>1 DEF Closed
  <2>2. CASE \A q \in p .. len : ~Separates(q)
    <3>1. len \in p .. len
      BY <1>1
    <3> QED
      BY <2>2, <3>1
  <2> QED
    BY <1>2, <2>1, <2>2
<1> QED
  BY <1>3 DEF RunEnd

\* The argument ends where the characters of its run end: at the NUL of the
\* separator behind it, or with the line.
LEMMA EndIs ==
    ASSUME SplitInv, i = len, NEW p \in Runs
    PROVE  EndOf(Rank(Writes, p - 1)) = Rank(Writes, RunEnd(p))
<1> DEFINE b == Rank(Writes, p - 1)
           E == RunEnd(p)
           ends == {e \in b + 1 .. j : _argv[e] = NUL}
<1>1. /\ E \in p .. len
      /\ \A q \in p .. E : ~Separates(q)
      /\ E = len \/ Separates(E + 1)
  BY RunEndIs
<1>2. /\ len \in Nat /\ p \in 1 .. len /\ p \in Int /\ p - 1 \in Int /\ j \in Nat
      /\ \A q \in Writes : q \in 1 .. len
  BY PositionsInLine
<1>3. /\ j = Rank(Writes, len)
      /\ \A q \in Writes : _argv[Rank(Writes, q)] = Put(q)
      /\ \A e \in 1 .. j : \E q \in Writes : Rank(Writes, q) = e
  BY <1>2 DEF SplitInv, Texts
<1>4. b \in Nat
  BY <1>2, RankType
<1> DEFINE least == CHOOSE e \in ends : \A f \in ends : e <= f
<1>5. EndOf(b) = IF ends = {} THEN j ELSE least - 1
  BY DEF EndOf
<1> HIDE DEF b, E
\* A NUL behind the start stands for a separator behind the run.
<1>6. ASSUME NEW e \in ends
      PROVE  \E q \in Writes : Rank(Writes, q) = e /\ q > E /\ Separates(q)
  <2>1. e \in b + 1 .. j /\ _argv[e] = NUL
    OBVIOUS
  <2>2. e \in 1 .. j /\ b < e
    BY <1>2, <1>4, <2>1
  <2>3. PICK q \in Writes : Rank(Writes, q) = e
    BY <1>3, <2>2
  <2>4. q \in 1 .. len
    BY <1>2
  <2>5. p - 1 < q
    BY <1>2, <2>2, <2>3, RankStrict DEF b
  <2>6. Put(q) = NUL
    BY <1>3, <2>1, <2>3
  <2>7. CmdLine[q] \in Chars
    BY <2>4 DEF SplitInv, ScanInv, ScanTypeOK, len
  <2>8. NUL \notin Chars
    BY CommandLineAssumption DEF Chars, NUL, QUOTE, BLANK
  <2>9. Separates(q)
    BY <2>6, <2>7, <2>8 DEF Put
  <2>10. q > E
    BY <1>1, <1>2, <2>4, <2>5, <2>9
  <2> QED
    BY <2>3, <2>9, <2>10
<1>7. CASE E = len
  <2>1. ends = {}
    BY <1>2, <1>6, <1>7
  <2> QED
    BY <1>3, <1>5, <1>7, <2>1 DEF b, E
<1>8. CASE E # len
  <2>1. /\ E \in Nat /\ E + 1 \in 1 .. len /\ Separates(E + 1) /\ ~Separates(E) /\ (E + 1) - 1 = E
        /\ E + 1 > 1 /\ p - 1 < E + 1
    BY <1>1, <1>2, <1>8
  <2>2. E + 1 \in Writes
    <3>1. CmdLine[E + 1] = BLANK /\ BLANK # QUOTE
      BY <2>1 DEF Separates, BLANK, QUOTE
    <3> QED
      BY <2>1, <3>1 DEF Writes
  <2> DEFINE c == Rank(Writes, E)
  <2>3. Rank(Writes, E + 1) = c + 1 /\ c \in Nat
    <3>1. Rank(Writes, E + 1) = Rank(Writes, E) + 1
      BY <1>2, <2>1, <2>2, RankStep
    <3>2. E \in Int
      BY <2>1
    <3>3. Rank(Writes, E) \in Nat
      BY <1>2, <3>2, RankType
    <3> QED
      BY <3>1, <3>3
  <2>4. _argv[c + 1] = NUL
    BY <1>3, <2>1, <2>2, <2>3 DEF Put
  <2>5. b < c + 1
    BY <1>2, <2>1, <2>2, <2>3, RankStrict DEF b
  <2>6. c + 1 <= j
    <3>1. E + 1 <= len /\ E + 1 \in Int /\ len \in Int
      BY <1>2, <2>1
    <3>2. Rank(Writes, E + 1) <= Rank(Writes, len)
      BY <1>2, <3>1, RankMonotone
    <3> QED
      BY <1>3, <2>3, <3>2
  <2>7. c + 1 \in ends
    BY <1>2, <1>4, <2>3, <2>4, <2>5, <2>6
  <2>8. \A f \in ends : c + 1 <= f
    <3> SUFFICES ASSUME NEW f \in ends PROVE c + 1 <= f
      OBVIOUS
    <3>1. PICK q \in Writes : Rank(Writes, q) = f /\ q > E
      BY <1>6
    <3>2. q \in Int /\ E + 1 \in Int /\ E + 1 <= q
      BY <1>2, <2>1, <3>1
    <3>3. Rank(Writes, E + 1) <= Rank(Writes, q)
      BY <1>2, <3>2, RankMonotone
    <3> QED
      BY <2>3, <3>1, <3>3
  <2>9. \A e \in ends : e \in Int
    BY <1>2, <1>4
  <2> HIDE DEF c, ends
  <2>10. least = c + 1
    <3>1. \A e \in ends : (\A f \in ends : e <= f) => e = c + 1
      BY <2>3, <2>7, <2>8, <2>9
    <3>2. \E e \in ends : \A f \in ends : e <= f
      BY <2>7, <2>8
    <3> QED
      BY <3>1, <3>2
  <2> HIDE DEF least
  <2>11. EndOf(b) = c
    <3>1. ends # {}
      BY <2>7
    <3>2. EndOf(b) = (c + 1) - 1
      BY <1>5, <2>10, <3>1
    <3> QED
      BY <2>3, <3>2
  <2> QED
    BY <2>11 DEF b, c, E
<1> QED
  BY <1>7, <1>8

LEMMA ArgumentIs ==
    ASSUME SplitInv, i = len, NEW p \in Runs
    PROVE  Argument(Rank(Runs, p)) = TextOf(p)
<1> DEFINE b == Rank(Writes, p - 1)
           E == RunEnd(p)
           c == Rank(Writes, E)
           kept == {q \in p .. E : CmdLine[q] # QUOTE}
<1>1. E \in p .. len /\ \A q \in p .. E : ~Separates(q)
  BY RunEndIs
<1>2. /\ len \in Nat /\ p \in 1 .. len /\ p \in Int /\ p - 1 \in Int /\ j \in Nat
      /\ \A q \in Writes : q \in 1 .. len
  BY PositionsInLine
<1>3. E \in Int /\ E \in 1 .. len /\ p <= E /\ E <= len /\ len \in Int /\ p - 1 <= E
  BY <1>1, <1>2
<1>4. /\ j = Rank(Writes, len)
      /\ \A q \in Writes : _argv[Rank(Writes, q)] = Put(q)
      /\ \A e \in 1 .. j : \E q \in Writes : Rank(Writes, q) = e
  BY <1>2 DEF SplitInv, Texts
<1>5. argv[Rank(Runs, p)] = b
  BY <1>2 DEF SplitInv, Pointers
<1>6. EndOf(b) = c
  BY EndIs
<1>7. Argument(Rank(Runs, p)) = SubSeq(_argv, b + 1, c)
  BY <1>5, <1>6 DEF Argument
<1>8. b \in Nat /\ c \in Nat
  BY <1>2, <1>3, RankType
<1>9. b <= c /\ c <= j
  BY <1>2, <1>3, <1>4, RankMonotone
<1>10. \A q \in p .. E : q \in kept <=> q \in Writes
  BY <1>1, <1>2, <1>3 DEF Writes
<1>11. \A q \in p - 1 .. E : {r \in kept : r <= q} = {r \in Writes : p <= r /\ r <= q}
  <2> SUFFICES ASSUME NEW q \in p - 1 .. E, NEW r
               PROVE  r \in kept /\ r <= q <=> r \in Writes /\ p <= r /\ r <= q
    OBVIOUS
  <2>1. r \in kept \/ r \in Writes => r \in Int
    BY <1>2
  <2>2. ASSUME r \in Int, p <= r, r <= q PROVE r \in p .. E
    BY <1>2, <1>3, <2>2
  <2>3. r \in kept => p <= r
    BY <1>2, <1>3
  <2> QED
    BY <1>10, <2>1, <2>2, <2>3
<1>12. \A q \in p - 1 .. E : Cardinality({r \in kept : r <= q}) = Rank(Writes, q) - b
  <2> SUFFICES ASSUME NEW q \in p - 1 .. E
               PROVE  Cardinality({r \in kept : r <= q}) = Rank(Writes, q) - b
    OBVIOUS
  <2>1. q \in Int /\ p - 1 <= q
    BY <1>2, <1>3
  <2> QED
    BY <1>2, <1>11, <2>1, RankBetween
<1>13. Cardinality(kept) = c - b
  <2>1. E \in p - 1 .. E
    BY <1>2, <1>3
  <2>2. {r \in kept : r <= E} = kept
    BY <1>2, <1>3
  <2> QED
    BY <1>12, <2>1, <2>2
<1> DEFINE at(n) == CHOOSE q \in kept : Cardinality({r \in kept : r <= q}) = n
<1>14. TextOf(p) = [n \in 1 .. Cardinality(kept) |-> CmdLine[at(n)]]
  BY DEF TextOf
<1>15. \A q \in kept : q \in p - 1 .. E /\ q \in Writes /\ q \in p .. E
  BY <1>2, <1>3, <1>10
<1> HIDE DEF b, E, c, kept
<1>16. \A n \in 1 .. c - b : CmdLine[at(n)] = _argv[b + n]
  <2> SUFFICES ASSUME NEW n \in 1 .. c - b PROVE CmdLine[at(n)] = _argv[b + n]
    OBVIOUS
  <2>1. b + n \in 1 .. j /\ b < b + n /\ b + n <= c
    BY <1>2, <1>8, <1>9
  <2>2. PICK q \in Writes : Rank(Writes, q) = b + n
    BY <1>4, <2>1
  <2>3. q \in 1 .. len
    BY <1>2
  <2>4. p - 1 < q
    BY <1>2, <2>1, <2>2, RankStrict DEF b
  <2>5. q <= E
    <3>1. ~(Rank(Writes, E) < Rank(Writes, q))
      BY <1>8, <2>1, <2>2 DEF c
    <3>2. ~(E < q)
      BY <1>2, <1>3, <3>1, RankStrict
    <3> QED
      BY <1>3, <2>3, <3>2
  <2>6. q \in p .. E /\ q \in p - 1 .. E
    BY <1>2, <1>3, <2>3, <2>4, <2>5
  <2>7. q \in kept
    BY <1>10, <2>6
  <2>8. Cardinality({r \in kept : r <= q}) = n
    BY <1>8, <1>12, <2>2, <2>6
  <2>9. at(n) \in kept /\ Cardinality({r \in kept : r <= at(n)}) = n
    BY <2>7, <2>8
  <2> HIDE DEF at
  <2>10. Rank(Writes, at(n)) = b + n
    <3>1. at(n) \in Writes /\ at(n) \in p - 1 .. E /\ at(n) \in Int
      BY <1>2, <1>15, <2>9
    <3>2. Rank(Writes, at(n)) \in Nat
      BY <1>2, <3>1, RankType
    <3> QED
      BY <1>8, <1>12, <2>9, <3>1, <3>2
  <2>11. at(n) \in Writes /\ ~Separates(at(n))
    BY <1>1, <1>15, <2>9
  <2> QED
    BY <1>4, <2>10, <2>11 DEF Put
<1>17. SubSeq(_argv, b + 1, c) = [n \in 1 .. c - b |-> _argv[b + n]]
  <2>1. _argv \in Seq(Chars \cup {NUL}) /\ Len(_argv) = j
    BY DEF SplitInv, ScanInv, ScanTypeOK, j
  <2>2. b + 1 \in 1 .. Len(_argv) + 1 /\ c \in (b + 1) - 1 .. Len(_argv)
    BY <1>2, <1>8, <1>9, <2>1
  <2>3. /\ SubSeq(_argv, b + 1, c) \in Seq(Chars \cup {NUL})
        /\ Len(SubSeq(_argv, b + 1, c)) = c - (b + 1) + 1
        /\ \A n \in 1 .. c - (b + 1) + 1 : SubSeq(_argv, b + 1, c)[n] = _argv[(b + 1) + n - 1]
    BY <2>1, <2>2, SubSeqProperties
  <2>4. c - (b + 1) + 1 = c - b /\ \A n \in 1 .. c - b : (b + 1) + n - 1 = b + n
    BY <1>8
  <2>5. PICK s \in Seq(Chars \cup {NUL}) : s = SubSeq(_argv, b + 1, c)
    BY <2>3
  <2>6. Len(s) = c - b /\ \A n \in 1 .. c - b : s[n] = _argv[b + n]
    BY <2>3, <2>4, <2>5
  <2>7. s = [n \in 1 .. c - b |-> _argv[b + n]]
    BY <2>6
  <2> QED
    BY <2>5, <2>7
<1> QED
  BY <1>7, <1>13, <1>14, <1>16, <1>17

\* CommandLineToArgvA splits a command line of any length, with any quotes and
\* blanks, as the reference does.
THEOREM CommandLineSplits == ScanSpec => []SplitsAsQuoted
<1>1. SplitInv => SplitsAsQuoted
  <2> SUFFICES ASSUME SplitInv, ~Scanning PROVE
                 /\ argc = Cardinality(Runs)
                 /\ \A p \in Runs : Argument(Cardinality({q \in Runs : q <= p})) = TextOf(p)
    BY DEF SplitsAsQuoted
  <2>1. i = len /\ len \in Nat /\ \A q \in Runs : q \in 1 .. len
    BY PositionsInLine DEF Scanning
  <2>2. {q \in Runs : q <= len} = Runs
    BY <2>1
  <2>3. argc = Cardinality(Runs)
    BY <2>1, <2>2 DEF SplitInv, Pointers, Rank
  <2>4. \A p \in Runs : Argument(Rank(Runs, p)) = TextOf(p)
    BY <2>1, ArgumentIs
  <2> QED
    BY <2>3, <2>4 DEF Rank
<1>2. QED
  BY <1>1, SplitInit, SplitStep, PTL DEF ScanSpec

-----------------------------------------------------------------------------
\* The check for updates

\* The check is only under way while the client waits for it, and a text is
\* there only after it was read.
UpdateInv ==
    /\ pc # "update" => step = "idle"
    /\ step \in {"idle", "request", "secure", "auth", "ask"} => text = NoText
    /\ NewerIsOffered

\* No answer is no version.
LEMMA NoTextNoVersion == NoText \notin Versions
BY UpdateAssumption DEF NoText

\* What is later than the version that runs is newer than what the check
\* compares with.
LEMMA LaterIsNewer ==
    ASSUME NEW v \in Versions, Later(v, version)
    PROVE  isNewer(v)
<1>1. v \in Nat \X Nat \X Nat
  BY UpdateAssumption
<1>2. PICK n \in 1 .. 3 : v[n] > version[n]
  BY DEF Later
<1>3. v[n] \in Nat /\ version[n] \in Nat /\ current[n] \in Nat /\ current[n] <= version[n]
  BY <1>1 DEF version, current
<1>4. QED BY <1>2, <1>3 DEF isNewer

LEMMA UpdateStepInv ==
    ASSUME UpdateInv, pc = "update", pc' = pc, UpdateStep \/ proxyAuthenticationRequired
    PROVE  UpdateInv'
<1>1. CASE Request \/ Secure
  BY <1>1, NoTextNoVersion DEF UpdateInv, Request, Secure, CertificateError, NewerIsOffered
<1>2. CASE Auth
  BY <1>2, NoTextNoVersion DEF UpdateInv, Auth, NewerIsOffered
<1>3. CASE ReadsPiece
  BY <1>3 DEF UpdateInv, ReadsPiece, NewerIsOffered
<1>4. CASE finished
  BY <1>4, LaterIsNewer DEF UpdateInv, finished, NewerIsOffered
<1>5. CASE proxyAuthenticationRequired
  BY <1>5 DEF UpdateInv, proxyAuthenticationRequired, NewerIsOffered
<1>6. QED BY <1>1, <1>2, <1>3, <1>4, <1>5 DEF UpdateStep

\* The other steps leave the check alone, or forget it.
LEMMA UpdateNextInv == UpdateInv /\ [Next]_allVars => UpdateInv'
<1> SUFFICES ASSUME UpdateInv, [Next]_allVars PROVE UpdateInv'
  OBVIOUS
<1>1. ASSUME UNCHANGED updateVars, pc' = pc \/ (pc # "update" /\ pc' # "update")
      PROVE  UpdateInv'
  BY <1>1 DEF UpdateInv, updateVars, NewerIsOffered
<1>2. ASSUME CheckForgotten
      PROVE  UpdateInv'
  BY <1>2, NoTextNoVersion DEF UpdateInv, CheckForgotten, NewerIsOffered
<1>3. CASE Start \/ Splits \/ slotRead \/ OptionsDone \/ Attach \/ Portable
  BY <1>1, <1>3 DEF Start, Splits, slotRead, OptionsDone, Attach, Portable, resident
<1>4. CASE Option
  BY <1>1, <1>4 DEF Option
<1>5. CASE Create
  BY <1>1, <1>5 DEF Create
<1>6. CASE Opens \/ Creates
  BY <1>1, <1>6 DEF Opens, Creates, At
<1>7. CASE CreatesWindow \/ GoesOnMigrating
  <2>1. ASSUME WindowIsThere, pc # "update"
        PROVE  UpdateInv'
    BY <2>1, NoTextNoVersion DEF WindowIsThere, StartsCheck, UpdateInv, NewerIsOffered
  <2>2. QED BY <1>1, <1>7, <2>1 DEF CreatesWindow, GoesOnMigrating, At
<1>8. CASE Checks
  BY <1>2, <1>8, UpdateStepInv DEF Checks, At
<1>9. CASE AnswerEnds
  BY <1>9, UpdateStepInv DEF AnswerEnds, At, UpdateStep
<1>10. CASE LoginGiven
  BY <1>10, UpdateStepInv DEF LoginGiven, At
<1>11. CASE ShowsFirst
  BY <1>1, <1>11 DEF ShowsFirst, At
<1>12. CASE Reported \/ Clicked \/ ClosesWarning \/ TrayTimeout
  BY <1>1, <1>12 DEF Reported, Clicked, ClosesWarning, TrayTimeout, sameProcess, same
<1>13. CASE Chooses \/ GoesOnSaving \/ Quits \/ Answers
  BY <1>1, <1>13 DEF Chooses, GoesOnSaving, Quits, Answers, Acts, Events, At, same
<1>14. CASE RefreshOfOther
  BY <1>1, <1>14 DEF RefreshOfOther
<1>15. CASE Leaves \/ EndSession \/ Crash
  BY <1>1, <1>2, <1>15 DEF Leaves, EndSession, Crash, ClientEnds, At
<1>16. CASE UNCHANGED allVars
  BY <1>1, <1>16 DEF allVars, processVars
<1>17. QED BY <1>3, <1>4, <1>5, <1>6, <1>7, <1>8, <1>9, <1>10, <1>11, <1>12, <1>13, <1>14, <1>15, <1>16
           DEF Next

\* Whatever the server and the proxy answer, and however many runs there are:
\* when the check has ended with a version later than the running one, that
\* version is on the button (UpdateCheck::run, finished).
THEOREM ClientNewerIsOffered == Spec => []NewerIsOffered
<1>1. ProcessInit => UpdateInv
  BY NoTextNoVersion DEF ProcessInit, UpdateInit, UpdateInv, NewerIsOffered
<1>2. UpdateInv => NewerIsOffered
  BY DEF UpdateInv
<1>3. QED BY <1>1, <1>2, UpdateNextInv, PTL DEF Spec

-----------------------------------------------------------------------------
\* The window and the vector of receivedTapControl

Resident == pc \in {"up", "saving", "leaving"}

\* A silent client has no icon and gets no warning, and so never shows its
\* window, which is why what is in its vector stays loaded; nobody but a silent
\* client connects anything again; and a client that is not yet up has nothing
\* to show or to connect.
ShellInv ==
    /\ {visible, icon, silent, opt.silent} \subseteq BOOLEAN
    /\ MenuTells
    /\ silent => ~visible /\ ~icon /\ ~WarningOpen /\ connections \subseteq Loaded
    /\ ~silent => reconnected = {}
    /\ ReconnectsLive
    /\ ~Resident => ~visible /\ ~icon /\ ~WarningOpen /\ connections = {} /\ reconnected = {}

\* A step that shows or hides the window of a client that is not silent, and
\* may load entries.
LEMMA WindowStepInv ==
    ASSUME ShellInv, UNCHANGED <<silent, opt, connections, reconnected>>, ~silent,
           Resident, Resident', {visible', icon'} \subseteq BOOLEAN, MenuTells'
    PROVE  ShellInv'
BY DEF ShellInv, ReconnectsLive

Tells == visible' \in BOOLEAN /\ MenuTells' /\ UNCHANGED tapVars

LEMMA ShowNormalTells == showNormal => Tells
BY DEF showNormal, MenuTells, Tells

LEMMA HidesOnlyTells == hidesOnly => Tells
BY DEF hidesOnly, Hides, sameRest, MenuTells, Tells

LEMMA ShowsTells ==
    ASSUME ShellInv, NEW wanted, trayActivated(wanted) \/ showHideTrayMenu(wanted)
    PROVE  Tells /\ icon /\ UNCHANGED icon
<1>1. ASSUME UNCHANGED <<state, windowVars, trayTimer>>, sameRest
      PROVE  Tells
  BY <1>1 DEF windowVars, sameRest, MenuTells, ShellInv, Tells
<1>2. icon /\ UNCHANGED icon
  BY DEF trayActivated, showHideTrayMenu, Shows, showEvent, hidesOnly, sameRest, closeVars
<1>3. QED BY <1>1, <1>2, ShowNormalTells, HidesOnlyTells
          DEF trayActivated, showHideTrayMenu, Shows, showEvent

LEMMA WarningOverTells ==
    ASSUME ShellInv, warningOver
    PROVE  Tells
<1>1. CASE visible
  BY <1>1 DEF warningOver, ShellInv, MenuTells, Tells
<1>2. CASE ~visible
  BY <1>2, ShowNormalTells DEF warningOver
<1>3. QED BY <1>1, <1>2

LEMMA ClickedInv ==
    ASSUME ShellInv, Clicked
    PROVE  ShellInv'
<1>1. Resident /\ Resident' /\ UNCHANGED <<silent, opt>>
  BY DEF Clicked, Acts, Events, At, sameProcess, same, Resident
<1>2. ASSUME visible \/ icon, Tells, UNCHANGED icon
      PROVE  ShellInv'
  <2>1. ~silent
    BY <1>2 DEF ShellInv
  <2>2. {visible', icon'} \subseteq BOOLEAN
    BY <1>2 DEF ShellInv, Tells
  <2>3. QED BY <1>1, <1>2, <2>1, <2>2, WindowStepInv DEF Tells, tapVars
<1>3. ASSUME NEW e \in Loaded, ContextRemove(e)
      PROVE  ShellInv'
  BY <1>2, <1>3 DEF ContextRemove, windowFree, ShellInv, MenuTells, Tells, windowVars, closeVars
<1>4. ASSUME NEW wanted \in Setting("dhShowSmallKeyInformation"),
             trayActivated(wanted) \/ showHideTrayMenu(wanted)
      PROVE  ShellInv'
  BY <1>2, <1>4, ShowsTells
<1>5. CASE on_cmdCloseWindow_clicked
  BY <1>2, <1>5, HidesOnlyTells
     DEF on_cmdCloseWindow_clicked, windowFree, hidesOnly, sameRest, closeVars
<1>6. CASE TBThread
  BY <1>2, <1>6, ShowNormalTells DEF TBThread, taskBarMove, showEvent, closeVars
<1>7. CASE AltF4
  BY <1>2, <1>7 DEF AltF4, windowFree, sameRest, closeVars, MenuTells, Tells
<1>8. QED BY <1>3, <1>4, <1>5, <1>6, <1>7 DEF Clicked

LEMMA ShellNextInv == ShellInv /\ [Next]_allVars => ShellInv'
<1> SUFFICES ASSUME ShellInv, [Next]_allVars PROVE ShellInv'
  OBVIOUS
<1>1. ASSUME UNCHANGED <<state, windowVars, dhWarning, icon, tapVars, silent>>,
             opt'.silent \in BOOLEAN,
             Resident => Resident'
      PROVE  ShellInv'
  BY <1>1 DEF ShellInv, MenuTells, ReconnectsLive, Loaded, WarningOpen, windowVars, tapVars
<1>a. ASSUME UNCHANGED shellVars, silent' = silent, opt'.silent \in BOOLEAN, Resident => Resident'
      PROVE  ShellInv'
  BY <1>1, <1>a DEF shellVars, closeVars
<1>b. opt' = opt => opt'.silent \in BOOLEAN
  BY DEF ShellInv
<1>2. ASSUME BootEnds
      PROVE  opt'.silent \in BOOLEAN
  BY <1>2 DEF BootEnds, Loads, NoOptions
<1>3. CASE Start
  <2>1. opt'.silent \in BOOLEAN
    BY <1>3 DEF Start, Loads, NoOptions
  <2>2. QED BY <1>a, <1>3, <2>1 DEF Start, resident, Resident
<1>4. CASE Splits \/ Portable
  BY <1>a, <1>b, <1>4 DEF Splits, Portable, resident, Resident
<1>5. CASE slotRead \/ OptionsDone \/ Attach \/ RefreshOfOther
  <2>1. opt'.silent \in BOOLEAN
    BY <1>2, <1>b, <1>5 DEF slotRead, OptionsDone, Attach, RefreshOfOther
  <2>2. QED BY <1>a, <1>5, <2>1 DEF slotRead, OptionsDone, Attach, RefreshOfOther, resident, Resident
<1>6. CASE Option
  <2>1. opt'.silent \in BOOLEAN
    <3>1. \/ BootEnds
          \/ opt' = opt
          \/ opt' = [silent |-> opt.silent \/ Is("-silent"), unknown |-> opt.unknown \/ ~Known]
      BY <1>6 DEF Option
    <3>2. ASSUME opt' = [silent |-> opt.silent \/ Is("-silent"), unknown |-> opt.unknown \/ ~Known]
          PROVE  opt'.silent \in BOOLEAN
      <4>1. opt'.silent = (opt.silent \/ Is("-silent"))
        BY <3>2
      <4>2. QED BY <4>1
    <3>3. QED BY <1>2, <1>b, <3>1, <3>2
  <2>2. UNCHANGED <<state, windowVars, dhWarning, icon, tapVars, silent, pc>>
    BY <1>6 DEF Option, StopClients, STOP_CLIENTS, sendClose, noneElse, shellVars, closeVars
  <2>3. QED BY <1>1, <2>1, <2>2 DEF Resident
<1>7. CASE Create
  <2>1. CASE pc = "off"
    <3>1. /\ opt'.silent \in BOOLEAN /\ silent' \in BOOLEAN /\ pc' = "database"
          /\ UNCHANGED <<state, visible, menu, byKey, dhWarning, icon, connections, reconnected>>
      BY <1>2, <1>7, <2>1 DEF Create, ShellInv, shellVars, windowVars, closeVars, tapVars
    <3>2. QED BY <2>1, <3>1 DEF ShellInv, MenuTells, ReconnectsLive, Loaded, WarningOpen, Resident
  <2>2. CASE pc # "off"
    BY <1>a, <1>b, <1>7, <2>2 DEF Create, Resident
  <2>3. QED BY <2>1, <2>2
<1>8. CASE Opens \/ Creates \/ CreatesWindow \/ GoesOnMigrating \/ Checks
  BY <1>a, <1>b, <1>8 DEF Opens, Creates, CreatesWindow, GoesOnMigrating, Checks, At, others, Resident
<1>9. CASE AnswerEnds \/ LoginGiven
  BY <1>a, <1>b, <1>9 DEF AnswerEnds, LoginGiven, others, Resident
<1>10. CASE ShowsFirst
  <2>1. PICK popup \in Setting("alwaysPopup"), wanted \in Setting("dhShowSmallKeyInformation") :
          FirstShown(popup /\ ~silent, wanted, silent)
    BY <1>10 DEF ShowsFirst
  <2>2. /\ ~Resident /\ Resident'
        /\ UNCHANGED <<silent, opt, byKey, connections, reconnected>>
    BY <1>10, <2>1 DEF ShowsFirst, FirstShown, At, others, Resident, tapVars
  <2>3. icon' = ~silent /\ connections = {} /\ reconnected = {} /\ ~WarningOpen
    BY <2>1, <2>2 DEF FirstShown, ShellInv
  <2>4. \/ ~silent /\ visible' = TRUE /\ menu' = "Hide window"
        \/ visible' = FALSE /\ menu' = "Show window"
    BY <2>1 DEF FirstShown, Hides
  <2>5. silent => ~WarningOpen'
    BY <2>1, <2>3 DEF FirstShown, WarningOpen
  <2>6. MenuTells'
    BY <2>4 DEF MenuTells
  <2>7. /\ silent' \in BOOLEAN /\ opt'.silent \in BOOLEAN
        /\ icon' \in BOOLEAN /\ visible' \in BOOLEAN
    BY <2>2, <2>3, <2>4 DEF ShellInv
  <2>8. QED BY <2>2, <2>3, <2>4, <2>5, <2>6, <2>7 DEF ShellInv, ReconnectsLive
<1>11. CASE Chooses \/ GoesOnSaving
  BY <1>a, <1>b, <1>11 DEF Chooses, GoesOnSaving, Acts, Events, At, same, others, Resident
<1>12. CASE Reported
  <2>0. Resident /\ Resident' /\ UNCHANGED <<silent, opt>>
    BY <1>12 DEF Reported, Acts, Events, At, sameProcess, same, Resident
  <2>1. ASSUME NEW e \in Loaded, NEW s \in States, Changes(e, s)
        PROVE  ShellInv'
    <3>1. Loaded' = Loaded /\ UNCHANGED <<visible, menu, byKey, dhWarning, icon, connections, reconnected>>
      BY <2>1 DEF Changes, SetState, Loaded, windowVars, closeVars, tapVars
    <3>2. QED BY <2>0, <3>1 DEF ShellInv, MenuTells, ReconnectsLive, WarningOpen
  <2>2. CASE TapNeeded
    <3>1. connections' = connections \cup In("Connected") \cup In("Connecting")
      BY <2>2 DEF TapNeeded
    <3>2. In("Connected") \subseteq Loaded /\ In("Connecting") \subseteq Loaded
      BY DEF In
    <3>3. UNCHANGED <<state, visible, menu, byKey, dhWarning, icon, reconnected>>
      BY <2>2 DEF TapNeeded, windowVars, closeVars
    <3>4. Loaded' = Loaded
      BY <3>3 DEF Loaded
    <3>5. QED BY <2>0, <3>1, <3>2, <3>3, <3>4 DEF ShellInv, MenuTells, ReconnectsLive, WarningOpen
  <2>3. CASE TapInstalled(silent)
    <3>1. /\ connections' = {} /\ reconnected' = IF silent THEN connections ELSE {}
          /\ UNCHANGED <<state, visible, menu, byKey, dhWarning, icon>>
      BY <2>3 DEF TapInstalled, windowVars, closeVars
    <3>2. Loaded' = Loaded
      BY <3>1 DEF Loaded
    <3>3. QED BY <2>0, <3>1, <3>2 DEF ShellInv, MenuTells, ReconnectsLive, WarningOpen
  <2>4. QED BY <1>12, <2>1, <2>2, <2>3 DEF Reported
<1>13. CASE Clicked
  BY <1>13, ClickedInv
<1>14. CASE TrayTimeout
  <2>1. /\ Resident /\ Resident' /\ UNCHANGED <<silent, opt, state, byKey, dhWarning, icon, tapVars>>
        /\ (visible' = FALSE /\ menu' = "Show window") \/ UNCHANGED <<visible, menu>>
    BY <1>14 DEF TrayTimeout, Events, At, sameProcess, same, Resident, checkIfSendToTrayIsNeeded,
                 Hides, sameRest, closeVars
  <2>2. CASE UNCHANGED <<visible, menu>>
    BY <1>1, <1>b, <2>1, <2>2 DEF windowVars
  <2>3. CASE visible' = FALSE /\ menu' = "Show window"
    <3>1. Loaded' = Loaded /\ UNCHANGED <<connections, reconnected>>
      BY <2>1 DEF Loaded, tapVars
    <3>2. QED BY <2>1, <2>3, <3>1 DEF ShellInv, MenuTells, ReconnectsLive, WarningOpen
  <2>4. QED BY <2>1, <2>2, <2>3
<1>15. CASE ClosesWarning
  <2>1. /\ Resident /\ Resident' /\ UNCHANGED <<silent, opt, icon>>
        /\ WarningOpen /\ warningOver
    BY <1>15 DEF ClosesWarning, Acts, Events, At, sameProcess, same, Resident, WarningClosed, closeVars
  <2>2. ~silent /\ Tells
    BY <2>1, WarningOverTells DEF ShellInv
  <2>3. QED BY <2>1, <2>2, WindowStepInv DEF Tells, tapVars, ShellInv
\* A question leaves the icon, what follows it hides it.
<1>16. ASSUME noneElse, UNCHANGED <<silent, opt, dhWarning>>, icon' = FALSE \/ icon' = icon,
              Resident, Resident'
       PROVE  ShellInv'
  <2>1. /\ UNCHANGED <<state, visible, menu, byKey, connections, reconnected>>
        /\ Loaded' = Loaded
    BY <1>16 DEF noneElse, windowVars, tapVars, Loaded
  <2>2. icon' \in BOOLEAN /\ (silent => ~icon')
    <3>1. icon \in BOOLEAN /\ (silent => ~icon)
      BY DEF ShellInv
    <3>2. CASE icon' = FALSE
      BY <3>2
    <3>3. CASE icon' = icon
      BY <3>1, <3>3
    <3>4. QED BY <1>16, <3>2, <3>3
  <2>3. MenuTells' /\ ReconnectsLive' /\ WarningOpen' = WarningOpen
    BY <1>16, <2>1 DEF ShellInv, MenuTells, ReconnectsLive, WarningOpen
  <2>4. QED BY <1>16, <2>1, <2>2, <2>3 DEF ShellInv
<1>17. CASE Quits
  <2>1. /\ noneElse /\ UNCHANGED <<silent, opt, dhWarning>> /\ (icon' = FALSE \/ icon' = icon)
        /\ Resident /\ Resident'
    BY <1>17 DEF Quits, closeApplication, Acts, Events, At, same, Resident
  <2>2. QED BY <1>16, <2>1
<1>18. CASE Answers
  <2>1. /\ noneElse /\ UNCHANGED <<silent, opt, dhWarning>> /\ (icon' = FALSE \/ icon' = icon)
        /\ Resident /\ Resident'
    BY <1>18 DEF Answers, Answered, Events, At, others, Resident
  <2>2. QED BY <1>16, <2>1
<1>19. ASSUME ClientEnds
       PROVE  ShellInv'
  <2>1. /\ silent' = FALSE /\ visible' = FALSE /\ menu' = "Show window"
        /\ icon' = FALSE /\ dhWarning' = "due"
        /\ connections' = {} /\ reconnected' = {} /\ opt' = opt
    BY <1>19 DEF ClientEnds, ShellEnds
  <2>2. QED BY <2>1 DEF ShellInv, MenuTells, ReconnectsLive, WarningOpen
<1>20. CASE Leaves
  <2>1. ASSUME exitComesTooEarly, pc' = "up", UNCHANGED others
        PROVE  ShellInv'
    <3>1. /\ Resident /\ Resident' /\ UNCHANGED <<silent, opt, icon>>
          /\ WarningOpen /\ warningOver
      BY <1>20, <2>1 DEF Leaves, At, others, Resident, exitComesTooEarly, WarningOpen
    <3>2. ~silent /\ Tells
      BY <3>1, WarningOverTells DEF ShellInv
    <3>3. QED BY <3>1, <3>2, WindowStepInv DEF Tells, tapVars, ShellInv
  <2>2. QED BY <1>19, <1>20, <2>1 DEF Leaves
<1>21. CASE EndSession \/ Crash
  BY <1>19, <1>21 DEF EndSession, Crash
<1>22. CASE UNCHANGED allVars
  BY <1>a, <1>b, <1>22 DEF allVars, processVars, Resident
<1>23. QED BY <1>3, <1>4, <1>5, <1>6, <1>7, <1>8, <1>9, <1>10, <1>11, <1>12, <1>13, <1>14, <1>15,
              <1>17, <1>18, <1>20, <1>21, <1>22 DEF Next

\* The window, the menu, the vector and g_bSilent keep together over all runs.
THEOREM ClientShellInvariant == Spec => []ShellInv
<1>1. ProcessInit => ShellInv
  <2> SUFFICES ASSUME ProcessInit PROVE ShellInv
    OBVIOUS
  <2>1. opt.silent \in BOOLEAN
    BY DEF ProcessInit, NoOptions
  <2>2. /\ silent = FALSE /\ visible = FALSE /\ menu = "Show window"
        /\ icon = FALSE /\ dhWarning = "due"
        /\ connections = {} /\ reconnected = {}
    BY DEF ProcessInit, ShellInit
  <2>3. QED BY <2>1, <2>2 DEF ShellInv, MenuTells, ReconnectsLive, WarningOpen
<1>2. QED BY <1>1, ShellNextInv, PTL DEF Spec

\* Through every way the window is opened and closed except the keyboard, the
\* third action of the tray menu says what a click on it does.
THEOREM ClientMenuTells == Spec => []MenuTells
<1>1. ShellInv => MenuTells
  BY DEF ShellInv
<1>2. QED BY <1>1, ClientShellInvariant, PTL

\* What receivedTapControl connects again after an installation is an entry
\* that still exists, over failed installations, removals and restarts.
THEOREM ClientReconnectsLive == Spec => []ReconnectsLive
<1>1. ShellInv => ReconnectsLive
  BY DEF ShellInv
<1>2. QED BY <1>1, ClientShellInvariant, PTL

-----------------------------------------------------------------------------
\* The settings

Statements ==
    {[create |-> "vpn"], [create |-> "settings"], [check |-> "dhShowSmallKeyInformation"]}
      \cup {[insert |-> n] : n \in DOMAIN DefaultRows}

Loading == pc \in {"window", "migrate", "update", "show", "up", "saving", "leaving"}

\* What has been chosen and not lost is in the table, whichever process writes
\* its defaults there, and once read it is in memory.
SettingsInv ==
    /\ todo \in Seq(Statements) /\ otherTodo \in Seq(Statements)
    /\ pc # "execute" => todo = << >>
    /\ DOMAIN chosen \subseteq Names
    /\ \A n \in DOMAIN rows : rows[n] \in BOOLEAN
    /\ settings \in [Names -> BOOLEAN]
    /\ \A n \in DOMAIN chosen \ lost : n \in DOMAIN rows /\ rows[n] = chosen[n]
    /\ Loading => SettingsKept

LEMMA InsertsType == InsertDefaults \in Seq(Statements)
<1> DEFINE D == DOMAIN DefaultRows
           names == SetToSeq(D)
<1>1. IsFiniteSet(D)
  <2>1. D \in SUBSET Names
    BY DEF DefaultRows
  <2>2. QED BY <2>1, FS_Subset, StoreAssumption
<1>2. Cardinality(D) \in Nat /\ \E f \in [1 .. Cardinality(D) -> D] : IsInjective(f)
  BY <1>1, FS_CardinalityType DEF ExistsBijection, Bijection, Injection
<1>3. names \in [1 .. Cardinality(D) -> D]
  BY <1>2 DEF SetToSeq
<1>4. InsertDefaults = [k \in 1 .. Cardinality(D) |-> [insert |-> names[k]]]
  BY <1>3 DEF InsertDefaults
<1>5. \A k \in 1 .. Cardinality(D) : [insert |-> names[k]] \in Statements
  BY <1>3 DEF Statements
<1> HIDE DEF names
<1>6. InsertDefaults \in [1 .. Cardinality(D) -> Statements]
  BY <1>4, <1>5
<1>7. QED BY <1>2, <1>6

\* Database::execute keeps every row that was there.
LEMMA InsertedKeeps ==
    ASSUME NEW n, NEW v \in BOOLEAN, \A m \in DOMAIN rows : rows[m] \in BOOLEAN
    PROVE  /\ DOMAIN rows \subseteq DOMAIN Inserted(n, v)
           /\ \A m \in DOMAIN Inserted(n, v) : Inserted(n, v)[m] \in BOOLEAN
           /\ \A m \in DOMAIN rows : m # n => Inserted(n, v)[m] = rows[m]
           /\ "settings" \in tables => n \in DOMAIN Inserted(n, v) /\ Inserted(n, v)[n] = v
BY DEF Inserted, With

LEMMA CreationType == Creation \in Seq(Statements)
<1>1. <<[check |-> "dhShowSmallKeyInformation"]>> \in Seq(Statements)
  BY DEF Statements
<1>2. <<[create |-> "vpn"], [create |-> "settings"]>> \in Seq(Statements)
  BY DEF Statements
<1>3. <<[create |-> "vpn"], [create |-> "settings"]>> \o InsertDefaults \in Seq(Statements)
  BY <1>2, InsertsType
<1>4. QED BY <1>1, <1>3 DEF Creation

\* A statement is one of the three kinds, and what it inserts is a Boolean.
LEMMA StatementKinds ==
    ASSUME NEW s \in Statements
    PROVE  /\ "insert" \in DOMAIN s => s.insert \in DOMAIN DefaultRows /\ DefaultRows[s.insert] \in BOOLEAN
           /\ "check" \in DOMAIN s => s.check = "dhShowSmallKeyInformation"
<1>1. \A n \in DOMAIN DefaultRows : DefaultRows[n] \in BOOLEAN
  BY DEF DefaultRows
<1>2. CASE s \in {[create |-> "vpn"], [create |-> "settings"]}
  BY <1>2
<1>3. CASE s = [check |-> "dhShowSmallKeyInformation"]
  BY <1>3
<1>4. ASSUME NEW n \in DOMAIN DefaultRows, s = [insert |-> n]
      PROVE  s.insert = n /\ "check" \notin DOMAIN s
  BY <1>4
<1>5. QED BY <1>1, <1>2, <1>3, <1>4 DEF Statements

\* After a statement there are statements, perhaps one more.
LEMMA RestType ==
    ASSUME NEW list \in Seq(Statements), list # << >>
    PROVE  Head(list) \in Statements /\ Rest(list) \in Seq(Statements)
<1>1. Head(list) \in Statements /\ Tail(list) \in Seq(Statements)
  OBVIOUS
<1>2. ASSUME "check" \in DOMAIN Head(list), Head(list).check \in Names
      PROVE  <<[insert |-> Head(list).check]>> \in Seq(Statements)
  <2>1. Head(list).check \in DOMAIN DefaultRows
    BY <1>1, <1>2, StatementKinds DEF DefaultRows
  <2>2. [insert |-> Head(list).check] \in Statements
    BY <2>1 DEF Statements
  <2>3. QED BY <2>2
<1>3. QED BY <1>1, <1>2 DEF Rest

\* A statement keeps what was chosen, or it is written down as lost.
TableKeeps ==
    /\ \A m \in DOMAIN rows' : rows'[m] \in BOOLEAN
    /\ \A n \in DOMAIN chosen \ lost' : n \notin lost /\ n \in DOMAIN rows' /\ rows'[n] = chosen[n]

LEMMA StatementKeeps ==
    ASSUME SettingsInv, NEW s \in Statements, Statement(s) \/ UNCHANGED <<tables, rows, lost>>
    PROVE  TableKeeps
<1>1. \A m \in DOMAIN rows : rows[m] \in BOOLEAN
  BY DEF SettingsInv
<1>2. \A n \in DOMAIN chosen \ lost : n \in DOMAIN rows /\ rows[n] = chosen[n]
  BY DEF SettingsInv
<1>3. ASSUME UNCHANGED <<rows, lost>>
      PROVE  TableKeeps
  BY <1>1, <1>2, <1>3 DEF TableKeeps
<1>4. CASE "insert" \in DOMAIN s /\ rows' = Inserted(s.insert, DefaultRows[s.insert])
           /\ lost' = IF s.insert \in DOMAIN chosen THEN lost \cup {s.insert} ELSE lost
  <2>1. PICK n : n = s.insert
    OBVIOUS
  <2>v. PICK v \in BOOLEAN : v = DefaultRows[s.insert]
    BY <1>4, StatementKinds
  <2>2. /\ \A m \in DOMAIN rows' : rows'[m] \in BOOLEAN
        /\ \A m \in DOMAIN rows : m # n => m \in DOMAIN rows' /\ rows'[m] = rows[m]
    BY <1>1, <1>4, <2>1, <2>v, InsertedKeeps
  <2>3. \A m \in DOMAIN chosen \ lost' : m # n /\ m \notin lost
    BY <1>4, <2>1
  <2>4. QED BY <1>2, <2>2, <2>3 DEF TableKeeps
<1>5. QED BY <1>3, <1>4 DEF Statement

\* A step of the table, after which the members are those from before.
LEMMA TableStep ==
    ASSUME SettingsInv, TableKeeps, UNCHANGED <<settings, chosen>>,
           todo' \in Seq(Statements), otherTodo' \in Seq(Statements),
           pc' # "execute" => todo' = << >>, Loading' => Loading
    PROVE  SettingsInv'
BY DEF SettingsInv, TableKeeps, SettingsKept

LEMMA OpensSettings ==
    ASSUME SettingsInv, Opens
    PROVE  SettingsInv'
<1>1. /\ pc' = "execute" /\ todo' = Creation
      /\ UNCHANGED <<rows, otherTodo, settings, chosen, lost>>
  BY DEF Opens, OpenDatabase
<1>2. TableKeeps
  BY <1>1 DEF TableKeeps, SettingsInv
<1>3. otherTodo' \in Seq(Statements)
  BY <1>1 DEF SettingsInv
<1>4. QED BY <1>1, <1>2, <1>3, CreationType, TableStep DEF Loading

LEMMA CreatesSettings ==
    ASSUME SettingsInv, Creates
    PROVE  SettingsInv'
<1>1. pc = "execute" /\ UNCHANGED <<otherTodo, chosen>>
  BY DEF Creates, At, Execute, loadOrRefresh, tableVars
<1>2. CASE todo = << >>
  <2>1. /\ pc' = "window" /\ UNCHANGED <<rows, todo, lost>>
        /\ settings' = [n \in Names |-> IF n \in DOMAIN rows THEN rows[n] ELSE settings[n]]
    BY <1>2 DEF Creates, loadOrRefresh, tableVars
  <2>2. settings' \in [Names -> BOOLEAN]
    BY <2>1 DEF SettingsInv
  <2>3. SettingsKept'
    BY <1>1, <2>1 DEF SettingsInv, SettingsKept
  <2>4. QED BY <1>1, <1>2, <2>1, <2>2, <2>3 DEF SettingsInv
<1>3. CASE todo # << >>
  <2>1. /\ pc' = "execute" /\ todo' = Rest(todo) /\ UNCHANGED settings
        /\ Statement(Head(todo)) \/ UNCHANGED <<tables, rows, lost>>
    BY <1>1, <1>3 DEF Creates, Execute
  <2>2. Head(todo) \in Statements /\ todo' \in Seq(Statements)
    BY <1>3, <2>1, RestType DEF SettingsInv
  <2>3. TableKeeps
    BY <2>1, <2>2, StatementKeeps
  <2>4. otherTodo' \in Seq(Statements)
    BY <1>1 DEF SettingsInv
  <2>5. QED BY <1>1, <2>1, <2>2, <2>3, <2>4, TableStep DEF Loading
<1>4. QED BY <1>2, <1>3

\* The process with -status.
LEMMA OtherSettings ==
    ASSUME SettingsInv, UNCHANGED pc, OtherOpens \/ OtherExecutes \/ OtherEnds
    PROVE  SettingsInv'
<1>1. UNCHANGED <<settings, chosen, todo>>
  BY DEF OtherOpens, OtherExecutes, OtherEnds
<1>2. todo' \in Seq(Statements) /\ (pc' # "execute" => todo' = << >>) /\ (Loading' => Loading)
  BY <1>1 DEF SettingsInv, Loading
<1>3. CASE OtherOpens \/ OtherEnds
  <2>1. otherTodo' \in {Creation, << >>} /\ UNCHANGED <<rows, lost>>
    BY <1>3 DEF OtherOpens, OtherEnds
  <2>2. otherTodo' \in Seq(Statements)
    <3>1. << >> \in Seq(Statements)
      OBVIOUS
    <3>2. QED BY <2>1, <3>1, CreationType
  <2>3. TableKeeps
    BY <2>1 DEF TableKeeps, SettingsInv
  <2>4. QED BY <1>1, <1>2, <2>2, <2>3, TableStep
<1>4. CASE OtherExecutes
  <2>1. /\ otherTodo # << >> /\ otherTodo' = Rest(otherTodo)
        /\ Statement(Head(otherTodo)) \/ UNCHANGED <<tables, rows, lost>>
    BY <1>4 DEF OtherExecutes
  <2>2. Head(otherTodo) \in Statements /\ otherTodo' \in Seq(Statements)
    BY <2>1, RestType DEF SettingsInv
  <2>3. TableKeeps
    BY <2>1, <2>2, StatementKeeps
  <2>4. QED BY <1>1, <1>2, <2>2, <2>3, TableStep
<1>5. QED BY <1>3, <1>4

LEMMA SetSettings ==
    ASSUME SettingsInv, pc = "up", pc' = pc, NEW n \in Names, Set(n, ~settings[n])
    PROVE  SettingsInv'
<1>1. settings[n] \in BOOLEAN /\ settings[n] # ~settings[n]
  BY DEF SettingsInv
<1>2. /\ chosen' = With(chosen, n, ~settings[n])
      /\ settings' = [settings EXCEPT ![n] = ~settings[n]]
      /\ UNCHANGED <<todo, otherTodo>>
  BY <1>1 DEF Set
<1>3. \/ rows' = Inserted(n, ~settings[n]) /\ "settings" \in tables /\ lost' = lost \ {n}
      \/ rows' = Inserted(n, ~settings[n]) /\ lost' = lost \cup {n}
      \/ rows' = rows /\ lost' = lost \cup {n}
  BY <1>1 DEF Set, save
<1>4. /\ DOMAIN chosen' = DOMAIN chosen \cup {n}
      /\ chosen'[n] = ~settings[n]
      /\ \A m \in DOMAIN chosen : m # n => chosen'[m] = chosen[m]
  BY <1>2 DEF With
<1>5. /\ settings' \in [Names -> BOOLEAN] /\ settings'[n] = ~settings[n]
      /\ \A m \in Names : m # n => settings'[m] = settings[m]
  BY <1>1, <1>2 DEF SettingsInv
<1>6. /\ \A m \in DOMAIN rows' : rows'[m] \in BOOLEAN
      /\ \A m \in DOMAIN rows : m # n => m \in DOMAIN rows' /\ rows'[m] = rows[m]
  <2>1. \A m \in DOMAIN rows : rows[m] \in BOOLEAN
    BY DEF SettingsInv
  <2>2. PICK v \in BOOLEAN : rows' = rows \/ rows' = Inserted(n, v)
    BY <1>1, <1>3
  <2>3. CASE rows' = Inserted(n, v)
    BY <2>1, <2>3, InsertedKeeps
  <2>4. QED BY <2>1, <2>2, <2>3
<1>7. n \notin lost' => n \in DOMAIN rows' /\ rows'[n] = ~settings[n]
  BY <1>1, <1>3, InsertedKeeps DEF SettingsInv
<1>8. \A m : m # n => (m \in lost' <=> m \in lost)
  BY <1>3
<1>9. \A m \in DOMAIN chosen' \ lost' : m \in DOMAIN rows' /\ rows'[m] = chosen'[m]
  BY <1>4, <1>6, <1>7, <1>8 DEF SettingsInv
<1>10. SettingsKept'
  BY <1>4, <1>5, <1>8 DEF SettingsInv, SettingsKept, Loading
<1>11. QED BY <1>2, <1>4, <1>5, <1>6, <1>9, <1>10 DEF SettingsInv

LEMMA ClientEndsSettings ==
    ASSUME SettingsInv, ClientEnds
    PROVE  SettingsInv'
<1>1. /\ pc' = "off" /\ todo' = << >> /\ settings' = Constructed
      /\ UNCHANGED <<rows, otherTodo, chosen, lost>>
  BY DEF ClientEnds, Forget
<1>2. settings' \in [Names -> BOOLEAN]
  BY <1>1 DEF Constructed
<1>3. QED BY <1>1, <1>2 DEF SettingsInv, Loading

LEMMA SettingsNextInv == SettingsInv /\ [Next]_allVars => SettingsInv'
<1> SUFFICES ASSUME SettingsInv, [Next]_allVars PROVE SettingsInv'
  OBVIOUS
<1>1. ASSUME UNCHANGED <<rows, todo, otherTodo, settings, chosen, lost>>,
             \/ pc' = pc
             \/ pc = "off" /\ pc' = "database"
             \/ Loading /\ Loading'
      PROVE  SettingsInv'
  BY <1>1 DEF SettingsInv, Loading, SettingsKept
<1>a. ASSUME UNCHANGED storeVars, pc' = pc \/ (pc = "off" /\ pc' = "database") \/ (Loading /\ Loading')
      PROVE  SettingsInv'
  BY <1>1, <1>a DEF storeVars, tableVars
<1>b. ASSUME sameSettings, pc' = pc \/ (Loading /\ Loading')
      PROVE  SettingsInv'
  BY <1>1, <1>b DEF sameSettings, tableVars
<1>2. CASE Start \/ Splits \/ slotRead \/ OptionsDone \/ Attach \/ Portable
  BY <1>a, <1>2 DEF Start, Splits, slotRead, OptionsDone, Attach, Portable, resident
<1>3. CASE Option \/ RefreshOfOther
  BY <1>a, <1>3, OtherSettings DEF Option, RefreshOfOther
<1>4. CASE Create
  BY <1>a, <1>4 DEF Create
<1>5. CASE Opens \/ Creates
  BY <1>5, OpensSettings, CreatesSettings
<1>6. CASE CreatesWindow
  BY <1>b, <1>6 DEF CreatesWindow, WindowIsThere, At, LoadProxy, Loading,
                    checkAndMigrateOldProxySettings, NewProxy, ProxyChange
<1>7. CASE GoesOnMigrating
  BY <1>b, <1>7 DEF GoesOnMigrating, WindowIsThere, At, LoadProxy, Loading, SetsNext
<1>8. CASE Checks \/ AnswerEnds \/ LoginGiven \/ ShowsFirst
  BY <1>a, <1>8 DEF Checks, AnswerEnds, LoginGiven, ShowsFirst, At, Loading
<1>9. CASE Chooses
  <2>1. pc = "up"
    BY <1>9 DEF Chooses
  <2>2. ASSUME NEW n \in Names, Set(n, ~settings[n]), UNCHANGED pc
        PROVE  SettingsInv'
    BY <2>1, <2>2, SetSettings
  <2>3. ASSUME NEW p, on_cmdBack_clicked(p) \/ Looks, pc' = "saving"
        PROVE  SettingsInv'
    BY <1>b, <2>1, <2>3 DEF on_cmdBack_clicked, Looks, NewProxy, ProxyChange, Loading
  <2>4. QED BY <1>9, <2>2, <2>3 DEF Chooses
<1>10. CASE GoesOnSaving
  BY <1>b, <1>10 DEF GoesOnSaving, At, SetsNext, Saved, Loading
<1>11. CASE Reported \/ Clicked \/ TrayTimeout
  BY <1>a, <1>11 DEF Reported, Clicked, TrayTimeout, sameProcess
<1>12. CASE ClosesWarning
  <2>1. pc = "up" /\ pc' = pc
    BY <1>12 DEF ClosesWarning, sameProcess
  <2>2. ASSUME NEW n \in Names, settings[n], Set(n, FALSE)
        PROVE  SettingsInv'
    <3>1. FALSE = ~settings[n]
      BY <2>2 DEF SettingsInv
    <3>2. Set(n, ~settings[n])
      BY <2>2, <3>1
    <3>3. QED BY <2>1, <3>2, SetSettings
  <2>3. QED BY <1>a, <1>12, <2>1, <2>2 DEF ClosesWarning
<1>13. CASE Quits
  BY <1>a, <1>13 DEF Quits, Acts, Events, At, Loading
<1>14. CASE Answers
  BY <1>a, <1>14 DEF Answers, Events, At, Loading
<1>15. CASE Leaves \/ EndSession \/ Crash
  BY <1>a, <1>15, ClientEndsSettings DEF Leaves, EndSession, Crash, At, Loading
<1>16. CASE UNCHANGED allVars
  BY <1>a, <1>16 DEF allVars, processVars
<1>17. QED BY <1>2, <1>3, <1>4, <1>5, <1>6, <1>7, <1>8, <1>9, <1>10, <1>11, <1>12, <1>13, <1>14, <1>15, <1>16
           DEF Next

LEMMA SettingsInit == ProcessInit => SettingsInv
<1> SUFFICES ASSUME ProcessInit PROVE SettingsInv
  OBVIOUS
<1>1. /\ pc = "off" /\ todo = << >> /\ otherTodo = << >> /\ rows = << >> /\ chosen = << >>
      /\ settings = Constructed
  BY DEF ProcessInit, StoreInit
<1>2. settings \in [Names -> BOOLEAN]
  BY <1>1 DEF Constructed
<1>3. DOMAIN << >> = {} /\ << >> \in Seq(Statements)
  OBVIOUS
<1>4. QED BY <1>1, <1>2, <1>3 DEF SettingsInv, Loading

-----------------------------------------------------------------------------
\* The proxy

LEMMA EmptyIsNothing == Empty \notin {"CONFIG", "IE", "MANUAL", "HTTP", "SOCKS", "proxy", "10.0.0.1", "8080", "1"}
BY Zenon DEF Empty

\* What openvpn gets for a proxy.ini if the kind of the proxy is HTTP or not.
GivenBy(f, http) ==
    openVpnProxyString([use |-> Value(f, "use"), http |-> http, ip |-> Value(f, "ip"),
                        port |-> Value(f, "port")])

\* The members of ProxySettings are those of the file, up to a kind that is
\* not in the file.
Agree(s) ==
    /\ s.mem = [use |-> Value(s.ini, "use"), http |-> s.mem.http, ip |-> Value(s.ini, "ip"),
                port |-> Value(s.ini, "port")]
    /\ s.mem.http \in BOOLEAN
    /\ "type" \in DOMAIN s.ini => s.ini["type"] = IF s.mem.http THEN "HTTP" ELSE "SOCKS"

\* setProxyTypeInUse, setProxyHost and setProxyPort write what they change.
LEMMA SetTextAgrees ==
    ASSUME NEW s, Agree(s), NEW key \in {"use", "ip", "port"}, NEW v
    PROVE  /\ Agree(SetText(s, key, v))
           /\ SetText(s, key, v).mem[key] = v
           /\ SetText(s, key, v).mem.http = s.mem.http
           /\ \A m \in {"use", "ip", "port"} \ {key} : SetText(s, key, v).mem[m] = s.mem[m]
<1>1. CASE s.mem[key] = v
  BY <1>1 DEF SetText
<1>2. CASE s.mem[key] # v
  <2> DEFINE t == SetText(s, key, v)
  <2>1. t.mem = [s.mem EXCEPT ![key] = v] /\ t.ini = With(s.ini, key, v)
    BY <1>2 DEF SetText
  <2> HIDE DEF t
  <2>2. /\ Value(t.ini, key) = v
        /\ \A m \in {"use", "ip", "port"} \ {key} : Value(t.ini, m) = Value(s.ini, m)
        /\ "type" \in DOMAIN t.ini => "type" \in DOMAIN s.ini /\ t.ini["type"] = s.ini["type"]
    BY <2>1 DEF With, Value
  <2>3. s.mem = [use |-> s.mem.use, http |-> s.mem.http, ip |-> s.mem.ip, port |-> s.mem.port]
    BY DEF Agree
  <2>4. s.mem.use = Value(s.ini, "use") /\ s.mem.ip = Value(s.ini, "ip") /\ s.mem.port = Value(s.ini, "port")
    BY DEF Agree
  <2>5. /\ t.mem[key] = v /\ t.mem.http = s.mem.http
        /\ \A m \in {"use", "ip", "port"} \ {key} : t.mem[m] = s.mem[m]
    BY <2>1, <2>3
  <2>6. t.mem = [use |-> t.mem.use, http |-> t.mem.http, ip |-> t.mem.ip, port |-> t.mem.port]
    BY <2>1, <2>3
  <2>7. t.mem.use = Value(t.ini, "use") /\ t.mem.ip = Value(t.ini, "ip") /\ t.mem.port = Value(t.ini, "port")
    BY <2>2, <2>4, <2>5
  <2>8. Agree(t)
    BY <2>2, <2>5, <2>6, <2>7 DEF Agree
  <2>9. QED BY <2>5, <2>8 DEF t
<1>3. QED BY <1>1, <1>2

LEMMA SetHttpAgrees ==
    ASSUME NEW s, Agree(s), NEW flag \in BOOLEAN
    PROVE  /\ Agree(setIsHttpProxy(s, flag))
           /\ setIsHttpProxy(s, flag).mem.http = flag
           /\ \A m \in {"use", "ip", "port"} : setIsHttpProxy(s, flag).mem[m] = s.mem[m]
<1>1. CASE s.mem.http = flag
  BY <1>1 DEF setIsHttpProxy
<1>2. CASE s.mem.http # flag
  <2> DEFINE t == setIsHttpProxy(s, flag)
  <2>1. /\ t.mem = [s.mem EXCEPT !.http = flag]
        /\ t.ini = With(s.ini, "type", IF flag THEN "HTTP" ELSE "SOCKS")
    BY <1>2 DEF setIsHttpProxy
  <2> HIDE DEF t
  <2>2. /\ t.ini["type"] = IF flag THEN "HTTP" ELSE "SOCKS"
        /\ \A m \in {"use", "ip", "port"} : Value(t.ini, m) = Value(s.ini, m)
    BY <2>1 DEF With, Value
  <2>3. s.mem = [use |-> s.mem.use, http |-> s.mem.http, ip |-> s.mem.ip, port |-> s.mem.port]
    BY DEF Agree
  <2>4. s.mem.use = Value(s.ini, "use") /\ s.mem.ip = Value(s.ini, "ip") /\ s.mem.port = Value(s.ini, "port")
    BY DEF Agree
  <2>5. t.mem.http = flag /\ \A m \in {"use", "ip", "port"} : t.mem[m] = s.mem[m]
    BY <2>1, <2>3
  <2>6. t.mem = [use |-> t.mem.use, http |-> t.mem.http, ip |-> t.mem.ip, port |-> t.mem.port]
    BY <2>1, <2>3
  <2>7. t.mem.use = Value(t.ini, "use") /\ t.mem.ip = Value(t.ini, "ip") /\ t.mem.port = Value(t.ini, "port")
    BY <2>2, <2>4, <2>5
  <2>8. Agree(t)
    BY <2>2, <2>5, <2>6, <2>7 DEF Agree
  <2>9. QED BY <2>5, <2>8 DEF t
<1>3. QED BY <1>1, <1>2

Reading == pc \in {"migrate", "update", "show", "up", "saving", "leaving"}

\* The proxy.ini by itself, over every change that was cut off.
IniInv ==
    /\ DOMAIN ini # {} => Value(ini, "use") \in {"CONFIG", "IE", "MANUAL"}
    /\ "type" \in DOMAIN ini => ini["type"] \in {"HTTP", "SOCKS"}
    /\ oldIni \in OldInis

\* A change of the proxy under way, what the setters called so far have done
\* and what it leads to.
TargetOK ==
    /\ target.use \in {"CONFIG", "IE", "MANUAL"}
    /\ target.type \in {Empty, "HTTP", "SOCKS"}
    /\ target.use = "MANUAL" =>
          /\ target.type # Empty
          /\ target.ip \in {"10.0.0.1", "proxy"} /\ target.port \in {"8080", "1"}
UseHolds == proxy.use = target.use
TypeHolds == target.type # Empty => proxy.http = (target.type = "HTTP")
IpHolds == target.ip # Empty => proxy.ip = target.ip
PortHolds == target.port # Empty => proxy.port = target.port
AllHold == UseHolds /\ TypeHolds /\ IpHolds /\ PortHolds

ChangeInv ==
    /\ setter \in {"none", "use", "type", "ip", "port", "end"}
    /\ setter # "none" => TargetOK /\ pc \in {"migrate", "saving"}
    /\ setter \in {"type", "ip", "port", "end"} => UseHolds
    /\ setter \in {"ip", "port", "end"} => TypeHolds
    /\ setter \in {"port", "end"} => IpHolds
    /\ setter = "end" => PortHolds

\* The members agree with the file once they are read.
MemInv ==
    /\ Reading => Agree([mem |-> proxy, ini |-> ini])
    /\ ~Reading => proxy = NoProxy

\* The file against what was chosen last.  A kind that is not in the file is
\* right if it is SOCKS.
IniFits ==
    /\ Value(ini, "use") = "MANUAL" =>
          Value(ini, "ip") \in {"10.0.0.1", "proxy"} /\ Value(ini, "port") \in {"8080", "1"}
    /\ "type" \in DOMAIN ini => given = GivenBy(ini, ini["type"] = "HTTP")
    /\ given \in {GivenBy(ini, TRUE), GivenBy(ini, FALSE)}
    /\ Reading /\ "type" \notin DOMAIN ini /\ ~proxy.http => given = GivenBy(ini, FALSE)

\* A change leads to what is given, or it changes nothing.
GivenInv ==
    /\ torn \in BOOLEAN
    /\ ~torn /\ setter = "none" => IniFits
    /\ ~torn /\ setter # "none" => given = GivenFor(target) \/ (AllHold /\ IniFits)

ProxyInv == IniInv /\ ChangeInv /\ MemInv /\ GivenInv

\* Agreement of two values, without the record around them.
LEMMA AgreeMembers ==
    ASSUME NEW m, NEW f, Agree([mem |-> m, ini |-> f])
    PROVE  /\ m.use = Value(f, "use") /\ m.ip = Value(f, "ip") /\ m.port = Value(f, "port")
           /\ m.http \in BOOLEAN
           /\ "type" \in DOMAIN f => f["type"] \in {"HTTP", "SOCKS"} /\ m.http = (f["type"] = "HTTP")
           /\ openVpnProxyString(m) = GivenBy(f, m.http)
<1>1. /\ m = [use |-> Value(f, "use"), http |-> m.http, ip |-> Value(f, "ip"), port |-> Value(f, "port")]
      /\ m.http \in BOOLEAN
      /\ "type" \in DOMAIN f => f["type"] = IF m.http THEN "HTTP" ELSE "SOCKS"
  BY DEF Agree
<1>2. "type" \in DOMAIN f => f["type"] \in {"HTTP", "SOCKS"} /\ m.http = (f["type"] = "HTTP")
  BY <1>1
<1>3. m.use = Value(f, "use") /\ m.ip = Value(f, "ip") /\ m.port = Value(f, "port")
  BY <1>1
<1>4. openVpnProxyString(m) = GivenBy(f, m.http)
  BY <1>1 DEF GivenBy
<1>5. QED BY <1>1, <1>2, <1>3, <1>4

\* Nothing is read from no file.
LEMMA NoProxyAgrees ==
    ASSUME NEW m, m = NoProxy, NEW f, DOMAIN f = {}
    PROVE  Agree([mem |-> m, ini |-> f])
<1>1. PICK s : s = [mem |-> m, ini |-> f]
  OBVIOUS
<1>2. s.mem = m /\ s.ini = f
  BY <1>1
<1>3. PICK h : h = FALSE
  OBVIOUS
<1>4. m = [use |-> Empty, http |-> h, ip |-> Empty, port |-> Empty] /\ m.http = h
  BY <1>3 DEF NoProxy
<1>5. Value(f, "use") = Empty /\ Value(f, "ip") = Empty /\ Value(f, "port") = Empty
  BY DEF Value
<1>6. s.mem = [use |-> Value(s.ini, "use"), http |-> s.mem.http, ip |-> Value(s.ini, "ip"),
               port |-> Value(s.ini, "port")]
  BY <1>2, <1>4, <1>5
<1>7. Agree(s)
  BY <1>2, <1>3, <1>4, <1>6 DEF Agree
<1>8. QED BY <1>1, <1>7

\* What one setter of a change does.
LEMMA SetsNextEffect ==
    ASSUME Agree([mem |-> proxy, ini |-> ini]), TargetOK, SetsNext
    PROVE  /\ Agree([mem |-> proxy', ini |-> ini'])
           /\ setter = "use" => proxy'.use = target.use
           /\ setter = "type" /\ target.type # Empty => proxy'.http = (target.type = "HTTP")
           /\ setter = "ip" /\ target.ip # Empty => proxy'.ip = target.ip
           /\ setter = "port" /\ target.port # Empty => proxy'.port = target.port
           /\ setter # "use" => proxy'.use = proxy.use
           /\ setter # "type" => proxy'.http = proxy.http
           /\ setter # "ip" => proxy'.ip = proxy.ip
           /\ setter # "port" => proxy'.port = proxy.port
           /\ AllHold => UNCHANGED <<proxy, ini>>
<1>1. PICK s : s = [mem |-> proxy, ini |-> ini]
  OBVIOUS
<1>2. s.mem = proxy /\ s.ini = ini /\ Agree(s)
  BY <1>1
<1>3. setter \in {"use", "type", "ip", "port"}
  BY DEF SetsNext, After
<1>4. PICK t : t = IF setter # "use" /\ target[setter] = Empty THEN s
                   ELSE IF setter = "type" THEN setIsHttpProxy(s, target.type = "HTTP")
                   ELSE SetText(s, setter, target[setter])
  OBVIOUS
<1>5. proxy' = t.mem /\ ini' = t.ini
  BY <1>1, <1>4 DEF SetsNext
<1>6. Agree(t) => Agree([mem |-> proxy', ini |-> ini'])
  BY <1>5 DEF Agree
<1>7. ASSUME t = s
      PROVE  Agree([mem |-> proxy', ini |-> ini']) /\ UNCHANGED <<proxy, ini>>
  BY <1>2, <1>5, <1>6, <1>7
<1>8. CASE setter = "use"
  <2>1. t = SetText(s, "use", target.use)
    BY <1>4, <1>8
  <2>2. /\ Agree(t) /\ t.mem["use"] = target.use /\ t.mem.http = s.mem.http
        /\ t.mem["ip"] = s.mem["ip"] /\ t.mem["port"] = s.mem["port"]
    BY <1>2, <2>1, SetTextAgrees
  <2>3. UseHolds => t = s
    BY <1>2, <2>1 DEF SetText, UseHolds
  <2>4. QED BY <1>2, <1>5, <1>6, <1>7, <1>8, <2>2, <2>3 DEF AllHold
<1>9. CASE setter = "type"
  <2>1. CASE target.type = Empty
    BY <1>4, <1>7, <1>9, <2>1
  <2>2. CASE target.type # Empty
    <3>1. t = setIsHttpProxy(s, target.type = "HTTP")
      BY <1>4, <1>9, <2>2
    <3>2. /\ Agree(t) /\ t.mem.http = (target.type = "HTTP") /\ t.mem["use"] = s.mem["use"]
          /\ t.mem["ip"] = s.mem["ip"] /\ t.mem["port"] = s.mem["port"]
      BY <1>2, <3>1, SetHttpAgrees
    <3>3. TypeHolds => t = s
      BY <1>2, <2>2, <3>1 DEF setIsHttpProxy, TypeHolds
    <3>4. QED BY <1>2, <1>5, <1>6, <1>7, <1>9, <3>2, <3>3 DEF AllHold
  <2>3. QED BY <2>1, <2>2
<1>10. CASE setter = "ip"
  <2>1. CASE target.ip = Empty
    BY <1>4, <1>7, <1>10, <2>1
  <2>2. CASE target.ip # Empty
    <3>1. t = SetText(s, "ip", target.ip)
      BY <1>4, <1>10, <2>2
    <3>2. /\ Agree(t) /\ t.mem["ip"] = target.ip /\ t.mem.http = s.mem.http
          /\ t.mem["use"] = s.mem["use"] /\ t.mem["port"] = s.mem["port"]
      BY <1>2, <3>1, SetTextAgrees
    <3>3. IpHolds => t = s
      BY <1>2, <2>2, <3>1 DEF SetText, IpHolds
    <3>4. QED BY <1>2, <1>5, <1>6, <1>7, <1>10, <3>2, <3>3 DEF AllHold
  <2>3. QED BY <2>1, <2>2
<1>11. CASE setter = "port"
  <2>1. CASE target.port = Empty
    BY <1>4, <1>7, <1>11, <2>1
  <2>2. CASE target.port # Empty
    <3>1. t = SetText(s, "port", target.port)
      BY <1>4, <1>11, <2>2
    <3>2. /\ Agree(t) /\ t.mem["port"] = target.port /\ t.mem.http = s.mem.http
          /\ t.mem["use"] = s.mem["use"] /\ t.mem["ip"] = s.mem["ip"]
      BY <1>2, <3>1, SetTextAgrees
    <3>3. PortHolds => t = s
      BY <1>2, <2>2, <3>1 DEF SetText, PortHolds
    <3>4. QED BY <1>2, <1>5, <1>6, <1>7, <1>11, <3>2, <3>3 DEF AllHold
  <2>3. QED BY <2>1, <2>2
<1>12. QED BY <1>3, <1>8, <1>9, <1>10, <1>11

LEMMA SetsNextProxy ==
    ASSUME ProxyInv, SetsNext, pc' = pc
    PROVE  ProxyInv'
<1>1. /\ setter \in {"use", "type", "ip", "port"} /\ setter' = After[setter]
      /\ UNCHANGED <<oldIni, target, given, torn>>
  BY DEF SetsNext, After
<1>2. setter' = CASE setter = "use" -> "type" [] setter = "type" -> "ip" [] setter = "ip" -> "port"
                  [] setter = "port" -> "end"
  BY <1>1 DEF After
<1>3. /\ TargetOK /\ TargetOK' /\ pc \in {"migrate", "saving"} /\ Reading /\ Reading'
      /\ Agree([mem |-> proxy, ini |-> ini])
  BY <1>1 DEF ProxyInv, ChangeInv, MemInv, Reading, TargetOK
<1>4. /\ Agree([mem |-> proxy', ini |-> ini'])
      /\ setter = "use" => proxy'.use = target.use
      /\ setter = "type" /\ target.type # Empty => proxy'.http = (target.type = "HTTP")
      /\ setter = "ip" /\ target.ip # Empty => proxy'.ip = target.ip
      /\ setter = "port" /\ target.port # Empty => proxy'.port = target.port
      /\ setter # "use" => proxy'.use = proxy.use
      /\ setter # "type" => proxy'.http = proxy.http
      /\ setter # "ip" => proxy'.ip = proxy.ip
      /\ setter # "port" => proxy'.port = proxy.port
      /\ AllHold => UNCHANGED <<proxy, ini>>
  BY <1>3, SetsNextEffect
<1>5. ChangeInv'
  BY <1>1, <1>2, <1>3, <1>4 DEF ProxyInv, ChangeInv, UseHolds, TypeHolds, IpHolds, PortHolds
<1>6. proxy'.use = target.use
  BY <1>1, <1>4 DEF ProxyInv, ChangeInv, UseHolds
<1>7. /\ Value(ini', "use") = proxy'.use
      /\ "type" \in DOMAIN ini' => ini'["type"] \in {"HTTP", "SOCKS"}
  BY <1>4, AgreeMembers
<1>8. IniInv'
  BY <1>1, <1>3, <1>6, <1>7 DEF ProxyInv, IniInv, TargetOK
<1>9. MemInv'
  BY <1>3, <1>4 DEF MemInv
<1>10. GivenInv'
  <2>1. GivenFor(target)' = GivenFor(target)
    BY <1>1 DEF GivenFor
  <2>2. ASSUME AllHold, IniFits
        PROVE  AllHold' /\ IniFits'
    BY <1>1, <1>3, <1>4, <2>2 DEF AllHold, UseHolds, TypeHolds, IpHolds, PortHolds, IniFits
  <2>3. setter # "none" /\ setter' # "none"
    BY <1>1, <1>2
  <2>4. QED BY <1>1, <2>1, <2>2, <2>3 DEF ProxyInv, GivenInv
<1>11. QED BY <1>5, <1>8, <1>9, <1>10 DEF ProxyInv

\* When every setter was called, the file says what is given.
LEMMA EndFits ==
    ASSUME ProxyInv, setter = "end", ~torn
    PROVE  IniFits
<1>1. /\ TargetOK /\ UseHolds /\ TypeHolds /\ IpHolds /\ PortHolds /\ Reading
      /\ Agree([mem |-> proxy, ini |-> ini])
  BY DEF ProxyInv, ChangeInv, MemInv, Reading
<1>2. /\ proxy.use = Value(ini, "use") /\ proxy.ip = Value(ini, "ip")
      /\ proxy.port = Value(ini, "port") /\ proxy.http \in BOOLEAN
      /\ "type" \in DOMAIN ini => ini["type"] \in {"HTTP", "SOCKS"} /\ proxy.http = (ini["type"] = "HTTP")
  BY <1>1, AgreeMembers
<1>3. given = GivenFor(target) \/ IniFits
  BY DEF ProxyInv, GivenInv
<1>4. ASSUME given = GivenFor(target)
      PROVE  IniFits
  <2>1. CASE target.use = "MANUAL"
    <3>1. /\ proxy.http = (target.type = "HTTP") /\ proxy.ip = target.ip /\ proxy.port = target.port
          /\ target.ip \in {"10.0.0.1", "proxy"} /\ target.port \in {"8080", "1"}
      BY <1>1, <2>1, EmptyIsNothing DEF TargetOK, TypeHolds, IpHolds, PortHolds
    <3>2. given = GivenBy(ini, proxy.http)
      <4>1. given = openVpnProxyString([use |-> proxy.use, http |-> proxy.http, ip |-> proxy.ip,
                                        port |-> proxy.port])
        BY <1>1, <1>4, <3>1 DEF GivenFor, UseHolds
      <4>2. QED BY <1>2, <4>1 DEF GivenBy
    <3>3. QED BY <1>2, <3>1, <3>2 DEF IniFits
  <2>2. CASE target.use # "MANUAL"
    <3>1. Value(ini, "use") = target.use
      BY <1>1, <1>2 DEF UseHolds
    <3>2. \A h \in BOOLEAN : GivenBy(ini, h) = IF target.use = "IE" THEN <<"IE">> ELSE << >>
      BY <2>2, <3>1 DEF GivenBy, openVpnProxyString
    <3>3. given = IF target.use = "IE" THEN <<"IE">> ELSE << >>
      BY <1>4, <2>2 DEF GivenFor, openVpnProxyString
    <3>4. QED BY <2>2, <3>1, <3>2, <3>3 DEF IniFits
  <2>3. QED BY <2>1, <2>2
<1>5. QED BY <1>3, <1>4

\* on_cmdBack_clicked with a choice of the user.
LEMMA BackProxy ==
    ASSUME ProxyInv, pc = "up", pc' = "saving", NEW p \in ProxyInputs, on_cmdBack_clicked(p)
    PROVE  ProxyInv'
<1>1. /\ setter' = "use" /\ target' = Page(p) /\ UNCHANGED <<ini, oldIni, proxy>>
      /\ given' = GivenFor(Page(p)) /\ torn' = FALSE /\ Accepted(p)
      /\ p.use \in {"CONFIG", "IE", "MANUAL"} /\ p.http \in BOOLEAN
  BY ProcessAssumption DEF on_cmdBack_clicked, NewProxy, ProxyChange
<1>2. TargetOK'
  <2>1. CASE p.use # "MANUAL"
    BY <1>1, <2>1 DEF Page, NoTarget, TargetOK
  <2>2. CASE p.use = "MANUAL"
    <3>1. /\ validHostOrIp[p.host] \in {"10.0.0.1", "proxy"}
          /\ validPort[p.port] \in {"8080", "1"}
      BY <1>1, <2>2 DEF Accepted, validHostOrIp, validPort
    <3>2. QED BY <1>1, <2>2, <3>1, EmptyIsNothing DEF Page, TargetOK
  <2>3. QED BY <2>1, <2>2
<1>3. given' = GivenFor(target)'
  BY <1>1 DEF GivenFor
<1>4. IniInv' /\ ChangeInv' /\ MemInv' /\ GivenInv'
  BY <1>1, <1>2, <1>3 DEF ProxyInv, IniInv, ChangeInv, MemInv, GivenInv, Reading
<1>5. QED BY <1>4 DEF ProxyInv

\* A page that is only looked at writes what it shows, and that changes
\* nothing, except that a first proxy.ini says CONFIG.
LEMMA LooksProxy ==
    ASSUME ProxyInv, pc = "up", pc' = "saving", Looks
    PROVE  ProxyInv'
<1>1. Agree([mem |-> proxy, ini |-> ini])
  BY DEF ProxyInv, MemInv, Reading
<1>2. /\ proxy.use = Value(ini, "use") /\ proxy.ip = Value(ini, "ip")
      /\ proxy.port = Value(ini, "port") /\ proxy.http \in BOOLEAN
  BY <1>1, AgreeMembers
<1>3. /\ setter' = "use" /\ target' = Page(showProxy) /\ Accepted(showProxy)
      /\ UNCHANGED <<ini, oldIni, proxy, given, torn>>
  BY DEF Looks, ProxyChange
<1>4. setter = "none"
  BY DEF ProxyInv, ChangeInv
<1>5. showProxy.use \in {"CONFIG", "IE", "MANUAL"} /\ showProxy.http = proxy.http
  BY DEF showProxy
<1>6. /\ TargetOK' /\ target'.use = showProxy.use
      /\ showProxy.use # "MANUAL" => target'.type = Empty /\ target'.ip = Empty /\ target'.port = Empty
      /\ showProxy.use = "MANUAL" =>
            /\ target'.type = IF proxy.http THEN "HTTP" ELSE "SOCKS"
            /\ target'.ip = validHostOrIp[showProxy.host] /\ target'.port = validPort[showProxy.port]
  <2>1. CASE showProxy.use # "MANUAL"
    BY <1>3, <1>5, <2>1 DEF Page, NoTarget, TargetOK
  <2>2. CASE showProxy.use = "MANUAL"
    <3>1. /\ validHostOrIp[showProxy.host] \in {"10.0.0.1", "proxy"}
          /\ validPort[showProxy.port] \in {"8080", "1"}
      BY <1>3, <2>2 DEF Accepted, validHostOrIp, validPort
    <3>2. QED BY <1>3, <1>5, <2>2, <3>1, EmptyIsNothing DEF Page, TargetOK
  <2>3. QED BY <2>1, <2>2
<1>7. ASSUME ~torn
      PROVE  given = GivenFor(target') \/ (AllHold' /\ IniFits')
  <2>1. IniFits
    BY <1>4, <1>7 DEF ProxyInv, GivenInv
  <2>2. CASE DOMAIN ini = {}
    <3>1. showProxy.use = "CONFIG" /\ Value(ini, "use") = Empty
      BY <2>2 DEF showProxy, Value
    <3>2. GivenBy(ini, TRUE) = << >> /\ GivenBy(ini, FALSE) = << >>
      BY <3>1, EmptyIsNothing DEF GivenBy, openVpnProxyString
    <3>3. given = << >>
      <4>1. given \in {GivenBy(ini, TRUE), GivenBy(ini, FALSE)}
        BY <2>1 DEF IniFits
      <4>2. QED BY <3>2, <4>1
    <3>4. GivenFor(target') = << >>
      BY <1>6, <3>1 DEF GivenFor, openVpnProxyString
    <3>5. QED BY <3>3, <3>4
  <2>3. CASE DOMAIN ini # {}
    <3>1. /\ proxy.use \in {"CONFIG", "IE", "MANUAL"}
          /\ proxy.use = "MANUAL" => proxy.ip \in {"10.0.0.1", "proxy"} /\ proxy.port \in {"8080", "1"}
      BY <1>2, <2>1, <2>3 DEF ProxyInv, IniInv, IniFits
    <3>2. /\ showProxy.use = proxy.use /\ showProxy.host = proxy.ip
          /\ proxy.use = "MANUAL" => showProxy.port = proxy.port
      BY <2>3, <3>1, EmptyIsNothing DEF showProxy
    <3>3. proxy.use = "MANUAL" =>
             validHostOrIp[showProxy.host] = proxy.ip /\ validPort[showProxy.port] = proxy.port
      BY <3>1, <3>2 DEF validHostOrIp, validPort
    <3>4. AllHold'
      BY <1>2, <1>3, <1>6, <3>2, <3>3 DEF AllHold, UseHolds, TypeHolds, IpHolds, PortHolds
    <3>5. IniFits'
      BY <1>3, <2>1 DEF IniFits, Reading
    <3>6. QED BY <3>4, <3>5
  <2>4. QED BY <2>2, <2>3
<1>8. GivenFor(target)' = GivenFor(target')
  BY DEF GivenFor
<1>9. IniInv' /\ ChangeInv' /\ MemInv'
  BY <1>1, <1>3, <1>6 DEF ProxyInv, IniInv, ChangeInv, MemInv, Reading
<1>10. GivenInv'
  BY <1>3, <1>7, <1>8 DEF ProxyInv, GivenInv
<1>11. QED BY <1>9, <1>10 DEF ProxyInv

\* What a proxy.ini of an older version may hold.
LEMMA OldIniValues ==
    ASSUME NEW old \in OldInis, DOMAIN old # {}
    PROVE  /\ Value(old, "use") \in {"CONFIG", "IE", "MANUAL"}
           /\ Value(old, "use") = "MANUAL" =>
                 /\ Value(old, "type") \in {"HTTP", "SOCKS"}
                 /\ Value(old, "ip") = "proxy" /\ Value(old, "port") = "1"
           /\ Value(old, "type") \in {Empty, "HTTP", "SOCKS"}
<1>1. CASE old = << >>
  BY <1>1
<1>2. CASE old = [use |-> "MANUAL", type |-> "HTTP", ip |-> "proxy", port |-> "1"]
  BY <1>2 DEF Value
<1>3. CASE old = [use |-> "MANUAL", type |-> "SOCKS", ip |-> "proxy", port |-> "1"]
  BY <1>3 DEF Value
<1>4. CASE old = [use |-> "CONFIG"]
  BY <1>4 DEF Value
<1>5. QED BY <1>1, <1>2, <1>3, <1>4 DEF OldInis

\* checkAndMigrateOldProxySettings begins.
LEMMA MigratesProxy ==
    ASSUME ProxyInv, pc = "window", pc' = "migrate", Migrates, checkAndMigrateOldProxySettings
    PROVE  ProxyInv'
<1>1. /\ setter' = "use" /\ target' = [key \in DOMAIN NoTarget |-> Value(oldIni, key)]
      /\ UNCHANGED <<ini, oldIni, proxy>> /\ torn' = FALSE /\ given' = GivenFor(target')
      /\ DOMAIN oldIni # {} /\ DOMAIN ini = {}
  BY DEF Migrates, checkAndMigrateOldProxySettings, NewProxy, ProxyChange
<1>2. /\ target'.use = Value(oldIni, "use") /\ target'.type = Value(oldIni, "type")
      /\ target'.ip = Value(oldIni, "ip") /\ target'.port = Value(oldIni, "port")
  BY <1>1 DEF NoTarget
<1>3. TargetOK'
  BY <1>1, <1>2, OldIniValues, EmptyIsNothing DEF ProxyInv, IniInv, TargetOK
<1>4. proxy = NoProxy
  BY DEF ProxyInv, MemInv, Reading
<1>5. Agree([mem |-> proxy, ini |-> ini])
  BY <1>1, <1>4, NoProxyAgrees
<1>6. given' = GivenFor(target)'
  BY <1>1 DEF GivenFor
<1>7. IniInv' /\ ChangeInv' /\ MemInv' /\ GivenInv'
  BY <1>1, <1>3, <1>5, <1>6 DEF ProxyInv, IniInv, ChangeInv, MemInv, GivenInv, Reading
<1>8. QED BY <1>7 DEF ProxyInv

\* What is read from a file agrees with it.
LEMMA ReadAgrees ==
    ASSUME NEW s, DOMAIN s.ini # {},
           "type" \in DOMAIN s.ini => s.ini["type"] \in {"HTTP", "SOCKS"}
    PROVE  /\ Agree([mem |-> ReadIni(s), ini |-> s.ini])
           /\ "type" \notin DOMAIN s.ini => ReadIni(s).http
<1>1. PICK m : m = ReadIni(s)
  OBVIOUS
<1>2. PICK h \in BOOLEAN : h <=> Value(s.ini, "type") # "SOCKS"
  OBVIOUS
<1>3. m = [use |-> Value(s.ini, "use"), http |-> h, ip |-> Value(s.ini, "ip"),
           port |-> Value(s.ini, "port")]
  BY <1>1, <1>2 DEF ReadIni
<1>4. m.http = h
  BY <1>3
<1>5. "type" \in DOMAIN s.ini => s.ini["type"] = IF h THEN "HTTP" ELSE "SOCKS"
  BY <1>2 DEF Value
<1>6. "type" \notin DOMAIN s.ini => h
  BY <1>2, EmptyIsNothing DEF Value
<1>7. PICK t : t = [mem |-> m, ini |-> s.ini]
  OBVIOUS
<1>8. t.mem = m /\ t.ini = s.ini
  BY <1>7
<1>9. Agree(t)
  BY <1>3, <1>4, <1>5, <1>8 DEF Agree
<1>10. QED BY <1>1, <1>4, <1>6, <1>7, <1>9

\* The constructor of ProxySettings.
LEMMA LoadsProxy ==
    ASSUME ProxyInv, LoadProxy, pc \in {"window", "migrate"}, pc' = "update"
    PROVE  ProxyInv'
<1>1. PICK s : s = [mem |-> proxy, ini |-> ini]
  OBVIOUS
<1>2. /\ s.mem = proxy /\ s.ini = ini /\ proxy' = ReadIni(s) /\ setter' = "none"
      /\ setter \in {"none", "end"} /\ oldIni' \in {oldIni, << >>}
      /\ UNCHANGED <<ini, given, torn>>
  BY <1>1 DEF LoadProxy
<1>3. IniInv'
  BY <1>2 DEF ProxyInv, IniInv, OldInis
<1>4. ChangeInv'
  BY <1>2 DEF ChangeInv
<1>5. ~torn => IniFits
  BY <1>2, EndFits DEF ProxyInv, GivenInv
<1>6. CASE DOMAIN ini # {}
  <2>1. /\ Agree([mem |-> proxy', ini |-> ini])
        /\ "type" \notin DOMAIN ini => proxy'.http
    BY <1>2, <1>6, ReadAgrees DEF ProxyInv, IniInv
  <2>2. MemInv'
    BY <1>2, <2>1 DEF MemInv, Reading
  <2>3. GivenInv'
    BY <1>2, <1>5, <2>1 DEF ProxyInv, GivenInv, IniFits
  <2>4. QED BY <1>3, <1>4, <2>2, <2>3 DEF ProxyInv
<1>7. CASE DOMAIN ini = {}
  <2>1. proxy' = proxy
    BY <1>2, <1>7 DEF ReadIni
  <2>2. Value(ini, "use") = Empty
    BY <1>7 DEF Value
  <2>3. Agree([mem |-> proxy, ini |-> ini])
    <3>1. CASE pc = "window"
      <4>1. proxy = NoProxy
        BY <3>1 DEF ProxyInv, MemInv, Reading
      <4>2. QED BY <1>7, <4>1, NoProxyAgrees
    <3>2. CASE pc = "migrate"
      BY <3>2 DEF ProxyInv, MemInv, Reading
    <3>3. QED BY <3>1, <3>2
  <2>4. MemInv'
    BY <1>2, <2>1, <2>3 DEF MemInv, Reading
  <2>5. \A h \in BOOLEAN : GivenBy(ini, h) = << >>
    BY <2>2, EmptyIsNothing DEF GivenBy, openVpnProxyString
  <2>6. GivenInv'
    BY <1>2, <1>5, <1>7, <2>5 DEF ProxyInv, GivenInv, IniFits
  <2>7. QED BY <1>3, <1>4, <2>4, <2>6 DEF ProxyInv
<1>8. QED BY <1>6, <1>7

\* The change on the page is over.
LEMMA SavedProxy ==
    ASSUME ProxyInv, Saved, pc = "saving", pc' = "up"
    PROVE  ProxyInv'
<1>1. setter = "end" /\ setter' = "none" /\ UNCHANGED <<ini, oldIni, proxy, given, torn>>
  BY DEF Saved
<1>2. ~torn => IniFits
  BY <1>1, EndFits
<1>3. Reading /\ Reading'
  BY DEF Reading
<1>4. IniInv' /\ ChangeInv' /\ MemInv'
  BY <1>1, <1>3 DEF ProxyInv, IniInv, ChangeInv, MemInv
<1>5. GivenInv'
  BY <1>1, <1>2, <1>3 DEF ProxyInv, GivenInv, IniFits
<1>6. QED BY <1>4, <1>5 DEF ProxyInv

\* The end of the client, of whatever kind, also in the middle of a change.
LEMMA ClientEndsProxy ==
    ASSUME ProxyInv, ClientEnds
    PROVE  ProxyInv'
<1>1. /\ pc' = "off" /\ proxy' = NoProxy /\ setter' = "none" /\ UNCHANGED <<ini, oldIni, given>>
      /\ torn' = (torn \/ setter \in {"use", "type", "ip", "port"})
  BY DEF ClientEnds, Forget, After
<1>2. ~torn' => ~torn /\ IniFits
  BY <1>1, EndFits DEF ProxyInv, ChangeInv, GivenInv
<1>3. ~Reading'
  BY <1>1 DEF Reading
<1>4. IniInv' /\ ChangeInv' /\ MemInv'
  BY <1>1, <1>3 DEF ProxyInv, IniInv, ChangeInv, MemInv
<1>5. IniFits => IniFits'
  BY <1>1, <1>3 DEF IniFits
<1>6. GivenInv'
  BY <1>1, <1>2, <1>5 DEF ProxyInv, GivenInv
<1>7. QED BY <1>4, <1>6 DEF ProxyInv

LEMMA ProxyNextInv == ProxyInv /\ [Next]_allVars => ProxyInv'
<1> SUFFICES ASSUME ProxyInv, [Next]_allVars PROVE ProxyInv'
  OBVIOUS
<1>1. ASSUME UNCHANGED proxyVars,
             pc' = pc \/ ((Reading <=> Reading') /\ pc \notin {"migrate", "saving"})
      PROVE  ProxyInv'
  <2>1. UNCHANGED <<ini, oldIni, proxy, setter, target, given, torn>> /\ (Reading <=> Reading')
    BY <1>1 DEF proxyVars, Reading
  <2>2. TargetOK' = TargetOK /\ AllHold' = AllHold /\ GivenFor(target)' = GivenFor(target) /\ (IniFits <=> IniFits')
    BY <2>1 DEF TargetOK, AllHold, UseHolds, TypeHolds, IpHolds, PortHolds, GivenFor, IniFits
  <2>3. IniInv' /\ MemInv' /\ GivenInv'
    BY <2>1, <2>2 DEF ProxyInv, IniInv, MemInv, GivenInv
  <2>4. ChangeInv'
    BY <1>1, <2>1, <2>2 DEF ProxyInv, ChangeInv, UseHolds, TypeHolds, IpHolds, PortHolds
  <2>5. QED BY <2>3, <2>4 DEF ProxyInv
<1>a. ASSUME UNCHANGED storeVars,
             pc' = pc \/ ((Reading <=> Reading') /\ pc \notin {"migrate", "saving"})
      PROVE  ProxyInv'
  BY <1>1, <1>a DEF storeVars
<1>2. CASE Start \/ Splits \/ slotRead \/ OptionsDone \/ Attach \/ Portable
  BY <1>a, <1>2 DEF Start, Splits, slotRead, OptionsDone, Attach, Portable, resident
<1>3. CASE Option \/ RefreshOfOther
  <2>1. pc' = pc /\ UNCHANGED proxyVars
    BY <1>3 DEF Option, RefreshOfOther, OtherOpens, OtherExecutes, OtherEnds, storeVars
  <2>2. QED BY <1>1, <2>1
<1>4. CASE Create
  BY <1>a, <1>4 DEF Create, Reading
<1>5. CASE Opens \/ Creates
  BY <1>1, <1>5 DEF Opens, Creates, At, OpenDatabase, Execute, loadOrRefresh, Reading
<1>6. CASE CreatesWindow
  <2>1. pc = "window"
    BY <1>6 DEF CreatesWindow, At
  <2>2. CASE Migrates
    BY <1>6, <2>1, <2>2, MigratesProxy DEF CreatesWindow
  <2>3. CASE ~Migrates
    BY <1>6, <2>1, <2>3, LoadsProxy DEF CreatesWindow, WindowIsThere
  <2>4. QED BY <2>2, <2>3
<1>7. CASE GoesOnMigrating
  <2>1. pc = "migrate"
    BY <1>7 DEF GoesOnMigrating, At
  <2>2. QED BY <1>7, <2>1, SetsNextProxy, LoadsProxy DEF GoesOnMigrating, WindowIsThere
<1>8. CASE Checks \/ AnswerEnds \/ LoginGiven \/ ShowsFirst
  BY <1>a, <1>8 DEF Checks, AnswerEnds, LoginGiven, ShowsFirst, At, Reading
<1>9. CASE Chooses
  <2>1. pc = "up"
    BY <1>9 DEF Chooses
  <2>2. ASSUME NEW n \in Names, Set(n, ~settings[n]), UNCHANGED pc
        PROVE  ProxyInv'
    BY <1>1, <2>2 DEF Set
  <2>3. QED BY <1>9, <2>1, <2>2, BackProxy, LooksProxy DEF Chooses
<1>10. CASE GoesOnSaving
  <2>1. pc = "saving"
    BY <1>10 DEF GoesOnSaving, At
  <2>2. QED BY <1>10, <2>1, SetsNextProxy, SavedProxy DEF GoesOnSaving
<1>11. CASE Reported \/ Clicked \/ TrayTimeout
  BY <1>a, <1>11 DEF Reported, Clicked, TrayTimeout, sameProcess
<1>12. CASE ClosesWarning
  <2>1. pc' = pc
    BY <1>12 DEF ClosesWarning, sameProcess
  <2>2. ASSUME NEW n, Set(n, FALSE)
        PROVE  ProxyInv'
    BY <1>1, <2>1, <2>2 DEF Set
  <2>3. QED BY <1>a, <1>12, <2>1, <2>2 DEF ClosesWarning
<1>13. CASE Quits \/ Answers
  BY <1>a, <1>13 DEF Quits, Answers, Acts, Events, At, Reading
<1>14. CASE Leaves \/ EndSession \/ Crash
  BY <1>a, <1>14, ClientEndsProxy DEF Leaves, EndSession, Crash, At, Reading
<1>15. CASE UNCHANGED allVars
  BY <1>a, <1>15 DEF allVars, processVars
<1>16. QED BY <1>2, <1>3, <1>4, <1>5, <1>6, <1>7, <1>8, <1>9, <1>10, <1>11, <1>12, <1>13, <1>14, <1>15
           DEF Next

\* A kind that was never written is the only difference there can be.
LEMMA ProxyIsKept ==
    ASSUME ProxyInv, pc = "up", ~torn
    PROVE  ProxyKept
<1>f. IniFits /\ Agree([mem |-> proxy, ini |-> ini])
  BY DEF ProxyInv, ChangeInv, GivenInv, MemInv, Reading
<1>1. /\ proxy.http \in BOOLEAN
      /\ "type" \in DOMAIN ini => proxy.http = (ini["type"] = "HTTP")
      /\ openVpnProxyString(proxy) = GivenBy(ini, proxy.http)
  BY <1>f, AgreeMembers
<1>2. CASE "type" \in DOMAIN ini
  BY <1>1, <1>2, <1>f DEF IniFits, ProxyKept
<1>3. CASE "type" \notin DOMAIN ini /\ ~proxy.http
  BY <1>1, <1>3, <1>f DEF IniFits, Reading, ProxyKept
<1>4. CASE "type" \notin DOMAIN ini /\ proxy.http
  <2>1. openVpnProxyString(proxy) = GivenBy(ini, TRUE)
    BY <1>1, <1>4
  <2>2. given = GivenBy(ini, TRUE) \/ given = GivenBy(ini, FALSE)
    BY <1>f DEF IniFits
  <2>3. PICK host, port :
           \/ GivenBy(ini, TRUE) = GivenBy(ini, FALSE)
           \/ /\ GivenBy(ini, TRUE) = <<"--http-proxy", host, port>>
              /\ GivenBy(ini, FALSE) = <<"--socks-proxy", host, port>>
    BY DEF GivenBy, openVpnProxyString
  <2>4. ASSUME given = <<"--socks-proxy", host, port>>
        PROVE  /\ given # << >> /\ given[1] = "--socks-proxy"
               /\ <<"--http-proxy">> \o Tail(given) = <<"--http-proxy", host, port>>
    <3>1. Tail(given) = <<host, port>>
      BY <2>4
    <3>2. \A kind : <<kind>> \o <<host, port>> = <<kind, host, port>>
      <4> TAKE kind
      <4> DEFINE S == {kind, host, port}
                 long == <<kind>> \o <<host, port>>
      <4>1. <<kind>> \in Seq(S) /\ <<host, port>> \in Seq(S)
        OBVIOUS
      <4>2. long \in Seq(S) /\ Len(long) = 3 /\ long[1] = kind /\ long[2] = host /\ long[3] = port
        BY <4>1
      <4> HIDE DEF long, S
      <4>3. long = <<kind, host, port>>
        BY <4>2
      <4>4. QED BY <4>3 DEF long
    <3>3. given # << >> /\ given[1] = "--socks-proxy"
      BY <2>4
    <3>4. QED BY <3>1, <3>2, <3>3
  <2>5. QED BY <1>4, <2>1, <2>2, <2>3, <2>4 DEF ProxyKept
<1>5. QED BY <1>1, <1>2, <1>3, <1>4

\* Over every number of runs, exits and crashes, the first start included,
\* beside processes that create the database as well, and after a migration: a
\* client that is up works with the settings and the proxy that were chosen
\* last (Settings, ProxySettings, Database::execute), if the change of the
\* proxy was not cut off.
THEOREM ClientChoicesKept == Spec => []ChoicesKept
<1>1. ProcessInit => ProxyInv
  <2> SUFFICES ASSUME ProcessInit PROVE ProxyInv
    OBVIOUS
  <2>1. /\ pc = "off" /\ ini = << >> /\ oldIni \in OldInis /\ given = << >>
        /\ proxy = NoProxy /\ setter = "none" /\ torn = FALSE
    BY DEF ProcessInit, StoreInit
  <2>2. DOMAIN ini = {}
    BY <2>1
  <2>3. Value(ini, "use") = Empty
    BY <2>2 DEF Value
  <2>4. GivenBy(ini, TRUE) = << >>
    BY <2>3, EmptyIsNothing DEF GivenBy, openVpnProxyString
  <2>5. IniFits
    BY <2>1, <2>2, <2>3, <2>4, EmptyIsNothing DEF IniFits, Reading
  <2>6. QED BY <2>1, <2>2, <2>5 DEF ProxyInv, IniInv, ChangeInv, MemInv, GivenInv, Reading
<1>2. SettingsInv /\ ProxyInv => ChoicesKept
  <2> SUFFICES ASSUME SettingsInv, ProxyInv, pc = "up" PROVE SettingsKept /\ ProxyKept
    BY DEF ChoicesKept
  <2>1. SettingsKept
    BY DEF SettingsInv, Loading
  <2>2. torn => ProxyKept
    BY DEF ProxyKept
  <2>3. QED BY <2>1, <2>2, ProxyIsKept
<1>3. QED BY <1>1, <1>2, SettingsInit, SettingsNextInv, ProxyNextInv, PTL DEF Spec
=============================================================================
