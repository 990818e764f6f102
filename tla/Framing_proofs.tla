--------------------------- MODULE Framing_proofs ---------------------------
(***************************************************************************)
(* Commands are handled in the order they were sent, once, and without a   *)
(* gap, for any number of frames, breaks and pieces and for all sizes of   *)
(* bodies.                                                                 *)
(*                                                                         *)
(* What is in the buffer and what is on the wire are one stream, Flow; a   *)
(* piece that arrives only moves the border between the two.  IInv says    *)
(* that Flow is a row of whole frames with consecutive numbers, less some  *)
(* cells at its beginning (Shape), how blockSize and the first cell belong *)
(* together (InStep), and that everything handled lies before Flow         *)
(* (Behind).                                                               *)
(***************************************************************************)
EXTENDS Framing, SequenceTheorems, TLAPS

Cell == [no : Nat, head : BOOLEAN, left : 0 .. 1000, early : BOOLEAN]

Flow == buffer \o wire

FramingTypes ==
    /\ buffer \in Seq(Cell) /\ wire \in Seq(Cell)
    /\ blockSize \in Nat
    /\ handled \in Seq(Nat)
    /\ frames \in Nat /\ first \in Nat \ {0}
    /\ torn \in BOOLEAN

\* The frame of F's k-th cell ends with its e-th, and the next one follows;
\* the last frame of F is the n-th.
EndsAt(F, n, k, e) ==
    /\ F[k].no <= n
    /\ F[k].head => e - k >= 2
    /\ \A j \in k .. e : F[j].no = F[k].no /\ F[j].left = e - j /\ (j > k => ~F[j].head)
    /\ e < Len(F) => F[e + 1].head /\ F[e + 1].no = F[k].no + 1

\* Every cell is followed by the rest of its frame, and that by the header of
\* the next one; the last frame is the n-th.
Shape(F, n) ==
    /\ \A k \in 1 .. Len(F) : \E e \in k .. Len(F) : EndsAt(F, n, k, e)
    /\ F # << >> => F[Len(F)].no = n

\* The number of the frame that comes next.
NextNo(F, n) == IF F = << >> THEN n + 1 ELSE F[1].no

\* A length that has been read is that of the body that follows, unless it was
\* left over by a broken connection or was none.
Matches(F, size, broken) ==
    /\ ~broken /\ size = 0 => F = << >> \/ F[1].head
    /\ ~broken /\ size # 0 => F # << >> /\ ~F[1].head /\ F[1].left = size - 1
    /\ broken /\ size # 0 => F = << >> \/ F[1].head \/ F[1].left = size - 1 \/ size = Huge

InStep == Matches(Flow, blockSize, torn)

Behind ==
    /\ \A i \in 1 .. Len(handled) : handled[i] < NextNo(Flow, frames)
    /\ first <= frames + 1
    /\ ~torn => \/ NextNo(Flow, frames) = first
                \/ handled # << >> /\ handled[Len(handled)] = NextNo(Flow, frames) - 1

IInv == FramingTypes /\ Shape(Flow, frames) /\ InStep /\ Behind /\ HandledAsSent

-----------------------------------------------------------------------------
\* Streams

\* G is F without its first m cells.
Rests(G, F, m) == Len(G) = Len(F) - m /\ \A k \in 1 .. Len(G) : G[k] = F[k + m]

\* What follows a stream does not matter.
LEMMA RestsConcat ==
    ASSUME NEW F \in Seq(Cell), NEW G \in Seq(Cell), NEW H \in Seq(Cell), NEW m \in 0 .. Len(F),
           Rests(G, F, m)
    PROVE  Rests(G \o H, F \o H, m)
<1>0. Len(F \o H) = Len(F) + Len(H) /\ Len(G \o H) = Len(G) + Len(H)
  OBVIOUS
<1>1. /\ Len(F) \in Nat /\ Len(G) \in Nat /\ Len(H) \in Nat /\ m \in Nat
      /\ Len(G) = Len(F) - m /\ Len(F \o H) = Len(F) + Len(H) /\ Len(G \o H) = Len(G) + Len(H)
  BY <1>0 DEF Rests
<1>2. ASSUME NEW k \in 1 .. Len(G \o H)
      PROVE  (G \o H)[k] = (F \o H)[k + m]
  <2>1. CASE k <= Len(G)
    <3>1. k \in 1 .. Len(G) /\ k + m \in 1 .. Len(F) + Len(H) /\ k + m <= Len(F)
      BY <1>1, <2>1
    <3>2. (G \o H)[k] = G[k] /\ (F \o H)[k + m] = F[k + m]
      BY <1>1, <3>1
    <3>3. QED BY <3>1, <3>2 DEF Rests
  <2>2. CASE k > Len(G)
    <3>1. /\ k \in 1 .. Len(G) + Len(H) /\ k + m \in 1 .. Len(F) + Len(H)
          /\ ~(k <= Len(G)) /\ ~(k + m <= Len(F)) /\ k - Len(G) = (k + m) - Len(F)
      BY <1>1, <2>2
    <3>2. (G \o H)[k] = H[k - Len(G)] /\ (F \o H)[k + m] = H[(k + m) - Len(F)]
      BY <1>1, <3>1
    <3>3. QED BY <3>1, <3>2
  <2>3. QED BY <1>1, <2>1, <2>2
<1>3. QED BY <1>1, <1>2 DEF Rests

\* Tail and SubSeq leave the rest of a stream.
LEMMA RestsTail ==
    ASSUME NEW F \in Seq(Cell), F # << >>
    PROVE  Rests(Tail(F), F, 1)
BY DEF Rests

LEMMA RestsSubSeq ==
    ASSUME NEW F \in Seq(Cell), NEW m \in 0 .. Len(F)
    PROVE  SubSeq(F, m + 1, Len(F)) \in Seq(Cell) /\ Rests(SubSeq(F, m + 1, Len(F)), F, m)
<1>1. Len(F) \in Nat /\ m \in Nat /\ m + 1 \in Nat
  OBVIOUS
<1>2. SubSeq(F, m + 1, Len(F)) \in Seq(Cell)
  BY <1>1
<1>3. Len(SubSeq(F, m + 1, Len(F))) = Len(F) - m
  BY <1>1
<1>4. ASSUME NEW k \in 1 .. Len(F) - m
      PROVE  SubSeq(F, m + 1, Len(F))[k] = F[k + m]
  BY <1>1
<1>5. QED BY <1>2, <1>3, <1>4 DEF Rests

\* What a cell is made of.
LEMMA CellParts ==
    ASSUME NEW c \in Cell
    PROVE  c.no \in Nat /\ c.left \in Nat /\ c.left <= 1000 /\ c.head \in BOOLEAN /\ c.early \in BOOLEAN
BY DEF Cell

\* Cells may be taken off the beginning of a stream.
LEMMA ShapeSuffix ==
    ASSUME NEW F \in Seq(Cell), NEW G \in Seq(Cell), NEW n \in Nat, NEW m \in 0 .. Len(F),
           Shape(F, n), Rests(G, F, m)
    PROVE  Shape(G, n)
<1>0. Len(F) \in Nat /\ Len(G) \in Nat /\ m \in Nat /\ Len(G) = Len(F) - m
  BY DEF Rests
<1>1. ASSUME NEW k \in 1 .. Len(G)
      PROVE  \E e \in k .. Len(G) : EndsAt(G, n, k, e)
  <2>1. k + m \in 1 .. Len(F)
    BY <1>0
  <2>2. PICK f \in k + m .. Len(F) : EndsAt(F, n, k + m, f)
    BY <2>1 DEF Shape
  <2>3. f - m \in k .. Len(G) /\ f \in Nat /\ f - m \in Nat
    BY <1>0, <2>1
  <2>4. ASSUME NEW j \in k .. f - m
        PROVE  j + m \in k + m .. f /\ G[j] = F[j + m] /\ f - (j + m) = (f - m) - j
    <3>1. j + m \in k + m .. f /\ f - (j + m) = (f - m) - j /\ j \in 1 .. Len(G)
      BY <1>0, <2>1, <2>3
    <3>2. QED BY <3>1 DEF Rests
  <2>5. G[k] = F[k + m]
    BY DEF Rests
  <2>6. f - m < Len(G) => f < Len(F) /\ G[(f - m) + 1] = F[f + 1]
    <3>1. f - m < Len(G) => (f - m) + 1 \in 1 .. Len(G) /\ ((f - m) + 1) + m = f + 1
      BY <1>0, <2>3
    <3>2. QED BY <1>0, <2>3, <3>1 DEF Rests
  <2>7. \A j \in k .. f - m : G[j].no = G[k].no /\ G[j].left = (f - m) - j /\ (j > k => ~G[j].head)
    <3>1. TAKE j \in k .. f - m
    <3>2. j > k => j + m > k + m
      BY <1>0, <2>3
    <3>3. QED BY <2>2, <2>4, <2>5, <3>2 DEF EndsAt
  <2>8. G[k].no <= n /\ (G[k].head => (f - m) - k >= 2)
    <3>1. F[k + m].no <= n /\ (F[k + m].head => f - (k + m) >= 2)
      BY <2>2 DEF EndsAt
    <3>2. f - (k + m) = (f - m) - k
      BY <1>0, <2>3
    <3>3. QED BY <2>5, <3>1, <3>2
  <2>9. f - m < Len(G) => G[(f - m) + 1].head /\ G[(f - m) + 1].no = G[k].no + 1
    BY <2>2, <2>5, <2>6 DEF EndsAt
  <2>10. QED BY <2>3, <2>7, <2>8, <2>9 DEF EndsAt
<1>2. G # << >> => G[Len(G)].no = n
  <2> SUFFICES ASSUME G # << >> PROVE G[Len(G)].no = n
    OBVIOUS
  <2>1. Len(G) \in 1 .. Len(G) /\ Len(G) + m = Len(F) /\ F # << >>
    BY <1>0
  <2>2. G[Len(G)] = F[Len(G) + m]
    BY <2>1 DEF Rests
  <2>3. QED BY <2>1, <2>2 DEF Shape
<1>3. QED BY <1>1, <1>2 DEF Shape

\* A frame is a row of cells.
LEMMA FrameType ==
    ASSUME NEW n \in Nat, NEW size \in Nat, 2 <= size, size <= 1000, NEW returns \in BOOLEAN
    PROVE  Frame(n, size, returns) \in Seq(Cell) /\ Len(Frame(n, size, returns)) = size + 1
<1>1. \A k \in 1 .. size + 1 :
        [no |-> n, head |-> (k = 1), left |-> size + 1 - k, early |-> returns] \in Cell
  <2>1. TAKE k \in 1 .. size + 1
  <2>2. size + 1 - k \in 0 .. 1000
    OBVIOUS
  <2>3. QED BY <2>2 DEF Cell
<1>2. size + 1 \in Nat
  OBVIOUS
<1>3. Frame(n, size, returns) \in [1 .. size + 1 -> Cell]
  BY <1>1 DEF Frame
<1>4. QED BY <1>2, <1>3

\* N is the n-th frame, with a body of size cells.
IsFrame(N, n, size) ==
    /\ Len(N) = size + 1
    /\ \A k \in 1 .. size + 1 : N[k].no = n /\ N[k].left = size + 1 - k /\ (N[k].head <=> k = 1)

\* sendRequest puts a whole frame at the end of a stream.
LEMMA ShapeAppend ==
    ASSUME NEW F \in Seq(Cell), NEW n \in Nat, Shape(F, n),
           NEW N \in Seq(Cell), NEW m \in Nat, m = n + 1,
           NEW size \in Nat, 2 <= size, size <= 1000, IsFrame(N, m, size)
    PROVE  Shape(F \o N, m)
<1>0. n + 1 \in Nat /\ size + 1 \in Nat /\ n + 1 <= n + 1
  OBVIOUS
<1>1. /\ N \in Seq(Cell) /\ Len(N) = size + 1
      /\ \A k \in 1 .. size + 1 : N[k].no = n + 1 /\ N[k].left = size + 1 - k /\ (N[k].head <=> k = 1)
  BY DEF IsFrame
<1>2. PICK l \in Nat : l = Len(F)
  OBVIOUS
<1> DEFINE G == F \o N
<1>3. G \in Seq(Cell)
  BY <1>1
<1>4. PICK g \in Nat : g = l + size + 1 /\ g = Len(G)
  <2>1. Len(G) = Len(F) + Len(N)
    BY ConcatProperties
  <2>2. QED BY <1>0, <1>1, <1>2, <2>1
<1>5. \A k \in 1 .. l : G[k] = F[k]
  BY <1>2
<1>6. \A k \in 1 .. size + 1 : G[l + k] = N[k]
  BY <1>1, <1>2
<1> HIDE DEF G
<1>7. ASSUME NEW k \in 1 .. l
      PROVE  \E e \in k .. g : EndsAt(G, n + 1, k, e)
  <2>1. PICK e \in k .. l : EndsAt(F, n, k, e)
    BY <1>2 DEF Shape
  <2>2. F[k] \in Cell /\ F[k].no \in Nat
    BY <1>2, CellParts
  <2>3. e \in k .. g /\ e \in 1 .. l /\ \A j \in k .. e : j \in 1 .. l
    BY <1>4
  <2>4. \A j \in k .. e : G[j].no = G[k].no /\ G[j].left = e - j /\ (j > k => ~G[j].head)
    <3>1. TAKE j \in k .. e
    <3>2. G[j] = F[j] /\ G[k] = F[k]
      BY <1>5, <2>3
    <3>3. QED BY <2>1, <3>2 DEF EndsAt
  <2>5. G[k].no <= n + 1 /\ (G[k].head => e - k >= 2)
    BY <1>5, <2>1, <2>2 DEF EndsAt
  <2>6. G[e + 1].head /\ G[e + 1].no = G[k].no + 1
    <3>1. CASE e < l
      <4>1. e + 1 \in 1 .. l
        BY <3>1
      <4>2. QED BY <1>2, <1>5, <2>1, <3>1, <4>1 DEF EndsAt
    <3>2. CASE e = l
      <4>1. F[l].no = F[k].no /\ F[l].no = n
        BY <1>2, <2>1, <2>3, <3>2 DEF EndsAt, Shape
      <4>2. 1 \in 1 .. size + 1 /\ G[l + 1] = N[1]
        <5>1. 1 \in 1 .. size + 1
          OBVIOUS
        <5>2. QED BY <1>6, <5>1
      <4>3. QED BY <1>1, <1>5, <3>2, <4>1, <4>2
    <3>3. QED BY <3>1, <3>2
  <2>7. QED BY <2>3, <2>4, <2>5, <2>6 DEF EndsAt
<1>8. ASSUME NEW k \in 1 .. size + 1
      PROVE  EndsAt(G, n + 1, l + k, g)
  <2>1. \A j \in l + k .. g : j - l \in 1 .. size + 1 /\ l + (j - l) = j
    BY <1>4
  <2>2. \A j \in l + k .. g : G[j] = N[j - l]
    BY <1>6, <2>1
  <2>3. l + k \in l + k .. g /\ (l + k) - l = k
    BY <1>4
  <2>4. G[l + k].no = n + 1 /\ (G[l + k].head <=> k = 1)
    <3>1. G[l + k] = N[k]
      BY <1>6
    <3>2. QED BY <1>1, <3>1
  <2>5. ASSUME NEW j \in l + k .. g
        PROVE  G[j].no = n + 1 /\ G[j].left = g - j /\ (j > l + k => ~G[j].head)
    <3>1. N[j - l].no = n + 1 /\ N[j - l].left = size + 1 - (j - l) /\ (N[j - l].head <=> j - l = 1)
      BY <1>1, <2>1
    <3>2. size + 1 - (j - l) = g - j /\ (j > l + k => j - l # 1)
      BY <1>4
    <3>3. QED BY <2>2, <3>1, <3>2
  <2>6. k = 1 => g - (l + k) >= 2
    BY <1>4
  <2>7. QED BY <1>0, <1>4, <2>4, <2>5, <2>6 DEF EndsAt
<1>9. ASSUME NEW k \in 1 .. g
      PROVE  \E e \in k .. g : EndsAt(G, n + 1, k, e)
  <2>1. CASE k \in 1 .. l
    BY <1>7, <2>1
  <2>2. CASE k \in l + 1 .. g
    <3>1. k - l \in 1 .. size + 1 /\ l + (k - l) = k /\ g \in k .. g
      BY <1>4, <2>2
    <3>2. EndsAt(G, n + 1, l + (k - l), g)
      BY <1>8, <3>1
    <3>3. QED BY <3>1, <3>2
  <2>3. QED BY <1>4, <2>1, <2>2
<1>10. G[g].no = n + 1
  <2>1. size + 1 \in 1 .. size + 1 /\ l + (size + 1) = g
    BY <1>4
  <2>2. G[l + (size + 1)] = N[size + 1]
    BY <1>6, <2>1
  <2>3. QED BY <1>1, <2>1, <2>2
<1>11. QED BY <1>4, <1>9, <1>10 DEF Shape, G

\* A frame, or a part of it, is taken off the beginning of a stream.
LEMMA Cut ==
    ASSUME NEW F \in Seq(Cell), NEW G \in Seq(Cell), NEW n \in Nat, Shape(F, n),
           NEW m \in 1 .. Len(F), m <= F[1].left + 1, Rests(G, F, m)
    PROVE  /\ Shape(G, n)
           /\ NextNo(F, n) \in Nat /\ NextNo(G, n) \in Nat
           /\ m <= F[1].left =>
                 /\ G # << >> /\ ~G[1].head /\ G[1].left = F[1].left - m
                 /\ NextNo(G, n) = NextNo(F, n)
           /\ m = F[1].left + 1 => (G = << >> \/ G[1].head) /\ NextNo(G, n) = NextNo(F, n) + 1
<1>0. Len(F) \in Nat /\ Len(G) \in Nat /\ 1 \in 1 .. Len(F) /\ Len(G) = Len(F) - m /\ F # << >>
  BY DEF Rests
<1>1. PICK e \in 1 .. Len(F) : EndsAt(F, n, 1, e)
  BY <1>0 DEF Shape
<1>2. F[1] \in Cell /\ F[1].no \in Nat
  BY <1>0, CellParts
<1>3. F[1].left = e - 1 /\ \A j \in 1 .. e : F[j].no = F[1].no /\ F[j].left = e - j /\ (j > 1 => ~F[j].head)
  BY <1>1 DEF EndsAt
<1>4. Shape(G, n)
  BY ShapeSuffix
<1>5. NextNo(F, n) = F[1].no
  BY <1>0 DEF NextNo
<1>6. G # << >> => 1 \in 1 .. Len(G) /\ G[1] = F[1 + m]
  BY <1>0 DEF Rests
<1>7. NextNo(G, n) \in Nat
  <2>1. CASE G = << >>
    BY <2>1 DEF NextNo
  <2>2. CASE G # << >>
    BY <1>6, <2>2, CellParts DEF NextNo
  <2>3. QED BY <2>1, <2>2
<1>8. ASSUME m <= F[1].left
      PROVE  G # << >> /\ ~G[1].head /\ G[1].left = F[1].left - m /\ NextNo(G, n) = NextNo(F, n)
  <2>1. 1 + m \in 1 .. e /\ 1 + m > 1 /\ e - (1 + m) = (e - 1) - m /\ Len(G) > 0
    BY <1>0, <1>3, <1>8
  <2>2. G # << >>
    BY <2>1
  <2>3. G[1] = F[1 + m]
    BY <1>6, <2>2
  <2>4. QED BY <1>3, <1>5, <2>1, <2>2, <2>3 DEF NextNo
<1>9. ASSUME m = F[1].left + 1
      PROVE  (G = << >> \/ G[1].head) /\ NextNo(G, n) = NextNo(F, n) + 1
  <2>1. m = e
    BY <1>3, <1>9
  <2>2. CASE G = << >>
    <3>1. e = Len(F) /\ F[Len(F)].no = n
      BY <1>0, <2>1, <2>2 DEF Shape
    <3>2. n = F[1].no
      BY <1>3, <3>1
    <3>3. QED BY <1>5, <2>2, <3>2 DEF NextNo
  <2>3. CASE G # << >>
    <3>1. e < Len(F) /\ G[1] = F[e + 1]
      BY <1>0, <1>6, <2>1, <2>3
    <3>2. G[1].head /\ G[1].no = F[1].no + 1
      BY <1>1, <3>1 DEF EndsAt
    <3>3. QED BY <1>5, <2>3, <3>2 DEF NextNo
  <2>4. QED BY <2>2, <2>3
<1>10. QED BY <1>2, <1>4, <1>5, <1>7, <1>8, <1>9

-----------------------------------------------------------------------------
\* slotStartRead

\* The bytes that are read next, once the length has been read.
Following == Rest \o wire

\* The bytes behind the block.
Beyond == SubSeq(Rest, Taken + 1, Len(Rest)) \o wire

\* Reading the length, where it has not been read, keeps the stream and the
\* length in step.
LEMMA HeaderRead ==
    ASSUME IInv
    PROVE  /\ Rest \in Seq(Cell) /\ Following \in Seq(Cell) /\ Length \in Nat
           /\ Shape(Following, frames)
           /\ Matches(Following, Length, torn)
           /\ NextNo(Flow, frames) \in Nat /\ NextNo(Following, frames) \in Nat
           /\ NextNo(Flow, frames) <= NextNo(Following, frames)
           /\ ~torn => NextNo(Flow, frames) = NextNo(Following, frames)
<1> USE DEF IInv
<1>1. buffer \in Seq(Cell) /\ wire \in Seq(Cell) /\ Flow \in Seq(Cell) /\ frames \in Nat /\ blockSize \in Nat
  BY DEF FramingTypes, Flow
<1>2. CASE ~(blockSize = 0 /\ buffer # << >>)
  <2>1. Rest = buffer /\ Following = Flow
    BY <1>2 DEF Rest, Following, Flow
  <2>2. Length = blockSize
    <3>1. CASE blockSize # 0
      BY <3>1 DEF Length
    <3>2. CASE blockSize = 0 /\ buffer = << >>
      BY <3>2 DEF Length
    <3>3. QED BY <1>2, <3>1, <3>2
  <2>3. NextNo(Flow, frames) \in Nat
    <3>1. CASE Flow = << >>
      BY <1>1, <3>1 DEF NextNo
    <3>2. CASE Flow # << >>
      BY <1>1, <3>2, CellParts DEF NextNo
    <3>3. QED BY <3>1, <3>2
  <2>4. QED BY <1>1, <2>1, <2>2, <2>3 DEF InStep
<1>3. CASE blockSize = 0 /\ buffer # << >>
  <2>1. Rest = Tail(buffer) /\ Rest \in Seq(Cell) /\ Following \in Seq(Cell)
    BY <1>1, <1>3 DEF Rest, Following
  <2>2. Len(buffer) \in Nat /\ Len(buffer) >= 1 /\ Len(Rest) = Len(buffer) - 1
    BY <1>1, <1>3, <2>1
  <2>3. Rests(Following, Flow, 1)
    <3>1. Rests(Rest, buffer, 1)
      BY <1>1, <1>3, <2>1, RestsTail
    <3>2. 1 \in 0 .. Len(buffer)
      BY <2>2
    <3>3. QED BY <1>1, <2>1, <3>1, <3>2, RestsConcat DEF Following, Flow
  <2>4. 1 \in 1 .. Len(Flow) /\ Flow # << >> /\ Flow[1] = Head(buffer) /\ Flow[1] \in Cell
    BY <1>1, <2>2 DEF Flow
  <2>5. Flow[1].left \in Nat /\ Flow[1].no \in Nat /\ 1 <= Flow[1].left + 1
    BY <2>4, CellParts
  <2>6. /\ Shape(Following, frames)
        /\ NextNo(Flow, frames) \in Nat /\ NextNo(Following, frames) \in Nat
        /\ 1 <= Flow[1].left =>
              /\ Following # << >> /\ ~Following[1].head /\ Following[1].left = Flow[1].left - 1
              /\ NextNo(Following, frames) = NextNo(Flow, frames)
        /\ 1 = Flow[1].left + 1 => NextNo(Following, frames) = NextNo(Flow, frames) + 1
    BY <1>1, <2>1, <2>3, <2>4, <2>5, Cut
  <2>7. NextNo(Flow, frames) <= NextNo(Following, frames)
    BY <2>5, <2>6
  <2>8. CASE Flow[1].head
    <3>1. Length = Flow[1].left
      BY <1>3, <2>4, <2>8 DEF Length
    <3>2. Flow[1].left >= 2
      <4>1. PICK e \in 1 .. Len(Flow) : EndsAt(Flow, frames, 1, e)
        BY <2>4 DEF Shape
      <4>2. QED BY <2>4, <2>8, <4>1 DEF EndsAt
    <3>3. QED BY <2>1, <2>5, <2>6, <2>7, <3>1, <3>2 DEF Matches
  <2>9. CASE ~Flow[1].head
    <3>1. Length = Huge
      BY <1>3, <2>4, <2>9 DEF Length
    <3>2. torn
      BY <1>3, <2>4, <2>9 DEF InStep, Matches
    <3>3. QED BY <2>1, <2>6, <2>7, <3>1, <3>2 DEF Matches, Huge
  <2>10. QED BY <2>8, <2>9
<1>4. QED BY <1>2, <1>3

\* A block that is complete holds the whole rest of the frame that is read; a
\* header is only met in its place after a connection was torn.
LEMMA Block ==
    ASSUME IInv, Complete
    PROVE  /\ Following # << >> /\ Following[1] = Head(Rest) /\ Following[1] \in Cell
           /\ Taken \in 1 .. Len(Rest) /\ Taken <= Following[1].left + 1
           /\ ~Head(Rest).head => Taken = Following[1].left + 1
           /\ Head(Rest).head => torn
           /\ SubSeq(Rest, Taken + 1, Len(Rest)) \in Seq(Cell)
           /\ Beyond \in Seq(Cell) /\ Rests(Beyond, Following, Taken)
<1>1. /\ Rest \in Seq(Cell) /\ Following \in Seq(Cell) /\ Length \in Nat
      /\ Matches(Following, Length, torn)
  BY HeaderRead
<1>2. wire \in Seq(Cell)
  BY DEF IInv, FramingTypes
<1>3. Len(Rest) \in Nat /\ Length # 0 /\ Len(Rest) >= Length /\ Len(Rest) >= 1 /\ Rest # << >>
  BY <1>1 DEF Complete
<1>4. Following # << >> /\ Following[1] = Head(Rest) /\ Following[1] \in Cell
  BY <1>1, <1>2, <1>3 DEF Following
<1>5. PICK a \in Nat : a = Following[1].left /\ a <= 1000
  BY <1>4, CellParts
<1>6. Taken = IF a + 1 <= Len(Rest) THEN a + 1 ELSE Len(Rest)
  BY <1>4, <1>5 DEF Taken
<1>7. Taken \in 1 .. Len(Rest) /\ Taken <= a + 1
  BY <1>3, <1>5, <1>6
<1>8. ASSUME ~Head(Rest).head
      PROVE  Taken = a + 1
  <2>1. a = Length - 1 \/ Length = Huge
    BY <1>1, <1>3, <1>4, <1>5, <1>8 DEF Matches
  <2>2. a + 1 <= Len(Rest)
    BY <1>1, <1>3, <1>5, <2>1 DEF Huge
  <2>3. QED BY <1>6, <2>2
<1>9. ASSUME Head(Rest).head
      PROVE  torn
  BY <1>1, <1>3, <1>4, <1>9 DEF Matches, IInv, FramingTypes
<1>10. SubSeq(Rest, Taken + 1, Len(Rest)) \in Seq(Cell) /\ Rests(SubSeq(Rest, Taken + 1, Len(Rest)), Rest, Taken)
  <2>1. PICK t \in 0 .. Len(Rest) : t = Taken
    BY <1>3, <1>7
  <2>2. SubSeq(Rest, t + 1, Len(Rest)) \in Seq(Cell) /\ Rests(SubSeq(Rest, t + 1, Len(Rest)), Rest, t)
    BY <1>1, RestsSubSeq
  <2>3. QED BY <2>1, <2>2
<1>11. Beyond \in Seq(Cell) /\ Rests(Beyond, Following, Taken)
  <2>1. Taken \in 0 .. Len(Rest)
    BY <1>3, <1>7
  <2>2. Beyond \in Seq(Cell)
    BY <1>2, <1>10 DEF Beyond
  <2>3. Rests(Beyond, Following, Taken)
    BY <1>1, <1>2, <1>10, <2>1, RestsConcat DEF Following, Beyond
  <2>4. QED BY <2>2, <2>3
<1>12. QED BY <1>4, <1>5, <1>7, <1>8, <1>9, <1>10, <1>11

\* What a block leaves behind it.
LEMMA BlockTaken ==
    ASSUME IInv, Complete
    PROVE  /\ Beyond \in Seq(Cell) /\ Shape(Beyond, frames) /\ NextNo(Beyond, frames) \in Nat
           /\ NextNo(Following, frames) = Head(Rest).no /\ Head(Rest).no \in Nat
           /\ NextNo(Following, frames) <= NextNo(Beyond, frames)
           /\ ~Head(Rest).head =>
                 (Beyond = << >> \/ Beyond[1].head) /\ NextNo(Beyond, frames) = NextNo(Following, frames) + 1
<1>1. Following \in Seq(Cell) /\ Shape(Following, frames) /\ Rest \in Seq(Cell)
  BY HeaderRead
<1>2. /\ Following # << >> /\ Following[1] = Head(Rest) /\ Following[1] \in Cell
      /\ Taken \in 1 .. Len(Rest) /\ Taken <= Following[1].left + 1
      /\ ~Head(Rest).head => Taken = Following[1].left + 1
      /\ Beyond \in Seq(Cell) /\ Rests(Beyond, Following, Taken)
  BY Block
<1>3. wire \in Seq(Cell) /\ frames \in Nat
  BY DEF IInv, FramingTypes
<1>4. Beyond \in Seq(Cell)
  BY <1>2
<1>5. Taken \in 1 .. Len(Following)
  BY <1>1, <1>2, <1>3 DEF Following
<1>6. Following[1].left \in Nat /\ Following[1].no \in Nat
  BY <1>2, CellParts
<1>7. /\ Shape(Beyond, frames) /\ NextNo(Following, frames) \in Nat /\ NextNo(Beyond, frames) \in Nat
      /\ Taken <= Following[1].left => NextNo(Beyond, frames) = NextNo(Following, frames)
      /\ Taken = Following[1].left + 1 =>
            (Beyond = << >> \/ Beyond[1].head) /\ NextNo(Beyond, frames) = NextNo(Following, frames) + 1
  BY <1>1, <1>2, <1>3, <1>4, <1>5, Cut
<1>8. NextNo(Following, frames) <= NextNo(Beyond, frames)
  <2>1. Taken <= Following[1].left \/ Taken = Following[1].left + 1
    <3>1. Taken \in Nat
      BY <1>1, <1>5
    <3>2. QED BY <1>2, <1>6, <3>1
  <2>2. QED BY <1>7, <2>1
<1>9. QED BY <1>2, <1>4, <1>6, <1>7, <1>8 DEF NextNo

LEMMA WaitsStep ==
    ASSUME IInv, Waits, UNCHANGED <<wire, frames, first, breaks, torn>>
    PROVE  IInv'
<1>1. /\ Rest \in Seq(Cell) /\ Following \in Seq(Cell) /\ Length \in Nat
      /\ Shape(Following, frames)
      /\ Matches(Following, Length, torn)
      /\ NextNo(Flow, frames) \in Nat /\ NextNo(Following, frames) \in Nat
      /\ NextNo(Flow, frames) <= NextNo(Following, frames)
      /\ ~torn => NextNo(Flow, frames) = NextNo(Following, frames)
  BY HeaderRead
<1>2. Flow' = Following /\ blockSize' = Length /\ buffer' = Rest /\ handled' = handled
  BY DEF Waits, Flow, Following
<1>3. FramingTypes'
  BY <1>1, <1>2 DEF IInv, FramingTypes
<1>4. Shape(Flow, frames)'
  <2>1. Shape(Flow', frames')
    BY <1>1, <1>2
  <2>2. QED BY <2>1 DEF Shape, EndsAt
<1>5. InStep'
  BY <1>1, <1>2 DEF InStep, Matches
<1>6. Behind'
  <2>1. /\ handled \in Seq(Nat) /\ first <= frames + 1
        /\ \A i \in 1 .. Len(handled) : handled[i] \in Nat /\ handled[i] < NextNo(Flow, frames)
        /\ ~torn => \/ NextNo(Flow, frames) = first
                    \/ handled # << >> /\ handled[Len(handled)] = NextNo(Flow, frames) - 1
    BY DEF IInv, FramingTypes, Behind
  <2>2. NextNo(Flow, frames)' = NextNo(Following, frames)
    BY <1>2 DEF NextNo
  <2>3. \A i \in 1 .. Len(handled) : handled[i] < NextNo(Following, frames)
    BY <1>1, <2>1
  <2>4. QED BY <1>1, <1>2, <2>1, <2>2, <2>3 DEF Behind
<1>7. HandledAsSent'
  BY <1>2 DEF IInv, HandledAsSent, InOrderOnce, NoGap
<1>8. QED BY <1>3, <1>4, <1>5, <1>6, <1>7 DEF IInv

\* The frame that is handled is the next one.
LEMMA HandlesStep ==
    ASSUME IInv, Handles, UNCHANGED <<wire, frames, first, breaks, torn>>
    PROVE  IInv'
<1>0. Complete /\ ~Head(Rest).head
  BY DEF Handles
<1>1. /\ NextNo(Flow, frames) \in Nat
      /\ NextNo(Flow, frames) <= NextNo(Following, frames)
      /\ ~torn => NextNo(Flow, frames) = NextNo(Following, frames)
  BY HeaderRead
<1>2. /\ Beyond \in Seq(Cell) /\ Shape(Beyond, frames)
      /\ NextNo(Following, frames) = Head(Rest).no /\ Head(Rest).no \in Nat
      /\ Beyond = << >> \/ Beyond[1].head
      /\ NextNo(Beyond, frames) = Head(Rest).no + 1
  BY <1>0, BlockTaken
<1>3. SubSeq(Rest, Taken + 1, Len(Rest)) \in Seq(Cell)
  BY <1>0, Block
<1>4. PICK p \in Nat : p = Head(Rest).no
  BY <1>2
<1>5. /\ Flow' = Beyond /\ blockSize' = 0 /\ buffer' = SubSeq(Rest, Taken + 1, Len(Rest))
      /\ handled' = Append(handled, p)
  BY <1>4 DEF Handles, Flow, Beyond
<1>6. /\ handled \in Seq(Nat) /\ first \in Nat /\ frames \in Nat /\ first <= frames + 1
      /\ \A i \in 1 .. Len(handled) : handled[i] \in Nat /\ handled[i] < NextNo(Flow, frames)
      /\ ~torn => \/ NextNo(Flow, frames) = first
                  \/ handled # << >> /\ handled[Len(handled)] = NextNo(Flow, frames) - 1
  BY DEF IInv, FramingTypes, Behind
<1>7. PICK l \in Nat : l = Len(handled)
  BY <1>6
<1>8. /\ handled' \in Seq(Nat) /\ Len(handled') = l + 1
      /\ \A i \in 1 .. l : handled'[i] = handled[i] /\ handled[i] \in Nat /\ handled[i] < p
      /\ handled'[l + 1] = p
  <2>1. /\ handled' \in Seq(Nat) /\ Len(handled') = l + 1 /\ handled'[l + 1] = p
        /\ \A i \in 1 .. l : handled'[i] = handled[i]
    BY <1>5, <1>6, <1>7
  <2>2. \A i \in 1 .. l : handled[i] \in Nat /\ handled[i] < p
    BY <1>1, <1>2, <1>4, <1>6, <1>7
  <2>3. QED BY <2>1, <2>2
<1>9. FramingTypes'
  BY <1>3, <1>5, <1>8 DEF IInv, FramingTypes
<1>10. Shape(Flow, frames)'
  <2>1. Shape(Flow', frames')
    BY <1>2, <1>5
  <2>2. QED BY <2>1 DEF Shape, EndsAt
<1>11. InStep'
  BY <1>2, <1>5 DEF InStep, Matches
<1>12. Behind'
  <2>1. NextNo(Flow, frames)' = p + 1
    BY <1>2, <1>4, <1>5 DEF NextNo
  <2>2. \A i \in 1 .. Len(handled') : handled'[i] < p + 1
    BY <1>8
  <2>3. handled' # << >> /\ handled'[Len(handled')] = (p + 1) - 1
    BY <1>8
  <2>4. QED BY <1>6, <2>1, <2>2, <2>3 DEF Behind
<1>13. InOrderOnce'
  <2>1. SUFFICES ASSUME NEW i \in 1 .. l + 1, NEW j \in 1 .. l + 1, i < j
                 PROVE  handled'[i] < handled'[j]
    BY <1>8 DEF InOrderOnce
  <2>2. CASE j = l + 1
    BY <1>8, <2>1, <2>2
  <2>3. CASE j \in 1 .. l
    <3>1. i \in 1 .. l
      BY <2>1, <2>3
    <3>2. handled[i] < handled[j]
      BY <1>7, <2>1, <2>3, <3>1 DEF IInv, HandledAsSent, InOrderOnce
    <3>3. QED BY <1>8, <2>3, <3>1, <3>2
  <2>4. QED BY <2>2, <2>3
<1>14. ASSUME ~torn'
       PROVE  NoGap'
  <2>0. ~torn
    BY <1>14
  <2>1. SUFFICES ASSUME NEW i \in 1 .. l + 1, handled'[i] > first
                 PROVE  i > 1 /\ handled'[i - 1] = handled'[i] - 1
    BY <1>8 DEF NoGap
  <2>2. CASE i = l + 1
    <3>1. NextNo(Flow, frames) = p
      BY <1>1, <1>2, <1>4, <2>0
    <3>2. p # first
      BY <1>4, <1>6, <1>8, <2>1, <2>2
    <3>3. handled # << >> /\ handled[l] = p - 1
      BY <1>6, <1>7, <2>0, <3>1, <3>2
    <3>4. l > 0
      BY <1>6, <1>7, <3>3
    <3>5. l \in 1 .. l /\ i - 1 = l
      BY <2>2, <3>4
    <3>6. QED BY <1>8, <2>2, <3>3, <3>4, <3>5
  <2>3. CASE i \in 1 .. l
    <3>1. handled[i] > first
      BY <1>8, <2>1, <2>3
    <3>2. i > 1 /\ handled[i - 1] = handled[i] - 1
      BY <1>7, <2>0, <2>3, <3>1 DEF IInv, HandledAsSent, NoGap
    <3>3. i - 1 \in 1 .. l
      BY <2>3, <3>2
    <3>4. QED BY <1>8, <2>3, <3>2, <3>3
  <2>4. QED BY <2>2, <2>3
<1>15. QED BY <1>9, <1>10, <1>11, <1>12, <1>13, <1>14 DEF IInv, HandledAsSent

\* Nothing is handled, and nothing comes back.
LEMMA MisreadsStep ==
    ASSUME IInv, Misreads, UNCHANGED <<wire, frames, first, breaks, torn>>
    PROVE  IInv'
<1>0. Complete /\ Head(Rest).head
  BY DEF Misreads
<1>1. /\ NextNo(Flow, frames) \in Nat /\ NextNo(Following, frames) \in Nat
      /\ NextNo(Flow, frames) <= NextNo(Following, frames)
  BY HeaderRead
<1>2. /\ Beyond \in Seq(Cell) /\ Shape(Beyond, frames) /\ NextNo(Beyond, frames) \in Nat
      /\ NextNo(Following, frames) <= NextNo(Beyond, frames)
  BY <1>0, BlockTaken
<1>3. SubSeq(Rest, Taken + 1, Len(Rest)) \in Seq(Cell) /\ torn
  BY <1>0, Block
<1>4. /\ Flow' = Beyond /\ blockSize' = 0 /\ buffer' = SubSeq(Rest, Taken + 1, Len(Rest))
      /\ handled' = handled
  BY DEF Misreads, Flow, Beyond
<1>5. FramingTypes'
  BY <1>3, <1>4 DEF IInv, FramingTypes
<1>6. Shape(Flow, frames)'
  <2>1. Shape(Flow', frames')
    BY <1>2, <1>4
  <2>2. QED BY <2>1 DEF Shape, EndsAt
<1>7. InStep'
  BY <1>3, <1>4 DEF InStep, Matches
<1>8. Behind'
  <2>1. /\ first <= frames + 1
        /\ \A i \in 1 .. Len(handled) : handled[i] \in Nat /\ handled[i] < NextNo(Flow, frames)
    BY DEF IInv, FramingTypes, Behind
  <2>2. NextNo(Flow, frames)' = NextNo(Beyond, frames)
    BY <1>4 DEF NextNo
  <2>3. \A i \in 1 .. Len(handled) : handled[i] < NextNo(Beyond, frames)
    BY <1>1, <1>2, <2>1
  <2>4. QED BY <1>3, <1>4, <2>1, <2>2, <2>3 DEF Behind
<1>9. HandledAsSent'
  BY <1>3, <1>4 DEF IInv, HandledAsSent, InOrderOnce
<1>10. QED BY <1>5, <1>6, <1>7, <1>8, <1>9 DEF IInv

-----------------------------------------------------------------------------
\* The other steps

\* A step that keeps the stream and the rest keeps the invariant.
LEMMA ArriveStep ==
    ASSUME IInv, NEW n \in 1 .. Len(wire), Arrive(n)
    PROVE  IInv'
<1>1. buffer \in Seq(Cell) /\ wire \in Seq(Cell) /\ Len(wire) \in Nat
  BY DEF IInv, FramingTypes
<1>2. /\ SubSeq(wire, 1, n) \in Seq(Cell) /\ SubSeq(wire, n + 1, Len(wire)) \in Seq(Cell)
      /\ SubSeq(wire, 1, n) \o SubSeq(wire, n + 1, Len(wire)) = wire
  <2>1. SubSeq(wire, 1, n) \in Seq(Cell) /\ SubSeq(wire, n + 1, Len(wire)) \in Seq(Cell)
    BY <1>1
  <2>2. SubSeq(wire, 1, n) \o SubSeq(wire, n + 1, Len(wire)) = SubSeq(wire, 1, Len(wire))
    <3>1. 1 \in 1 .. Len(wire) + 1 /\ n \in 1 - 1 .. Len(wire) /\ Len(wire) \in n .. Len(wire)
      BY <1>1
    <3>2. QED BY <1>1, <3>1, ConcatAdjacentSubSeq
  <2>3. SubSeq(wire, 1, Len(wire)) = wire
    BY <1>1, SubSeqFull
  <2>4. QED BY <2>1, <2>2, <2>3
<1>3. buffer' \in Seq(Cell) /\ wire' \in Seq(Cell)
  BY <1>1, <1>2 DEF Arrive
<1>4. Flow' = Flow
  <2>1. Flow' = (buffer \o SubSeq(wire, 1, n)) \o SubSeq(wire, n + 1, Len(wire))
    BY DEF Arrive, Flow
  <2>2. Flow' = buffer \o (SubSeq(wire, 1, n) \o SubSeq(wire, n + 1, Len(wire)))
    <3>1. \A a, b \in Seq(Cell) : (buffer \o a) \o b = buffer \o (a \o b)
      BY <1>1, ConcatAssociative
    <3>2. QED BY <1>2, <2>1, <3>1
  <2>3. QED BY <1>2, <2>2 DEF Flow
<1>5. UNCHANGED <<blockSize, early, handled, frames, first, breaks, torn>>
  BY DEF Arrive
<1>6. FramingTypes'
  BY <1>3, <1>5 DEF IInv, FramingTypes
<1>7. Shape(Flow, frames)' /\ InStep' /\ Behind'
  BY <1>4, <1>5 DEF IInv, Shape, EndsAt, InStep, Matches, Behind, NextNo
<1>8. HandledAsSent'
  BY <1>5 DEF IInv, HandledAsSent, InOrderOnce, NoGap
<1>9. QED BY <1>6, <1>7, <1>8 DEF IInv

LEMMA SendStep ==
    ASSUME IInv, NEW size \in Nat, 2 <= size, size <= 1000, NEW returns \in BOOLEAN, sendRequest(size, returns)
    PROVE  IInv'
<1> DEFINE N == Frame(frames + 1, size, returns)
<1>1. /\ buffer \in Seq(Cell) /\ wire \in Seq(Cell) /\ Flow \in Seq(Cell) /\ frames \in Nat
      /\ frames + 1 \in Nat
  BY DEF IInv, FramingTypes, Flow
<1>2. N \in Seq(Cell) /\ Len(N) = size + 1
  BY <1>1, FrameType
<1>a. IsFrame(N, frames + 1, size)
  <2>1. ASSUME NEW k \in 1 .. size + 1
        PROVE  N[k].no = frames + 1 /\ N[k].left = size + 1 - k /\ N[k].head = (k = 1)
    <3>1. N[k] = [no |-> frames + 1, head |-> (k = 1), left |-> size + 1 - k, early |-> returns]
      BY DEF Frame
    <3>2. QED BY <3>1
  <2>2. \A k \in 1 .. size + 1 :
          N[k].no = frames + 1 /\ N[k].left = size + 1 - k /\ (N[k].head <=> k = 1)
    BY <2>1
  <2> HIDE DEF N
  <2>3. QED BY <1>2, <2>2 DEF IsFrame
<1>3. N[1].head /\ N[1].no = frames + 1
  <2>1. 1 \in 1 .. size + 1
    OBVIOUS
  <2>2. QED BY <1>a, <2>1 DEF IsFrame
<1>4. Shape(Flow \o N, frames + 1)
  <2>1. Shape(Flow, frames)
    BY DEF IInv
  <2> HIDE DEF N
  <2>2. PICK m \in Nat : m = frames + 1
    BY <1>1
  <2>3. IsFrame(N, m, size)
    BY <1>a, <2>2
  <2>4. Shape(Flow \o N, m)
    BY <1>1, <1>2, <2>1, <2>2, <2>3, ShapeAppend
  <2>5. QED BY <2>2, <2>4
<1>5. /\ wire' = wire \o N /\ frames' = frames + 1
      /\ UNCHANGED <<buffer, blockSize, reading, early, handled, first, breaks, torn>>
  BY DEF sendRequest
<1> HIDE DEF N
<1>6. Flow' = Flow \o N /\ wire' \in Seq(Cell)
  BY <1>1, <1>2, <1>5, ConcatAssociative DEF Flow
<1>7. Flow' # << >> /\ Flow'[1] = IF Flow = << >> THEN N[1] ELSE Flow[1]
  BY <1>1, <1>2, <1>6
<1>8. FramingTypes'
  BY <1>1, <1>5, <1>6 DEF IInv, FramingTypes
<1>9. Shape(Flow, frames)'
  <2>1. Shape(Flow', frames')
    BY <1>4, <1>5, <1>6
  <2>2. QED BY <2>1 DEF Shape, EndsAt
<1>10. InStep'
  BY <1>3, <1>5, <1>7 DEF IInv, InStep, Matches
<1>11. Behind'
  <2>1. NextNo(Flow, frames)' = NextNo(Flow, frames)
    BY <1>3, <1>5, <1>7 DEF NextNo
  <2>2. (first <= frames + 1)'
    BY <1>1, <1>5 DEF IInv, Behind, FramingTypes
  <2>3. QED BY <1>5, <2>1, <2>2 DEF IInv, Behind
<1>12. HandledAsSent'
  BY <1>5 DEF IInv, HandledAsSent, InOrderOnce, NoGap
<1>13. QED BY <1>8, <1>9, <1>10, <1>11, <1>12 DEF IInv

LEMMA BreakStep ==
    ASSUME IInv, makeFastConnection
    PROVE  IInv'
<1>1. /\ wire' = << >> /\ buffer' = << >> /\ first' = frames + 1 /\ torn' = (torn \/ blockSize # 0)
      /\ UNCHANGED <<blockSize, handled, frames>>
  BY DEF makeFastConnection
<1>2. Flow' = << >>
  BY <1>1 DEF Flow
<1>3. /\ handled \in Seq(Nat) /\ frames \in Nat /\ Flow \in Seq(Cell)
      /\ \A i \in 1 .. Len(handled) : handled[i] \in Nat /\ handled[i] < NextNo(Flow, frames)
  BY DEF IInv, FramingTypes, Behind, Flow
<1>4. NextNo(Flow, frames) \in Nat /\ NextNo(Flow, frames) <= frames + 1
  <2>1. CASE Flow = << >>
    BY <1>3, <2>1 DEF NextNo
  <2>2. CASE Flow # << >>
    <3>1. 1 \in 1 .. Len(Flow) /\ Flow[1] \in Cell
      BY <1>3, <2>2
    <3>2. PICK e \in 1 .. Len(Flow) : EndsAt(Flow, frames, 1, e)
      BY <3>1 DEF IInv, Shape
    <3>3. Flow[1].no <= frames /\ Flow[1].no \in Nat
      BY <3>1, <3>2, CellParts DEF EndsAt
    <3>4. QED BY <1>3, <2>2, <3>3 DEF NextNo
  <2>3. QED BY <2>1, <2>2
<1>5. \A i \in 1 .. Len(handled) : handled[i] \in Nat /\ handled[i] < frames + 1
  BY <1>3, <1>4
<1>6. FramingTypes'
  BY <1>1 DEF IInv, FramingTypes
<1>7. Shape(Flow, frames)'
  BY <1>2 DEF Shape
<1>8. InStep'
  BY <1>1, <1>2 DEF InStep, Matches
<1>9. Behind'
  <2>1. NextNo(Flow, frames)' = frames + 1
    BY <1>1, <1>2 DEF NextNo
  <2>2. QED BY <1>1, <1>3, <1>5, <2>1 DEF Behind
<1>10. HandledAsSent'
  <2>1. InOrderOnce'
    BY <1>1 DEF IInv, HandledAsSent, InOrderOnce
  <2>2. \A i \in 1 .. Len(handled) : ~(handled[i] > frames + 1)
    BY <1>3, <1>5
  <2>3. NoGap'
    BY <1>1, <2>2 DEF NoGap
  <2>4. QED BY <2>1, <2>3 DEF HandledAsSent
<1>11. QED BY <1>6, <1>7, <1>8, <1>9, <1>10 DEF IInv

-----------------------------------------------------------------------------
\* The stream stays a row of frames in step with the length that has been
\* read, and what is handled lies before it.
THEOREM FramingInvariant == Spec => []IInv
<1>1. Init => IInv
  <2> SUFFICES ASSUME Init PROVE IInv
    OBVIOUS
  <2>1. Flow = << >>
    BY DEF Init, Flow
  <2>2. FramingTypes
    <3>1. << >> \in Seq(Cell) /\ << >> \in Seq(Nat)
      OBVIOUS
    <3>2. buffer \in Seq(Cell) /\ wire \in Seq(Cell) /\ handled \in Seq(Nat)
      BY <3>1 DEF Init
    <3>3. blockSize \in Nat /\ frames \in Nat /\ first \in Nat \ {0}
      BY DEF Init
    <3>4. torn \in BOOLEAN
      BY DEF Init
    <3>5. QED BY <3>2, <3>3, <3>4 DEF FramingTypes
  <2>3. Shape(Flow, frames)
    BY <2>1 DEF Shape
  <2>4. InStep /\ Behind
    BY <2>1 DEF Init, InStep, Matches, Behind, NextNo
  <2>5. HandledAsSent
    BY DEF Init, HandledAsSent, InOrderOnce, NoGap
  <2>6. QED BY <2>2, <2>3, <2>4, <2>5 DEF IInv
<1>2. IInv /\ [Next]_vars => IInv'
  <2> SUFFICES ASSUME IInv, [Next]_vars PROVE IInv'
    OBVIOUS
  <2>1. ASSUME NEW size \in BodySizes, NEW returns \in BOOLEAN, sendRequest(size, returns)
        PROVE  IInv'
    <3>1. size \in Nat /\ 2 <= size /\ size <= 1000
      BY FramingAssumption
    <3>2. QED BY <2>1, <3>1, SendStep
  <2>2. ASSUME NEW n \in 1 .. Len(wire), Arrive(n)
        PROVE  IInv'
    BY <2>2, ArriveStep
  <2>3. CASE slotStartRead
    BY <2>3, WaitsStep, HandlesStep, MisreadsStep DEF slotStartRead
  <2>4. CASE makeFastConnection
    BY <2>4, BreakStep
  <2>5. CASE UNCHANGED vars
    <3>1. Flow' = Flow
      BY <2>5 DEF vars, Flow
    <3>2. FramingTypes' /\ HandledAsSent'
      BY <2>5 DEF vars, IInv, FramingTypes, HandledAsSent, InOrderOnce, NoGap
    <3>3. Shape(Flow, frames)' /\ InStep' /\ Behind'
      BY <2>5, <3>1 DEF vars, IInv, Shape, EndsAt, InStep, Matches, Behind, NextNo
    <3>4. QED BY <3>2, <3>3 DEF IInv
  <2>6. QED BY <2>1, <2>2, <2>3, <2>4, <2>5 DEF Next
<1>3. QED BY <1>1, <1>2, PTL DEF Spec

\* However the bytes are cut into pieces, whatever the bodies' sizes, whichever
\* commands return early and however often connections break, slotStartRead
\* handles commands in the order sendRequest sent them, each at most once, and
\* skips none within a connection unless one broke in the middle of a frame.
THEOREM FramingHandledAsSent == Spec => []HandledAsSent
<1>1. IInv => HandledAsSent
  BY DEF IInv
<1>2. QED BY <1>1, FramingInvariant, PTL
=============================================================================
