------------------------ MODULE StructOfArraysProofs ------------------------
(***************************************************************************)
(* What StructOfArrays.tla promises, proved for every list of blocks,      *)
(* number of elements, alignment, buffer and view: where columns are       *)
(* placed, what deepCopy copies, and that accesses through views are       *)
(* accesses to tables with independent cells.                              *)
(*                                                                         *)
(* The client sums the bytes of the columns before the constructor places  *)
(* them, so the invariant speaks of a table of offsets o[s][b][c] that     *)
(* both loops follow: the first makes it, the second walks along it.  What *)
(* must hold of all pairs of columns is collected while the sum is formed, *)
(* one column at a time.                                                   *)
(***************************************************************************)
EXTENDS StructOfArrays, TLAPS

-----------------------------------------------------------------------------
(* Integer division.                                                        *)

(* What div and % are.                                                      *)
LEMMA Division ==
    ASSUME NEW a \in Nat, NEW d \in Nat \ {0}
    PROVE  /\ a \div d \in Nat /\ a % d \in 0 .. d - 1
           /\ a = d * (a \div d) + (a % d)
  OBVIOUS

(* A product is a multiple.                                                 *)
LEMMA Multiple ==
    ASSUME NEW q \in Nat, NEW d \in Nat \ {0}
    PROVE  (q * d) % d = 0
  OBVIOUS

(* A multiple is a product.                                                 *)
LEMMA Factor ==
    ASSUME NEW a \in Nat, NEW d \in Nat \ {0}, a % d = 0
    PROVE  \E q \in Nat : a = q * d
  <1> WITNESS a \div d \in Nat
  <1> QED BY Division

(* Sums and products of aligned numbers are aligned.                        *)
LEMMA MultipleSum ==
    ASSUME NEW a \in Nat, NEW b \in Nat, NEW d \in Nat \ {0}, a % d = 0, b % d = 0
    PROVE  (a + b) % d = 0
  <1>1. PICK q \in Nat : a = q * d BY Factor
  <1>2. PICK r \in Nat : b = r * d BY Factor
  <1>3. a + b = (q + r) * d BY <1>1, <1>2
  <1>4. ((q + r) * d) % d = 0 BY Multiple
  <1> QED BY <1>3, <1>4

LEMMA MultipleProduct ==
    ASSUME NEW a \in Nat, NEW k \in Nat, NEW d \in Nat \ {0}, a % d = 0
    PROVE  (a * k) % d = 0
  <1>1. PICK q \in Nat : a = q * d BY Factor
  <1>2. q * k \in Nat /\ a * k = (q * k) * d BY <1>1
  <1>3. ((q * k) * d) % d = 0 BY <1>2, Multiple
  <1> QED BY <1>2, <1>3

-----------------------------------------------------------------------------
(* The bytes of one column.                                                 *)

(* alignSize rounds up to the alignment.                                    *)
LEMMA AlignSizeRoundsUp ==
    ASSUME NEW n \in Nat
    PROVE  alignSize(n) \in Nat /\ alignSize(n) >= n /\ alignSize(n) % Alignment = 0
  <1> DEFINE q == (n + Alignment - 1) \div Alignment
  <1>1. Alignment \in Nat \ {0} /\ n + Alignment - 1 \in Nat BY AlignmentAssumption
  <1>2. /\ q \in Nat
        /\ (n + Alignment - 1) % Alignment \in 0 .. Alignment - 1
        /\ n + Alignment - 1 = Alignment * q + ((n + Alignment - 1) % Alignment)
    BY <1>1, Division
  <1>3. alignSize(n) = q * Alignment BY DEF alignSize
  <1> HIDE DEF q
  <1>4. q * Alignment \in Nat /\ q * Alignment = Alignment * q BY <1>1, <1>2
  <1>5. q * Alignment >= n
    <2> DEFINE m == q * Alignment
               r == (n + Alignment - 1) % Alignment
    <2>1. n + Alignment - 1 = m + r /\ r \in 0 .. Alignment - 1 /\ m \in Nat BY <1>2, <1>4
    <2> HIDE DEF m, r
    <2>2. m >= n BY <2>1, <1>1
    <2> QED BY <2>2 DEF m
  <1> QED BY <1>1, <1>2, <1>3, <1>4, <1>5, Multiple

(* The bytes from the first to one past the last element of a column.       *)
Extent(col, n) ==
    col.size * (CASE col.kind = "scalar" -> 1
                  [] col.kind = "column" -> n
                  [] col.kind = "eigen"  ->
                         IF n = 0 THEN 0 ELSE (col.comps - 1) * Stride(col, n) + n)

(* The stride of an Eigen column leaves room for the elements, and the      *)
(* components that many strides apart fit in what the column is given.      *)
LEMMA EigenFits ==
    ASSUME NEW size \in Nat \ {0}, NEW comps \in Nat \ {0}, NEW n \in Nat
    PROVE  LET stride == alignSize(n * size) \div size
           IN  /\ stride \in Nat /\ stride >= n
               /\ size * ((comps - 1) * stride + n) <= alignSize(n * size) * comps
               /\ alignSize(n * size) * comps \in Nat
  <1> DEFINE a == alignSize(n * size)
             stride == a \div size
  <1>1. n * size \in Nat OBVIOUS
  <1>2. a \in Nat /\ a >= n * size BY <1>1, AlignSizeRoundsUp
  <1> HIDE DEF a
  <1>3. stride \in Nat /\ a % size \in 0 .. size - 1 /\ a = size * stride + (a % size)
    BY <1>2, Division
  <1> HIDE DEF stride
  <1>4. stride >= n
    <2>1. SUFFICES ASSUME stride <= n - 1 PROVE FALSE BY <1>3
    <2>2. size * stride <= size * (n - 1) BY <2>1, <1>3
    <2>3. size * (n - 1) = n * size - size OBVIOUS
    <2>4. a < n * size
      <3> DEFINE p == size * stride
                 t == n * size
                 r == a % size
      <3>1. p \in Int /\ t \in Int /\ p <= t - size /\ a = p + r /\ r \in 0 .. size - 1
        BY <1>3, <2>2, <2>3
      <3> HIDE DEF p, t, r
      <3>2. a < t BY <3>1
      <3> QED BY <3>2 DEF t
    <2> QED BY <2>4, <1>2
  <1>5. size * ((comps - 1) * stride + n) <= a * comps
    <2>1. size * ((comps - 1) * stride + n) = (comps - 1) * (size * stride) + n * size
      BY <1>3
    <2>2. size * stride <= a BY <1>2, <1>3
    <2>3. (comps - 1) * (size * stride) <= (comps - 1) * a
      <3> DEFINE k == comps - 1
                 p == size * stride
      <3>1. k \in Nat /\ p \in Nat /\ p <= a BY <1>3, <2>2
      <3> HIDE DEF k, p
      <3>2. k * p <= k * a BY <3>1, <1>2
      <3> QED BY <3>2 DEF k, p
    <2>4. (comps - 1) * a + a = a * comps BY <1>2
    <2> DEFINE x == (comps - 1) * (size * stride)
               y == (comps - 1) * a
               z == n * size
               w0 == a * comps
    <2>5. x \in Int /\ y \in Int /\ z \in Int /\ w0 \in Int /\ x <= y /\ y + a = w0 /\ a >= z
      BY <1>2, <1>3, <2>3, <2>4
    <2> HIDE DEF x, y, z, w0
    <2>6. x + z <= w0 BY <2>5, <1>2
    <2> QED BY <2>1, <2>6 DEF x, z, w0
  <1>6. a * comps \in Nat BY <1>2
  <1> QED BY <1>3, <1>4, <1>5, <1>6 DEF a, stride

(* computeDataSize, the constructor and the stream operator, which each     *)
(* spell out the three kinds of columns, give a column the same bytes; they *)
(* are aligned and hold the column.                                         *)
LEMMA ColumnBytes ==
    ASSUME NEW b \in DOMAIN Blocks, NEW c \in DOMAIN Blocks[b], NEW n \in Nat
    PROVE  LET col == Blocks[b][c]
           IN  /\ ComputePitch(col, n) = PlacedBytes(col, n)
               /\ PrintColumn(col, n) = PlacedBytes(col, n)
               /\ PlacedBytes(col, n) \in Nat /\ PlacedBytes(col, n) % Alignment = 0
               /\ Extent(col, n) \in Nat /\ Extent(col, n) <= PlacedBytes(col, n)
               /\ Stride(col, n) \in Nat /\ (col.kind = "eigen" => Stride(col, n) >= n)
               /\ Placed(col, n, 0).padded \in Nat
  <1> DEFINE col == Blocks[b][c]
  <1>1. /\ col.kind \in {"scalar", "column", "eigen"}
        /\ col.size \in Nat \ {0} /\ col.comps \in Nat \ {0}
        /\ col.kind # "eigen" => col.comps = 1
    <2>1. Blocks[b] \in Seq(Column) BY BlocksAssumption
    <2>2. Blocks[b][c] \in Column BY <2>1
    <2>3. Blocks[b][c].kind # "eigen" => Blocks[b][c].comps = 1 BY BlocksAssumption
    <2> QED BY <2>2, <2>3 DEF Column
  <1> HIDE DEF col
  <1>2. Alignment \in Nat \ {0} BY AlignmentAssumption
  <1>3. CASE col.kind = "scalar"
    <2>1. alignSize(col.size) \in Nat /\ alignSize(col.size) >= col.size
          /\ alignSize(col.size) % Alignment = 0 BY <1>1, AlignSizeRoundsUp
    <2>2. ComputePitch(col, n) = alignSize(col.size) /\ PlacedBytes(col, n) = alignSize(col.size)
          /\ PrintColumn(col, n) = alignSize(col.size) /\ Extent(col, n) = col.size * 1
          /\ Stride(col, n) = 0
      BY <1>3 DEF ComputePitch, PlacedBytes, PrintColumn, Extent, Stride
    <2> QED BY <1>1, <1>3, <2>1, <2>2 DEF col, Placed
  <1>4. CASE col.kind = "column"
    <2>0. n * col.size \in Nat /\ col.size * n = n * col.size BY <1>1
    <2>1. alignSize(n * col.size) \in Nat /\ alignSize(n * col.size) >= n * col.size
          /\ alignSize(n * col.size) % Alignment = 0 BY <2>0, AlignSizeRoundsUp
    <2>2. ComputePitch(col, n) = alignSize(n * col.size)
          /\ PlacedBytes(col, n) = alignSize(n * col.size)
          /\ PrintColumn(col, n) = alignSize(col.size * n) * col.comps
          /\ Extent(col, n) = col.size * n /\ Stride(col, n) = 0
      BY <1>4 DEF ComputePitch, PlacedBytes, PrintColumn, Extent, Stride
    <2>3. PrintColumn(col, n) = alignSize(n * col.size)
      BY <1>1, <1>4, <2>0, <2>1, <2>2
    <2> QED BY <1>1, <1>4, <2>0, <2>1, <2>2, <2>3 DEF col, Placed
  <1>5. CASE col.kind = "eigen"
    <2> DEFINE a == alignSize(n * col.size)
    <2>0. n * col.size \in Nat /\ col.size * n = n * col.size BY <1>1
    <2>1. a \in Nat /\ a % Alignment = 0 BY <2>0, AlignSizeRoundsUp
    <2>2. Stride(col, n) \in Nat /\ Stride(col, n) >= n
          /\ col.size * ((col.comps - 1) * Stride(col, n) + n) <= a * col.comps
          /\ a * col.comps \in Nat
      BY <1>1, <1>5, EigenFits DEF Stride
    <2>3. ComputePitch(col, n) = a * col.comps /\ PlacedBytes(col, n) = a * col.comps
      BY <1>5 DEF ComputePitch, PlacedBytes
    <2>4. PrintColumn(col, n) = a * col.comps BY <1>5, <2>0 DEF PrintColumn
    <2>5. (a * col.comps) % Alignment = 0 BY <1>1, <1>2, <2>1, MultipleProduct
    <2>6. Extent(col, n) \in Nat /\ Extent(col, n) <= a * col.comps
      <3>1. CASE n = 0
        <4>1. Extent(col, n) = col.size * 0 BY <1>5, <3>1 DEF Extent
        <4> QED BY <4>1, <1>1, <2>2
      <3>2. CASE n # 0
        <4>1. Extent(col, n) = col.size * ((col.comps - 1) * Stride(col, n) + n)
          BY <1>5, <3>2 DEF Extent
        <4>2. (col.comps - 1) * Stride(col, n) + n \in Nat BY <1>1, <2>2
        <4>3. col.size * ((col.comps - 1) * Stride(col, n) + n) \in Nat BY <1>1, <4>2
        <4> QED BY <4>1, <4>3, <2>2
      <3> QED BY <3>1, <3>2
    <2>7. Stride(col, n) * col.comps \in Nat BY <1>1, <2>2
    <2> HIDE DEF a
    <2> QED BY <1>5, <2>1, <2>2, <2>3, <2>4, <2>5, <2>6, <2>7 DEF col, Placed
  <1> QED BY <1>1, <1>3, <1>4, <1>5
-----------------------------------------------------------------------------
(* The table of offsets.                                                    *)

Last(b) == Len(Blocks[b])
Bytes(b, c, n) == PlacedBytes(Blocks[b][c], n[b])

Before(b, c, g, h) == b < g \/ (b = g /\ c < h)

(* The places a sum that stands at column e of block d has gone through;    *)
(* the place after the last column of a block is one of them.               *)
Reached(g, h, d, e) ==
    /\ g \in DOMAIN Blocks /\ h \in 1 .. Last(g) + 1
    /\ g < d \/ (g = d /\ h <= e)

(* o is a table of offsets for n elements, as far as column e of block d.   *)
Starts(o) == o[1][1] = 0

Aligned(o, d, e) ==
    \A g, h \in Nat : Reached(g, h, d, e) => o[g][h] % Alignment = 0

Adds(o, n, d, e) ==
    \A b \in DOMAIN Blocks : \A c \in DOMAIN Blocks[b] :
        Reached(b, c + 1, d, e) => o[b][c + 1] = o[b][c] + Bytes(b, c, n)

Continues(o, d) ==
    \A b \in DOMAIN Blocks : b + 1 \in DOMAIN Blocks /\ b + 1 <= d => o[b + 1][1] = o[b][Last(b) + 1]

Apart(o, n, d, e) ==
    \A b \in DOMAIN Blocks : \A c \in DOMAIN Blocks[b] : \A g, h \in Nat :
        Reached(g, h, d, e) /\ Before(b, c, g, h) => o[b][c] + Bytes(b, c, n) <= o[g][h]

Offsets(o, n, d, e) ==
    /\ Starts(o) /\ Continues(o, d)
    /\ Aligned(o, d, e) /\ Adds(o, n, d, e) /\ Apart(o, n, d, e)

Whole(o, n) == Offsets(o, n, Len(Blocks), Last(Len(Blocks)) + 1)

Tables == [Nat -> [Nat -> Nat]]
Sizes  == [DOMAIN Blocks -> Nat]

With(o, d, e, x) == [g \in Nat |-> [h \in Nat |-> IF g = d /\ h = e THEN x ELSE o[g][h]]]

(* The blocks and their columns are numbered from 1.                        *)
LEMMA Numbers ==
    /\ Len(Blocks) \in Nat \ {0} /\ DOMAIN Blocks = 1 .. Len(Blocks)
    /\ \A b \in DOMAIN Blocks : Last(b) \in Nat \ {0} /\ DOMAIN Blocks[b] = 1 .. Last(b)
  <1>1. Blocks \in Seq(Seq(Column)) /\ Len(Blocks) > 0 BY BlocksAssumption
  <1>2. ASSUME NEW b \in DOMAIN Blocks
        PROVE  Last(b) \in Nat \ {0} /\ DOMAIN Blocks[b] = 1 .. Last(b)
    <2>1. Blocks[b] \in Seq(Column) /\ Len(Blocks[b]) > 0 BY BlocksAssumption
    <2> QED BY <2>1 DEF Last
  <1> QED BY <1>1, <1>2

(* Every column takes a whole number of alignments.                         *)
LEMMA BytesType ==
    ASSUME NEW n \in Sizes, NEW b \in DOMAIN Blocks, NEW c \in DOMAIN Blocks[b]
    PROVE  Bytes(b, c, n) \in Nat /\ Bytes(b, c, n) % Alignment = 0
  BY ColumnBytes DEF Bytes, Sizes

(* Nothing summed yet: every table that starts at 0 will do.                *)
LEMMA FirstOffset ==
    ASSUME NEW n \in Sizes, NEW o \in Tables, o[1][1] = 0
    PROVE  Offsets(o, n, 1, 1)
  <1>1. ASSUME NEW g \in Nat, NEW h \in Nat, Reached(g, h, 1, 1) PROVE g = 1 /\ h = 1
    BY <1>1, Numbers DEF Reached
  <1>2. Aligned(o, 1, 1) BY <1>1, AlignmentAssumption DEF Aligned
  <1>3. Adds(o, n, 1, 1)
    <2> SUFFICES ASSUME NEW b \in DOMAIN Blocks, NEW c \in DOMAIN Blocks[b], Reached(b, c + 1, 1, 1)
                 PROVE  FALSE
      BY DEF Adds
    <2>1. b \in Nat /\ c \in Nat \ {0} BY Numbers
    <2> QED BY <2>1, <1>1
  <1>4. Apart(o, n, 1, 1)
    <2> SUFFICES ASSUME NEW b \in DOMAIN Blocks, NEW c \in DOMAIN Blocks[b], NEW g \in Nat,
                        NEW h \in Nat, Reached(g, h, 1, 1), Before(b, c, g, h)
                 PROVE  FALSE
      BY DEF Apart
    <2>1. b \in Nat \ {0} /\ c \in Nat \ {0} /\ g = 1 /\ h = 1 BY Numbers, <1>1
    <2> QED BY <2>1 DEF Before
  <1>5. Continues(o, 1) BY Numbers DEF Continues
  <1> QED BY <1>2, <1>3, <1>4, <1>5 DEF Offsets, Starts

(* The sum takes in one more column of its block.                           *)
LEMMA NextColumn ==
    ASSUME NEW n \in Sizes, NEW o \in Tables, NEW d \in DOMAIN Blocks, NEW e \in DOMAIN Blocks[d],
           Offsets(o, n, d, e)
    PROVE  LET p == With(o, d, e + 1, o[d][e] + Bytes(d, e, n))
           IN  p \in Tables /\ Offsets(p, n, d, e + 1)
  <1> DEFINE x == o[d][e] + Bytes(d, e, n)
             p == With(o, d, e + 1, x)
  <1>0. d \in Nat \ {0} /\ e \in Nat \ {0} /\ e <= Last(d) /\ Last(d) \in Nat BY Numbers
  <1>1. x \in Nat /\ x >= o[d][e] /\ x % Alignment = 0
    <2>1. Bytes(d, e, n) \in Nat /\ Bytes(d, e, n) % Alignment = 0 BY BytesType
    <2>2. Reached(d, e, d, e) BY <1>0 DEF Reached
    <2>3. o[d][e] \in Nat /\ o[d][e] % Alignment = 0
      BY <1>0, <2>2 DEF Offsets, Aligned, Tables
    <2> QED BY <2>1, <2>3, MultipleSum, AlignmentAssumption
  <1>2. p \in Tables
    BY <1>0, <1>1 DEF With, Tables
  <1>3. /\ p[d][e + 1] = x
        /\ \A g, h \in Nat : ~(g = d /\ h = e + 1) => p[g][h] = o[g][h]
    BY <1>0 DEF With
  <1> HIDE DEF p
  <1>4. \A g, h \in Nat : Reached(g, h, d, e + 1) => Reached(g, h, d, e) \/ (g = d /\ h = e + 1)
    BY <1>0 DEF Reached
  <1>5. ~Reached(d, e + 1, d, e) BY <1>0 DEF Reached
  <1>6. Starts(p) BY <1>0, <1>3 DEF Offsets, Starts
  <1>7. Continues(p, d)
    <2> SUFFICES ASSUME NEW b \in DOMAIN Blocks, b + 1 \in DOMAIN Blocks, b + 1 <= d
                 PROVE  p[b + 1][1] = p[b][Last(b) + 1]
      BY DEF Continues
    <2>1. b \in Nat /\ b < d /\ Last(b) + 1 \in Nat BY Numbers, <1>0
    <2>2. p[b + 1][1] = o[b + 1][1] BY <2>1, <1>0, <1>3
    <2>3. p[b][Last(b) + 1] = o[b][Last(b) + 1] BY <2>1, <1>0, <1>3
    <2> QED BY <2>2, <2>3 DEF Offsets, Continues
  <1>8. Aligned(p, d, e + 1)
    <2> SUFFICES ASSUME NEW g \in Nat, NEW h \in Nat, Reached(g, h, d, e + 1)
                 PROVE  p[g][h] % Alignment = 0
      BY DEF Aligned
    <2>1. CASE g = d /\ h = e + 1 BY <2>1, <1>1, <1>3
    <2>2. CASE ~(g = d /\ h = e + 1)
      <3>1. Reached(g, h, d, e) BY <2>2, <1>4
      <3>2. o[g][h] % Alignment = 0 BY <3>1 DEF Offsets, Aligned
      <3> QED BY <2>2, <3>2, <1>3
    <2> QED BY <2>1, <2>2
  <1>9. Adds(p, n, d, e + 1)
    <2> SUFFICES ASSUME NEW b \in DOMAIN Blocks, NEW c \in DOMAIN Blocks[b],
                        Reached(b, c + 1, d, e + 1)
                 PROVE  p[b][c + 1] = p[b][c] + Bytes(b, c, n)
      BY DEF Adds
    <2>0. b \in Nat /\ c \in Nat /\ c + 1 \in Nat BY Numbers
    <2>1. p[b][c] = o[b][c] BY <2>0, <1>0, <1>3 DEF Reached
    <2>2. CASE b = d /\ c = e BY <2>1, <2>2, <1>3
    <2>3. CASE ~(b = d /\ c = e)
      <3>1. ~(b = d /\ c + 1 = e + 1) BY <2>0, <2>3, <1>0
      <3>2. Reached(b, c + 1, d, e) BY <2>0, <3>1, <1>4
      <3>3. o[b][c + 1] = o[b][c] + Bytes(b, c, n) BY <3>2 DEF Offsets, Adds
      <3> QED BY <2>0, <2>1, <3>1, <3>3, <1>3
    <2> QED BY <2>2, <2>3
  <1>10. Apart(p, n, d, e + 1)
    <2> SUFFICES ASSUME NEW b \in DOMAIN Blocks, NEW c \in DOMAIN Blocks[b], NEW g \in Nat,
                        NEW h \in Nat, Reached(g, h, d, e + 1), Before(b, c, g, h)
                 PROVE  p[b][c] + Bytes(b, c, n) <= p[g][h]
      BY DEF Apart
    <2>a. b \in Nat /\ c \in Nat /\ Bytes(b, c, n) \in Nat BY Numbers, BytesType
    <2>0. b \in Nat /\ c \in Nat /\ Bytes(b, c, n) \in Nat /\ o[b][c] \in Nat /\ o[d][e] \in Nat
      BY <2>a, <1>0 DEF Tables
    <2>1. p[b][c] = o[b][c] BY <2>0, <1>0, <1>3 DEF Reached, Before
    <2>2. CASE ~(g = d /\ h = e + 1)
      <3>1. Reached(g, h, d, e) BY <2>2, <1>4
      <3>2. o[b][c] + Bytes(b, c, n) <= o[g][h] BY <3>1 DEF Offsets, Apart
      <3> QED BY <2>1, <2>2, <3>2, <1>3
    <2>3. CASE g = d /\ h = e + 1 /\ b = d /\ c = e
      <3>1. p[g][h] = o[b][c] + Bytes(b, c, n) BY <2>3, <1>3
      <3> QED BY <2>0, <2>1, <3>1
    <2>4. CASE g = d /\ h = e + 1 /\ ~(b = d /\ c = e)
      <3>1. Before(b, c, d, e) BY <2>0, <2>4, <1>0 DEF Before
      <3>2. Reached(d, e, d, e) BY <1>0 DEF Reached
      <3>3. o[b][c] + Bytes(b, c, n) <= o[d][e] BY <1>0, <3>1, <3>2 DEF Offsets, Apart
      <3>4. p[g][h] = x BY <2>4, <1>3
      <3> HIDE DEF x
      <3> QED BY <2>0, <2>1, <3>3, <3>4, <1>1
    <2> QED BY <2>2, <2>3, <2>4
  <1> QED BY <1>2, <1>6, <1>7, <1>8, <1>9, <1>10 DEF Offsets, p

(* The sum goes on with the next block, where the last one ended.           *)
LEMMA NextBlock ==
    ASSUME NEW n \in Sizes, NEW o \in Tables, NEW d \in DOMAIN Blocks, d < Len(Blocks),
           Offsets(o, n, d, Last(d) + 1)
    PROVE  LET p == With(o, d + 1, 1, o[d][Last(d) + 1])
           IN  p \in Tables /\ Offsets(p, n, d + 1, 1)
  <1> DEFINE x == o[d][Last(d) + 1]
             p == With(o, d + 1, 1, x)
  <1>0. d \in Nat \ {0} /\ d + 1 \in DOMAIN Blocks /\ Last(d) \in Nat BY Numbers
  <1>1. Reached(d, Last(d) + 1, d, Last(d) + 1) BY <1>0 DEF Reached
  <1>2. x \in Nat /\ x % Alignment = 0
    <2>1. Last(d) + 1 \in Nat BY <1>0
    <2>2. x \in Nat BY <2>1, <1>0 DEF Tables
    <2>3. x % Alignment = 0 BY <2>1, <1>0, <1>1 DEF Offsets, Aligned
    <2> QED BY <2>2, <2>3
  <1>3. p \in Tables BY <1>0, <1>2 DEF With, Tables
  <1>4. /\ p[d + 1][1] = x
        /\ \A g, h \in Nat : ~(g = d + 1 /\ h = 1) => p[g][h] = o[g][h]
    BY <1>0 DEF With
  <1> HIDE DEF p, x
  <1>5. \A g, h \in Nat : Reached(g, h, d + 1, 1) =>
            Reached(g, h, d, Last(d) + 1) \/ (g = d + 1 /\ h = 1)
    BY <1>0 DEF Reached
  <1>6. Starts(p) BY <1>0, <1>4 DEF Offsets, Starts
  <1>7. Continues(p, d + 1)
    <2> SUFFICES ASSUME NEW b \in DOMAIN Blocks, b + 1 \in DOMAIN Blocks, b + 1 <= d + 1
                 PROVE  p[b + 1][1] = p[b][Last(b) + 1]
      BY DEF Continues
    <2>1. b \in Nat /\ b <= d /\ Last(b) + 1 \in Nat BY Numbers, <1>0
    <2>2. p[b][Last(b) + 1] = o[b][Last(b) + 1] BY <2>1, <1>0, <1>4
    <2>3. CASE b = d BY <2>2, <2>3, <1>4 DEF x
    <2>4. CASE b # d
      <3>1. b + 1 <= d /\ ~(b + 1 = d + 1) BY <2>1, <2>4, <1>0
      <3>2. p[b + 1][1] = o[b + 1][1] BY <2>1, <3>1, <1>4
      <3> QED BY <2>2, <3>1, <3>2 DEF Offsets, Continues
    <2> QED BY <2>3, <2>4
  <1>8. Aligned(p, d + 1, 1)
    <2> SUFFICES ASSUME NEW g \in Nat, NEW h \in Nat, Reached(g, h, d + 1, 1)
                 PROVE  p[g][h] % Alignment = 0
      BY DEF Aligned
    <2>1. CASE g = d + 1 /\ h = 1 BY <2>1, <1>2, <1>4
    <2>2. CASE ~(g = d + 1 /\ h = 1)
      <3>1. Reached(g, h, d, Last(d) + 1) BY <2>2, <1>5
      <3>2. o[g][h] % Alignment = 0 BY <3>1 DEF Offsets, Aligned
      <3> QED BY <2>2, <3>2, <1>4
    <2> QED BY <2>1, <2>2
  <1>9. Adds(p, n, d + 1, 1)
    <2> SUFFICES ASSUME NEW b \in DOMAIN Blocks, NEW c \in DOMAIN Blocks[b],
                        Reached(b, c + 1, d + 1, 1)
                 PROVE  p[b][c + 1] = p[b][c] + Bytes(b, c, n)
      BY DEF Adds
    <2>0. b \in Nat /\ c \in Nat \ {0} /\ c + 1 \in Nat BY Numbers
    <2>1. Reached(b, c + 1, d, Last(d) + 1) BY <2>0, <1>5
    <2>2. b # d + 1 BY <2>1, <2>0, <1>0 DEF Reached
    <2>3. o[b][c + 1] = o[b][c] + Bytes(b, c, n) BY <2>1 DEF Offsets, Adds
    <2> QED BY <2>0, <2>2, <2>3, <1>4
  <1>10. Apart(p, n, d + 1, 1)
    <2> SUFFICES ASSUME NEW b \in DOMAIN Blocks, NEW c \in DOMAIN Blocks[b], NEW g \in Nat,
                        NEW h \in Nat, Reached(g, h, d + 1, 1), Before(b, c, g, h)
                 PROVE  p[b][c] + Bytes(b, c, n) <= p[g][h]
      BY DEF Apart
    <2>0. b \in Nat /\ c \in Nat \ {0} /\ c <= Last(b) /\ Last(b) \in Nat BY Numbers
    <2>1. b <= d BY <2>0, <1>0 DEF Reached, Before
    <2>2. p[b][c] = o[b][c] BY <2>0, <2>1, <1>0, <1>4
    <2>3. CASE ~(g = d + 1 /\ h = 1)
      <3>1. Reached(g, h, d, Last(d) + 1) BY <2>3, <1>5
      <3>2. o[b][c] + Bytes(b, c, n) <= o[g][h] BY <3>1 DEF Offsets, Apart
      <3> QED BY <2>2, <2>3, <3>2, <1>4
    <2>4. CASE g = d + 1 /\ h = 1
      <3>1. Before(b, c, d, Last(d) + 1) BY <2>0, <2>1, <1>0 DEF Before
      <3>2. o[b][c] + Bytes(b, c, n) <= o[d][Last(d) + 1]
        BY <1>0, <1>1, <3>1 DEF Offsets, Apart
      <3> QED BY <2>2, <2>4, <3>2, <1>4 DEF x
    <2> QED BY <2>3, <2>4
  <1> QED BY <1>3, <1>6, <1>7, <1>8, <1>9, <1>10 DEF Offsets, p, x
-----------------------------------------------------------------------------
(* The invariant: both loops follow the table of offsets o.                 *)

Working(s) == loop.at \in {"place", "check"} /\ loop.target = s

(* The client's sum so far.                                                 *)
Summing(o) ==
    loop.at = "size" =>
        /\ sizes_[loop.target] # None /\ buffer[loop.target] = None
        /\ loop.column \in DOMAIN Blocks[loop.block]
        /\ Offsets(o[loop.target], sizes_[loop.target], loop.block, loop.column)
        /\ loop.ret = o[loop.target][loop.block][loop.column]

(* A buffer has the bytes the table ends with.                              *)
Sized(o) ==
    \A s \in Storages : buffer[s] # None =>
        /\ sizes_[s] # None
        /\ Whole(o[s], sizes_[s])
        /\ buffer[s].bytes = o[s][Len(Blocks)][Last(Len(Blocks)) + 1]

(* A column lies at its offset.                                             *)
InPlace(o, s, b) ==
    /\ layout[s][b].mem_ = buffer[s].base + o[s][b][1]
    /\ layout[s][b].elements_ = sizes_[s][b]
    /\ Len(layout[s][b].columns) <= Last(b)
    /\ \A c \in DOMAIN layout[s][b].columns :
           layout[s][b].columns[c] = Placed(Blocks[b][c], sizes_[s][b], buffer[s].base + o[s][b][c])

Finished(o, s, b) ==
    /\ Len(layout[s][b].columns) = Last(b)
    /\ layout[s][b].byteSize_ = o[s][b][Last(b) + 1] - o[s][b][1]

Built(o) ==
    \A s \in Storages : layout[s] # <<>> =>
        /\ buffer[s] # None
        /\ checkAlignment(s, buffer[s].base)
        /\ Len(layout[s]) = Len(Blocks) \/ (Working(s) /\ Len(layout[s]) < Len(Blocks))
        /\ \A b \in DOMAIN layout[s] :
               InPlace(o, s, b) /\ (Finished(o, s, b) \/ (Working(s) /\ b = Len(layout[s])))

(* The constructor walks along the table, its final check does so again.    *)
Building(o) ==
    loop.at \in {"place", "check"} =>
        /\ layout[loop.target] # <<>> /\ Len(layout[loop.target]) = loop.block
        /\ loop.column \in DOMAIN Blocks[loop.block]
        /\ loop.at = "place" =>
               /\ Len(Current.columns) = loop.column - 1
               /\ loop.cur = buffer[loop.target].base + o[loop.target][loop.block][loop.column]
        /\ loop.at = "check" =>
               /\ Len(Current.columns) = Last(loop.block)
               /\ loop.cur = buffer[loop.target].base
                               + o[loop.target][loop.block][Last(loop.block) + 1]
               /\ loop.ret = o[loop.target][loop.block][loop.column] - o[loop.target][loop.block][1]

(* And so does the stream operator.                                         *)
Printing(o) ==
    loop.at = "dump" =>
        /\ Len(layout[loop.target]) = Len(Blocks)
        /\ loop.column \in 1 .. Last(loop.block) + 1
        /\ loop.ret = o[loop.target][loop.block][loop.column] - o[loop.target][loop.block][1]

Follows(o) == Summing(o) /\ Sized(o) /\ Built(o) /\ Building(o) /\ Printing(o)

IInv == TypeOK /\ \E o \in [Storages -> Tables] : Follows(o)

-----------------------------------------------------------------------------
(* What the invariant says where a loop stands.                             *)

(* A buffer that is there has a place and a size, and elements.             *)
LEMMA BufferThere ==
    ASSUME TypeOK, NEW o \in [Storages -> Tables], Sized(o), NEW s \in Storages, buffer[s] # None
    PROVE  /\ buffer[s].base \in Nat /\ buffer[s].bytes \in Nat
           /\ sizes_[s] \in Sizes /\ Whole(o[s], sizes_[s]) /\ o[s] \in Tables
           /\ buffer[s].bytes = o[s][Len(Blocks)][Last(Len(Blocks)) + 1]
  <1>1. buffer[s] \in [base : Nat, bytes : Nat] BY DEF TypeOK, LayoutTypeOK
  <1>2. sizes_[s] \in Elements /\ Whole(o[s], sizes_[s]) BY DEF TypeOK, LayoutTypeOK, Sized
  <1>3. sizes_[s] \in Sizes BY <1>2, ClientsAssumption DEF Sizes
  <1> QED BY <1>1, <1>2, <1>3 DEF Sized

(* Along a whole table: one column further, one block further, aligned.     *)
LEMMA WholeTable ==
    ASSUME NEW o \in Tables, NEW n \in Sizes, Whole(o, n)
    PROVE  /\ o[1][1] = 0
           /\ \A b \in DOMAIN Blocks : b + 1 \in DOMAIN Blocks => o[b + 1][1] = o[b][Last(b) + 1]
           /\ \A b \in DOMAIN Blocks : \A c \in DOMAIN Blocks[b] :
                  o[b][c + 1] = o[b][c] + Bytes(b, c, n)
           /\ \A b \in DOMAIN Blocks : \A c \in 1 .. Last(b) + 1 :
                  o[b][c] \in Nat /\ o[b][c] % Alignment = 0
           /\ \A b \in DOMAIN Blocks : \A c \in DOMAIN Blocks[b] :
              \A g \in DOMAIN Blocks : \A h \in 1 .. Last(g) + 1 :
                  Before(b, c, g, h) => o[b][c] + Bytes(b, c, n) <= o[g][h]
  <1>1. \A g \in DOMAIN Blocks : \A h \in 1 .. Last(g) + 1 :
            g \in Nat /\ h \in Nat /\ Reached(g, h, Len(Blocks), Last(Len(Blocks)) + 1)
    BY Numbers DEF Reached
  <1>2. o[1][1] = 0 BY DEF Whole, Offsets, Starts
  <1>3. \A b \in DOMAIN Blocks : b + 1 \in DOMAIN Blocks => o[b + 1][1] = o[b][Last(b) + 1]
    BY Numbers DEF Whole, Offsets, Continues
  <1>4. ASSUME NEW b \in DOMAIN Blocks, NEW c \in DOMAIN Blocks[b]
        PROVE  o[b][c + 1] = o[b][c] + Bytes(b, c, n)
    <2>1. c + 1 \in 1 .. Last(b) + 1 BY Numbers
    <2> QED BY <2>1, <1>1 DEF Whole, Offsets, Adds
  <1>5. ASSUME NEW b \in DOMAIN Blocks, NEW c \in 1 .. Last(b) + 1
        PROVE  o[b][c] \in Nat /\ o[b][c] % Alignment = 0
    <2>1. b \in Nat /\ c \in Nat /\ Reached(b, c, Len(Blocks), Last(Len(Blocks)) + 1) BY <1>1
    <2>2. o[b][c] \in Nat BY <2>1 DEF Tables
    <2>3. o[b][c] % Alignment = 0 BY <2>1 DEF Whole, Offsets, Aligned
    <2> QED BY <2>2, <2>3
  <1>6. ASSUME NEW b \in DOMAIN Blocks, NEW c \in DOMAIN Blocks[b],
               NEW g \in DOMAIN Blocks, NEW h \in 1 .. Last(g) + 1, Before(b, c, g, h)
        PROVE  o[b][c] + Bytes(b, c, n) <= o[g][h]
    <2>1. g \in Nat /\ h \in Nat /\ Reached(g, h, Len(Blocks), Last(Len(Blocks)) + 1) BY <1>1
    <2> QED BY <2>1, <1>6 DEF Whole, Offsets, Apart
  <1> QED BY <1>2, <1>3, <1>4, <1>5, <1>6

(* Storages whose buffer, elements and table stay the same stay sized ...   *)
LEMMA KeepSized ==
    ASSUME NEW o, NEW p, Sized(o),
           \A t \in Storages : buffer'[t] # None =>
               p[t] = o[t] /\ sizes_'[t] = sizes_[t] /\ buffer'[t] = buffer[t]
    PROVE  Sized(p)'
  <1> SUFFICES ASSUME NEW t \in Storages, buffer'[t] # None
               PROVE  /\ sizes_'[t] # None
                      /\ Whole(p[t], sizes_'[t])
                      /\ buffer'[t].bytes = p[t][Len(Blocks)][Last(Len(Blocks)) + 1]
    BY DEF Sized
  <1>1. p[t] = o[t] /\ sizes_'[t] = sizes_[t] /\ buffer'[t] = buffer[t] OBVIOUS
  <1> QED BY <1>1 DEF Sized

(* ... and, while nothing is under construction, their layouts as built.    *)
LEMMA KeepBuilt ==
    ASSUME NEW o, NEW p, Built(o), layout' = layout, \A t \in Storages : ~Working(t),
           \A t \in Storages : layout[t] # <<>> =>
               p[t] = o[t] /\ sizes_'[t] = sizes_[t] /\ buffer'[t] = buffer[t]
    PROVE  Built(p)'
  <1> SUFFICES ASSUME NEW t \in Storages, layout[t] # <<>>
               PROVE  /\ buffer'[t] # None
                      /\ checkAlignment(t, buffer'[t].base)
                      /\ Len(layout[t]) = Len(Blocks)
                      /\ \A b \in DOMAIN layout[t] : InPlace(p, t, b)' /\ Finished(p, t, b)'
    BY DEF Built
  <1>1. p[t] = o[t] /\ sizes_'[t] = sizes_[t] /\ buffer'[t] = buffer[t] /\ ~Working(t) OBVIOUS
  <1>2. /\ buffer[t] # None /\ checkAlignment(t, buffer[t].base) /\ Len(layout[t]) = Len(Blocks)
        /\ \A b \in DOMAIN layout[t] : InPlace(o, t, b) /\ Finished(o, t, b)
    BY <1>1 DEF Built
  <1>3. ASSUME NEW b \in DOMAIN layout[t] PROVE InPlace(p, t, b)' /\ Finished(p, t, b)'
    <2>1. InPlace(o, t, b) /\ Finished(o, t, b) BY <1>2
    <2> QED BY <1>1, <2>1 DEF InPlace, Finished
  <1> QED BY <1>1, <1>2, <1>3

(* The invariant holds at the start.                                        *)
LEMMA InitFollows == Init => IInv
  <1> SUFFICES ASSUME Init PROVE IInv OBVIOUS
  <1> USE DEF Init, LayoutInit
  <1>1. TypeOK
    <2>1. <<>> \in Seq(Layout) OBVIOUS
    <2>2. layout \in [Storages -> Seq(Layout)] BY <2>1
    <2>3. made \in 0 .. MaxMade /\ calls \in 0 .. MaxCalls BY BoundsAssumption
    <2>4. sizes_ \in [Storages -> Elements \cup {None}] OBVIOUS
    <2>5. buffer \in [Storages -> [base : Nat, bytes : Nat] \cup {None}] OBVIOUS
    <2> QED BY <2>2, <2>3, <2>4, <2>5 DEF TypeOK, LayoutTypeOK, Loops
  <1> DEFINE o == [s \in Storages |-> [g \in Nat |-> [h \in Nat |-> 0]]]
  <1>2. o \in [Storages -> Tables] BY DEF Tables
  <1> HIDE DEF o
  <1>3. Follows(o) BY DEF Follows, Summing, Sized, Built, Building, Printing, Idle
  <1> QED BY <1>1, <1>2, <1>3 DEF IInv
-----------------------------------------------------------------------------
(* The steps of the client's sum.                                           *)

(* While nothing is under construction every layout has its buffer.         *)
LEMMA NoBufferNoLayout ==
    ASSUME NEW o, Built(o), NEW t \in Storages, layout[t] # <<>>
    PROVE  buffer[t] # None
  BY DEF Built

(* computeDataSize starts a table.                                          *)
LEMMA ComputeDataSizeStep ==
    ASSUME TypeOK, NEW o \in [Storages -> Tables], Follows(o),
           NEW s \in Storages, NEW n \in Elements, ComputeDataSize(s, n)
    PROVE  LayoutTypeOK' /\ \E p \in [Storages -> Tables] : Follows(p)'
  <1> USE DEF ComputeDataSize
  <1>1. LayoutTypeOK'
    <2>1. sizes_' \in [Storages -> Elements \cup {None}] BY DEF TypeOK, LayoutTypeOK
    <2>2. loop' \in Loops
      <3>1. 1 \in DOMAIN Blocks BY Numbers
      <3> QED BY <3>1 DEF Loops
    <2> QED BY <2>1, <2>2 DEF TypeOK, LayoutTypeOK
  <1> DEFINE p == [o EXCEPT ![s] = [g \in Nat |-> [h \in Nat |-> 0]]]
  <1>2. p \in [Storages -> Tables] BY DEF Tables
  <1>3. p[s][1][1] = 0 /\ p[s] \in Tables /\ \A t \in Storages : t # s => p[t] = o[t]
    BY DEF Tables
  <1> HIDE DEF p
  <1>4. buffer[s] = None /\ layout[s] = <<>>
    <2>1. buffer[s] = None BY DEF Follows, Sized
    <2> QED BY <2>1, NoBufferNoLayout DEF Follows
  <1>5. sizes_'[s] = n /\ \A t \in Storages : t # s => sizes_'[t] = sizes_[t]
    BY DEF TypeOK, LayoutTypeOK
  <1>6. \A t \in Storages : ~Working(t) BY DEF Working, Idle
  <1>7. Sized(p)' BY <1>3, <1>4, <1>5, KeepSized DEF Follows
  <1>8. Built(p)' BY <1>3, <1>4, <1>5, <1>6, KeepBuilt DEF Follows
  <1>9. Summing(p)'
    <2>1. n \in Sizes BY ClientsAssumption DEF Sizes
    <2>2. Offsets(p[s], n, 1, 1) BY <1>3, <2>1, FirstOffset
    <2>3. 1 \in DOMAIN Blocks /\ 1 \in DOMAIN Blocks[1] BY Numbers
    <2>4. n # None BY NoneAssumption
    <2> QED BY <1>3, <1>4, <1>5, <2>2, <2>3, <2>4 DEF Summing
  <1>10. Building(p)' /\ Printing(p)' BY DEF Building, Printing
  <1> QED BY <1>1, <1>2, <1>7, <1>8, <1>9, <1>10 DEF Follows

(* The table of one storage replaced.                                       *)
LEMMA Replaced ==
    ASSUME NEW o \in [Storages -> Tables], NEW s \in Storages, NEW x \in Tables
    PROVE  \E p \in [Storages -> Tables] : p[s] = x /\ \A t \in Storages : t # s => p[t] = o[t]
  <1> WITNESS [o EXCEPT ![s] = x] \in [Storages -> Tables]
  <1> QED OBVIOUS

(* The table as far as a running sum, and one column further.               *)
LEMMA SumStep ==
    ASSUME TypeOK, NEW o \in [Storages -> Tables], Follows(o), loop.at = "size"
    PROVE  LET s == loop.target
               b == loop.block
               c == loop.column
               x == With(o[s], b, c + 1, Summed)
           IN  /\ s \in Storages /\ b \in DOMAIN Blocks /\ c \in DOMAIN Blocks[b]
               /\ sizes_[s] \in Sizes /\ buffer[s] = None /\ layout[s] = <<>>
               /\ Summed \in Nat /\ x \in Tables /\ x[b][c + 1] = Summed
               /\ Offsets(x, sizes_[s], b, c + 1)
               /\ \A t \in Storages : ~Working(t)
  <1> DEFINE s == loop.target
             b == loop.block
             c == loop.column
  <1>1. s \in Storages /\ b \in DOMAIN Blocks BY DEF TypeOK, LayoutTypeOK, Loops, Idle
  <1>2. c \in DOMAIN Blocks[b] /\ sizes_[s] # None /\ buffer[s] = None
        /\ Offsets(o[s], sizes_[s], b, c) /\ loop.ret = o[s][b][c]
    BY DEF Follows, Summing
  <1>3. sizes_[s] \in Sizes
    BY <1>1, <1>2, ClientsAssumption DEF TypeOK, LayoutTypeOK, Sizes
  <1>4. layout[s] = <<>> BY <1>1, <1>2, NoBufferNoLayout DEF Follows
  <1>5. Summed = o[s][b][c] + Bytes(b, c, sizes_[s])
    <2>1. sizes_[s][b] \in Nat BY <1>1, <1>3 DEF Sizes
    <2>2. ComputePitch(Blocks[b][c], sizes_[s][b]) = PlacedBytes(Blocks[b][c], sizes_[s][b])
      BY <1>1, <1>2, <2>1, ColumnBytes
    <2> QED BY <1>2, <2>2 DEF Summed, Bytes
  <1>6. o[s] \in Tables BY <1>1
  <1> DEFINE x == With(o[s], b, c + 1, Summed)
  <1>7. x \in Tables /\ Offsets(x, sizes_[s], b, c + 1)
    BY <1>1, <1>2, <1>3, <1>5, <1>6, NextColumn
  <1>8. b \in Nat /\ c + 1 \in Nat BY <1>1, <1>2, Numbers
  <1>9. x[b][c + 1] = Summed BY <1>8 DEF With
  <1>10. Summed \in Nat
    <2>1. x[b][c + 1] \in Nat
      <3> HIDE DEF x
      <3> QED BY <1>7, <1>8 DEF Tables
    <2> QED BY <1>9, <2>1
  <1>11. \A t \in Storages : ~Working(t) BY DEF Working
  <1> QED BY <1>1, <1>2, <1>3, <1>4, <1>7, <1>9, <1>10, <1>11

(* The sum goes on with the next column, or with the next block.            *)
LEMMA AccumulateBlocksStep ==
    ASSUME TypeOK, NEW o \in [Storages -> Tables], Follows(o), AccumulateBlocks
    PROVE  LayoutTypeOK' /\ \E p \in [Storages -> Tables] : Follows(p)'
  <1> DEFINE s == loop.target
             b == loop.block
             c == loop.column
             x == With(o[s], b, c + 1, Summed)
  <1>0. loop.at = "size" /\ ~(LastColumn /\ b = Len(Blocks))
        /\ sizes_' = sizes_ /\ buffer' = buffer /\ layout' = layout
    BY DEF AccumulateBlocks
  <1>1. /\ s \in Storages /\ b \in DOMAIN Blocks /\ c \in DOMAIN Blocks[b]
        /\ sizes_[s] \in Sizes /\ buffer[s] = None /\ layout[s] = <<>>
        /\ Summed \in Nat /\ x \in Tables /\ x[b][c + 1] = Summed
        /\ Offsets(x, sizes_[s], b, c + 1)
        /\ \A t \in Storages : ~Working(t)
    BY <1>0, SumStep
  <1>2. b \in Nat \ {0} /\ c \in Nat \ {0} /\ c <= Last(b) /\ Last(b) \in Nat BY <1>1, Numbers
  <1>3. loop \in [at : {"size", "dump"}, target : Storages, block : DOMAIN Blocks, column : Nat, ret : Nat]
    BY <1>0 DEF TypeOK, LayoutTypeOK, Loops, Idle
  <1>4. sizes_[s] # None BY <1>0 DEF Follows, Summing
  <1> HIDE DEF x
  <1>5. CASE ~LastColumn
    <2>1. loop' = [loop EXCEPT !.ret = Summed, !.block = b, !.column = c + 1]
      BY <1>5 DEF AccumulateBlocks
    <2>2. /\ loop'.at = "size" /\ loop'.target = s /\ loop'.block = b /\ loop'.column = c + 1
          /\ loop'.ret = Summed /\ loop' \in Loops
      <3>1. loop' = [at |-> "size", target |-> s, block |-> b, column |-> c + 1, ret |-> Summed]
        BY <1>0, <1>3, <2>1
      <3> QED BY <1>1, <1>2, <3>1 DEF Loops
    <2>3. c + 1 \in DOMAIN Blocks[b] BY <1>1, <1>2, <1>5, Numbers DEF LastColumn, Last
    <2>4. PICK p \in [Storages -> Tables] : p[s] = x /\ \A t \in Storages : t # s => p[t] = o[t]
      BY <1>1, Replaced
    <2>5. Sized(p)' BY <1>0, <1>1, <2>4, KeepSized DEF Follows
    <2>6. Built(p)' BY <1>0, <1>1, <2>4, KeepBuilt DEF Follows
    <2>7. Summing(p)' BY <1>0, <1>1, <1>4, <2>2, <2>3, <2>4 DEF Summing
    <2>8. Building(p)' /\ Printing(p)' BY <2>2 DEF Building, Printing
    <2>9. LayoutTypeOK' BY <1>0, <2>2 DEF TypeOK, LayoutTypeOK
    <2> QED BY <2>4, <2>5, <2>6, <2>7, <2>8, <2>9 DEF Follows
  <1>6. CASE LastColumn
    <2>0. c = Last(b) /\ b < Len(Blocks) /\ b + 1 \in DOMAIN Blocks
      BY <1>0, <1>1, <1>2, <1>6, Numbers DEF LastColumn, Last
    <2>1. loop' = [loop EXCEPT !.ret = Summed, !.block = b + 1, !.column = 1]
      BY <1>6 DEF AccumulateBlocks
    <2>2. /\ loop'.at = "size" /\ loop'.target = s /\ loop'.block = b + 1 /\ loop'.column = 1
          /\ loop'.ret = Summed /\ loop' \in Loops
      BY <1>0, <1>1, <2>0, <1>3, <2>1 DEF Loops
    <2>3. 1 \in DOMAIN Blocks[b + 1] BY <2>0, Numbers
    <2> DEFINE y == With(x, b + 1, 1, x[b][Last(b) + 1])
    <2>a. y \in Tables /\ Offsets(y, sizes_[s], b + 1, 1) BY <1>1, <2>0, NextBlock
    <2>b. y[b + 1][1] = Summed BY <1>1, <1>2, <2>0 DEF With
    <2> HIDE DEF y
    <2>4. PICK p \in [Storages -> Tables] : p[s] = y /\ \A t \in Storages : t # s => p[t] = o[t]
      BY <1>1, <2>a, Replaced
    <2>5. Sized(p)' BY <1>0, <1>1, <2>4, KeepSized DEF Follows
    <2>6. Built(p)' BY <1>0, <1>1, <2>4, KeepBuilt DEF Follows
    <2>7. Summing(p)' BY <1>0, <1>1, <1>4, <2>2, <2>3, <2>4, <2>a, <2>b DEF Summing
    <2>8. Building(p)' /\ Printing(p)' BY <2>2 DEF Building, Printing
    <2>9. LayoutTypeOK' BY <1>0, <2>2 DEF TypeOK, LayoutTypeOK
    <2> QED BY <2>4, <2>5, <2>6, <2>7, <2>8, <2>9 DEF Follows
  <1> QED BY <1>5, <1>6

(* The sum is whole: the client allocates that many bytes.                  *)
LEMMA AllocateStep ==
    ASSUME TypeOK, NEW o \in [Storages -> Tables], Follows(o),
           loop.at = "size", NEW base \in Bases[loop.target], Allocate(base)
    PROVE  LayoutTypeOK' /\ \E p \in [Storages -> Tables] : Follows(p)'
  <1> DEFINE s == loop.target
             b == loop.block
             c == loop.column
             x == With(o[s], b, c + 1, Summed)
  <1>1. /\ s \in Storages /\ b \in DOMAIN Blocks /\ c \in DOMAIN Blocks[b]
        /\ sizes_[s] \in Sizes /\ buffer[s] = None /\ layout[s] = <<>>
        /\ Summed \in Nat /\ x \in Tables /\ x[b][c + 1] = Summed
        /\ Offsets(x, sizes_[s], b, c + 1)
        /\ \A t \in Storages : ~Working(t)
    BY SumStep
  <1>2. b = Len(Blocks) /\ c = Last(b) /\ sizes_' = sizes_ /\ layout' = layout /\ loop' = Idle
    BY DEF Allocate, LastColumn, Last
  <1>3. base \in Nat BY <1>1, ClientsAssumption
  <1>4. sizes_[s] # None BY DEF Follows, Summing
  <1> HIDE DEF x
  <1>5. PICK p \in [Storages -> Tables] : p[s] = x /\ \A t \in Storages : t # s => p[t] = o[t]
    BY <1>1, Replaced
  <1>6. /\ buffer' \in [Storages -> [base : Nat, bytes : Nat] \cup {None}]
        /\ buffer'[s] = [base |-> base, bytes |-> Summed]
        /\ \A t \in Storages : t # s => buffer'[t] = buffer[t]
    BY <1>1, <1>3 DEF Allocate, TypeOK, LayoutTypeOK
  <1>7. LayoutTypeOK' BY <1>2, <1>6 DEF TypeOK, LayoutTypeOK, Loops
  <1>8. Sized(p)'
    <2> SUFFICES ASSUME NEW t \in Storages, buffer'[t] # None
                 PROVE  /\ sizes_[t] # None
                        /\ Whole(p[t], sizes_[t])
                        /\ buffer'[t].bytes = p[t][Len(Blocks)][Last(Len(Blocks)) + 1]
      BY <1>2 DEF Sized
    <2>1. CASE t = s
      <3>1. Whole(x, sizes_[s]) BY <1>1, <1>2 DEF Whole
      <3>2. buffer'[s].bytes = x[Len(Blocks)][Last(Len(Blocks)) + 1] BY <1>1, <1>2, <1>6
      <3> QED BY <1>4, <1>5, <2>1, <3>1, <3>2
    <2>2. CASE t # s
      <3>1. buffer'[t] = buffer[t] /\ p[t] = o[t] BY <1>5, <1>6, <2>2
      <3> QED BY <3>1 DEF Follows, Sized
    <2> QED BY <2>1, <2>2
  <1>9. Built(p)'
    <2>1. \A t \in Storages : layout[t] # <<>> => t # s BY <1>1
    <2> QED BY <1>1, <1>2, <1>5, <1>6, <2>1, KeepBuilt DEF Follows
  <1>10. Summing(p)' /\ Building(p)' /\ Printing(p)'
    BY <1>2 DEF Summing, Building, Printing, Idle
  <1> QED BY <1>5, <1>7, <1>8, <1>9, <1>10 DEF Follows
(* A layout that is complete has its last column where the table ends.      *)
LEMMA CompleteLayout ==
    ASSUME TypeOK, NEW o \in [Storages -> Tables], Follows(o), loop = Idle \/ loop.at = "dump",
           NEW s \in Storages, Complete(s)
    PROVE  /\ buffer[s] # None /\ sizes_[s] # None /\ Len(layout[s]) = Len(Blocks)
           /\ buffer[s].base \in Nat /\ sizes_[s] \in Sizes
           /\ Whole(o[s], sizes_[s]) /\ o[s] \in Tables
           /\ \A b \in DOMAIN Blocks : b \in DOMAIN layout[s] /\ InPlace(o, s, b) /\ Finished(o, s, b)
  <1>1. Len(layout[s]) = Len(Blocks) /\ layout[s] \in Seq(Layout)
    BY DEF Complete, TypeOK, LayoutTypeOK
  <1>2. layout[s] # <<>> /\ DOMAIN layout[s] = DOMAIN Blocks BY <1>1, Numbers
  <1>3. ~Working(s) BY DEF Working, Idle
  <1>4. buffer[s] # None /\ \A b \in DOMAIN layout[s] : InPlace(o, s, b) /\ Finished(o, s, b)
    BY <1>2, <1>3 DEF Follows, Built
  <1>5. sizes_[s] # None BY <1>4 DEF Follows, Sized
  <1>6. /\ buffer[s].base \in Nat /\ sizes_[s] \in Sizes /\ Whole(o[s], sizes_[s])
        /\ o[s] \in Tables
    BY <1>4, BufferThere DEF Follows
  <1> QED BY <1>1, <1>2, <1>4, <1>5, <1>6

(* A clone has the same table.                                              *)
LEMMA CloneStep ==
    ASSUME TypeOK, NEW o \in [Storages -> Tables], Follows(o),
           NEW s \in Storages, NEW t \in Storages, NEW base \in Bases[t], Clone(s, t, base)
    PROVE  LayoutTypeOK' /\ \E p \in [Storages -> Tables] : Follows(p)'
  <1> DEFINE l == Len(Blocks)
             end == layout[s][l].mem_ + layout[s][l].byteSize_ - layout[s][1].mem_
  <1>1. /\ loop = Idle /\ Complete(s) /\ sizes_[t] = None
        /\ layout' = layout /\ loop' = loop
        /\ sizes_' = [sizes_ EXCEPT ![t] = sizes_[s]]
        /\ buffer' = [buffer EXCEPT ![t] = [base |-> base, bytes |-> end]]
    BY DEF Clone
  <1>2. /\ buffer[s] # None /\ sizes_[s] # None
        /\ buffer[s].base \in Nat /\ sizes_[s] \in Sizes /\ Whole(o[s], sizes_[s]) /\ o[s] \in Tables
        /\ \A b \in DOMAIN Blocks : b \in DOMAIN layout[s] /\ InPlace(o, s, b) /\ Finished(o, s, b)
    BY <1>1, CompleteLayout
  <1>3. 1 \in DOMAIN Blocks /\ l \in DOMAIN Blocks /\ 1 \in 1 .. Last(1) + 1
        /\ 1 \in 1 .. Last(l) + 1 /\ Last(l) + 1 \in 1 .. Last(l) + 1
    BY Numbers
  <1>4. end = o[s][l][Last(l) + 1] /\ end \in Nat
    <2>1. o[s][1][1] = 0 /\ o[s][l][1] \in Nat /\ o[s][l][Last(l) + 1] \in Nat
      BY <1>2, <1>3, WholeTable
    <2>2. /\ layout[s][l].mem_ = buffer[s].base + o[s][l][1]
          /\ layout[s][1].mem_ = buffer[s].base + o[s][1][1]
          /\ layout[s][l].byteSize_ = o[s][l][Last(l) + 1] - o[s][l][1]
      BY <1>2, <1>3 DEF InPlace, Finished
    <2> QED BY <1>2, <2>1, <2>2
  <1> HIDE DEF end, l
  <1>5. base \in Nat BY ClientsAssumption
  <1>6. buffer[t] = None /\ layout[t] = <<>> /\ t # s
    <2>1. buffer[t] = None BY <1>1 DEF Follows, Sized
    <2> QED BY <1>1, <1>2, <2>1, NoBufferNoLayout DEF Follows
  <1>7. PICK p \in [Storages -> Tables] : p[t] = o[s] /\ \A u \in Storages : u # t => p[u] = o[u]
    BY <1>2, Replaced
  <1>8. /\ sizes_' \in [Storages -> Elements \cup {None}] /\ sizes_'[t] = sizes_[s]
        /\ \A u \in Storages : u # t => sizes_'[u] = sizes_[u]
    BY <1>1 DEF TypeOK, LayoutTypeOK
  <1>9. /\ buffer' \in [Storages -> [base : Nat, bytes : Nat] \cup {None}]
        /\ buffer'[t] = [base |-> base, bytes |-> end]
        /\ \A u \in Storages : u # t => buffer'[u] = buffer[u]
    BY <1>1, <1>4, <1>5 DEF TypeOK, LayoutTypeOK
  <1>10. LayoutTypeOK' BY <1>1, <1>8, <1>9 DEF TypeOK, LayoutTypeOK
  <1>11. Sized(p)'
    <2> SUFFICES ASSUME NEW u \in Storages, buffer'[u] # None
                 PROVE  /\ sizes_'[u] # None
                        /\ Whole(p[u], sizes_'[u])
                        /\ buffer'[u].bytes = p[u][Len(Blocks)][Last(Len(Blocks)) + 1]
      BY DEF Sized
    <2>1. CASE u = t BY <1>2, <1>4, <1>7, <1>8, <1>9, <2>1 DEF l
    <2>2. CASE u # t
      <3>1. buffer'[u] = buffer[u] /\ p[u] = o[u] /\ sizes_'[u] = sizes_[u]
        BY <1>7, <1>8, <1>9, <2>2
      <3> QED BY <3>1 DEF Follows, Sized
    <2> QED BY <2>1, <2>2
  <1>12. Built(p)'
    <2>1. \A u \in Storages : layout[u] # <<>> => u # t BY <1>6
    <2>2. \A u \in Storages : ~Working(u) BY <1>1 DEF Working, Idle
    <2> QED BY <1>1, <1>7, <1>8, <1>9, <2>1, <2>2, KeepBuilt DEF Follows
  <1>13. Summing(p)' /\ Building(p)' /\ Printing(p)'
    BY <1>1 DEF Summing, Building, Printing, Idle
  <1> QED BY <1>10, <1>11, <1>12, <1>13 DEF Follows

-----------------------------------------------------------------------------
(* The steps of the constructor.                                            *)

(* The constructor starts at the first offset of its first block.           *)
LEMMA ConstructStep ==
    ASSUME TypeOK, NEW o \in [Storages -> Tables], Follows(o), NEW s \in Storages, Construct(s)
    PROVE  /\ LayoutTypeOK' /\ Follows(o)'
           /\ result' # result => s \in Enforced /\ buffer'[s] # None /\ layout'[s] = <<>>
                                     /\ Misaligned(buffer'[s].base)
  <1>1. /\ loop = Idle /\ buffer[s] # None /\ layout[s] = <<>>
        /\ sizes_' = sizes_ /\ buffer' = buffer
    BY DEF Construct
  <1>2. /\ buffer[s].base \in Nat /\ sizes_[s] \in Sizes /\ Whole(o[s], sizes_[s]) /\ o[s] \in Tables
    BY <1>1, BufferThere DEF Follows
  <1>3. Sized(o)' BY <1>1 DEF Follows, Sized
  <1>4. \A t \in Storages : ~Working(t) BY <1>1 DEF Working, Idle
  <1>5. CASE ~checkAlignment(s, buffer[s].base)
    <2>1. layout' = [layout EXCEPT ![s] = <<>>] /\ loop' = Idle
      BY <1>5 DEF Construct, Throw
    <2>2. layout' = layout BY <1>1, <2>1 DEF TypeOK, LayoutTypeOK
    <2>3. Built(o)' BY <1>1, <1>4, <2>2, KeepBuilt DEF Follows
    <2>4. Summing(o)' /\ Building(o)' /\ Printing(o)'
      BY <2>1 DEF Summing, Building, Printing, Idle
    <2>5. LayoutTypeOK' BY <1>1, <2>1, <2>2 DEF TypeOK, LayoutTypeOK, Loops
    <2> QED BY <1>1, <1>3, <1>5, <2>2, <2>3, <2>4, <2>5 DEF Follows, checkAlignment
  <1>6. CASE checkAlignment(s, buffer[s].base)
    <2> DEFINE block == NewBlock(buffer[s].base, sizes_[s][1])
    <2>1. /\ layout' = [layout EXCEPT ![s] = <<block>>]
          /\ loop' = [at |-> "place", target |-> s, block |-> 1, column |-> 1, cur |-> buffer[s].base]
          /\ result' = result
      BY <1>6 DEF Construct, PlaceFrom
    <2>2. block \in Layout /\ block.columns = <<>> /\ block.mem_ = buffer[s].base
          /\ block.elements_ = sizes_[s][1]
      <3>1. sizes_[s][1] \in Nat /\ <<>> \in Seq([addr : Nat, stride : Nat, padded : Nat])
        BY <1>2, Numbers DEF Sizes
      <3> QED BY <1>2, <3>1 DEF NewBlock, Layout
    <2> HIDE DEF block
    <2>3. /\ layout'[s] = <<block>> /\ \A t \in Storages : t # s => layout'[t] = layout[t]
          /\ layout' \in [Storages -> Seq(Layout)]
      <3>1. <<block>> \in Seq(Layout) BY <2>2
      <3> QED BY <2>1, <3>1 DEF TypeOK, LayoutTypeOK
    <2>4. loop' \in Loops BY <1>2, <2>1, Numbers DEF Loops
    <2>5. o[s][1][1] = 0 BY <1>2, WholeTable
    <2>6. Building(o)'
      <3>1. layout'[s] # <<>> /\ Len(layout'[s]) = 1 /\ layout'[s][1] = block BY <2>3
      <3>2. 1 \in DOMAIN Blocks /\ 1 \in DOMAIN Blocks[1] BY Numbers
      <3>3. buffer[s].base = buffer[s].base + o[s][1][1] BY <1>2, <2>5
      <3> QED BY <1>1, <2>1, <2>2, <3>1, <3>2, <3>3 DEF Building, Current
    <2>7. Built(o)'
      <3> SUFFICES ASSUME NEW t \in Storages, layout'[t] # <<>>
                   PROVE  /\ buffer[t] # None
                          /\ checkAlignment(t, buffer[t].base)
                          /\ \/ Len(layout'[t]) = Len(Blocks)
                             \/ Working(t)' /\ Len(layout'[t]) < Len(Blocks)
                          /\ \A b \in DOMAIN layout'[t] :
                                /\ InPlace(o, t, b)'
                                /\ Finished(o, t, b)' \/ (Working(t)' /\ b = Len(layout'[t]))
        BY <1>1 DEF Built
      <3>1. CASE t = s
        <4>1. Working(t)' BY <2>1, <3>1 DEF Working
        <4>2. Len(layout'[t]) = 1 /\ layout'[t][1] = block /\ DOMAIN layout'[t] = {1}
          <5>1. layout'[t] = <<block>> BY <2>3, <3>1
          <5>2. Len(<<block>>) = 1 /\ <<block>>[1] = block /\ DOMAIN <<block>> = {1} OBVIOUS
          <5> QED BY <5>1, <5>2
        <4>3. InPlace(o, t, 1)'
          <5>1. Len(block.columns) = 0 /\ DOMAIN block.columns = {} BY <2>2
          <5>2. buffer[s].base = buffer[s].base + o[s][1][1] BY <1>2, <2>5
          <5>3. 0 <= Last(1) BY Numbers
          <5> QED BY <1>1, <2>2, <3>1, <4>2, <5>1, <5>2, <5>3 DEF InPlace
        <4>4. 1 = Len(Blocks) \/ 1 < Len(Blocks) BY Numbers
        <4> QED BY <1>1, <1>6, <3>1, <4>1, <4>2, <4>3, <4>4
      <3>2. CASE t # s
        <4>1. layout'[t] = layout[t] /\ ~Working(t) BY <1>4, <2>3, <3>2
        <4>2. /\ buffer[t] # None /\ checkAlignment(t, buffer[t].base)
              /\ Len(layout[t]) = Len(Blocks)
              /\ \A b \in DOMAIN layout[t] : InPlace(o, t, b) /\ Finished(o, t, b)
          BY <4>1 DEF Follows, Built
        <4>3. \A b \in DOMAIN layout[t] : InPlace(o, t, b)' /\ Finished(o, t, b)'
          BY <1>1, <4>1, <4>2 DEF InPlace, Finished
        <4> QED BY <4>1, <4>2, <4>3
      <3> QED BY <3>1, <3>2
    <2>8. Summing(o)' /\ Printing(o)' BY <2>1 DEF Summing, Printing
    <2>9. LayoutTypeOK' BY <1>1, <2>3, <2>4 DEF TypeOK, LayoutTypeOK
    <2> QED BY <1>3, <2>1, <2>6, <2>7, <2>8, <2>9 DEF Follows
  <1> QED BY <1>5, <1>6

(* A layout under construction follows its table, and if its type enforces  *)
(* the alignment all of the table's addresses have it.                      *)
LEMMA UnderConstruction ==
    ASSUME TypeOK, NEW o \in [Storages -> Tables], Follows(o), loop.at \in {"place", "check"}
    PROVE  LET s == loop.target
               b == loop.block
               c == loop.column
           IN  /\ s \in Storages /\ b \in DOMAIN Blocks /\ c \in DOMAIN Blocks[b]
               /\ Working(s) /\ \A t \in Storages : t # s => ~Working(t)
               /\ layout[s] \in Seq(Layout) /\ Len(layout[s]) = b /\ b \in DOMAIN layout[s]
               /\ layout[s][b] \in Layout /\ Current = layout[s][b]
               /\ buffer[s] # None /\ buffer[s].base \in Nat
               /\ sizes_[s] \in Sizes /\ sizes_[s][b] \in Nat /\ Current.elements_ = sizes_[s][b]
               /\ Whole(o[s], sizes_[s]) /\ o[s] \in Tables
               /\ \A g \in DOMAIN layout[s] : g \in DOMAIN Blocks /\ InPlace(o, s, g)
               /\ \A g \in DOMAIN layout[s] : g # b => Finished(o, s, g)
               /\ checkAlignment(s, buffer[s].base)
               /\ \A g \in DOMAIN Blocks : \A h \in 1 .. Last(g) + 1 :
                      checkAlignment(s, buffer[s].base + o[s][g][h])
  <1> DEFINE s == loop.target
             b == loop.block
  <1>1. s \in Storages /\ b \in DOMAIN Blocks BY DEF TypeOK, LayoutTypeOK, Loops, Idle
  <1>2. loop.column \in DOMAIN Blocks[b] /\ layout[s] # <<>> /\ Len(layout[s]) = b
    BY DEF Follows, Building
  <1>3. layout[s] \in Seq(Layout) BY <1>1 DEF TypeOK, LayoutTypeOK
  <1>4. b \in Nat \ {0} /\ b <= Len(Blocks) BY <1>1, Numbers
  <1>5. b \in DOMAIN layout[s] /\ layout[s][b] \in Layout BY <1>2, <1>3, <1>4
  <1>6. /\ buffer[s] # None /\ checkAlignment(s, buffer[s].base)
        /\ \A g \in DOMAIN layout[s] : InPlace(o, s, g) /\ (Finished(o, s, g) \/ g = b)
    BY <1>1, <1>2 DEF Follows, Built
  <1>7. /\ buffer[s].base \in Nat /\ sizes_[s] \in Sizes /\ Whole(o[s], sizes_[s]) /\ o[s] \in Tables
    BY <1>1, <1>6, BufferThere DEF Follows
  <1>8. sizes_[s][b] \in Nat BY <1>1, <1>7 DEF Sizes
  <1>9. Current.elements_ = sizes_[s][b] BY <1>5, <1>6 DEF Current, InPlace
  <1>10. DOMAIN layout[s] = 1 .. b /\ DOMAIN Blocks = 1 .. Len(Blocks) BY <1>2, <1>3, Numbers
  <1>11. \A g \in DOMAIN layout[s] : g \in DOMAIN Blocks BY <1>4, <1>10, Numbers
  <1>12. ASSUME NEW g \in DOMAIN Blocks, NEW h \in 1 .. Last(g) + 1
         PROVE  checkAlignment(s, buffer[s].base + o[s][g][h])
    <2>1. o[s][g][h] \in Nat /\ o[s][g][h] % Alignment = 0 BY <1>7, WholeTable
    <2>2. buffer[s].base % Alignment = 0 => (buffer[s].base + o[s][g][h]) % Alignment = 0
      BY <1>7, <2>1, MultipleSum, AlignmentAssumption
    <2> QED BY <1>6, <2>2 DEF checkAlignment, Misaligned
  <1>13. Working(s) /\ \A t \in Storages : t # s => ~Working(t) BY DEF Working
  <1> QED BY <1>1, <1>2, <1>3, <1>5, <1>6, <1>7, <1>8, <1>9, <1>11, <1>12, <1>13 DEF Current
(* Sequences one longer, and with one element replaced.                     *)
LEMMA Appended ==
    ASSUME NEW S, NEW q \in Seq(S), NEW x \in S
    PROVE  /\ Append(q, x) \in Seq(S) /\ Len(Append(q, x)) = Len(q) + 1
           /\ DOMAIN Append(q, x) = 1 .. Len(q) + 1 /\ Append(q, x)[Len(q) + 1] = x
           /\ \A d \in 1 .. Len(q) : d \in DOMAIN q /\ Append(q, x)[d] = q[d]
  OBVIOUS

LEMMA ElementReplaced ==
    ASSUME NEW S, NEW q \in Seq(S), NEW d \in DOMAIN q, NEW x \in S
    PROVE  /\ [q EXCEPT ![d] = x] \in Seq(S) /\ Len([q EXCEPT ![d] = x]) = Len(q)
           /\ DOMAIN [q EXCEPT ![d] = x] = DOMAIN q /\ [q EXCEPT ![d] = x][d] = x
           /\ \A g \in DOMAIN q : g # d => [q EXCEPT ![d] = x][g] = q[g]
  OBVIOUS

(* A column is placed at its offset, never at a misaligned address.         *)
LEMMA PlaceStep ==
    ASSUME TypeOK, NEW o \in [Storages -> Tables], Follows(o), Place
    PROVE  LayoutTypeOK' /\ Follows(o)' /\ result' = result
  <1> DEFINE s == loop.target
             b == loop.block
             c == loop.column
             n == sizes_[s]
             base == buffer[s].base
             col == Placed(Blocks[b][c], n[b], loop.cur)
             next == loop.cur + PlacedBytes(Blocks[b][c], n[b])
             old == layout[s][b].columns
  <1>1. loop.at = "place" /\ sizes_' = sizes_ /\ buffer' = buffer BY DEF Place
  <1>2. /\ s \in Storages /\ b \in DOMAIN Blocks /\ c \in DOMAIN Blocks[b]
        /\ Working(s) /\ \A t \in Storages : t # s => ~Working(t)
        /\ layout[s] \in Seq(Layout) /\ Len(layout[s]) = b /\ b \in DOMAIN layout[s]
        /\ layout[s][b] \in Layout /\ Current = layout[s][b]
        /\ buffer[s] # None /\ base \in Nat
        /\ n \in Sizes /\ n[b] \in Nat /\ Current.elements_ = n[b]
        /\ Whole(o[s], n) /\ o[s] \in Tables
        /\ \A g \in DOMAIN layout[s] : g \in DOMAIN Blocks /\ InPlace(o, s, g)
        /\ \A g \in DOMAIN layout[s] : g # b => Finished(o, s, g)
        /\ checkAlignment(s, base)
        /\ \A g \in DOMAIN Blocks : \A h \in 1 .. Last(g) + 1 : checkAlignment(s, base + o[s][g][h])
    BY <1>1, UnderConstruction
  <1>3. c \in Nat \ {0} /\ c <= Last(b) /\ Last(b) \in Nat /\ b \in Nat BY <1>2, Numbers
  <1>4. Len(old) = c - 1 /\ loop.cur = base + o[s][b][c]
    BY <1>1, <1>2 DEF Follows, Building
  <1>5. /\ o[s][b][c] \in Nat /\ o[s][b][c + 1] \in Nat
        /\ o[s][b][c + 1] = o[s][b][c] + Bytes(b, c, n) /\ checkAlignment(s, loop.cur)
    <2>1. c \in 1 .. Last(b) + 1 /\ c + 1 \in 1 .. Last(b) + 1 BY <1>3
    <2>2. o[s][b][c] \in Nat /\ o[s][b][c + 1] \in Nat BY <1>2, <2>1, WholeTable
    <2>3. o[s][b][c + 1] = o[s][b][c] + Bytes(b, c, n) BY <1>2, WholeTable
    <2> QED BY <1>2, <1>4, <2>1, <2>2, <2>3
  <1>6. next = base + o[s][b][c + 1] /\ next \in Nat /\ loop.cur \in Nat
    <2>1. Bytes(b, c, n) \in Nat BY <1>2, BytesType
    <2> QED BY <1>2, <1>4, <1>5, <2>1 DEF Bytes
  <1>7. col \in [addr : Nat, stride : Nat, padded : Nat]
    <2>1. Stride(Blocks[b][c], n[b]) \in Nat /\ Placed(Blocks[b][c], n[b], 0).padded \in Nat
      BY <1>2, ColumnBytes
    <2> QED BY <1>6, <2>1 DEF Placed
  <1>8. /\ layout' = [layout EXCEPT ![s][b].columns = Append(@, col)]
        /\ loop' = IF LastColumn
                   THEN [at |-> "check", target |-> s, block |-> b, column |-> 1, cur |-> next, ret |-> 0]
                   ELSE [loop EXCEPT !.cur = next, !.column = c + 1]
        /\ result' = result
    BY <1>2, <1>5 DEF Place
  <1>9. old \in Seq([addr : Nat, stride : Nat, padded : Nat]) BY <1>2 DEF Layout
  <1> HIDE DEF col, next
  <1> DEFINE new == [layout[s][b] EXCEPT !.columns = Append(old, col)]
  <1>10. /\ layout'[s] = [layout[s] EXCEPT ![b] = new]
         /\ \A t \in Storages : t # s => layout'[t] = layout[t]
         /\ DOMAIN layout' = Storages
    BY <1>2, <1>8 DEF TypeOK, LayoutTypeOK
  <1>13. /\ Append(old, col) \in Seq([addr : Nat, stride : Nat, padded : Nat])
         /\ Len(Append(old, col)) = c /\ DOMAIN Append(old, col) = 1 .. c
         /\ Append(old, col)[c] = col
         /\ \A d \in 1 .. c - 1 : d \in DOMAIN old /\ Append(old, col)[d] = old[d]
    <2>1. Len(old) + 1 = c /\ Len(old) = c - 1 BY <1>3, <1>4
    <2> DEFINE P == [addr : Nat, stride : Nat, padded : Nat]
    <2>a. old \in Seq(P) /\ col \in P BY <1>7, <1>9
    <2> HIDE DEF old, P
    <2>2. /\ Append(old, col) \in Seq(P)
          /\ Len(Append(old, col)) = Len(old) + 1
          /\ DOMAIN Append(old, col) = 1 .. Len(old) + 1 /\ Append(old, col)[Len(old) + 1] = col
          /\ \A d \in 1 .. Len(old) : d \in DOMAIN old /\ Append(old, col)[d] = old[d]
      BY <2>a, Appended
    <2> QED BY <2>1, <2>2 DEF P
  <1>11. /\ new.mem_ = layout[s][b].mem_ /\ new.elements_ = layout[s][b].elements_
         /\ new.byteSize_ = layout[s][b].byteSize_ /\ new.columns = Append(old, col)
         /\ new \in Layout
    BY <1>2, <1>13 DEF Layout
  <1> HIDE DEF new
  <1>12. /\ layout'[s] \in Seq(Layout) /\ Len(layout'[s]) = b /\ DOMAIN layout'[s] = DOMAIN layout[s]
         /\ \A g \in DOMAIN layout[s] : g # b => layout'[s][g] = layout[s][g]
         /\ layout'[s][b] = new /\ layout'[s] # <<>>
    <2>1. layout'[s] \in Seq(Layout) /\ Len(layout'[s]) = b /\ DOMAIN layout'[s] = DOMAIN layout[s]
          /\ \A g \in DOMAIN layout[s] : g # b => layout'[s][g] = layout[s][g]
      BY <1>2, <1>10, <1>11, ElementReplaced
    <2>2. layout'[s][b] = new BY <1>2, <1>10, <1>11, ElementReplaced
    <2> QED BY <1>2, <2>1, <2>2
  <1>14. layout' \in [Storages -> Seq(Layout)]
    <2>1. \A t \in Storages : layout'[t] \in Seq(Layout)
      BY <1>10, <1>12 DEF TypeOK, LayoutTypeOK
    <2>2. layout' = [t \in Storages |-> layout'[t]] BY <1>8, <1>10 DEF TypeOK, LayoutTypeOK
    <2> QED BY <2>1, <2>2
  <1>15. /\ loop'.at \in {"place", "check"} /\ loop'.target = s /\ loop'.block = b
         /\ loop'.cur = next /\ loop' \in Loops
         /\ LastColumn => loop'.at = "check" /\ loop'.column = 1 /\ loop'.ret = 0
         /\ ~LastColumn => loop'.at = "place" /\ loop'.column = c + 1
    <2>1. CASE LastColumn BY <1>2, <1>6, <1>8, <2>1 DEF Loops
    <2>2. CASE ~LastColumn
      <3>1. loop \in [at : {"place"}, target : Storages, block : DOMAIN Blocks, column : Nat, cur : Nat]
        BY <1>1 DEF TypeOK, LayoutTypeOK, Loops, Idle
      <3>2. loop' = [at |-> "place", target |-> s, block |-> b, column |-> c + 1, cur |-> next]
        BY <1>1, <1>8, <2>2, <3>1
      <3> QED BY <1>2, <1>3, <1>6, <2>2, <3>2 DEF Loops
    <2> QED BY <2>1, <2>2
  <1>16. Working(s)' /\ \A t \in Storages : t # s => ~Working(t)' BY <1>15 DEF Working
  <1>17. InPlace(o, s, b)'
    <2>1. /\ layout[s][b].mem_ = base + o[s][b][1] /\ layout[s][b].elements_ = n[b]
          /\ \A d \in DOMAIN old : old[d] = Placed(Blocks[b][d], n[b], base + o[s][b][d])
      BY <1>2 DEF InPlace
    <2>2. ASSUME NEW d \in 1 .. c
          PROVE  Append(old, col)[d] = Placed(Blocks[b][d], n[b], base + o[s][b][d])
      <3>1. CASE d = c BY <1>4, <1>13, <3>1 DEF col
      <3>2. CASE d # c
        <4>1. d \in 1 .. c - 1 BY <1>3, <3>2
        <4> QED BY <1>13, <2>1, <4>1
      <3> QED BY <3>1, <3>2
    <2>3. layout'[s][b].columns = Append(old, col) /\ layout'[s][b].mem_ = base + o[s][b][1]
          /\ layout'[s][b].elements_ = n[b]
      BY <1>11, <1>12, <2>1
    <2>4. Len(layout'[s][b].columns) <= Last(b) /\ DOMAIN layout'[s][b].columns = 1 .. c
      BY <1>3, <1>13, <2>3
    <2> QED BY <1>1, <1>15, <2>2, <2>3, <2>4 DEF InPlace
  <1>18. Built(o)'
    <2> SUFFICES ASSUME NEW t \in Storages, layout'[t] # <<>>
                 PROVE  /\ buffer[t] # None
                        /\ checkAlignment(t, buffer[t].base)
                        /\ \/ Len(layout'[t]) = Len(Blocks)
                           \/ Working(t)' /\ Len(layout'[t]) < Len(Blocks)
                        /\ \A g \in DOMAIN layout'[t] :
                              /\ InPlace(o, t, g)'
                              /\ Finished(o, t, g)' \/ (Working(t)' /\ g = Len(layout'[t]))
      BY <1>1 DEF Built
    <2>1. CASE t = s
      <3>1. b = Len(Blocks) \/ b < Len(Blocks) BY <1>2, Numbers
      <3>2. ASSUME NEW g \in DOMAIN layout'[t], g # b
            PROVE  InPlace(o, t, g)' /\ Finished(o, t, g)'
        <4>1. g \in DOMAIN layout[s] /\ layout'[s][g] = layout[s][g] BY <1>12, <2>1, <3>2
        <4>2. InPlace(o, s, g) /\ Finished(o, s, g) BY <1>2, <3>2, <4>1
        <4> QED BY <1>1, <2>1, <4>1, <4>2 DEF InPlace, Finished
      <3>3. Working(t)' /\ Len(layout'[t]) = b BY <1>12, <1>15, <2>1 DEF Working
      <3>4. buffer[t] # None /\ checkAlignment(t, buffer[t].base) BY <1>2, <2>1
      <3>5. ASSUME NEW g \in DOMAIN layout'[t], g = b PROVE InPlace(o, t, g)'
        BY <1>15, <1>17, <2>1, <3>5 DEF InPlace
      <3> QED BY <3>1, <3>2, <3>3, <3>4, <3>5
    <2>2. CASE t # s
      <3>1. layout'[t] = layout[t] /\ ~Working(t) BY <1>2, <1>10, <2>2
      <3>2. /\ buffer[t] # None /\ checkAlignment(t, buffer[t].base) /\ Len(layout[t]) = Len(Blocks)
            /\ \A g \in DOMAIN layout[t] : InPlace(o, t, g) /\ Finished(o, t, g)
        BY <3>1 DEF Follows, Built
      <3>3. \A g \in DOMAIN layout[t] : InPlace(o, t, g)' /\ Finished(o, t, g)'
        BY <1>1, <3>1, <3>2 DEF InPlace, Finished
      <3> QED BY <3>1, <3>2, <3>3
    <2> QED BY <2>1, <2>2
  <1>19. Building(o)'
    <2>1. Current' = layout'[s][b] BY <1>15 DEF Current
    <2>2. Len(Current'.columns) = c BY <1>11, <1>12, <1>13, <2>1
    <2>3. CASE LastColumn
      <3>1. c = Last(b) BY <2>3 DEF LastColumn, Last
      <3>2. 1 \in DOMAIN Blocks[b] BY <1>2, Numbers
      <3>3. o[s][b][1] \in Nat BY <1>2, <1>3 DEF Tables
      <3>4. loop'.ret = o[s][b][1] - o[s][b][1] BY <1>15, <2>3, <3>3
      <3> QED BY <1>1, <1>6, <1>12, <1>15, <2>2, <2>3, <3>1, <3>2, <3>4 DEF Building
    <2>4. CASE ~LastColumn
      <3>1. c + 1 \in DOMAIN Blocks[b] BY <1>2, <1>3, <2>4, Numbers DEF LastColumn, Last
      <3>2. Len(Current'.columns) = (c + 1) - 1 BY <1>3, <2>2
      <3> QED BY <1>1, <1>6, <1>12, <1>15, <2>4, <3>1, <3>2 DEF Building
    <2> QED BY <2>3, <2>4
  <1>20. Sized(o)' BY <1>1 DEF Follows, Sized
  <1>21. Summing(o)' /\ Printing(o)' BY <1>15 DEF Summing, Printing
  <1>22. LayoutTypeOK' BY <1>1, <1>14, <1>15 DEF TypeOK, LayoutTypeOK
  <1> QED BY <1>8, <1>18, <1>19, <1>20, <1>21, <1>22 DEF Follows
(* The final check sums the columns again: the same sum.                    *)
LEMMA CheckedSum ==
    ASSUME TypeOK, NEW o \in [Storages -> Tables], Follows(o), loop.at = "check"
    PROVE  LET s == loop.target
               b == loop.block
               c == loop.column
           IN  /\ Summed = o[s][b][c + 1] - o[s][b][1] /\ Summed \in Nat
               /\ Current.mem_ = buffer[s].base + o[s][b][1]
               /\ loop.cur = buffer[s].base + o[s][b][Last(b) + 1]
               /\ o[s][b][1] \in Nat /\ o[s][b][c + 1] \in Nat
  <1> DEFINE s == loop.target
             b == loop.block
             c == loop.column
             n == sizes_[s]
  <1>1. /\ s \in Storages /\ b \in DOMAIN Blocks /\ c \in DOMAIN Blocks[b]
        /\ b \in DOMAIN layout[s] /\ Current = layout[s][b] /\ InPlace(o, s, b)
        /\ n \in Sizes /\ n[b] \in Nat /\ Whole(o[s], n) /\ o[s] \in Tables
    BY UnderConstruction
  <1>2. c \in Nat \ {0} /\ c <= Last(b) /\ Last(b) \in Nat BY <1>1, Numbers
  <1>3. 1 \in 1 .. Last(b) + 1 /\ c \in 1 .. Last(b) + 1 /\ c + 1 \in 1 .. Last(b) + 1 BY <1>2
  <1>4. /\ o[s][b][1] \in Nat /\ o[s][b][c] \in Nat /\ o[s][b][c + 1] \in Nat
        /\ o[s][b][c + 1] = o[s][b][c] + Bytes(b, c, n)
    BY <1>1, <1>3, WholeTable
  <1>5. Bytes(b, c, n) \in Nat /\ ComputePitch(Blocks[b][c], n[b]) = Bytes(b, c, n)
    <2>1. ComputePitch(Blocks[b][c], n[b]) = PlacedBytes(Blocks[b][c], n[b]) BY <1>1, ColumnBytes
    <2>2. Bytes(b, c, n) \in Nat BY <1>1, BytesType
    <2> QED BY <2>1, <2>2 DEF Bytes
  <1>6. /\ loop.ret = o[s][b][c] - o[s][b][1]
        /\ loop.cur = buffer[s].base + o[s][b][Last(b) + 1]
    BY DEF Follows, Building
  <1>7. loop.ret \in Nat BY DEF TypeOK, LayoutTypeOK, Loops, Idle
  <1>8. Summed = loop.ret + Bytes(b, c, n) BY <1>5 DEF Summed
  <1>9. Summed = o[s][b][c + 1] - o[s][b][1] /\ Summed \in Nat
    BY <1>4, <1>5, <1>6, <1>7, <1>8
  <1> QED BY <1>1, <1>4, <1>6, <1>9 DEF InPlace

LEMMA AccumulateBlockStep ==
    ASSUME TypeOK, NEW o \in [Storages -> Tables], Follows(o), AccumulateBlock
    PROVE  LayoutTypeOK' /\ Follows(o)'
  <1> DEFINE s == loop.target
             b == loop.block
             c == loop.column
  <1>1. /\ loop.at = "check" /\ ~LastColumn
        /\ sizes_' = sizes_ /\ buffer' = buffer /\ layout' = layout
        /\ loop' = [loop EXCEPT !.ret = Summed, !.column = c + 1]
    BY DEF AccumulateBlock
  <1>2. /\ s \in Storages /\ b \in DOMAIN Blocks /\ c \in DOMAIN Blocks[b]
    BY <1>1, UnderConstruction
  <1>3. Summed = o[s][b][c + 1] - o[s][b][1] /\ Summed \in Nat BY <1>1, CheckedSum
  <1>4. loop \in [at : {"check"}, target : Storages, block : DOMAIN Blocks, column : Nat,
                  cur : Nat, ret : Nat]
    BY <1>1 DEF TypeOK, LayoutTypeOK, Loops, Idle
  <1>5. c + 1 \in Nat /\ c + 1 \in DOMAIN Blocks[b]
    BY <1>1, <1>2, Numbers DEF LastColumn, Last
  <1>6. loop' = [at |-> "check", target |-> s, block |-> b, column |-> c + 1, cur |-> loop.cur,
                 ret |-> Summed]
    BY <1>1, <1>4
  <1>7. loop' \in Loops BY <1>3, <1>4, <1>5, <1>6 DEF Loops
  <1>8. LayoutTypeOK' BY <1>1, <1>7 DEF TypeOK, LayoutTypeOK
  <1>9. \A t \in Storages : Working(t)' <=> Working(t) BY <1>1, <1>6 DEF Working
  <1>10. Built(o)'
    <2> SUFFICES ASSUME NEW t \in Storages, layout[t] # <<>>
                 PROVE  /\ buffer[t] # None
                        /\ checkAlignment(t, buffer[t].base)
                        /\ \/ Len(layout[t]) = Len(Blocks)
                           \/ Working(t)' /\ Len(layout[t]) < Len(Blocks)
                        /\ \A g \in DOMAIN layout[t] :
                              /\ InPlace(o, t, g)'
                              /\ Finished(o, t, g)' \/ (Working(t)' /\ g = Len(layout[t]))
      BY <1>1 DEF Built
    <2>1. \A g \in DOMAIN layout[t] :
              (InPlace(o, t, g)' <=> InPlace(o, t, g)) /\ (Finished(o, t, g)' <=> Finished(o, t, g))
      BY <1>1 DEF InPlace, Finished
    <2> QED BY <1>9, <2>1 DEF Follows, Built
  <1>11. Building(o)'
    <2>1. Current' = Current BY <1>1, <1>6 DEF Current
    <2> QED BY <1>1, <1>3, <1>5, <1>6, <2>1 DEF Follows, Building
  <1>12. Sized(o)' BY <1>1 DEF Follows, Sized
  <1>13. Summing(o)' /\ Printing(o)' BY <1>6 DEF Summing, Printing
  <1> QED BY <1>8, <1>10, <1>11, <1>12, <1>13 DEF Follows

(* The block ends where its columns do and where the next one may start:    *)
(* the constructor does not throw.                                          *)
LEMMA EndBlockStep ==
    ASSUME TypeOK, NEW o \in [Storages -> Tables], Follows(o), EndBlock
    PROVE  LayoutTypeOK' /\ Follows(o)' /\ (result' = result \/ result'.kind = "ok")
  <1> DEFINE s == loop.target
             b == loop.block
             n == sizes_[s]
             base == buffer[s].base
             end == Current.mem_ + Summed
             new == [layout[s][b] EXCEPT !.byteSize_ = Summed]
             done == [layout[s] EXCEPT ![b] = new]
  <1>1. loop.at = "check" /\ LastColumn /\ sizes_' = sizes_ /\ buffer' = buffer BY DEF EndBlock
  <1>2. /\ s \in Storages /\ b \in DOMAIN Blocks
        /\ Working(s) /\ \A t \in Storages : t # s => ~Working(t)
        /\ layout[s] \in Seq(Layout) /\ Len(layout[s]) = b /\ b \in DOMAIN layout[s]
        /\ layout[s][b] \in Layout /\ Current = layout[s][b]
        /\ buffer[s] # None /\ base \in Nat /\ n \in Sizes
        /\ Whole(o[s], n) /\ o[s] \in Tables
        /\ \A g \in DOMAIN layout[s] : g \in DOMAIN Blocks /\ InPlace(o, s, g)
        /\ \A g \in DOMAIN layout[s] : g # b => Finished(o, s, g)
        /\ checkAlignment(s, base)
        /\ \A g \in DOMAIN Blocks : \A h \in 1 .. Last(g) + 1 : checkAlignment(s, base + o[s][g][h])
    BY <1>1, UnderConstruction
  <1>3. b \in Nat \ {0} /\ Last(b) \in Nat \ {0} /\ b <= Len(Blocks) /\ Len(Blocks) \in Nat
    BY <1>2, Numbers
  <1>4. loop.column = Last(b) BY <1>1 DEF LastColumn, Last
  <1>5. /\ Summed = o[s][b][Last(b) + 1] - o[s][b][1] /\ Summed \in Nat
        /\ Current.mem_ = base + o[s][b][1] /\ loop.cur = base + o[s][b][Last(b) + 1]
        /\ o[s][b][1] \in Nat /\ o[s][b][Last(b) + 1] \in Nat
    BY <1>1, <1>4, CheckedSum
  <1>6. end = loop.cur /\ end = base + o[s][b][Last(b) + 1] /\ end \in Nat
    <2> DEFINE x == o[s][b][1]
               y == o[s][b][Last(b) + 1]
    <2>1. /\ x \in Nat /\ y \in Nat /\ base \in Nat /\ Summed = y - x
          /\ Current.mem_ = base + x /\ loop.cur = base + y
      BY <1>2, <1>5
    <2> HIDE DEF x, y, base
    <2>2. Current.mem_ + Summed = base + y BY <2>1
    <2> QED BY <2>1, <2>2 DEF y
  <1>7. checkAlignment(s, end)
    <2>1. Last(b) + 1 \in 1 .. Last(b) + 1 BY <1>3
    <2> QED BY <1>2, <1>6, <2>1
  <1>8. Len(layout[s][b].columns) = Last(b)
    BY <1>1, <1>2 DEF Follows, Building
  <1>9. /\ layout' = IF b < Len(Blocks)
                     THEN [layout EXCEPT ![s] = Append(done, NewBlock(end, n[b + 1]))]
                     ELSE [layout EXCEPT ![s] = done]
        /\ loop' = IF b < Len(Blocks)
                   THEN [at |-> "place", target |-> s, block |-> b + 1, column |-> 1, cur |-> end]
                   ELSE Idle
        /\ IF b < Len(Blocks) THEN result' = result ELSE result'.kind = "ok"
    <2>1. layout[s] \in Seq(Layout) /\ layout \in [Storages -> Seq(Layout)]
      BY <1>2 DEF TypeOK, LayoutTypeOK
    <2>2. [layout EXCEPT ![s][b].byteSize_ = Summed] = [layout EXCEPT ![s] = done] BY <1>2, <2>1
    <2>3. [[layout EXCEPT ![s] = done] EXCEPT ![s] = Append(@, NewBlock(end, n[b + 1]))]
              = [layout EXCEPT ![s] = Append(done, NewBlock(end, n[b + 1]))]
      BY <1>2, <2>1
    <2>4. ~(end # loop.cur \/ ~(b < Len(Blocks) => checkAlignment(s, end))) BY <1>6, <1>7
    <2> HIDE DEF end, done
    <2>5. CASE b < Len(Blocks)
      BY <1>1, <2>2, <2>3, <2>4, <2>5 DEF EndBlock, PlaceFrom, end
    <2>6. CASE ~(b < Len(Blocks))
      BY <1>1, <2>2, <2>4, <2>6 DEF EndBlock, Return, end
    <2> QED BY <2>5, <2>6
  <1>10. /\ new.mem_ = layout[s][b].mem_ /\ new.elements_ = layout[s][b].elements_
         /\ new.byteSize_ = Summed /\ new.columns = layout[s][b].columns /\ new \in Layout
    BY <1>2, <1>5 DEF Layout
  <1> HIDE DEF new
  <1>11. /\ done \in Seq(Layout) /\ Len(done) = b /\ DOMAIN done = 1 .. b
         /\ done[b] = new /\ \A g \in 1 .. b : g # b => done[g] = layout[s][g]
    <2>1. DOMAIN layout[s] = 1 .. b BY <1>2
    <2> QED BY <1>2, <1>10, <2>1, ElementReplaced
  <1> HIDE DEF done, end
  <1>12. \A g \in 1 .. b :
             /\ g \in DOMAIN Blocks
             /\ done[g].mem_ = base + o[s][g][1] /\ done[g].elements_ = n[g]
             /\ Len(done[g].columns) = Last(g)
             /\ done[g].byteSize_ = o[s][g][Last(g) + 1] - o[s][g][1]
             /\ \A d \in DOMAIN done[g].columns :
                    done[g].columns[d] = Placed(Blocks[g][d], n[g], base + o[s][g][d])
    <2> SUFFICES ASSUME NEW g \in 1 .. b
                 PROVE  /\ g \in DOMAIN Blocks
                        /\ done[g].mem_ = base + o[s][g][1] /\ done[g].elements_ = n[g]
                        /\ Len(done[g].columns) = Last(g)
                        /\ done[g].byteSize_ = o[s][g][Last(g) + 1] - o[s][g][1]
                        /\ \A d \in DOMAIN done[g].columns :
                               done[g].columns[d] = Placed(Blocks[g][d], n[g], base + o[s][g][d])
      OBVIOUS
    <2>0. g \in DOMAIN layout[s] BY <1>2
    <2>1. g \in DOMAIN Blocks /\ InPlace(o, s, g) BY <1>2, <2>0
    <2>2. CASE g = b BY <1>5, <1>8, <1>10, <1>11, <2>1, <2>2 DEF InPlace
    <2>3. CASE g # b
      <3>1. Finished(o, s, g) /\ done[g] = layout[s][g] BY <1>2, <1>11, <2>0, <2>3
      <3> QED BY <2>1, <3>1 DEF InPlace, Finished
    <2> QED BY <2>2, <2>3
  <1>13. Sized(o)' BY <1>1 DEF Follows, Sized
  <1>14. \A t \in Storages : t # s => layout'[t] = layout[t]
    BY <1>9 DEF TypeOK, LayoutTypeOK
  <1>15. ASSUME NEW t \in Storages, t # s, layout[t] # <<>>
         PROVE  /\ buffer[t] # None /\ checkAlignment(t, buffer[t].base)
                /\ Len(layout[t]) = Len(Blocks)
                /\ \A g \in DOMAIN layout[t] : InPlace(o, t, g)' /\ Finished(o, t, g)'
    <2>1. layout'[t] = layout[t] /\ ~Working(t) BY <1>2, <1>14, <1>15
    <2>2. /\ buffer[t] # None /\ checkAlignment(t, buffer[t].base) /\ Len(layout[t]) = Len(Blocks)
          /\ \A g \in DOMAIN layout[t] : InPlace(o, t, g) /\ Finished(o, t, g)
      BY <1>15, <2>1 DEF Follows, Built
    <2> QED BY <1>1, <2>1, <2>2 DEF InPlace, Finished
  <1>16. CASE ~(b < Len(Blocks))
    <2>1. layout'[s] = done /\ loop' = Idle BY <1>2, <1>9, <1>16 DEF TypeOK, LayoutTypeOK
    <2>2. layout' \in [Storages -> Seq(Layout)]
      BY <1>2, <1>9, <1>11, <1>16 DEF TypeOK, LayoutTypeOK
    <2>3. Built(o)'
      <3> SUFFICES ASSUME NEW t \in Storages, layout'[t] # <<>>
                   PROVE  /\ buffer[t] # None
                          /\ checkAlignment(t, buffer[t].base)
                          /\ Len(layout'[t]) = Len(Blocks)
                          /\ \A g \in DOMAIN layout'[t] : InPlace(o, t, g)' /\ Finished(o, t, g)'
        BY <1>1 DEF Built
      <3>1. CASE t = s
        <4>1. layout'[t] = done BY <2>1, <3>1
        <4>2. \A g \in DOMAIN layout'[t] : InPlace(o, t, g)' /\ Finished(o, t, g)'
          <5> SUFFICES ASSUME NEW g \in 1 .. b PROVE InPlace(o, t, g)' /\ Finished(o, t, g)'
            BY <1>11, <4>1
          <5>1. Last(g) <= Last(g) BY <1>12, Numbers
          <5> QED BY <1>1, <1>12, <3>1, <4>1, <5>1 DEF InPlace, Finished
        <4>3. Len(layout'[t]) = Len(Blocks) BY <1>3, <1>11, <1>16, <4>1
        <4> QED BY <1>2, <3>1, <4>2, <4>3
      <3>2. CASE t # s BY <1>14, <1>15, <3>2
      <3> QED BY <3>1, <3>2
    <2>4. Summing(o)' /\ Building(o)' /\ Printing(o)'
      BY <2>1 DEF Summing, Building, Printing, Idle
    <2>5. LayoutTypeOK' BY <1>1, <2>1, <2>2 DEF TypeOK, LayoutTypeOK, Loops
    <2> QED BY <1>9, <1>13, <1>16, <2>3, <2>4, <2>5 DEF Follows
  <1>17. CASE b < Len(Blocks)
    <2> DEFINE block == NewBlock(end, n[b + 1])
               longer == Append(done, block)
    <2>0. b + 1 \in DOMAIN Blocks /\ n[b + 1] \in Nat BY <1>2, <1>3, <1>17, Numbers DEF Sizes
    <2>1. /\ layout' = [layout EXCEPT ![s] = longer]
          /\ loop' = [at |-> "place", target |-> s, block |-> b + 1, column |-> 1, cur |-> end]
      BY <1>9, <1>17
    <2>2. /\ block \in Layout /\ block.columns = <<>> /\ block.mem_ = end
          /\ block.elements_ = n[b + 1]
      <3>1. <<>> \in Seq([addr : Nat, stride : Nat, padded : Nat]) OBVIOUS
      <3> QED BY <1>6, <2>0, <3>1 DEF NewBlock, Layout
    <2> HIDE DEF block
    <2>3. /\ longer \in Seq(Layout) /\ Len(longer) = b + 1 /\ DOMAIN longer = 1 .. b + 1
          /\ longer[b + 1] = block /\ \A g \in 1 .. b : longer[g] = done[g]
      BY <1>11, <2>2, Appended
    <2> HIDE DEF longer
    <2>4. layout'[s] = longer /\ layout' \in [Storages -> Seq(Layout)]
      BY <1>2, <2>1, <2>3 DEF TypeOK, LayoutTypeOK
    <2>5. loop' \in Loops BY <1>2, <1>6, <2>0, <2>1 DEF Loops
    <2>6. o[s][b + 1][1] = o[s][b][Last(b) + 1] BY <1>2, <2>0, WholeTable
    <2>7. Working(s)' /\ loop'.target = s /\ loop'.block = b + 1 BY <2>1 DEF Working
    <2>8. Built(o)'
      <3> SUFFICES ASSUME NEW t \in Storages, layout'[t] # <<>>
                   PROVE  /\ buffer[t] # None
                          /\ checkAlignment(t, buffer[t].base)
                          /\ \/ Len(layout'[t]) = Len(Blocks)
                             \/ Working(t)' /\ Len(layout'[t]) < Len(Blocks)
                          /\ \A g \in DOMAIN layout'[t] :
                                /\ InPlace(o, t, g)'
                                /\ Finished(o, t, g)' \/ (Working(t)' /\ g = Len(layout'[t]))
        BY <1>1 DEF Built
      <3>1. CASE t = s
        <4>1. layout'[t] = longer BY <2>4, <3>1
        <4>2. ASSUME NEW g \in 1 .. b PROVE InPlace(o, t, g)' /\ Finished(o, t, g)'
          <5>1. Last(g) <= Last(g) BY <1>12, Numbers
          <5>2. layout'[t][g] = done[g] BY <2>3, <4>1
          <5> QED BY <1>1, <1>12, <3>1, <5>1, <5>2 DEF InPlace, Finished
        <4>3. ASSUME NEW g \in Nat, g = b + 1 PROVE InPlace(o, t, g)'
          <5>1. layout'[t][b + 1] = block BY <2>3, <4>1
          <5>2. Len(block.columns) = 0 /\ DOMAIN block.columns = {} BY <2>2
          <5>3. 0 <= Last(b + 1) BY <2>0, Numbers
          <5>4. end = base + o[s][b + 1][1] BY <1>6, <2>6
          <5> QED BY <1>1, <2>2, <3>1, <4>3, <5>1, <5>2, <5>3, <5>4 DEF InPlace
        <4>4. b + 1 = Len(Blocks) \/ b + 1 < Len(Blocks) BY <1>3, <1>17
        <4>5. Working(t)' /\ Len(layout'[t]) = b + 1 /\ DOMAIN layout'[t] = 1 .. b + 1
          BY <2>1, <2>3, <3>1, <4>1 DEF Working
        <4>6. ASSUME NEW g \in 1 .. b + 1
              PROVE  InPlace(o, t, g)' /\ (Finished(o, t, g)' \/ g = b + 1)
          <5>1. CASE g = b + 1 BY <1>3, <4>3, <5>1
          <5>2. CASE g # b + 1
            <6>1. g \in 1 .. b BY <1>3, <5>2
            <6> QED BY <4>2, <6>1
          <5> QED BY <5>1, <5>2
        <4>7. buffer[t] # None /\ checkAlignment(t, buffer[t].base) BY <1>2, <3>1
        <4> QED BY <4>4, <4>5, <4>6, <4>7
      <3>2. CASE t # s BY <1>14, <1>15, <3>2
      <3> QED BY <3>1, <3>2
    <2>9. Building(o)'
      <3>1. Current' = block /\ layout'[s] # <<>> /\ Len(layout'[s]) = b + 1
        BY <1>3, <2>3, <2>4, <2>7 DEF Current
      <3>2. 1 \in DOMAIN Blocks[b + 1] BY <2>0, Numbers
      <3>3. Len(Current'.columns) = 1 - 1 BY <2>2, <3>1
      <3>4. end = base + o[s][b + 1][1] BY <1>6, <2>6
      <3> QED BY <1>1, <2>1, <3>1, <3>2, <3>3, <3>4 DEF Building
    <2>10. Summing(o)' /\ Printing(o)' BY <2>1 DEF Summing, Printing
    <2>11. LayoutTypeOK' BY <1>1, <2>4, <2>5 DEF TypeOK, LayoutTypeOK
    <2> QED BY <1>9, <1>13, <1>17, <2>8, <2>9, <2>10, <2>11 DEF Follows
  <1> QED BY <1>16, <1>17
-----------------------------------------------------------------------------
(* The steps of the stream operator.                                        *)

LEMMA DumpSteps ==
    ASSUME TypeOK, NEW o \in [Storages -> Tables], Follows(o),
           (\E s \in Storages : \E b \in DOMAIN Blocks : Dump(s, b)) \/ DumpColumn \/ DumpEnd
    PROVE  LayoutTypeOK' /\ Follows(o)'
  <1>1. sizes_' = sizes_ /\ buffer' = buffer /\ layout' = layout
    BY DEF Dump, DumpColumn, DumpEnd
  <1>2. \A t \in Storages : ~Working(t) BY DEF Dump, DumpColumn, DumpEnd, Working, Idle
  <1>3. Sized(o)' BY <1>1 DEF Follows, Sized
  <1>4. Built(o)' BY <1>1, <1>2, KeepBuilt DEF Follows
  <1>5. CASE \E s \in Storages : \E b \in DOMAIN Blocks : Dump(s, b)
    <2> PICK s \in Storages, b \in DOMAIN Blocks : Dump(s, b) BY <1>5
    <2>1. /\ loop = Idle /\ Complete(s)
          /\ loop' = [at |-> "dump", target |-> s, block |-> b, column |-> 1, ret |-> 0]
      BY DEF Dump
    <2>2. Whole(o[s], sizes_[s]) /\ o[s] \in Tables /\ Len(layout[s]) = Len(Blocks)
      BY <2>1, CompleteLayout
    <2>3. b \in Nat /\ Last(b) \in Nat /\ 1 \in 1 .. Last(b) + 1 BY Numbers
    <2>4. o[s][b][1] \in Nat BY <2>2, <2>3 DEF Tables
    <2>5. Printing(o)' BY <1>1, <2>1, <2>2, <2>3, <2>4 DEF Printing
    <2>6. Summing(o)' /\ Building(o)' BY <2>1 DEF Summing, Building
    <2>7. LayoutTypeOK' BY <1>1, <2>1 DEF TypeOK, LayoutTypeOK, Loops
    <2> QED BY <1>3, <1>4, <2>5, <2>6, <2>7 DEF Follows
  <1>6. CASE DumpColumn
    <2> DEFINE s == loop.target
               b == loop.block
               c == loop.column
               n == sizes_[s]
               x == PrintColumn(Blocks[b][c], Current.elements_)
    <2>1. /\ loop.at = "dump" /\ c <= Last(b)
          /\ loop' = [loop EXCEPT !.ret = @ + x, !.column = c + 1]
      BY <1>6 DEF DumpColumn, Last
    <2>2. /\ loop \in [at : {"size", "dump"}, target : Storages, block : DOMAIN Blocks,
                       column : Nat, ret : Nat]
          /\ s \in Storages /\ b \in DOMAIN Blocks /\ c \in Nat /\ loop.ret \in Nat
      BY <2>1 DEF TypeOK, LayoutTypeOK, Loops, Idle
    <2>3. /\ Len(layout[s]) = Len(Blocks) /\ c \in 1 .. Last(b) + 1
          /\ loop.ret = o[s][b][c] - o[s][b][1]
      BY <2>1 DEF Follows, Printing
    <2>4. c \in DOMAIN Blocks[b] /\ Last(b) \in Nat BY <2>1, <2>2, <2>3, Numbers
    <2>5. Complete(s) BY <2>1, <2>3 DEF Complete
    <2>6. /\ n \in Sizes /\ Whole(o[s], n) /\ o[s] \in Tables /\ InPlace(o, s, b)
      BY <2>1, <2>2, <2>5, CompleteLayout
    <2>7. x = Bytes(b, c, n) /\ x \in Nat
      <3>1. Current.elements_ = n[b] /\ n[b] \in Nat
        BY <2>2, <2>6 DEF InPlace, Current, Sizes
      <3>2. PrintColumn(Blocks[b][c], n[b]) = PlacedBytes(Blocks[b][c], n[b])
        BY <2>2, <2>4, <3>1, ColumnBytes
      <3>3. Bytes(b, c, n) \in Nat BY <2>2, <2>4, <2>6, BytesType
      <3> QED BY <3>1, <3>2, <3>3 DEF Bytes
    <2> HIDE DEF x
    <2>8. loop' = [at |-> "dump", target |-> s, block |-> b, column |-> c + 1, ret |-> loop.ret + x]
      BY <2>1, <2>2
    <2>9. loop.ret + x = o[s][b][c + 1] - o[s][b][1]
      <3>1. c \in 1 .. Last(b) + 1 /\ c + 1 \in 1 .. Last(b) + 1 /\ 1 \in 1 .. Last(b) + 1
        BY <2>1, <2>3, <2>4
      <3>2. /\ o[s][b][c + 1] = o[s][b][c] + Bytes(b, c, n)
            /\ o[s][b][c] \in Nat /\ o[s][b][c + 1] \in Nat /\ o[s][b][1] \in Nat
        BY <2>2, <2>4, <2>6, <3>1, WholeTable
      <3> QED BY <2>2, <2>3, <2>7, <3>2
    <2>10. c + 1 \in 1 .. Last(b) + 1 BY <2>1, <2>3, <2>4
    <2>11. Printing(o)' BY <1>1, <2>3, <2>8, <2>9, <2>10 DEF Printing
    <2>12. Summing(o)' /\ Building(o)' BY <2>8 DEF Summing, Building
    <2>13. LayoutTypeOK'
      <3>1. loop.ret + x \in Nat /\ c + 1 \in Nat BY <2>2, <2>7
      <3> QED BY <1>1, <2>2, <2>8, <3>1 DEF TypeOK, LayoutTypeOK, Loops
    <2> QED BY <1>3, <1>4, <2>11, <2>12, <2>13 DEF Follows
  <1>7. CASE DumpEnd
    <2>1. loop' = Idle BY <1>7 DEF DumpEnd
    <2>2. Summing(o)' /\ Building(o)' /\ Printing(o)'
      BY <2>1 DEF Summing, Building, Printing, Idle
    <2>3. LayoutTypeOK' BY <1>1, <2>1 DEF TypeOK, LayoutTypeOK, Loops
    <2> QED BY <1>3, <1>4, <2>2, <2>3 DEF Follows
  <1> QED BY <1>5, <1>6, <1>7

-----------------------------------------------------------------------------
(* Every step.                                                              *)

Refused == \E s \in Storages : s \in Enforced /\ buffer[s] # None /\ layout[s] = <<>>
                                 /\ Misaligned(buffer[s].base)

(* Layout steps keep the invariant; only a misaligned buffer is refused.    *)
LEMMA LayoutStep ==
    ASSUME IInv, LayoutNext
    PROVE  /\ LayoutTypeOK' /\ \E o \in [Storages -> Tables] : Follows(o)'
           /\ result'.call = "construct" /\ result'.kind = "runtime_error" =>
                  result' = result \/ Refused'
  <1> PICK o \in [Storages -> Tables] : Follows(o) BY DEF IInv
  <1>0. TypeOK BY DEF IInv
  <1>1. ASSUME NEW s \in Storages, NEW n \in Elements, ComputeDataSize(s, n)
        PROVE  LayoutTypeOK' /\ (\E p \in [Storages -> Tables] : Follows(p)') /\ result' = result
    BY <1>0, <1>1, ComputeDataSizeStep DEF ComputeDataSize
  <1>2. ASSUME NEW s \in Storages, NEW t \in Storages, NEW base \in Bases[t], Clone(s, t, base)
        PROVE  LayoutTypeOK' /\ (\E p \in [Storages -> Tables] : Follows(p)') /\ result'.kind = "ok"
    BY <1>0, <1>2, CloneStep DEF Clone, Return
  <1>3. ASSUME NEW s \in Storages, Construct(s)
        PROVE  LayoutTypeOK' /\ Follows(o)' /\ (result' # result => Refused')
    BY <1>0, <1>3, ConstructStep DEF Refused
  <1>4. ASSUME (\E s \in Storages : \E b \in DOMAIN Blocks : Dump(s, b)) \/ DumpColumn \/ DumpEnd
        PROVE  LayoutTypeOK' /\ Follows(o)' /\ result' = result
    <2>1. result' = result BY <1>4 DEF Dump, DumpColumn, DumpEnd
    <2> QED BY <1>0, <1>4, <2>1, DumpSteps
  <1>5. ASSUME loop.at = "size", NEW base \in Bases[loop.target], Allocate(base)
        PROVE  LayoutTypeOK' /\ (\E p \in [Storages -> Tables] : Follows(p)') /\ result'.kind = "ok"
    BY <1>0, <1>5, AllocateStep DEF Allocate, Return
  <1>6. ASSUME AccumulateBlocks
        PROVE  LayoutTypeOK' /\ (\E p \in [Storages -> Tables] : Follows(p)') /\ result' = result
    BY <1>0, <1>6, AccumulateBlocksStep DEF AccumulateBlocks
  <1>7. ASSUME Place PROVE LayoutTypeOK' /\ Follows(o)' /\ result' = result
    BY <1>0, <1>7, PlaceStep
  <1>8. ASSUME AccumulateBlock PROVE LayoutTypeOK' /\ Follows(o)' /\ result' = result
    BY <1>0, <1>8, AccumulateBlockStep DEF AccumulateBlock
  <1>9. ASSUME EndBlock
        PROVE  LayoutTypeOK' /\ Follows(o)' /\ (result' = result \/ result'.kind = "ok")
    BY <1>0, <1>9, EndBlockStep
  <1> QED BY <1>1, <1>2, <1>3, <1>4, <1>5, <1>6, <1>7, <1>8, <1>9 DEF LayoutNext

(* The steps of views.                                                      *)
ViewNext ==
    \/ \E v \in Views, s \in Storages : Look(v, s)
    \/ \E v \in DOMAIN view, b \in DOMAIN Blocks :
           MakesView /\ \E picked \in Picks(b) : Merge(v, b, picked)
    \/ \E v \in DOMAIN view, b \in DOMAIN Blocks :
           \E c \in DOMAIN Blocks[b], i \in 0 .. view[v][b].elements_ :
               Get(v, b, c, i) \/ Set(v, b, c, i)
    \/ \E v, w \in DOMAIN view, b \in DOMAIN Blocks :
           \E i \in 0 .. view[v][b].elements_, j \in 0 .. view[w][b].elements_ :
               AssignElement(v, b, i, w, j)
    \/ \E v \in DOMAIN view, s \in Storages : DeepCopy(s, v)
    \/ AssignColumn \/ CopyColumn

(* Steps of views leave the layouts alone and construct nothing.            *)
LEMMA ViewStep ==
    ASSUME TypeOK, ViewNext
    PROVE  /\ UNCHANGED layoutVars
           /\ result' = result \/ result'.call # "construct"
           /\ TypeOK'
  <1>0. UNCHANGED layoutVars => LayoutTypeOK' BY DEF TypeOK, LayoutTypeOK, layoutVars
  <1>a. 1 \in Nat /\ \A b \in DOMAIN Blocks : b \in Nat BY Numbers
  <1>b. MakesView \/ UsesView => made' \in 0 .. MaxMade /\ calls' \in 0 .. MaxCalls
    BY BoundsAssumption DEF MakesView, UsesView, TypeOK
  <1>1. CASE \E v \in Views, s \in Storages : Look(v, s)
    <2>1. /\ UNCHANGED <<layoutVars, memory, copying>> /\ MakesView /\ result'.call = "view"
          /\ \E v \in Views : DOMAIN view' = DOMAIN view \cup {v}
      BY <1>1 DEF Look, Return
    <2> QED BY <1>0, <1>b, <2>1 DEF TypeOK
  <1>2. CASE \E v \in DOMAIN view, b \in DOMAIN Blocks :
                 MakesView /\ \E picked \in Picks(b) : Merge(v, b, picked)
    <2>1. /\ UNCHANGED <<layoutVars, memory, copying>> /\ MakesView /\ result'.call = "merge"
          /\ DOMAIN view' = DOMAIN view
      BY <1>2 DEF Merge, Return
    <2> QED BY <1>0, <1>b, <2>1 DEF TypeOK
  <1>3. CASE \E v \in DOMAIN view, b \in DOMAIN Blocks :
                 \E c \in DOMAIN Blocks[b], i \in 0 .. view[v][b].elements_ :
                     Get(v, b, c, i) \/ Set(v, b, c, i)
    <2>1. /\ UNCHANGED <<layoutVars, view, copying>> /\ UsesView
          /\ result'.call \in {"get", "set"} /\ DOMAIN memory' = DOMAIN memory
      BY <1>3 DEF Get, Set, Return, Spread
    <2> QED BY <1>0, <1>b, <2>1 DEF TypeOK
  <1>4. CASE \E v, w \in DOMAIN view, b \in DOMAIN Blocks :
                 \E i \in 0 .. view[v][b].elements_, j \in 0 .. view[w][b].elements_ :
                     AssignElement(v, b, i, w, j)
    <2> PICK v \in DOMAIN view, w \in DOMAIN view, b \in DOMAIN Blocks :
                 \E i \in 0 .. view[v][b].elements_, j \in 0 .. view[w][b].elements_ :
                     AssignElement(v, b, i, w, j)
      BY <1>4
    <2> PICK i \in 0 .. view[v][b].elements_, j \in 0 .. view[w][b].elements_ :
                 AssignElement(v, b, i, w, j)
      OBVIOUS
    <2>0. v \in Views /\ w \in Views /\ i \in Nat /\ j \in Nat BY DEF TypeOK
    <2>1. /\ UNCHANGED <<layoutVars, memory, view>> /\ UsesView
          /\ result' = result \/ result'.call = "assign"
      BY DEF AssignElement, Return
    <2>2. \/ copying' = copying
          \/ copying' = [call |-> "assign", to |-> v, from |-> w, block |-> b,
                         column |-> 1, row |-> i, fromRow |-> j]
      BY DEF AssignElement
    <2>3. b \in Nat BY <1>a
    <2>4. copying' = copying \/ copying' \in [call : {"assign"}, to : Views, from : Views,
              block : Nat, column : Nat, row : Nat, fromRow : Nat]
      BY <2>0, <2>2, <2>3
    <2> QED BY <1>0, <1>b, <2>1, <2>4 DEF TypeOK
  <1>5. CASE \E v \in DOMAIN view, s \in Storages : DeepCopy(s, v)
    <2> PICK v \in DOMAIN view, s \in Storages : DeepCopy(s, v) BY <1>5
    <2>0. v \in Views BY DEF TypeOK
    <2>1. /\ UNCHANGED <<layoutVars, memory, view>> /\ UsesView
          /\ result' = result \/ result'.call = "deepCopy"
      BY DEF DeepCopy, Return
    <2>2. \/ copying' = copying
          \/ copying' = [call |-> "deepCopy", to |-> s, from |-> v, block |-> 1, column |-> 1]
      BY DEF DeepCopy
    <2> QED BY <1>0, <1>a, <1>b, <2>0, <2>1, <2>2 DEF TypeOK
  <1>6. CASE AssignColumn
    <2>1. copying \in [call : {"assign"}, to : Views, from : Views, block : Nat, column : Nat,
                       row : Nat, fromRow : Nat]
      BY <1>6 DEF AssignColumn, TypeOK, NotCopying
    <2>2. copying' = NotCopying \/ copying' = [copying EXCEPT !.column = @ + 1]
      BY <1>6 DEF AssignColumn
    <2>3. /\ copying' \in {NotCopying} \cup [call : {"assign"}, to : Views, from : Views,
                             block : Nat, column : Nat, row : Nat, fromRow : Nat]
      BY <2>1, <2>2
    <2>4. DOMAIN memory' = DOMAIN memory BY <1>6 DEF AssignColumn, Spread
    <2>5. UNCHANGED <<layoutVars, view, made, calls>> /\ (result' = result \/ result'.call # "construct")
      BY <1>6 DEF AssignColumn, Return
    <2> QED BY <1>0, <2>3, <2>4, <2>5 DEF TypeOK
  <1>7. CASE CopyColumn
    <2>1. copying \in [call : {"deepCopy"}, to : Storages, from : Views, block : Nat, column : Nat]
      BY <1>7 DEF CopyColumn, TypeOK, NotCopying
    <2>2. \/ copying' = NotCopying \/ copying' = [copying EXCEPT !.column = @ + 1]
          \/ copying' = [copying EXCEPT !.column = 1, !.block = @ + 1]
      BY <1>7 DEF CopyColumn
    <2> DEFINE D == [call : {"deepCopy"}, to : Storages, from : Views, block : Nat, column : Nat]
    <2>a. [copying EXCEPT !.column = @ + 1] \in D BY <2>1
    <2>b. ASSUME copying' = [copying EXCEPT !.column = 1, !.block = @ + 1]
          PROVE  copying' \in D
      <3>1. copying.block + 1 \in Nat BY <2>1
      <3>2. copying' = [call |-> copying.call, to |-> copying.to, from |-> copying.from,
                        block |-> copying.block + 1, column |-> 1]
        BY <2>1, <2>b
      <3> QED BY <2>1, <3>1, <3>2
    <2>3. copying' \in {NotCopying} \cup D BY <2>2, <2>a, <2>b
    <2>4. DOMAIN memory' = DOMAIN memory BY <1>7 DEF CopyColumn, Memcpy
    <2>5. UNCHANGED <<layoutVars, view, made, calls>> /\ (result' = result \/ result'.call # "construct")
      BY <1>7 DEF CopyColumn, Return
    <2> QED BY <1>0, <2>3, <2>4, <2>5 DEF TypeOK
  <1> QED BY <1>1, <1>2, <1>3, <1>4, <1>5, <1>6, <1>7 DEF ViewNext

(* The invariant follows through steps that leave the layouts alone.        *)
LEMMA UnchangedFollows ==
    ASSUME NEW o, Follows(o), UNCHANGED layoutVars
    PROVE  Follows(o)'
  <1>1. sizes_' = sizes_ /\ buffer' = buffer /\ layout' = layout /\ loop' = loop BY DEF layoutVars
  <1>2. \A t \in Storages : Working(t)' <=> Working(t) BY <1>1 DEF Working
  <1>3. \A t \in Storages : \A g \in DOMAIN layout[t] :
            (InPlace(o, t, g)' <=> InPlace(o, t, g)) /\ (Finished(o, t, g)' <=> Finished(o, t, g))
    BY <1>1 DEF InPlace, Finished
  <1>4. Built(o)'
    <2> SUFFICES ASSUME NEW t \in Storages, layout[t] # <<>>
                 PROVE  /\ buffer[t] # None
                        /\ checkAlignment(t, buffer[t].base)
                        /\ \/ Len(layout[t]) = Len(Blocks)
                           \/ Working(t)' /\ Len(layout[t]) < Len(Blocks)
                        /\ \A g \in DOMAIN layout[t] :
                              /\ InPlace(o, t, g)'
                              /\ Finished(o, t, g)' \/ (Working(t)' /\ g = Len(layout[t]))
      BY <1>1 DEF Built
    <2> QED BY <1>2, <1>3 DEF Follows, Built
  <1>5. Current' = Current BY <1>1 DEF Current
  <1>6. Summing(o)' /\ Sized(o)' /\ Printing(o)'
    BY <1>1 DEF Follows, Summing, Sized, Printing
  <1>7. Building(o)' BY <1>1, <1>5 DEF Follows, Building
  <1> QED BY <1>4, <1>6, <1>7 DEF Follows

(* A buffer the client has stays as it is.                                  *)
LEMMA BufferStays ==
    ASSUME IInv, LayoutNext, NEW s \in Storages, buffer[s] # None
    PROVE  buffer'[s] = buffer[s]
  <1> PICK o \in [Storages -> Tables] : Follows(o) BY DEF IInv
  <1>0. TypeOK /\ Sized(o) /\ Summing(o) BY DEF IInv, Follows
  <1>1. ASSUME NEW r \in Storages, NEW t \in Storages, NEW base \in Bases[t], Clone(r, t, base)
        PROVE  buffer'[s] = buffer[s]
    <2>1. sizes_[t] = None /\ sizes_[s] # None BY <1>0, <1>1 DEF Clone, Sized
    <2> QED BY <1>1, <2>1 DEF Clone
  <1>2. ASSUME loop.at = "size", NEW base \in Bases[loop.target], Allocate(base)
        PROVE  buffer'[s] = buffer[s]
    <2>1. buffer[loop.target] = None BY <1>0, <1>2 DEF Summing
    <2> QED BY <1>2, <2>1 DEF Allocate
  <1> QED BY <1>1, <1>2 DEF LayoutNext, ComputeDataSize, Construct, Dump, AccumulateBlocks, Place,
                             AccumulateBlock, EndBlock, DumpColumn, DumpEnd

(* A refused storage stays refused.                                         *)
LEMMA RefusedStays ==
    ASSUME IInv, LayoutNext, \E o \in [Storages -> Tables] : Follows(o)', Refused
    PROVE  Refused'
  <1> PICK s \in Storages : /\ s \in Enforced /\ buffer[s] # None /\ layout[s] = <<>>
                            /\ Misaligned(buffer[s].base)
    BY DEF Refused
  <1>1. buffer'[s] = buffer[s] BY BufferStays
  <1>2. layout'[s] = <<>>
    <2>1. layout'[s] # <<>> => checkAlignment(s, buffer'[s].base) BY DEF Follows, Built
    <2> QED BY <1>1, <2>1 DEF checkAlignment
  <1> QED BY <1>1, <1>2 DEF Refused

(* Each step is one of the layouts, one of the views, or none.              *)
LEMMA StepKinds ==
    ASSUME TypeOK, [Next]_vars
    PROVE  \/ copying = NotCopying /\ LayoutNext /\ UNCHANGED <<memory, view, copying, made, calls>>
           \/ ViewNext
           \/ UNCHANGED vars
  BY DEF Next, ViewNext

LEMMA StepKeepsInvariant ==
    IInv /\ OnlyMisalignedThrows /\ [Next]_vars => IInv' /\ OnlyMisalignedThrows'
  <1> SUFFICES ASSUME IInv, OnlyMisalignedThrows, [Next]_vars
               PROVE  IInv' /\ OnlyMisalignedThrows'
    OBVIOUS
  <1>0. TypeOK BY DEF IInv
  <1>1. CASE copying = NotCopying /\ LayoutNext /\ UNCHANGED <<memory, view, copying, made, calls>>
    <2>1. /\ LayoutTypeOK' /\ \E o \in [Storages -> Tables] : Follows(o)'
          /\ result'.call = "construct" /\ result'.kind = "runtime_error" =>
                 result' = result \/ Refused'
      BY <1>1, LayoutStep
    <2>2. TypeOK' BY <1>0, <1>1, <2>1 DEF TypeOK
    <2>3. IInv' BY <2>1, <2>2 DEF IInv
    <2>4. Refused => Refused' BY <1>1, <2>1, RefusedStays
    <2>5. OnlyMisalignedThrows' BY <2>1, <2>4 DEF OnlyMisalignedThrows, Refused
    <2> QED BY <2>3, <2>5
  <1>2. CASE ViewNext
    <2>1. UNCHANGED layoutVars /\ (result' = result \/ result'.call # "construct") /\ TypeOK'
      BY <1>0, <1>2, ViewStep
    <2>2. IInv' BY <2>1, UnchangedFollows DEF IInv
    <2>3. OnlyMisalignedThrows' BY <2>1 DEF OnlyMisalignedThrows, layoutVars
    <2> QED BY <2>2, <2>3
  <1>3. CASE UNCHANGED vars
    <2>1. UNCHANGED <<layoutVars, result, memory, view, copying, made, calls>> BY <1>3 DEF vars
    <2>2. TypeOK' BY <1>0, <2>1 DEF TypeOK, LayoutTypeOK, layoutVars
    <2>3. IInv' BY <2>1, <2>2, UnchangedFollows DEF IInv
    <2>4. OnlyMisalignedThrows' BY <2>1 DEF OnlyMisalignedThrows, layoutVars
    <2> QED BY <2>3, <2>4
  <1> QED BY <1>0, <1>1, <1>2, <1>3, StepKinds

(* The invariant and what it says of failures hold throughout.              *)
LEMMA InvariantHolds == Spec => [](IInv /\ OnlyMisalignedThrows)
  <1>1. Init => IInv /\ OnlyMisalignedThrows
    BY InitFollows DEF Init, LayoutInit, OnlyMisalignedThrows
  <1> QED BY <1>1, StepKeepsInvariant, PTL DEF Spec

-----------------------------------------------------------------------------
(* The results.                                                             *)

(* The state keeps its shape, for every list of blocks.                     *)
THEOREM StructOfArraysType == Spec => []TypeOK
  <1>1. IInv => TypeOK BY DEF IInv
  <1> QED BY <1>1, InvariantHolds, PTL

(* computeDataSize, the constructor and the stream operator, three loops    *)
(* written apart, agree at every column they reach.                         *)
THEOREM LoopsAgree == Spec => []OffsetsAgree
  <1>1. ASSUME IInv PROVE OffsetsAgree
    <2> PICK o \in [Storages -> Tables] : Follows(o) BY <1>1 DEF IInv
    <2>0. TypeOK BY <1>1 DEF IInv
    <2> DEFINE s == loop.target
               b == loop.block
               c == loop.column
    <2>1. CASE loop.at = "check"
      <3>1. /\ s \in Storages /\ b \in DOMAIN Blocks /\ c \in DOMAIN Blocks[b]
            /\ Current = layout[s][b] /\ InPlace(o, s, b) /\ b \in DOMAIN layout[s]
            /\ layout[s][b] \in Layout
            /\ buffer[s].base \in Nat /\ o[s] \in Tables
        BY <2>0, <2>1, UnderConstruction
      <3>2. Len(Current.columns) = Last(b) /\ loop.ret = o[s][b][c] - o[s][b][1]
        BY <2>1 DEF Follows, Building
      <3>3. b \in Nat /\ 1 \in Nat /\ c \in Nat /\ c <= Last(b) /\ c \in DOMAIN Current.columns
        <4>1. Current.columns \in Seq([addr : Nat, stride : Nat, padded : Nat])
          BY <3>1 DEF Layout
        <4> QED BY <3>1, <3>2, <4>1, Numbers
      <3>4. /\ Current.columns[c].addr = buffer[s].base + o[s][b][c]
            /\ Current.mem_ = buffer[s].base + o[s][b][1]
        <4>1. c \in DOMAIN layout[s][b].columns /\ Current = layout[s][b] BY <3>1, <3>3
        <4>2. Current.columns[c] = Placed(Blocks[b][c], sizes_[s][b], buffer[s].base + o[s][b][c])
          BY <3>1, <3>3, <4>1 DEF InPlace
        <4>3. Current.mem_ = buffer[s].base + o[s][b][1] BY <3>1, <3>3, <4>1 DEF InPlace
        <4> QED BY <4>2, <4>3 DEF Placed
      <3>5. o[s][b][c] \in Nat /\ o[s][b][1] \in Nat BY <3>1, <3>3 DEF Tables
      <3>6. loop.ret = Current.columns[c].addr - Current.mem_ BY <3>1, <3>2, <3>4, <3>5
      <3> QED BY <2>1, <3>2, <3>3, <3>6 DEF OffsetsAgree
    <2>2. CASE loop.at = "dump"
      <3>1. s \in Storages /\ b \in DOMAIN Blocks
        BY <2>0, <2>2 DEF TypeOK, LayoutTypeOK, Loops, Idle
      <3>2. /\ Len(layout[s]) = Len(Blocks) /\ c \in 1 .. Last(b) + 1
            /\ loop.ret = o[s][b][c] - o[s][b][1]
        BY <2>2 DEF Follows, Printing
      <3>3. Complete(s) BY <2>2, <3>2 DEF Complete
      <3>4. /\ buffer[s].base \in Nat /\ o[s] \in Tables
            /\ b \in DOMAIN layout[s] /\ InPlace(o, s, b) /\ Finished(o, s, b)
        BY <2>0, <2>2, <3>1, <3>3, CompleteLayout
      <3>5. layout[s][b] \in Layout /\ Current = layout[s][b]
        BY <2>0, <3>1, <3>4 DEF TypeOK, LayoutTypeOK, Current
      <3>6. Current.columns \in Seq([addr : Nat, stride : Nat, padded : Nat])
            /\ Len(Current.columns) = Last(b)
        BY <3>4, <3>5 DEF Layout, Finished
      <3>7. b \in Nat /\ c \in Nat \ {0} /\ Last(b) \in Nat /\ c <= Last(b) + 1
        BY <3>1, <3>2, Numbers
      <3>8. o[s][b][c] \in Nat /\ o[s][b][1] \in Nat BY <3>4, <3>7 DEF Tables
      <3>9. CASE c <= Last(b)
        <4>1. c \in DOMAIN Current.columns BY <3>6, <3>7, <3>9
        <4>2. /\ Current.columns[c].addr = buffer[s].base + o[s][b][c]
              /\ Current.mem_ = buffer[s].base + o[s][b][1]
          <5>1. c \in DOMAIN layout[s][b].columns /\ Current = layout[s][b] BY <3>4, <3>5, <4>1
          <5>2. Current.columns[c] = Placed(Blocks[b][c], sizes_[s][b], buffer[s].base + o[s][b][c])
            BY <3>4, <3>5, <4>1, <5>1 DEF InPlace
          <5>3. Current.mem_ = buffer[s].base + o[s][b][1] BY <3>4, <3>5, <4>1, <5>1 DEF InPlace
          <5> QED BY <5>2, <5>3 DEF Placed
        <4>3. loop.ret = Current.columns[c].addr - Current.mem_ BY <3>2, <3>4, <3>8, <4>2
        <4> QED BY <2>2, <3>6, <3>9, <4>3 DEF OffsetsAgree
      <3>10. CASE ~(c <= Last(b))
        <4>1. c = Last(b) + 1 BY <3>7, <3>10
        <4>2. loop.ret = Current.byteSize_ BY <3>2, <3>4, <3>5, <4>1 DEF Finished
        <4> QED BY <2>2, <3>6, <3>10, <4>2 DEF OffsetsAgree
      <3> QED BY <3>9, <3>10
    <2> QED BY <2>1, <2>2 DEF OffsetsAgree
  <1> QED BY <1>1, InvariantHolds, PTL

(* The constructor never fails its own checks: whatever the columns, the    *)
(* only thing it refuses is a misaligned buffer.                            *)
THEOREM OnlyMisalignedBuffersThrow == Spec => []OnlyMisalignedThrows
  BY InvariantHolds, PTL

(* Columns never overlap, lie in the buffer the client sized, and have the  *)
(* alignment their type promises, for every list of blocks.                 *)
THEOREM ColumnsSound == Spec => []PlacementSound
  <1>1. ASSUME IInv PROVE PlacementSound
    <2> PICK o \in [Storages -> Tables] : Follows(o) BY <1>1 DEF IInv
    <2>0. TypeOK BY <1>1 DEF IInv
    <2> SUFFICES ASSUME NEW s \in Storages, NEW b \in DOMAIN layout[s],
                        NEW c \in DOMAIN layout[s][b].columns
                 PROVE  LET here == layout[s][b].columns[c]
                        IN  /\ buffer[s].base <= here.addr
                            /\ Complete(s) => ColumnEnd(s, b, c) <= buffer[s].base + buffer[s].bytes
                            /\ \A d \in DOMAIN layout[s] : \A e \in DOMAIN layout[s][d].columns :
                                   d > b \/ (d = b /\ e > c) =>
                                       ColumnEnd(s, b, c) <= layout[s][d].columns[e].addr
                            /\ Eigen(b, c) => here.stride >= layout[s][b].elements_
                            /\ s \in Enforced => ~Misaligned(here.addr)
      BY DEF PlacementSound
    <2> DEFINE n == sizes_[s]
               base == buffer[s].base
    <2>1. /\ buffer[s] # None /\ checkAlignment(s, base) /\ Len(layout[s]) <= Len(Blocks)
          /\ \A g \in DOMAIN layout[s] : InPlace(o, s, g)
      <3>1. layout[s] # <<>> OBVIOUS
      <3>2. Len(Blocks) \in Nat BY Numbers
      <3> QED BY <3>1, <3>2 DEF Follows, Built
    <2>2. /\ base \in Nat /\ buffer[s].bytes \in Nat /\ n \in Sizes /\ Whole(o[s], n)
          /\ o[s] \in Tables
          /\ buffer[s].bytes = o[s][Len(Blocks)][Last(Len(Blocks)) + 1]
      BY <2>0, <2>1, BufferThere DEF Follows
    <2>3. ASSUME NEW g \in DOMAIN layout[s], NEW h \in DOMAIN layout[s][g].columns
          PROVE  /\ g \in DOMAIN Blocks /\ h \in DOMAIN Blocks[g] /\ h \in 1 .. Last(g) + 1
                 /\ layout[s][g].columns[h] = Placed(Blocks[g][h], n[g], base + o[s][g][h])
                 /\ layout[s][g].columns[h].addr = base + o[s][g][h]
                 /\ o[s][g][h] \in Nat /\ o[s][g][h] % Alignment = 0
      <3>1. layout[s] \in Seq(Layout) BY <2>0 DEF TypeOK, LayoutTypeOK
      <3>2. g \in DOMAIN Blocks BY <2>1, <3>1, Numbers
      <3>3. layout[s][g].columns \in Seq([addr : Nat, stride : Nat, padded : Nat])
        <4>1. layout[s][g] \in Layout BY <3>1
        <4> QED BY <4>1 DEF Layout
      <3>4. /\ Len(layout[s][g].columns) <= Last(g)
            /\ layout[s][g].columns[h] = Placed(Blocks[g][h], n[g], base + o[s][g][h])
        BY <2>1 DEF InPlace
      <3>5. h \in DOMAIN Blocks[g] /\ h \in 1 .. Last(g) + 1
        <4>1. h \in 1 .. Len(layout[s][g].columns) /\ Len(layout[s][g].columns) \in Nat BY <3>3
        <4>2. Last(g) \in Nat /\ DOMAIN Blocks[g] = 1 .. Last(g) BY <3>2, Numbers
        <4> QED BY <3>4, <4>1, <4>2
      <3>6. o[s][g][h] \in Nat /\ o[s][g][h] % Alignment = 0 BY <2>2, <3>2, <3>5, WholeTable
      <3> QED BY <3>2, <3>4, <3>5, <3>6 DEF Placed
    <2>4. /\ b \in DOMAIN Blocks /\ c \in DOMAIN Blocks[b]
          /\ layout[s][b].columns[c] = Placed(Blocks[b][c], n[b], base + o[s][b][c])
          /\ layout[s][b].columns[c].addr = base + o[s][b][c]
          /\ o[s][b][c] \in Nat /\ o[s][b][c] % Alignment = 0
      BY <2>3
    <2>5. layout[s][b].elements_ = n[b] /\ n[b] \in Nat BY <2>1, <2>2, <2>4 DEF InPlace, Sizes
    <2>6. /\ Extent(Blocks[b][c], n[b]) \in Nat /\ Extent(Blocks[b][c], n[b]) <= Bytes(b, c, n)
          /\ Bytes(b, c, n) \in Nat
          /\ Blocks[b][c].kind = "eigen" => Stride(Blocks[b][c], n[b]) >= n[b]
      BY <2>4, <2>5, ColumnBytes DEF Bytes
    <2>7. ColumnEnd(s, b, c) = base + o[s][b][c] + Extent(Blocks[b][c], n[b])
      <3>1. /\ layout[s][b].columns[c].addr = base + o[s][b][c]
            /\ layout[s][b].columns[c].stride = Stride(Blocks[b][c], n[b])
        BY <2>4 DEF Placed
      <3> QED BY <2>5, <3>1 DEF ColumnEnd, Extent
    <2>8. ColumnEnd(s, b, c) \in Nat /\ ColumnEnd(s, b, c) <= base + (o[s][b][c] + Bytes(b, c, n))
      BY <2>2, <2>4, <2>6, <2>7
    <2>9. base <= layout[s][b].columns[c].addr BY <2>2, <2>4
    <2>10. ColumnEnd(s, b, c) <= base + buffer[s].bytes
      <3> DEFINE g == Len(Blocks)
                 h == Last(Len(Blocks)) + 1
      <3>1. g \in DOMAIN Blocks /\ h \in 1 .. Last(g) + 1 /\ Before(b, c, g, h)
        BY <2>4, Numbers DEF Before
      <3>2. o[s][b][c] + Bytes(b, c, n) <= o[s][g][h]
        BY <2>2, <2>4, <3>1, WholeTable
      <3> HIDE DEF g, h
      <3> QED BY <2>2, <2>4, <2>6, <2>8, <3>2 DEF g, h
    <2>11. ASSUME NEW d \in DOMAIN layout[s], NEW e \in DOMAIN layout[s][d].columns,
                  d > b \/ (d = b /\ e > c)
           PROVE  ColumnEnd(s, b, c) <= layout[s][d].columns[e].addr
      <3>1. /\ d \in DOMAIN Blocks /\ e \in 1 .. Last(d) + 1
            /\ layout[s][d].columns[e].addr = base + o[s][d][e] /\ o[s][d][e] \in Nat
        BY <2>3
      <3>2. Before(b, c, d, e) BY <2>4, <2>11, <3>1, Numbers DEF Before
      <3>3. o[s][b][c] + Bytes(b, c, n) <= o[s][d][e] BY <2>2, <2>4, <3>1, <3>2, WholeTable
      <3> QED BY <2>2, <2>4, <2>6, <2>8, <3>1, <3>3
    <2>12. Eigen(b, c) => layout[s][b].columns[c].stride >= layout[s][b].elements_
      BY <2>4, <2>5, <2>6 DEF Eigen, Placed
    <2>13. s \in Enforced => ~Misaligned(layout[s][b].columns[c].addr)
      <3>1. s \in Enforced => base % Alignment = 0 BY <2>1 DEF checkAlignment, Misaligned
      <3>2. base % Alignment = 0 => (base + o[s][b][c]) % Alignment = 0
        BY <2>2, <2>4, MultipleSum, AlignmentAssumption
      <3> QED BY <2>4, <3>1, <3>2 DEF Misaligned
    <2> QED BY <2>9, <2>10, <2>11, <2>12, <2>13
  <1> QED BY <1>1, InvariantHolds, PTL

-----------------------------------------------------------------------------
(* The bytes of an element.                                                 *)

(* A column and its elements, as the assumptions on the blocks give them.   *)
LEMMA ColumnType ==
    ASSUME NEW b \in DOMAIN Blocks, NEW c \in DOMAIN Blocks[b]
    PROVE  /\ Blocks[b][c].kind \in {"scalar", "column", "eigen"}
           /\ Blocks[b][c].size \in Nat \ {0} /\ Blocks[b][c].comps \in Nat \ {0}
           /\ Blocks[b][c].kind # "eigen" => Blocks[b][c].comps = 1
  <1>1. Blocks[b] \in Seq(Column) BY BlocksAssumption
  <1>2. Blocks[b][c] \in Column BY <1>1
  <1>3. Blocks[b][c].kind # "eigen" => Blocks[b][c].comps = 1 BY BlocksAssumption
  <1> QED BY <1>2, <1>3 DEF Column

(* A number has one quotient and one remainder.                             *)
LEMMA DivisionUnique ==
    ASSUME NEW d \in Nat \ {0}, NEW q \in Nat, NEW p \in Nat, NEW r \in 0 .. d - 1,
           NEW t \in 0 .. d - 1, q * d + r = p * d + t
    PROVE  q = p /\ r = t
  <1>1. ASSUME NEW x \in Nat, NEW y \in Nat, NEW u \in 0 .. d - 1, NEW w \in 0 .. d - 1,
               x * d + u = y * d + w, x < y
        PROVE  FALSE
    <2>1. x + 1 <= y BY <1>1
    <2>2. (x + 1) * d <= y * d BY <2>1
    <2>3. (x + 1) * d = x * d + d OBVIOUS
    <2> DEFINE m == x * d
               k == y * d
    <2>4. m \in Nat /\ k \in Nat /\ m + d <= k /\ m + u = k + w BY <1>1, <2>2, <2>3
    <2> HIDE DEF m, k
    <2> QED BY <2>4
  <1>2. q = p BY <1>1
  <1>3. r = t
    <2> DEFINE m == q * d
    <2>1. m \in Nat /\ m + r = m + t BY <1>2
    <2> HIDE DEF m
    <2> QED BY <2>1
  <1> QED BY <1>2, <1>3

(* Byte k of element i, counted from the start of its column.               *)
Offset(col, stride, i, k) ==
    IF col.kind = "scalar" THEN k
    ELSE (i + (k \div col.size) * stride) * col.size + (k % col.size)

Width(col) == col.size * col.comps

LEMMA BytesAreOffsets ==
    ASSUME NEW b \in DOMAIN Blocks, NEW c \in DOMAIN Blocks[b], NEW at, at.addr \in Nat,
           at.stride \in Nat, NEW i \in Nat, NEW k \in 0 .. Width(Blocks[b][c]) - 1
    PROVE  /\ ElementBytes(Blocks[b][c], at, i)[k] = at.addr + Offset(Blocks[b][c], at.stride, i, k)
           /\ Offset(Blocks[b][c], at.stride, i, k) \in Nat
  <1> DEFINE col == Blocks[b][c]
             q == k \div col.size
             r == k % col.size
  <1>0. col.size \in Nat \ {0} /\ k \in Nat BY ColumnType
  <1>1. q \in Nat /\ r \in 0 .. col.size - 1 BY <1>0, Division
  <1>2. k \in 0 .. col.size * col.comps - 1 BY DEF Width
  <1>3. ElementBytes(col, at, i)[k] =
            IF col.kind = "scalar" THEN at.addr + k
            ELSE at.addr + (i + q * at.stride) * col.size + r
    BY <1>2 DEF ElementBytes
  <1>4. Offset(col, at.stride, i, k) =
            IF col.kind = "scalar" THEN k ELSE (i + q * at.stride) * col.size + r
    BY DEF Offset
  <1> HIDE DEF q, r, col
  <1>5. q * at.stride \in Nat BY <1>1
  <1>6. (i + q * at.stride) * col.size \in Nat BY <1>0, <1>5
  <1> DEFINE m == (i + q * at.stride) * col.size
  <1>7. /\ ElementBytes(col, at, i)[k] = IF col.kind = "scalar" THEN at.addr + k ELSE at.addr + m + r
        /\ Offset(col, at.stride, i, k) = IF col.kind = "scalar" THEN k ELSE m + r
        /\ m \in Nat
    BY <1>3, <1>4, <1>6
  <1> HIDE DEF m
  <1>8. ElementBytes(col, at, i)[k] = at.addr + Offset(col, at.stride, i, k)
        /\ Offset(col, at.stride, i, k) \in Nat
    BY <1>0, <1>1, <1>7
  <1> QED BY <1>8 DEF col

(* The components of an element number as many as its bytes divided by the  *)
(* bytes of a component.                                                    *)
LEMMA ComponentOf ==
    ASSUME NEW size \in Nat \ {0}, NEW comps \in Nat \ {0}, NEW k \in 0 .. size * comps - 1
    PROVE  /\ k \div size \in 0 .. comps - 1 /\ k % size \in 0 .. size - 1
           /\ k = (k \div size) * size + (k % size)
  <1> DEFINE q == k \div size
             r == k % size
             w == size * comps
  <1>0. k \in Nat /\ w \in Nat /\ k < w OBVIOUS
  <1>1. q \in Nat /\ r \in 0 .. size - 1 /\ k = size * q + r BY <1>0, Division
  <1> HIDE DEF q, r
  <1>2. q * size = size * q /\ q * size \in Nat BY <1>1
  <1>3. q <= comps - 1
    <2> SUFFICES ASSUME q >= comps PROVE FALSE BY <1>1
    <2>1. size * q >= size * comps BY <1>1
    <2> DEFINE m == size * q
    <2>2. m >= w /\ m \in Nat /\ k = m + r BY <2>1, <1>1
    <2> HIDE DEF m, w
    <2> QED BY <2>2, <1>0, <1>1
  <1>4. k = q * size + r
    <2> DEFINE m == size * q
    <2>1. m = q * size /\ m \in Nat /\ k = m + r BY <1>1, <1>2
    <2> QED BY <2>1
  <1>5. q \in 0 .. comps - 1 BY <1>1, <1>3
  <1> QED BY <1>1, <1>4, <1>5 DEF q, r

(* One of the elements of a column lies within the bytes of the column.     *)
LEMMA OffsetWithin ==
    ASSUME NEW b \in DOMAIN Blocks, NEW c \in DOMAIN Blocks[b], NEW n \in Nat,
           NEW i \in Rows(b, c, n), NEW k \in 0 .. Width(Blocks[b][c]) - 1
    PROVE  /\ Offset(Blocks[b][c], Stride(Blocks[b][c], n), i, k) \in Nat
           /\ Offset(Blocks[b][c], Stride(Blocks[b][c], n), i, k) < PlacedBytes(Blocks[b][c], n)
  <1> DEFINE col == Blocks[b][c]
             stride == Stride(col, n)
             q == k \div col.size
             r == k % col.size
             x == Offset(col, stride, i, k)
  <1>1. /\ col.kind \in {"scalar", "column", "eigen"}
        /\ col.size \in Nat \ {0} /\ col.comps \in Nat \ {0}
        /\ col.kind # "eigen" => col.comps = 1
    BY ColumnType
  <1>2. /\ PlacedBytes(col, n) \in Nat /\ Extent(col, n) \in Nat
        /\ Extent(col, n) <= PlacedBytes(col, n)
        /\ stride \in Nat /\ (col.kind = "eigen" => stride >= n)
    BY ColumnBytes
  <1>3. q \in 0 .. col.comps - 1 /\ r \in 0 .. col.size - 1
    BY <1>1, ComponentOf DEF Width
  <1>4. i \in Nat /\ (col.kind # "scalar" => i < n)
    BY DEF Rows, Scalar
  <1>5. k \in Nat /\ k < Width(col)
    <2>1. Width(col) \in Nat BY <1>1 DEF Width
    <2> QED BY <2>1
  <1>6. CASE col.kind = "scalar"
    <2>1. x = k BY <1>6 DEF Offset
    <2>2. Width(col) = col.size * 1 /\ Extent(col, n) = col.size * 1
      BY <1>1, <1>6 DEF Width, Extent
    <2> HIDE DEF x, col, stride
    <2>3. x \in Nat /\ x < PlacedBytes(col, n) BY <1>2, <1>5, <2>1, <2>2
    <2> QED BY <2>3 DEF x, col, stride
  <1>7. CASE col.kind = "column"
    <2>1. q = 0 /\ Extent(col, n) = col.size * n BY <1>1, <1>3, <1>7 DEF Extent
    <2>2. x = (i + q * stride) * col.size + r BY <1>7 DEF Offset
    <2> HIDE DEF x, col, stride, q, r
    <2>3. (i + q * stride) * col.size = i * col.size BY <1>1, <1>2, <1>4, <2>1
    <2>4. i * col.size + col.size <= col.size * n
      <3>1. i + 1 <= n BY <1>4, <1>7
      <3>2. (i + 1) * col.size <= n * col.size BY <1>1, <1>4, <3>1
      <3> QED BY <1>1, <1>4, <3>2
    <2> DEFINE m == i * col.size
               e == col.size * n
    <2>5. /\ m \in Nat /\ e \in Nat /\ m + col.size <= e /\ x = m + r /\ Extent(col, n) = e
      BY <1>1, <1>4, <2>1, <2>2, <2>3, <2>4
    <2> HIDE DEF m, e
    <2>6. x \in Nat /\ x < PlacedBytes(col, n) BY <1>1, <1>2, <1>3, <2>5
    <2> QED BY <2>6 DEF x, col, stride, q, r
  <1>8. CASE col.kind = "eigen"
    <2>1. n # 0 /\ Extent(col, n) = col.size * ((col.comps - 1) * stride + n)
      BY <1>4, <1>8 DEF Extent
    <2>2. x = (i + q * stride) * col.size + r BY <1>8 DEF Offset
    <2> HIDE DEF x, col, stride, q, r
    <2>3. i + q * stride + 1 <= (col.comps - 1) * stride + n
      <3>1. q * stride <= (col.comps - 1) * stride BY <1>1, <1>2, <1>3
      <3> DEFINE y == q * stride
                 z == (col.comps - 1) * stride
      <3>2. y \in Nat /\ z \in Nat /\ y <= z BY <1>1, <1>2, <1>3, <3>1
      <3> HIDE DEF y, z
      <3>3. i + y + 1 <= z + n BY <1>4, <1>8, <3>2
      <3> QED BY <3>3 DEF y, z
    <2> DEFINE y == i + q * stride
               z == (col.comps - 1) * stride + n
    <2>4. y \in Nat /\ z \in Nat /\ y + 1 <= z BY <1>1, <1>2, <1>3, <1>4, <2>3
    <2>5. x = y * col.size + r /\ Extent(col, n) = col.size * z BY <2>1, <2>2
    <2> HIDE DEF y, z
    <2>6. (y + 1) * col.size <= z * col.size /\ (y + 1) * col.size = y * col.size + col.size
          /\ z * col.size = col.size * z
      BY <1>1, <2>4
    <2> DEFINE m == y * col.size
               e == col.size * z
    <2>7. m \in Nat /\ e \in Nat /\ m + col.size <= e /\ x = m + r /\ Extent(col, n) = e
      BY <1>1, <2>4, <2>5, <2>6
    <2> HIDE DEF m, e
    <2>8. x \in Nat /\ x < PlacedBytes(col, n) BY <1>1, <1>2, <1>3, <2>7
    <2> QED BY <2>8 DEF x, col, stride, q, r
  <1> QED BY <1>1, <1>6, <1>7, <1>8

(* Different bytes of the elements of a column lie at different places.     *)
LEMMA OffsetInjective ==
    ASSUME NEW b \in DOMAIN Blocks, NEW c \in DOMAIN Blocks[b], NEW n \in Nat,
           NEW i \in Rows(b, c, n), NEW k \in 0 .. Width(Blocks[b][c]) - 1,
           NEW j \in Rows(b, c, n), NEW l \in 0 .. Width(Blocks[b][c]) - 1,
           Offset(Blocks[b][c], Stride(Blocks[b][c], n), i, k) =
               Offset(Blocks[b][c], Stride(Blocks[b][c], n), j, l)
    PROVE  i = j /\ k = l
  <1> DEFINE col == Blocks[b][c]
             stride == Stride(col, n)
             q == k \div col.size
             r == k % col.size
             p == l \div col.size
             t == l % col.size
  <1>1. /\ col.kind \in {"scalar", "column", "eigen"}
        /\ col.size \in Nat \ {0} /\ col.comps \in Nat \ {0}
        /\ col.kind # "eigen" => col.comps = 1
    BY ColumnType
  <1>2. stride \in Nat /\ (col.kind = "eigen" => stride >= n) BY ColumnBytes
  <1>3. /\ q \in 0 .. col.comps - 1 /\ r \in 0 .. col.size - 1 /\ k = q * col.size + r
        /\ p \in 0 .. col.comps - 1 /\ t \in 0 .. col.size - 1 /\ l = p * col.size + t
    BY <1>1, ComponentOf DEF Width
  <1>4. /\ i \in Nat /\ (col.kind # "scalar" => i < n) /\ (col.kind = "scalar" => i = 0)
        /\ j \in Nat /\ (col.kind # "scalar" => j < n) /\ (col.kind = "scalar" => j = 0)
    BY DEF Rows, Scalar
  <1>5. CASE col.kind = "scalar" BY <1>4, <1>5 DEF Offset
  <1>6. CASE col.kind # "scalar"
    <2>1. (i + q * stride) * col.size + r = (j + p * stride) * col.size + t
      BY <1>6 DEF Offset
    <2> HIDE DEF col, stride, q, r, p, t
    <2>2. i + q * stride \in Nat /\ j + p * stride \in Nat BY <1>1, <1>2, <1>3, <1>4
    <2>3. i + q * stride = j + p * stride /\ r = t BY <1>1, <1>3, <2>1, <2>2, DivisionUnique
    <2>4. i = j /\ q = p
      <3>1. CASE col.kind = "column"
        <4>1. q = 0 /\ p = 0 BY <1>1, <1>3, <3>1
        <4> QED BY <1>2, <1>4, <2>3, <4>1
      <3>2. CASE col.kind = "eigen"
        <4>1. i \in 0 .. stride - 1 /\ j \in 0 .. stride - 1 /\ stride \in Nat \ {0}
          BY <1>2, <1>4, <3>2
        <4>2. q * stride + i = p * stride + j /\ q \in Nat /\ p \in Nat
          <5> DEFINE y == q * stride
                     z == p * stride
          <5>1. y \in Nat /\ z \in Nat /\ i + y = j + z BY <1>1, <1>2, <1>3, <2>3
          <5> HIDE DEF y, z
          <5>2. y + i = z + j BY <1>4, <5>1
          <5> QED BY <1>1, <1>3, <5>2 DEF y, z
        <4> QED BY <4>1, <4>2, DivisionUnique
      <3> QED BY <1>1, <1>6, <3>1, <3>2
    <2> QED BY <1>3, <2>3, <2>4
  <1> QED BY <1>5, <1>6

(* The bytes deepCopy copies of a column of n elements, for a view of m.    *)
Run(col, n, m) ==
    col.size * (CASE col.kind = "scalar" -> 1
                  [] col.kind = "column" -> m
                  [] col.kind = "eigen"  -> Stride(col, n) * col.comps)

(* They are bytes of the column: nothing is written past its end.           *)
LEMMA RunFits ==
    ASSUME NEW b \in DOMAIN Blocks, NEW c \in DOMAIN Blocks[b], NEW n \in Nat, NEW m \in 0 .. n
    PROVE  Run(Blocks[b][c], n, m) \in Nat /\ Run(Blocks[b][c], n, m) <= PlacedBytes(Blocks[b][c], n)
  <1> DEFINE col == Blocks[b][c]
             stride == Stride(col, n)
  <1>1. /\ col.kind \in {"scalar", "column", "eigen"}
        /\ col.size \in Nat \ {0} /\ col.comps \in Nat \ {0}
    BY ColumnType
  <1>2. /\ PlacedBytes(col, n) \in Nat /\ Extent(col, n) <= PlacedBytes(col, n)
        /\ stride \in Nat
    BY ColumnBytes
  <1>3. CASE col.kind = "scalar"
    <2>1. Run(col, n, m) = col.size * 1 /\ Extent(col, n) = col.size * 1
      BY <1>3 DEF Run, Extent
    <2> HIDE DEF col
    <2>2. Run(col, n, m) \in Nat /\ Run(col, n, m) <= PlacedBytes(col, n) BY <1>1, <1>2, <2>1
    <2> QED BY <2>2 DEF col
  <1>4. CASE col.kind = "column"
    <2>1. Run(col, n, m) = col.size * m /\ Extent(col, n) = col.size * n
      BY <1>4 DEF Run, Extent
    <2> HIDE DEF col
    <2>2. col.size * m <= col.size * n /\ col.size * m \in Nat /\ col.size * n \in Nat BY <1>1
    <2>3. Run(col, n, m) \in Nat /\ Run(col, n, m) <= PlacedBytes(col, n) BY <1>2, <2>1, <2>2
    <2> QED BY <2>3 DEF col
  <1>5. CASE col.kind = "eigen"
    <2> DEFINE a == alignSize(n * col.size)
    <2>1. a \in Nat
      <3>1. n * col.size \in Nat BY <1>1
      <3> QED BY <3>1, AlignSizeRoundsUp
    <2>2. stride = a \div col.size /\ PlacedBytes(col, n) = a * col.comps
      BY <1>5 DEF Stride, PlacedBytes
    <2>3. Run(col, n, m) = col.size * (stride * col.comps) BY <1>5 DEF Run
    <2> HIDE DEF a, col, stride
    <2>4. col.size * stride <= a
      <3>1. a % col.size \in 0 .. col.size - 1 /\ a = col.size * stride + (a % col.size)
        BY <1>1, <2>1, <2>2, Division
      <3> DEFINE y == col.size * stride
      <3>2. y \in Nat BY <1>1, <1>2
      <3> HIDE DEF y
      <3>3. y <= a BY <1>1, <2>1, <3>1, <3>2 DEF y
      <3> QED BY <3>3 DEF y
    <2>5. (col.size * stride) * col.comps <= a * col.comps
      <3> DEFINE y == col.size * stride
      <3>1. y \in Nat /\ y <= a BY <1>1, <1>2, <2>4
      <3> HIDE DEF y
      <3>2. y * col.comps <= a * col.comps BY <1>1, <2>1, <3>1
      <3> QED BY <3>2 DEF y
    <2>6. col.size * (stride * col.comps) = (col.size * stride) * col.comps
          /\ col.size * (stride * col.comps) \in Nat
      BY <1>1, <1>2
    <2>7. Run(col, n, m) \in Nat /\ Run(col, n, m) <= PlacedBytes(col, n)
      BY <2>2, <2>3, <2>5, <2>6
    <2> QED BY <2>7 DEF col
  <1> QED BY <1>1, <1>3, <1>4, <1>5

(* They hold the elements of the view, and of a plain column no others.     *)
LEMMA RunHolds ==
    ASSUME NEW b \in DOMAIN Blocks, NEW c \in DOMAIN Blocks[b], NEW n \in Nat, NEW m \in 0 .. n,
           NEW i \in Rows(b, c, n), NEW k \in 0 .. Width(Blocks[b][c]) - 1
    PROVE  /\ i \in Rows(b, c, m) =>
                  Offset(Blocks[b][c], Stride(Blocks[b][c], n), i, k) < Run(Blocks[b][c], n, m)
           /\ i \notin Rows(b, c, m) /\ ~Eigen(b, c) =>
                  Offset(Blocks[b][c], Stride(Blocks[b][c], n), i, k) >= Run(Blocks[b][c], n, m)
  <1> DEFINE col == Blocks[b][c]
             stride == Stride(col, n)
             q == k \div col.size
             r == k % col.size
             x == Offset(col, stride, i, k)
             run == Run(col, n, m)
  <1>1. /\ col.kind \in {"scalar", "column", "eigen"}
        /\ col.size \in Nat \ {0} /\ col.comps \in Nat \ {0}
        /\ col.kind # "eigen" => col.comps = 1
    BY ColumnType
  <1>2. stride \in Nat /\ (col.kind = "eigen" => stride >= n) BY ColumnBytes
  <1>3. q \in 0 .. col.comps - 1 /\ r \in 0 .. col.size - 1
    BY <1>1, ComponentOf DEF Width
  <1>4. /\ i \in Nat /\ (col.kind # "scalar" => i < n)
        /\ col.kind = "scalar" => i \in Rows(b, c, m)
        /\ col.kind # "scalar" => (i \in Rows(b, c, m) <=> i < m)
    BY DEF Rows, Scalar
  <1>5. k \in Nat /\ k < Width(col)
    <2>1. Width(col) \in Nat BY <1>1 DEF Width
    <2> QED BY <2>1
  <1>6. Eigen(b, c) <=> col.kind = "eigen" BY DEF Eigen
  <1>7. CASE col.kind = "scalar"
    <2>1. x = k /\ run = col.size * 1 /\ Width(col) = col.size * 1
      BY <1>1, <1>7 DEF Offset, Run, Width
    <2> QED BY <1>4, <1>5, <1>7, <2>1
  <1>8. CASE col.kind = "column"
    <2>1. q = 0 BY <1>1, <1>3, <1>8
    <2>2. x = (i + q * stride) * col.size + r /\ run = col.size * m BY <1>8 DEF Offset, Run
    <2> HIDE DEF x, col, stride, q, r, run
    <2>3. (i + q * stride) * col.size = i * col.size BY <1>1, <1>2, <1>4, <2>1
    <2>4. i < m => i * col.size + col.size <= col.size * m
      <3> SUFFICES ASSUME i < m PROVE i * col.size + col.size <= col.size * m OBVIOUS
      <3>1. i + 1 <= m BY <1>4
      <3>2. (i + 1) * col.size <= m * col.size BY <1>1, <1>4, <3>1
      <3> QED BY <1>1, <1>4, <3>2
    <2>5. ~(i < m) => i * col.size >= col.size * m
      <3> SUFFICES ASSUME i >= m PROVE i * col.size >= col.size * m BY <1>4
      <3>1. i * col.size >= m * col.size BY <1>1, <1>4
      <3> QED BY <1>1, <3>1
    <2> DEFINE y == i * col.size
               e == col.size * m
    <2>6. /\ y \in Nat /\ e \in Nat /\ x = y + r /\ run = e
          /\ i < m => y + col.size <= e
          /\ ~(i < m) => y >= e
      BY <1>1, <1>4, <2>2, <2>3, <2>4, <2>5
    <2> HIDE DEF y, e
    <2>7. (i < m => x < run) /\ (~(i < m) => x >= run) BY <1>1, <1>3, <2>6
    <2>8. i \in Rows(b, c, m) <=> i < m BY <1>4, <1>8
    <2>9. (i \in Rows(b, c, m) => x < run) /\ (i \notin Rows(b, c, m) => x >= run)
      BY <2>7, <2>8
    <2> QED BY <2>9 DEF x, col, stride, run
  <1>9. CASE col.kind = "eigen"
    <2>1. x = (i + q * stride) * col.size + r /\ run = col.size * (stride * col.comps)
      BY <1>9 DEF Offset, Run
    <2> HIDE DEF x, col, stride, q, r, run
    <2>2. i + q * stride + 1 <= stride * col.comps
      <3>1. q * stride <= (col.comps - 1) * stride BY <1>1, <1>2, <1>3
      <3>2. (col.comps - 1) * stride + stride = stride * col.comps BY <1>1, <1>2
      <3> DEFINE y == q * stride
                 z == (col.comps - 1) * stride
                 w == stride * col.comps
      <3>a. q \in Nat /\ col.comps - 1 \in Nat BY <1>1, <1>3
      <3>b. y \in Nat /\ z \in Nat /\ w \in Nat BY <1>1, <1>2, <3>a
      <3>3. y \in Nat /\ z \in Nat /\ w \in Nat /\ y <= z /\ z + stride = w
        BY <3>b, <3>1, <3>2
      <3> HIDE DEF y, z, w
      <3>4. i + y + 1 <= w BY <1>2, <1>4, <1>9, <3>3
      <3> QED BY <3>4 DEF y, w
    <2> DEFINE y == i + q * stride
               z == stride * col.comps
    <2>3. y \in Nat /\ z \in Nat /\ y + 1 <= z BY <1>1, <1>2, <1>3, <1>4, <2>2
    <2>4. x = y * col.size + r /\ run = col.size * z BY <2>1
    <2> HIDE DEF y, z
    <2>5. (y + 1) * col.size <= z * col.size /\ (y + 1) * col.size = y * col.size + col.size
          /\ z * col.size = col.size * z
      BY <1>1, <2>3
    <2> DEFINE g == y * col.size
               e == col.size * z
    <2>6. g \in Nat /\ e \in Nat /\ g + col.size <= e /\ x = g + r /\ run = e
      BY <1>1, <2>3, <2>4, <2>5
    <2> HIDE DEF g, e
    <2>7. x < run BY <1>1, <1>3, <2>6
    <2> QED BY <1>6, <1>9, <2>7 DEF x, col, stride, run
  <1> QED BY <1>1, <1>7, <1>8, <1>9

-----------------------------------------------------------------------------
(* Memory.                                                                  *)

(* at is where the constructor placed column c of n elements of block b.    *)
Lies(b, c, n, at) ==
    n \in Nat /\ at.addr \in Nat /\ at.stride = Stride(Blocks[b][c], n)

(* All its bytes.                                                           *)
Region(b, c, n, at) == at.addr .. at.addr + PlacedBytes(Blocks[b][c], n) - 1

(* The bytes of an element are in the column's region.                      *)
LEMMA ElementInRegion ==
    ASSUME NEW b \in DOMAIN Blocks, NEW c \in DOMAIN Blocks[b], NEW n, NEW at, Lies(b, c, n, at),
           NEW i \in Rows(b, c, n), NEW k \in 0 .. Width(Blocks[b][c]) - 1
    PROVE  /\ ElementBytes(Blocks[b][c], at, i)[k] =
                  at.addr + Offset(Blocks[b][c], Stride(Blocks[b][c], n), i, k)
           /\ Offset(Blocks[b][c], Stride(Blocks[b][c], n), i, k) \in Nat
           /\ ElementBytes(Blocks[b][c], at, i)[k] \in Region(b, c, n, at)
  <1> DEFINE x == Offset(Blocks[b][c], Stride(Blocks[b][c], n), i, k)
             e == ElementBytes(Blocks[b][c], at, i)[k]
             y == PlacedBytes(Blocks[b][c], n)
  <1>1. /\ n \in Nat /\ at.addr \in Nat /\ at.stride = Stride(Blocks[b][c], n) BY DEF Lies
  <1>2. i \in Nat BY DEF Rows
  <1>3. at.stride \in Nat /\ y \in Nat BY <1>1, ColumnBytes
  <1>4. e = at.addr + x BY <1>1, <1>2, <1>3, BytesAreOffsets
  <1>5. x \in Nat /\ x < y BY <1>1, OffsetWithin
  <1>6. Region(b, c, n, at) = at.addr .. at.addr + y - 1 BY DEF Region
  <1> HIDE DEF x, e, y
  <1>7. e \in at.addr .. at.addr + y - 1 BY <1>1, <1>3, <1>4, <1>5
  <1> QED BY <1>4, <1>5, <1>6, <1>7 DEF x, e, y

(* An element has a byte, and its bytes are numbered from 0.                *)
LEMMA ElementNotEmpty ==
    ASSUME NEW b \in DOMAIN Blocks, NEW c \in DOMAIN Blocks[b]
    PROVE  0 \in 0 .. Width(Blocks[b][c]) - 1 /\ Width(Blocks[b][c]) \in Nat
  <1>1. Blocks[b][c].size \in Nat \ {0} /\ Blocks[b][c].comps \in Nat \ {0} BY ColumnType
  <1>2. Width(Blocks[b][c]) \in Nat \ {0} BY <1>1 DEF Width
  <1> QED BY <1>2

(* What is written to an element is found there ...                         *)
LEMMA SpreadThere ==
    ASSUME NEW b \in DOMAIN Blocks, NEW c \in DOMAIN Blocks[b], NEW n, NEW at, Lies(b, c, n, at),
           NEW m, Region(b, c, n, at) \subseteq DOMAIN m,
           NEW i \in Rows(b, c, n), NEW value, NEW k \in 0 .. Width(Blocks[b][c]) - 1
    PROVE  Content(Spread(m, Blocks[b][c], at, i, value), Blocks[b][c], at, i)[k] = value[k]
  <1> DEFINE col == Blocks[b][c]
             bytes == ElementBytes(col, at, i)
             K == 0 .. Width(col) - 1
  <1>1. \A l \in K : bytes[l] = bytes[k] => l = k
    <2> SUFFICES ASSUME NEW l \in K, bytes[l] = bytes[k] PROVE l = k OBVIOUS
    <2> DEFINE x == Offset(col, Stride(col, n), i, l)
               y == Offset(col, Stride(col, n), i, k)
    <2>1. bytes[l] = at.addr + x /\ bytes[k] = at.addr + y /\ x \in Nat /\ y \in Nat
          /\ at.addr \in Nat
      BY ElementInRegion DEF Lies
    <2> DEFINE a0 == at.addr
               xs == bytes[l]
               ys == bytes[k]
    <2>a. xs = a0 + x /\ ys = a0 + y /\ x \in Nat /\ y \in Nat /\ a0 \in Nat /\ xs = ys BY <2>1
    <2> HIDE DEF x, y, a0, xs, ys
    <2>2. x = y BY <2>a
    <2> QED BY <2>2, OffsetInjective DEF x, y, Lies
  <1>2. bytes[k] \in DOMAIN m BY ElementInRegion
  <1>3. DOMAIN bytes = K BY DEF ElementBytes, Width
  <1> HIDE DEF bytes
  <1>4. (CHOOSE l \in DOMAIN bytes : bytes[l] = bytes[k]) = k BY <1>1, <1>3
  <1>5. Spread(m, col, at, i, value)[bytes[k]] = value[k]
    BY <1>2, <1>3, <1>4 DEF Spread, bytes
  <1>6. Content(Spread(m, col, at, i, value), col, at, i)[k]
            = Spread(m, col, at, i, value)[bytes[k]]
    BY DEF Content, Width, bytes
  <1> QED BY <1>5, <1>6

(* ... and elements that share no byte with it keep what they held.         *)
LEMMA SpreadElsewhere ==
    ASSUME NEW b \in DOMAIN Blocks, NEW c \in DOMAIN Blocks[b], NEW at, NEW i, NEW value,
           NEW g \in DOMAIN Blocks, NEW h \in DOMAIN Blocks[g], NEW p, NEW to, Lies(g, h, p, to),
           NEW j \in Rows(g, h, p),
           NEW m, Region(g, h, p, to) \subseteq DOMAIN m,
           \A k \in 0 .. Width(Blocks[b][c]) - 1 : \A l \in 0 .. Width(Blocks[g][h]) - 1 :
               ElementBytes(Blocks[b][c], at, i)[k] # ElementBytes(Blocks[g][h], to, j)[l]
    PROVE  Content(Spread(m, Blocks[b][c], at, i, value), Blocks[g][h], to, j) =
               Content(m, Blocks[g][h], to, j)
  <1> DEFINE new == Spread(m, Blocks[b][c], at, i, value)
             bytes == ElementBytes(Blocks[b][c], at, i)
             there == ElementBytes(Blocks[g][h], to, j)
  <1>1. ASSUME NEW l \in 0 .. Width(Blocks[g][h]) - 1 PROVE new[there[l]] = m[there[l]]
    <2>1. there[l] \in DOMAIN m BY ElementInRegion
    <2>2. DOMAIN bytes = 0 .. Width(Blocks[b][c]) - 1 BY DEF ElementBytes, Width
    <2>3. ~ \E k \in DOMAIN bytes : bytes[k] = there[l] BY <2>2
    <2> HIDE DEF bytes, there
    <2> QED BY <2>1, <2>3 DEF Spread, bytes
  <1> QED BY <1>1 DEF Content, Width

(* What a run of bytes copied from another place holds is found there ...   *)
LEMMA MemcpyThere ==
    ASSUME NEW b \in DOMAIN Blocks, NEW c \in DOMAIN Blocks[b],
           NEW n, NEW to, Lies(b, c, n, to), NEW m, NEW from, Lies(b, c, m, from), m <= n,
           Stride(Blocks[b][c], m) = Stride(Blocks[b][c], n),
           NEW mem, Region(b, c, n, to) \subseteq DOMAIN mem, NEW i \in Rows(b, c, m)
    PROVE  Content(Memcpy(mem, to.addr, from.addr, Run(Blocks[b][c], n, m)), Blocks[b][c], to, i) =
               Content(mem, Blocks[b][c], from, i)
  <1> DEFINE col == Blocks[b][c]
             run == Run(col, n, m)
             new == Memcpy(mem, to.addr, from.addr, run)
  <1>1. n \in Nat /\ m \in 0 .. n /\ to.addr \in Nat /\ from.addr \in Nat BY DEF Lies
  <1>2. i \in Rows(b, c, n) BY <1>1 DEF Rows
  <1>3. ASSUME NEW k \in 0 .. Width(col) - 1
        PROVE  new[ElementBytes(col, to, i)[k]] = mem[ElementBytes(col, from, i)[k]]
    <2> DEFINE x == Offset(col, Stride(col, n), i, k)
    <2>1. /\ ElementBytes(col, to, i)[k] = to.addr + x /\ x \in Nat
          /\ to.addr + x \in DOMAIN mem
      BY <1>2, ElementInRegion
    <2>2. ElementBytes(col, from, i)[k] = from.addr + x BY ElementInRegion
    <2>3. x < run BY <1>1, <1>2, RunHolds
    <2>4. run \in Nat BY <1>1, RunFits
    <2> HIDE DEF x, run, col
    <2> DEFINE u == to.addr
               w == from.addr
    <2>5. u \in Nat /\ w \in Nat /\ u + x \in DOMAIN mem /\ x \in Nat BY <1>1, <2>1
    <2>6. ElementBytes(col, to, i)[k] = u + x /\ ElementBytes(col, from, i)[k] = w + x
          /\ new = Memcpy(mem, u, w, run)
      BY <2>1, <2>2
    <2> HIDE DEF u, w, new
    <2>7. u + x \in u .. u + run - 1 /\ u + x - u + w = w + x BY <2>3, <2>4, <2>5
    <2>8. new[u + x] = mem[u + x - u + w]
      BY <2>5, <2>6, <2>7 DEF Memcpy
    <2> QED BY <2>6, <2>7, <2>8
  <1> QED BY <1>3 DEF Content, Width

(* ... and elements without a byte in that place keep what they held.       *)
LEMMA MemcpyElsewhere ==
    ASSUME NEW g \in DOMAIN Blocks, NEW h \in DOMAIN Blocks[g], NEW p, NEW at, Lies(g, h, p, at),
           NEW j \in Rows(g, h, p), NEW to, NEW from, NEW run,
           NEW mem, Region(g, h, p, at) \subseteq DOMAIN mem,
           \A k \in 0 .. Width(Blocks[g][h]) - 1 :
               ElementBytes(Blocks[g][h], at, j)[k] \notin to .. to + run - 1
    PROVE  Content(Memcpy(mem, to, from, run), Blocks[g][h], at, j) = Content(mem, Blocks[g][h], at, j)
  <1> DEFINE new == Memcpy(mem, to, from, run)
             there == ElementBytes(Blocks[g][h], at, j)
  <1>1. ASSUME NEW l \in 0 .. Width(Blocks[g][h]) - 1 PROVE new[there[l]] = mem[there[l]]
    <2>1. there[l] \in DOMAIN mem BY ElementInRegion
    <2> HIDE DEF there
    <2> QED BY <2>1 DEF Memcpy, there
  <1> QED BY <1>1 DEF Content, Width

-----------------------------------------------------------------------------
(* What the refinement needs besides: buffers apart, views that show        *)
(* columns of whole storages, loops over columns that are there.            *)

BuffersApart ==
    \A s \in Storages : Held(s) \subseteq Address /\ \A t \in Storages \ {s} : Held(s) \cap Held(t) = {}

(* The column a view shows is a column of its kind of a whole storage.      *)
ShowsColumn(v, b, c, s, g, h) ==
    /\ s \in Storages /\ Complete(s)
    /\ g \in DOMAIN Blocks /\ h \in DOMAIN Blocks[g] /\ Blocks[g][h] = Blocks[b][c]
    /\ view[v][b].from[c] = <<s, g, h>>
    /\ view[v][b].columns[c] = layout[s][g].columns[h]
    /\ view[v][b].elements_ = layout[s][g].elements_

ViewsShow ==
    \A v \in DOMAIN view :
        /\ DOMAIN view[v] = DOMAIN Blocks
        /\ \A b \in DOMAIN Blocks : \A c \in DOMAIN Blocks[b] :
               \E s, g, h : ShowsColumn(v, b, c, s, g, h)

(* A loop that copies runs alone, at a column, between rows that are there. *)
LoopsCopy ==
    copying # NotCopying =>
        /\ loop = Idle /\ copying.from \in DOMAIN view
        /\ copying.block \in DOMAIN Blocks /\ copying.column \in DOMAIN Blocks[copying.block]
        /\ copying.call = "deepCopy" =>
               /\ Complete(copying.to) /\ Fits(copying.to, copying.from)
               /\ AnyStride \/ SameStrides(copying.to, copying.from)
        /\ copying.call = "assign" =>
               /\ copying.to \in DOMAIN view
               /\ InRange(copying.to, copying.block, copying.row)
               /\ InRange(copying.from, copying.block, copying.fromRow)

(* No byte of memory is one a client has yet to write.                      *)
BytesWritten == \A a \in Address : memory[a] \in Int /\ memory[a] >= -calls

(* The copy of a view that shows none of the destination's columns, so far. *)
Elsewhere(s, v) == \A b \in DOMAIN Blocks : \A c \in DOMAIN Blocks[b] : view[v][b].from[c][1] # s

ColumnCopied(s, v, b, c) ==
    \A r \in Rows(b, c, view[v][b].elements_) :
        Content(memory, Blocks[b][c], layout[s][b].columns[c], r) =
        Content(memory, Blocks[b][c], view[v][b].columns[c], r)

CopiedSoFar ==
    copying.call = "deepCopy" /\ Elsewhere(copying.to, copying.from) =>
        \A b \in DOMAIN Blocks : \A c \in DOMAIN Blocks[b] :
            Before(b, c, copying.block, copying.column) =>
                ColumnCopied(copying.to, copying.from, b, c)

UseInv == BuffersApart /\ ViewsShow /\ LoopsCopy /\ BytesWritten

(* The column of a whole storage lies where the constructor placed it,      *)
(* within the storage's buffer.                                             *)
Placement(s, b, c) == Region(b, c, layout[s][b].elements_, layout[s][b].columns[c])

LEMMA WholeLies ==
    ASSUME TypeOK, NEW o \in [Storages -> Tables], Follows(o), loop = Idle,
           NEW s \in Storages, Complete(s), NEW b \in DOMAIN Blocks, NEW c \in DOMAIN Blocks[b]
    PROVE  /\ Lies(b, c, layout[s][b].elements_, layout[s][b].columns[c])
           /\ layout[s][b].columns[c].addr = buffer[s].base + o[s][b][c]
           /\ layout[s][b].columns[c].padded =
                  Stride(Blocks[b][c], layout[s][b].elements_) * Blocks[b][c].comps
           /\ PlacedBytes(Blocks[b][c], layout[s][b].elements_) = Bytes(b, c, sizes_[s])
           /\ Bytes(b, c, sizes_[s]) \in Nat /\ o[s][b][c] \in Nat
           /\ buffer[s].base \in Nat /\ buffer[s].bytes \in Nat /\ buffer[s] # None
           /\ Placement(s, b, c) \subseteq Held(s)
  <1> DEFINE at == layout[s][b].columns[c]
             n == sizes_[s]
             base == buffer[s].base
             x == o[s][b][c]
             y == Bytes(b, c, n)
             g == Len(Blocks)
             h == Last(g) + 1
  <1>1. /\ buffer[s] # None /\ base \in Nat /\ n \in Sizes /\ Whole(o[s], n) /\ o[s] \in Tables
        /\ b \in DOMAIN layout[s] /\ InPlace(o, s, b) /\ Finished(o, s, b)
    BY CompleteLayout
  <1>2. /\ buffer[s].bytes \in Nat /\ buffer[s].bytes = o[s][g][h]
    BY <1>1, BufferThere DEF Follows
  <1>3. layout[s][b].elements_ = n[b] /\ n[b] \in Nat BY <1>1 DEF InPlace, Sizes
  <1>4. c \in DOMAIN layout[s][b].columns
    <2>1. layout[s] \in Seq(Layout) BY DEF TypeOK, LayoutTypeOK
    <2>2. layout[s][b] \in Layout BY <1>1, <2>1
    <2>3. layout[s][b].columns \in Seq([addr : Nat, stride : Nat, padded : Nat])
      BY <2>2 DEF Layout
    <2>4. DOMAIN layout[s][b].columns = 1 .. Last(b) BY <1>1, <2>3 DEF Finished
    <2> QED BY <2>4, Numbers
  <1>5. at = Placed(Blocks[b][c], n[b], base + x) BY <1>1, <1>4 DEF InPlace
  <1>6. c \in 1 .. Last(b) + 1 /\ g \in DOMAIN Blocks /\ h \in 1 .. Last(g) + 1
        /\ Before(b, c, g, h)
    BY Numbers DEF Before
  <1>7. x \in Nat BY <1>1, <1>6, WholeTable
  <1>8. y \in Nat /\ y = PlacedBytes(Blocks[b][c], n[b]) BY <1>1, BytesType DEF Bytes
  <1>9. x + y <= o[s][g][h] BY <1>1, <1>6, WholeTable
  <1>10. /\ at.addr = base + x /\ at.stride = Stride(Blocks[b][c], n[b])
         /\ at.padded = Stride(Blocks[b][c], n[b]) * Blocks[b][c].comps
    BY <1>5 DEF Placed
  <1>11. Lies(b, c, n[b], at) BY <1>1, <1>3, <1>7, <1>10 DEF Lies
  <1>12. Placement(s, b, c) = base + x .. base + x + y - 1
    BY <1>3, <1>8, <1>10 DEF Placement, Region
  <1>13. Held(s) = base .. base + buffer[s].bytes - 1 BY <1>1 DEF Held
  <1>14. Placement(s, b, c) \subseteq Held(s)
    <2> HIDE DEF x, y, base
    <2>1. base + x .. base + x + y - 1 \subseteq base .. base + buffer[s].bytes - 1
      BY <1>1, <1>2, <1>7, <1>8, <1>9 DEF x, y, base
    <2> QED BY <2>1, <1>12, <1>13
  <1> QED BY <1>1, <1>2, <1>3, <1>7, <1>8, <1>10, <1>11, <1>14

(* No byte belongs to two columns.                                          *)
LEMMA PlacementsApart ==
    ASSUME TypeOK, NEW o \in [Storages -> Tables], Follows(o), loop = Idle, BuffersApart,
           NEW s \in Storages, Complete(s), NEW b \in DOMAIN Blocks, NEW c \in DOMAIN Blocks[b],
           NEW t \in Storages, Complete(t), NEW g \in DOMAIN Blocks, NEW h \in DOMAIN Blocks[g],
           <<s, b, c>> # <<t, g, h>>
    PROVE  Placement(s, b, c) \cap Placement(t, g, h) = {}
  <1>1. CASE s # t
    <2>1. Placement(s, b, c) \subseteq Held(s) /\ Placement(t, g, h) \subseteq Held(t) BY WholeLies
    <2>2. Held(s) \cap Held(t) = {} BY <1>1 DEF BuffersApart
    <2> QED BY <2>1, <2>2
  <1>2. CASE s = t
    <2> DEFINE n == sizes_[s]
               base == buffer[s].base
               x == o[s][b][c]
               y == Bytes(b, c, n)
               z == o[s][g][h]
               w == Bytes(g, h, n)
    <2>1. /\ base \in Nat /\ x \in Nat /\ y \in Nat /\ z \in Nat /\ w \in Nat
          /\ Placement(s, b, c) = base + x .. base + x + y - 1
          /\ Placement(t, g, h) = base + z .. base + z + w - 1
      <3>1. /\ layout[s][b].columns[c].addr = base + x
            /\ PlacedBytes(Blocks[b][c], layout[s][b].elements_) = y
            /\ base \in Nat /\ x \in Nat /\ y \in Nat
        BY WholeLies
      <3>2. /\ layout[s][g].columns[h].addr = base + z
            /\ PlacedBytes(Blocks[g][h], layout[s][g].elements_) = w
            /\ z \in Nat /\ w \in Nat
        BY <1>2, WholeLies
      <3> HIDE DEF base, x, y, z, w
      <3> QED BY <1>2, <3>1, <3>2 DEF Placement, Region
    <2>2. n \in Sizes /\ Whole(o[s], n) /\ o[s] \in Tables BY CompleteLayout
    <2>3. c \in 1 .. Last(b) + 1 /\ h \in 1 .. Last(g) + 1 /\ b \in Nat /\ g \in Nat
          /\ c \in Nat /\ h \in Nat
      BY Numbers
    <2>4. Before(b, c, g, h) \/ Before(g, h, b, c) BY <1>2, <2>3 DEF Before
    <2>5. x + y <= z \/ z + w <= x BY <2>2, <2>3, <2>4, WholeTable
    <2> HIDE DEF base, x, y, z, w
    <2>6. (base + x .. base + x + y - 1) \cap (base + z .. base + z + w - 1) = {}
      BY <2>1, <2>5
    <2> QED BY <2>1, <2>6
  <1> QED BY <1>1, <1>2

(* What a view shows, by its memory of where each column came from.         *)
LEMMA Shown ==
    ASSUME ViewsShow, NEW v \in DOMAIN view, NEW b \in DOMAIN Blocks, NEW c \in DOMAIN Blocks[b]
    PROVE  LET f == view[v][b].from[c]
           IN  ShowsColumn(v, b, c, f[1], f[2], f[3]) /\ f = <<f[1], f[2], f[3]>>
  <1>1. PICK s, g, h : ShowsColumn(v, b, c, s, g, h) BY DEF ViewsShow
  <1>2. view[v][b].from[c] = <<s, g, h>> BY <1>1 DEF ShowsColumn
  <1> QED BY <1>1, <1>2

(* It lies in memory like the column it shows.                              *)
LEMMA ShownLies ==
    ASSUME TypeOK, NEW o \in [Storages -> Tables], Follows(o), loop = Idle, BuffersApart,
           NEW v \in DOMAIN view, NEW b \in DOMAIN Blocks, NEW c \in DOMAIN Blocks[b],
           NEW s, NEW g, NEW h, ShowsColumn(v, b, c, s, g, h)
    PROVE  /\ Lies(b, c, view[v][b].elements_, view[v][b].columns[c])
           /\ Region(b, c, view[v][b].elements_, view[v][b].columns[c]) = Placement(s, g, h)
           /\ Placement(s, g, h) \subseteq Address
           /\ \A n : Rows(g, h, n) = Rows(b, c, n)
  <1>1. /\ s \in Storages /\ Complete(s) /\ g \in DOMAIN Blocks /\ h \in DOMAIN Blocks[g]
        /\ Blocks[g][h] = Blocks[b][c]
        /\ view[v][b].columns[c] = layout[s][g].columns[h]
        /\ view[v][b].elements_ = layout[s][g].elements_
    BY DEF ShowsColumn
  <1>2. Lies(g, h, layout[s][g].elements_, layout[s][g].columns[h])
        /\ Placement(s, g, h) \subseteq Held(s)
    BY <1>1, WholeLies
  <1>3. Held(s) \subseteq Address BY <1>1 DEF BuffersApart
  <1>4. Lies(b, c, view[v][b].elements_, view[v][b].columns[c]) BY <1>1, <1>2 DEF Lies
  <1>5. Region(b, c, view[v][b].elements_, view[v][b].columns[c]) = Placement(s, g, h)
    BY <1>1 DEF Placement, Region
  <1>6. \A n : Rows(g, h, n) = Rows(b, c, n) BY <1>1 DEF Rows, Scalar
  <1> QED BY <1>2, <1>3, <1>4, <1>5, <1>6

(* A whole storage stays whole, its layout as it is.                        *)
LEMMA WholeStays ==
    ASSUME LayoutNext, NEW s \in Storages, Complete(s), LayoutTypeOK
    PROVE  Complete(s)' /\ layout'[s] = layout[s]
  <1>0. layout \in [Storages -> Seq(Layout)] BY DEF LayoutTypeOK
  <1>1. Len(layout[s]) = Len(Blocks) /\ layout[s] # <<>> BY Numbers DEF Complete
  <1>2. ASSUME NEW t \in Storages, Construct(t) PROVE layout'[s] = layout[s] /\ Complete(s)'
    <2>1. t # s BY <1>1, <1>2 DEF Construct
    <2>2. layout'[s] = layout[s] BY <1>0, <1>2, <2>1 DEF Construct, Throw
    <2>3. loop' = Idle \/ loop'.target = t BY <1>2 DEF Construct, Throw, PlaceFrom
    <2> QED BY <1>1, <2>1, <2>2, <2>3 DEF Complete, Idle
  <1>3. ASSUME Place PROVE layout'[s] = layout[s] /\ Complete(s)'
    <2>1. loop.target # s BY <1>3 DEF Complete, Place
    <2>2. layout'[s] = layout[s] BY <1>0, <1>3, <2>1 DEF Place, Throw
    <2>3. loop' = Idle \/ loop'.target = loop.target
      <3>1. loop \in [at : {"place"}, target : Storages, block : DOMAIN Blocks,
                      column : Nat, cur : Nat]
        BY <1>3 DEF Place, LayoutTypeOK, Loops, Idle
      <3>2. CASE checkAlignment(loop.target, loop.cur)
        <4> DEFINE next == loop.cur + PlacedBytes(Blocks[loop.block][loop.column], Current.elements_)
        <4>1. \/ loop' = [at |-> "check", target |-> loop.target, block |-> loop.block,
                                 column |-> 1, cur |-> next, ret |-> 0]
              \/ loop' = [loop EXCEPT !.cur = next, !.column = @ + 1]
          BY <1>3, <3>2 DEF Place
        <4> HIDE DEF next
        <4>3. ASSUME loop' = [loop EXCEPT !.cur = next, !.column = @ + 1]
              PROVE  loop'.target = loop.target
          BY <3>1, <4>3
        <4>4. ASSUME loop' = [at |-> "check", target |-> loop.target, block |-> loop.block,
                              column |-> 1, cur |-> next, ret |-> 0]
              PROVE  loop'.target = loop.target
          BY <4>4
        <4> QED BY <4>1, <4>3, <4>4
      <3>3. CASE ~checkAlignment(loop.target, loop.cur) BY <1>3, <3>3 DEF Place, Throw
      <3> QED BY <3>2, <3>3
    <2> QED BY <1>1, <2>1, <2>2, <2>3 DEF Complete, Idle
  <1>4. ASSUME EndBlock PROVE layout'[s] = layout[s] /\ Complete(s)'
    <2>1. loop.target # s BY <1>4 DEF Complete, EndBlock
    <2>2. layout'[s] = layout[s] BY <1>0, <1>4, <2>1 DEF EndBlock, Throw
    <2>3. loop' = Idle \/ loop'.target = loop.target BY <1>4 DEF EndBlock, Throw, PlaceFrom
    <2> QED BY <1>1, <2>1, <2>2, <2>3 DEF Complete, Idle
  <1>5. ASSUME AccumulateBlock PROVE layout'[s] = layout[s] /\ Complete(s)'
    <2>1. loop.target # s /\ layout' = layout BY <1>5 DEF Complete, AccumulateBlock
    <2>2. loop \in [at : {"check"}, target : Storages, block : DOMAIN Blocks, column : Nat,
                    cur : Nat, ret : Nat]
      BY <1>5 DEF AccumulateBlock, LayoutTypeOK, Loops, Idle
    <2>3. loop'.target = loop.target BY <1>5, <2>2 DEF AccumulateBlock
    <2> QED BY <1>1, <2>1, <2>3 DEF Complete
  <1>6. ASSUME layout' = layout, loop'.at \notin {"place", "check"}
        PROVE  layout'[s] = layout[s] /\ Complete(s)'
    BY <1>1, <1>6 DEF Complete
  <1>7. ASSUME NEW t \in Storages, NEW n \in Elements, ComputeDataSize(t, n)
        PROVE  layout' = layout /\ loop'.at \notin {"place", "check"}
    BY <1>7 DEF ComputeDataSize
  <1>8. ASSUME NEW t \in Storages, NEW u \in Storages, NEW base \in Bases[u], Clone(t, u, base)
        PROVE  layout' = layout /\ loop'.at \notin {"place", "check"}
    BY <1>8 DEF Clone, Idle
  <1>9. ASSUME (\E t \in Storages : \E b \in DOMAIN Blocks : Dump(t, b)) \/ DumpColumn \/ DumpEnd
        PROVE  layout' = layout /\ loop'.at \notin {"place", "check"}
    <2>1. CASE DumpColumn
      <3>1. loop \in [at : {"size", "dump"}, target : Storages, block : DOMAIN Blocks,
                      column : Nat, ret : Nat]
        BY <2>1 DEF DumpColumn, LayoutTypeOK, Loops, Idle
      <3> QED BY <2>1, <3>1 DEF DumpColumn
    <2> QED BY <1>9, <2>1 DEF Dump, DumpEnd, Idle
  <1>10. ASSUME AccumulateBlocks PROVE layout' = layout /\ loop'.at \notin {"place", "check"}
    <2>1. loop \in [at : {"size", "dump"}, target : Storages, block : DOMAIN Blocks,
                    column : Nat, ret : Nat]
      BY <1>10 DEF AccumulateBlocks, LayoutTypeOK, Loops, Idle
    <2> QED BY <1>10, <2>1 DEF AccumulateBlocks
  <1>11. ASSUME NEW base, Allocate(base) PROVE layout' = layout /\ loop'.at \notin {"place", "check"}
    BY <1>11 DEF Allocate, Idle
  <1> QED BY <1>2, <1>3, <1>4, <1>5, <1>6, <1>7, <1>8, <1>9, <1>10, <1>11 DEF LayoutNext

(* The client's allocator keeps the buffers apart.                          *)
LEMMA BuffersStayApart ==
    ASSUME IInv, BuffersApart, LayoutNext
    PROVE  BuffersApart'
  <1> PICK o \in [Storages -> Tables] : Follows(o) BY DEF IInv
  <1>0. LayoutTypeOK BY DEF IInv, TypeOK
  <1>1. ASSUME NEW t \in Storages, NEW base, NEW bytes, Free(base, bytes),
               \A u \in Storages \ {t} : buffer'[u] = buffer[u],
               buffer'[t] = [base |-> base, bytes |-> bytes]
        PROVE  BuffersApart'
    <2>1. \A u \in Storages \ {t} : Held(u)' = Held(u) BY <1>1 DEF Held
    <2>2. Held(t)' \subseteq base .. base + bytes - 1 BY <1>1 DEF Held
    <2>3. /\ base .. base + bytes - 1 \subseteq Address
          /\ \A u \in Storages : (base .. base + bytes - 1) \cap Held(u) = {}
      BY <1>1 DEF Free
    <2> SUFFICES ASSUME NEW u \in Storages
                 PROVE  /\ Held(u)' \subseteq Address
                        /\ \A w \in Storages \ {u} : Held(u)' \cap Held(w)' = {}
      BY DEF BuffersApart
    <2>4. CASE u = t BY <2>1, <2>2, <2>3, <2>4
    <2>5. CASE u # t
      <3>1. Held(u)' = Held(u) /\ Held(u) \subseteq Address BY <2>1, <2>5 DEF BuffersApart
      <3>2. ASSUME NEW w \in Storages \ {u} PROVE Held(u) \cap Held(w)' = {}
        <4>1. CASE w = t BY <2>2, <2>3, <4>1
        <4>2. CASE w # t BY <2>1, <4>2 DEF BuffersApart
        <4> QED BY <4>1, <4>2
      <3> QED BY <3>1, <3>2
    <2> QED BY <2>4, <2>5
  <1>2. ASSUME NEW s \in Storages, NEW t \in Storages, NEW base \in Bases[t], Clone(s, t, base)
        PROVE  BuffersApart'
    <2> DEFINE bytes == layout[s][Len(Blocks)].mem_ + layout[s][Len(Blocks)].byteSize_
                           - layout[s][1].mem_
    <2>1. Free(base, bytes) /\ buffer' = [buffer EXCEPT ![t] = [base |-> base, bytes |-> bytes]]
      BY <1>2 DEF Clone
    <2> HIDE DEF bytes
    <2>2. /\ \A u \in Storages \ {t} : buffer'[u] = buffer[u]
          /\ buffer'[t] = [base |-> base, bytes |-> bytes]
      BY <1>0, <2>1 DEF LayoutTypeOK
    <2> QED BY <1>1, <2>1, <2>2
  <1>3. ASSUME loop.at = "size", NEW base \in Bases[loop.target], Allocate(base)
        PROVE  BuffersApart'
    <2>0. loop.target \in Storages BY <1>0, <1>3 DEF LayoutTypeOK, Loops, Idle
    <2>1. /\ Free(base, Summed)
          /\ buffer' = [buffer EXCEPT ![loop.target] = [base |-> base, bytes |-> Summed]]
      BY <1>3 DEF Allocate
    <2>2. /\ \A u \in Storages \ {loop.target} : buffer'[u] = buffer[u]
          /\ buffer'[loop.target] = [base |-> base, bytes |-> Summed]
      BY <1>0, <2>0, <2>1 DEF LayoutTypeOK
    <2> QED BY <1>1, <2>0, <2>1, <2>2
  <1>4. ASSUME buffer' = buffer PROVE BuffersApart'
    BY <1>4 DEF BuffersApart, Held
  <1> QED BY <1>2, <1>3, <1>4 DEF LayoutNext, ComputeDataSize, Construct, Dump, AccumulateBlocks,
                  Place, AccumulateBlock, EndBlock, DumpColumn, DumpEnd

(* A view shows the same while it and the layouts stay.                     *)
LEMMA ShowsStays ==
    ASSUME UNCHANGED layoutVars, NEW v, NEW b, view'[v][b] = view[v][b],
           NEW c, NEW s, NEW g, NEW h, ShowsColumn(v, b, c, s, g, h)
    PROVE  ShowsColumn(v, b, c, s, g, h)'
  <1>1. layout' = layout /\ loop' = loop BY DEF layoutVars
  <1>2. Complete(s)' <=> Complete(s) BY <1>1 DEF Complete
  <1> QED BY <1>1, <1>2 DEF ShowsColumn

LEMMA ViewsStay ==
    ASSUME ViewsShow, UNCHANGED layoutVars, view' = view
    PROVE  ViewsShow'
  <1> SUFFICES ASSUME NEW v \in DOMAIN view, NEW b \in DOMAIN Blocks, NEW c \in DOMAIN Blocks[b]
               PROVE  \E s, g, h : ShowsColumn(v, b, c, s, g, h)'
    BY DEF ViewsShow
  <1>1. PICK s, g, h : ShowsColumn(v, b, c, s, g, h) BY DEF ViewsShow
  <1> QED BY <1>1, ShowsStays

(* A view of a whole storage shows its columns.                             *)
LEMMA LookShows ==
    ASSUME ViewsShow, NEW v \in Views, NEW s \in Storages, Look(v, s)
    PROVE  ViewsShow'
  <1>1. /\ Complete(s) /\ UNCHANGED layoutVars
        /\ view' = [w \in DOMAIN view \cup {v} |-> IF w # v THEN view[w] ELSE
               [b \in DOMAIN Blocks |->
                   [elements_ |-> layout[s][b].elements_,
                    columns   |-> layout[s][b].columns,
                    from      |-> [c \in DOMAIN Blocks[b] |-> <<s, b, c>>]]]]
    BY DEF Look
  <1> SUFFICES ASSUME NEW w \in DOMAIN view'
               PROVE  /\ DOMAIN view'[w] = DOMAIN Blocks
                      /\ \A b \in DOMAIN Blocks : \A c \in DOMAIN Blocks[b] :
                             \E t, g, h : ShowsColumn(w, b, c, t, g, h)'
    BY DEF ViewsShow
  <1>2. CASE w # v
    <2>1. w \in DOMAIN view /\ view'[w] = view[w] BY <1>1, <1>2
    <2>2. ASSUME NEW b \in DOMAIN Blocks, NEW c \in DOMAIN Blocks[b]
          PROVE  \E t, g, h : ShowsColumn(w, b, c, t, g, h)'
      <3>1. PICK t, g, h : ShowsColumn(w, b, c, t, g, h) BY <2>1 DEF ViewsShow
      <3>2. view'[w][b] = view[w][b] BY <2>1
      <3> QED BY <1>1, <3>1, <3>2, ShowsStays
    <2> QED BY <2>1, <2>2 DEF ViewsShow
  <1>3. CASE w = v
    <2>1. view'[w] = [b \in DOMAIN Blocks |->
                   [elements_ |-> layout[s][b].elements_,
                    columns   |-> layout[s][b].columns,
                    from      |-> [c \in DOMAIN Blocks[b] |-> <<s, b, c>>]]]
      BY <1>1, <1>3
    <2>2. ASSUME NEW b \in DOMAIN Blocks, NEW c \in DOMAIN Blocks[b]
          PROVE  ShowsColumn(w, b, c, s, b, c)'
      <3>1. /\ view'[w][b].elements_ = layout[s][b].elements_
            /\ view'[w][b].columns = layout[s][b].columns
            /\ view'[w][b].from[c] = <<s, b, c>>
        BY <2>1
      <3>2. layout' = layout /\ loop' = loop BY <1>1 DEF layoutVars
      <3>3. Complete(s)' BY <1>1, <3>2 DEF Complete
      <3> QED BY <3>1, <3>2, <3>3 DEF ShowsColumn
    <2> QED BY <2>1, <2>2
  <1> QED BY <1>2, <1>3

(* A view of columns that agree shows them.                                 *)
LEMMA MergeShows ==
    ASSUME ViewsShow, NEW v \in DOMAIN view, NEW b \in DOMAIN Blocks, NEW picked \in Picks(b),
           Merge(v, b, picked), view' # view
    PROVE  /\ ViewsShow' /\ DOMAIN view' = DOMAIN view
           /\ \A w \in DOMAIN view : \A d \in DOMAIN Blocks :
                  <<w, d>> # <<v, b>> => view'[w][d] = view[w][d]
  <1> DEFINE columns == [c \in DOMAIN Blocks[b] |-> Record(picked[c])]
             block == [elements_ |-> columns[1].elements,
                       columns   |-> [c \in DOMAIN columns |-> columns[c].params],
                       from      |-> [c \in DOMAIN columns |-> columns[c].from]]
  <1>1. /\ ColumnsAgree(v, b, columns) /\ UNCHANGED layoutVars
        /\ view' = [view EXCEPT ![v][b] = block]
    BY DEF Merge
  <1>2. ASSUME NEW c \in DOMAIN Blocks[b]
        PROVE  /\ picked[c].view \in DOMAIN view /\ picked[c].block \in DOMAIN Blocks
               /\ picked[c].column \in DOMAIN Blocks[picked[c].block]
               /\ Blocks[picked[c].block][picked[c].column] = Blocks[b][c]
    <2>1. picked[c] \in Records(b, c) BY DEF Picks
    <2> QED BY <2>1 DEF Records
  <1>3. ASSUME NEW c \in DOMAIN Blocks[b]
        PROVE  /\ block.elements_ = view[picked[c].view][picked[c].block].elements_
               /\ block.columns[c] = view[picked[c].view][picked[c].block].columns[picked[c].column]
               /\ block.from[c] = view[picked[c].view][picked[c].block].from[picked[c].column]
    <2>1. columns[c] = Record(picked[c]) /\ columns[c].elements = columns[1].elements
      BY <1>1 DEF ColumnsAgree
    <2> HIDE DEF columns
    <2>2. DOMAIN columns = DOMAIN Blocks[b] BY DEF columns
    <2> QED BY <2>1, <2>2 DEF Record
  <1> HIDE DEF block, columns
  <1>4. /\ DOMAIN view' = DOMAIN view
        /\ \A w \in DOMAIN view : w # v => view'[w] = view[w]
        /\ view'[v] = [view[v] EXCEPT ![b] = block]
    BY <1>1
  <1>5. DOMAIN view[v] = DOMAIN Blocks BY DEF ViewsShow
  <1>6. /\ DOMAIN view'[v] = DOMAIN Blocks /\ view'[v][b] = block
        /\ \A d \in DOMAIN Blocks : d # b => view'[v][d] = view[v][d]
    BY <1>4, <1>5
  <1>7. ASSUME NEW w \in DOMAIN view, NEW d \in DOMAIN Blocks, <<w, d>> # <<v, b>>
        PROVE  view'[w][d] = view[w][d]
    BY <1>4, <1>6, <1>7
  <1>8. ASSUME NEW w \in DOMAIN view, NEW d \in DOMAIN Blocks, NEW c \in DOMAIN Blocks[d]
        PROVE  \E s, g, h : ShowsColumn(w, d, c, s, g, h)'
    <2>1. CASE <<w, d>> # <<v, b>>
      <3>1. PICK s, g, h : ShowsColumn(w, d, c, s, g, h) BY DEF ViewsShow
      <3>2. view'[w][d] = view[w][d] BY <1>7, <2>1
      <3> QED BY <1>1, <3>1, <3>2, ShowsStays
    <2>2. CASE w = v /\ d = b
      <3> DEFINE pv == picked[c].view
                 pb == picked[c].block
                 pc == picked[c].column
      <3>1. pv \in DOMAIN view /\ pb \in DOMAIN Blocks /\ pc \in DOMAIN Blocks[pb]
            /\ Blocks[pb][pc] = Blocks[d][c]
        BY <1>2, <2>2
      <3>2. PICK s, g, h : ShowsColumn(pv, pb, pc, s, g, h) BY <3>1 DEF ViewsShow
      <3>3. /\ view'[w][d].elements_ = view[pv][pb].elements_
            /\ view'[w][d].columns[c] = view[pv][pb].columns[pc]
            /\ view'[w][d].from[c] = view[pv][pb].from[pc]
        BY <1>3, <1>6, <2>2
      <3>4. layout' = layout /\ loop' = loop BY <1>1 DEF layoutVars
      <3>5. Complete(s)' <=> Complete(s) BY <3>4 DEF Complete
      <3> HIDE DEF pv, pb, pc
      <3>6. ShowsColumn(w, d, c, s, g, h)' BY <3>1, <3>2, <3>3, <3>4, <3>5 DEF ShowsColumn
      <3> QED BY <3>6
    <2> QED BY <2>1, <2>2
  <1>9. ASSUME NEW w \in DOMAIN view PROVE DOMAIN view'[w] = DOMAIN Blocks
    BY <1>4, <1>6 DEF ViewsShow
  <1>10. ViewsShow' BY <1>4, <1>8, <1>9 DEF ViewsShow
  <1> QED BY <1>4, <1>7, <1>10

(* What deepCopy copies of a column: a run of bytes of a column of the view *)
(* to the storage's column, which has at least as many rows.                *)
LEMMA CopiedRun ==
    ASSUME TypeOK, NEW o \in [Storages -> Tables], Follows(o), BuffersApart, ViewsShow, LoopsCopy,
           AnyStride = FALSE, copying.call = "deepCopy",
           NEW b \in DOMAIN Blocks, NEW c \in DOMAIN Blocks[b]
    PROVE  /\ loop = Idle /\ copying.to \in Storages /\ Complete(copying.to)
           /\ copying.from \in DOMAIN view
           /\ Lies(b, c, layout[copying.to][b].elements_, layout[copying.to][b].columns[c])
           /\ Lies(b, c, view[copying.from][b].elements_, view[copying.from][b].columns[c])
           /\ view[copying.from][b].elements_ \in 0 .. layout[copying.to][b].elements_
           /\ Stride(Blocks[b][c], view[copying.from][b].elements_) =
                  Stride(Blocks[b][c], layout[copying.to][b].elements_)
           /\ CopiedBytes(b, c) = Run(Blocks[b][c], layout[copying.to][b].elements_,
                                      view[copying.from][b].elements_)
           /\ Placement(copying.to, b, c) \subseteq Address
           /\ Region(b, c, view[copying.from][b].elements_, view[copying.from][b].columns[c])
                  \subseteq Address
           /\ layout[copying.to][b].columns[c].addr ..
                  layout[copying.to][b].columns[c].addr + CopiedBytes(b, c) - 1
                  \subseteq Placement(copying.to, b, c)
  <1> DEFINE s  == copying.to
             v  == copying.from
             n  == layout[s][b].elements_
             m  == view[v][b].elements_
             at == layout[s][b].columns[c]
             from == view[v][b].columns[c]
             f  == view[v][b].from[c]
             col == Blocks[b][c]
  <1>1. copying # NotCopying /\ s \in Storages BY DEF NotCopying, TypeOK
  <1>2. /\ loop = Idle /\ v \in DOMAIN view /\ Complete(s) /\ Fits(s, v) /\ SameStrides(s, v)
    BY <1>1 DEF LoopsCopy
  <1>3. /\ Lies(b, c, n, at) /\ at.padded = Stride(col, n) * col.comps
        /\ Placement(s, b, c) \subseteq Held(s)
    BY <1>1, <1>2, WholeLies
  <1>4. Placement(s, b, c) \subseteq Address BY <1>1, <1>3 DEF BuffersApart
  <1>5. ShowsColumn(v, b, c, f[1], f[2], f[3]) BY <1>2, Shown
  <1>6. /\ Lies(b, c, m, from)
        /\ Region(b, c, m, from) = Placement(f[1], f[2], f[3])
        /\ Placement(f[1], f[2], f[3]) \subseteq Address
    BY <1>2, <1>5, ShownLies
  <1>7. Region(b, c, n, at) = Placement(s, b, c) BY DEF Placement
  <1>8. n \in Nat /\ m \in Nat /\ m <= n BY <1>2, <1>3, <1>6 DEF Lies, Fits
  <1>9. Stride(col, m) = Stride(col, n)
    <2>1. at.stride = from.stride BY <1>2 DEF SameStrides
    <2> QED BY <1>3, <1>6, <2>1 DEF Lies
  <1>10. CopiedBytes(b, c) = Run(col, n, m)
    <2>1. CopiedBytes(b, c) =
              col.size * (CASE col.kind = "scalar" -> 1
                            [] col.kind = "column" -> m
                            [] col.kind = "eigen"  -> at.padded)
      BY DEF CopiedBytes
    <2>2. col.kind \in {"scalar", "column", "eigen"} BY ColumnType
    <2> QED BY <1>3, <2>1, <2>2 DEF Run
  <1>11. at.addr .. at.addr + CopiedBytes(b, c) - 1 \subseteq Placement(s, b, c)
    <2> DEFINE run == CopiedBytes(b, c)
               all == PlacedBytes(col, n)
               a0  == at.addr
    <2>1. run \in Nat /\ run <= all BY <1>8, <1>10, RunFits
    <2>2. all \in Nat BY <1>8, ColumnBytes
    <2>3. a0 \in Nat BY <1>3 DEF Lies
    <2>4. Placement(s, b, c) = a0 .. a0 + all - 1 BY DEF Placement, Region
    <2> HIDE DEF run, all, a0
    <2>5. a0 .. a0 + run - 1 \subseteq a0 .. a0 + all - 1 BY <2>1, <2>2, <2>3
    <2> QED BY <2>4, <2>5 DEF run, a0
  <1>12. Region(b, c, m, from) \subseteq Address BY <1>6
  <1>13. m \in 0 .. n BY <1>8
  <1> QED BY <1>1, <1>2, <1>3, <1>4, <1>6, <1>9, <1>10, <1>11, <1>12, <1>13

(* The rows an assignment goes between.                                     *)
LEMMA AssignedRows ==
    ASSUME TypeOK, NEW o \in [Storages -> Tables], Follows(o), BuffersApart, ViewsShow, LoopsCopy,
           copying.call = "assign", NEW v \in {copying.to, copying.from},
           NEW i, \/ v = copying.to /\ i = copying.row
                  \/ v = copying.from /\ i = copying.fromRow,
           NEW c \in DOMAIN Blocks[copying.block], ~Scalar(copying.block, c)
    PROVE  /\ loop = Idle /\ copying.block \in DOMAIN Blocks
           /\ v \in DOMAIN view
           /\ Lies(copying.block, c, view[v][copying.block].elements_,
                   view[v][copying.block].columns[c])
           /\ Region(copying.block, c, view[v][copying.block].elements_,
                     view[v][copying.block].columns[c]) \subseteq Address
           /\ i \in Rows(copying.block, c, view[v][copying.block].elements_)
  <1> DEFINE b == copying.block
             n == view[v][b].elements_
             f == view[v][b].from[c]
  <1>1. /\ copying \in [call : {"assign"}, to : Views, from : Views, block : Nat, column : Nat,
                        row : Nat, fromRow : Nat]
        /\ copying # NotCopying
    BY DEF TypeOK, NotCopying
  <1>2. /\ loop = Idle /\ v \in DOMAIN view /\ b \in DOMAIN Blocks /\ InRange(v, b, i)
    BY <1>1 DEF LoopsCopy
  <1>3. ShowsColumn(v, b, c, f[1], f[2], f[3]) BY <1>2, Shown
  <1>4. /\ Lies(b, c, n, view[v][b].columns[c])
        /\ Region(b, c, n, view[v][b].columns[c]) \subseteq Address
    BY <1>2, <1>3, ShownLies
  <1>5. i \in Nat BY <1>1
  <1>6. n \in Nat /\ i < n BY <1>2, <1>4 DEF Lies, InRange
  <1>7. i \in Rows(b, c, n) BY <1>5, <1>6 DEF Rows
  <1> QED BY <1>2, <1>4, <1>7

(* A byte after an access is what it was, or one of those written.          *)
LEMMA SpreadByte ==
    ASSUME NEW b \in DOMAIN Blocks, NEW c \in DOMAIN Blocks[b], NEW m, NEW at, NEW i, NEW value,
           NEW a \in DOMAIN m
    PROVE  \/ Spread(m, Blocks[b][c], at, i, value)[a] = m[a]
           \/ \E k \in 0 .. Width(Blocks[b][c]) - 1 :
                  Spread(m, Blocks[b][c], at, i, value)[a] = value[k]
  <1> DEFINE bytes == ElementBytes(Blocks[b][c], at, i)
             new == Spread(m, Blocks[b][c], at, i, value)
  <1>1. DOMAIN bytes = 0 .. Width(Blocks[b][c]) - 1 BY DEF ElementBytes, Width
  <1> HIDE DEF bytes
  <1>2. CASE \E k \in DOMAIN bytes : bytes[k] = a
    <2> DEFINE k == CHOOSE k \in DOMAIN bytes : bytes[k] = a
    <2>1. k \in DOMAIN bytes BY <1>2
    <2>2. new[a] = value[k] BY <1>2 DEF Spread, bytes
    <2> HIDE DEF k, new
    <2>3. \E l \in 0 .. Width(Blocks[b][c]) - 1 : new[a] = value[l] BY <1>1, <2>1, <2>2
    <2> QED BY <2>3 DEF new
  <1>3. CASE ~ \E k \in DOMAIN bytes : bytes[k] = a
    BY <1>3 DEF Spread, bytes
  <1> QED BY <1>2, <1>3

(* The loop over the columns of an element copies bytes that were there ... *)
LEMMA AssignColumnWritten ==
    ASSUME TypeOK, NEW o \in [Storages -> Tables], Follows(o), BuffersApart, ViewsShow, LoopsCopy,
           BytesWritten, AssignColumn
    PROVE  BytesWritten'
  <1> DEFINE b == copying.block
             c == copying.column
             from == view[copying.from][b].columns[c]
             to   == view[copying.to][b].columns[c]
             value == Content(memory, Blocks[b][c], from, copying.fromRow)
  <1>1. /\ copying.call = "assign" /\ calls' = calls
        /\ memory' = IF Scalar(b, c) THEN memory
                     ELSE Spread(memory, Blocks[b][c], to, copying.row, value)
    BY DEF AssignColumn
  <1>2. b \in DOMAIN Blocks /\ c \in DOMAIN Blocks[b] BY <1>1 DEF LoopsCopy, NotCopying
  <1>3. CASE Scalar(b, c) BY <1>1, <1>3 DEF BytesWritten
  <1>4. CASE ~Scalar(b, c)
    <2>1. memory' = Spread(memory, Blocks[b][c], to, copying.row, value) BY <1>1, <1>4
    <2>2. ASSUME NEW k \in 0 .. Width(Blocks[b][c]) - 1
          PROVE  \E x \in Address : value[k] = memory[x]
      <3> DEFINE x == ElementBytes(Blocks[b][c], from, copying.fromRow)[k]
      <3>1. /\ Lies(b, c, view[copying.from][b].elements_, from)
            /\ Region(b, c, view[copying.from][b].elements_, from) \subseteq Address
            /\ copying.fromRow \in Rows(b, c, view[copying.from][b].elements_)
        BY <1>1, <1>2, <1>4, AssignedRows
      <3>2. x \in Address BY <1>2, <3>1, ElementInRegion
      <3>3. value[k] = memory[x] BY DEF Content, Width
      <3> HIDE DEF x, value
      <3> QED BY <3>2, <3>3
    <2> HIDE DEF value
    <2>3. ASSUME NEW a \in Address PROVE memory'[a] \in Int /\ memory'[a] >= -calls'
      <3>1. a \in DOMAIN memory BY DEF TypeOK
      <3>2. \/ memory'[a] = memory[a]
            \/ \E k \in 0 .. Width(Blocks[b][c]) - 1 : memory'[a] = value[k]
        BY <1>2, <2>1, <3>1, SpreadByte
      <3>3. \E x \in Address : memory'[a] = memory[x] BY <2>2, <3>2
      <3> QED BY <1>1, <3>3 DEF BytesWritten
    <2> QED BY <2>3 DEF BytesWritten
  <1> QED BY <1>3, <1>4

(* ... and so does deepCopy.                                                *)
LEMMA CopyColumnWritten ==
    ASSUME TypeOK, NEW o \in [Storages -> Tables], Follows(o), BuffersApart, ViewsShow, LoopsCopy,
           BytesWritten, AnyStride = FALSE, CopyColumn
    PROVE  BytesWritten'
  <1> DEFINE b == copying.block
             c == copying.column
             s == copying.to
             v == copying.from
             n == layout[s][b].elements_
             m == view[v][b].elements_
             at == layout[s][b].columns[c]
             from == view[v][b].columns[c]
             run == CopiedBytes(b, c)
             col == Blocks[b][c]
  <1>1. /\ copying.call = "deepCopy" /\ calls' = calls
        /\ memory' = Memcpy(memory, at.addr, from.addr, run)
    BY DEF CopyColumn
  <1>2. b \in DOMAIN Blocks /\ c \in DOMAIN Blocks[b] BY <1>1 DEF LoopsCopy, NotCopying
  <1>3. /\ Lies(b, c, n, at) /\ Lies(b, c, m, from)
        /\ m \in 0 .. n /\ Stride(col, m) = Stride(col, n)
        /\ run = Run(col, n, m)
        /\ Region(b, c, m, from) \subseteq Address
    BY <1>1, <1>2, CopiedRun
  <1>4. run \in Nat /\ run <= PlacedBytes(col, m)
    <2>1. m \in Nat /\ m \in 0 .. m /\ n \in Nat BY <1>3 DEF Lies
    <2>2. Run(col, m, m) \in Nat /\ Run(col, m, m) <= PlacedBytes(col, m) BY <1>2, <2>1, RunFits
    <2>3. Run(col, n, m) = Run(col, m, m) BY <1>3 DEF Run
    <2> QED BY <1>3, <2>2, <2>3
  <1> DEFINE t0 == at.addr
             f0 == from.addr
             all == PlacedBytes(col, m)
  <1>5. t0 \in Nat /\ f0 \in Nat /\ all \in Nat
    <2>1. m \in Nat BY <1>3 DEF Lies
    <2> QED BY <1>2, <1>3, <2>1, ColumnBytes DEF Lies
  <1>6. f0 .. f0 + all - 1 \subseteq Address BY <1>3 DEF Region
  <1>7. memory' = Memcpy(memory, t0, f0, run) BY <1>1
  <1> HIDE DEF t0, f0, all, run
  <1>8. ASSUME NEW a \in Address PROVE memory'[a] \in Int /\ memory'[a] >= -calls'
    <2>1. a \in DOMAIN memory BY DEF TypeOK
    <2>2. CASE a \in t0 .. t0 + run - 1
      <3>1. memory'[a] = memory[a - t0 + f0] BY <1>7, <2>1, <2>2 DEF Memcpy
      <3>2. a - t0 + f0 \in f0 .. f0 + all - 1 BY <1>4, <1>5, <2>2 DEF all
      <3> QED BY <1>1, <1>6, <3>1, <3>2 DEF BytesWritten
    <2>3. CASE a \notin t0 .. t0 + run - 1
      <3>1. memory'[a] = memory[a] BY <1>7, <2>1, <2>3 DEF Memcpy
      <3> QED BY <1>1, <3>1 DEF BytesWritten
    <2> QED BY <2>2, <2>3
  <1> QED BY <1>8 DEF BytesWritten

(* The loops stay between columns that are there.                           *)
LEMMA NextColumnThere ==
    ASSUME NEW b \in DOMAIN Blocks, NEW c \in DOMAIN Blocks[b]
    PROVE  /\ c < Len(Blocks[b]) => c + 1 \in DOMAIN Blocks[b]
           /\ b < Len(Blocks) => b + 1 \in DOMAIN Blocks /\ 1 \in DOMAIN Blocks[b + 1]
           /\ 1 \in DOMAIN Blocks /\ 1 \in DOMAIN Blocks[1]
  BY Numbers DEF Last

(* What a loop needs of the views and layouts stays while they do.          *)
LEMMA ChecksStay ==
    ASSUME UNCHANGED layoutVars, view' = view
    PROVE  /\ \A s, v : Fits(s, v)' <=> Fits(s, v)
           /\ \A s, v : SameStrides(s, v)' <=> SameStrides(s, v)
           /\ \A v, b, i : InRange(v, b, i)' <=> InRange(v, b, i)
           /\ \A s : Complete(s)' <=> Complete(s)
  <1>1. layout' = layout /\ loop' = loop BY DEF layoutVars
  <1> QED BY <1>1 DEF Fits, SameStrides, InRange, Complete

LEMMA AssignElementLoops ==
    ASSUME LoopsCopy, NEW b \in DOMAIN Blocks, NEW v \in DOMAIN view, NEW w \in DOMAIN view,
           NEW i, NEW j, AssignElement(v, b, i, w, j)
    PROVE  LoopsCopy'
  <1>1. UNCHANGED layoutVars /\ view' = view /\ loop = Idle /\ copying = NotCopying
    BY DEF AssignElement, UsesView, Client
  <1>2. loop' = Idle BY <1>1 DEF layoutVars
  <1>3. CASE InRange(v, b, i) /\ InRange(w, b, j)
    <2>1. copying' = [call |-> "assign", to |-> v, from |-> w, block |-> b,
                      column |-> 1, row |-> i, fromRow |-> j]
      BY <1>3 DEF AssignElement
    <2>2. 1 \in DOMAIN Blocks[b]
      BY BlocksAssumption
    <2>3. InRange(v, b, i)' /\ InRange(w, b, j)' BY <1>1, <1>3, ChecksStay
    <2>4. /\ copying'.call = "assign" /\ copying'.to = v /\ copying'.from = w /\ copying'.block = b
          /\ copying'.column = 1 /\ copying'.row = i /\ copying'.fromRow = j
      BY <2>1
    <2>5. InRange(copying.to, copying.block, copying.row)'
      BY <2>3, <2>4 DEF InRange
    <2>6. InRange(copying.from, copying.block, copying.fromRow)'
      BY <2>3, <2>4 DEF InRange
    <2> QED BY <1>1, <1>2, <2>2, <2>4, <2>5, <2>6 DEF LoopsCopy
  <1>4. CASE ~(InRange(v, b, i) /\ InRange(w, b, j))
    <2>1. copying' = copying BY <1>4 DEF AssignElement
    <2> QED BY <1>1, <2>1 DEF LoopsCopy, NotCopying
  <1> QED BY <1>3, <1>4

LEMMA DeepCopyLoops ==
    ASSUME LoopsCopy, NEW v \in DOMAIN view, NEW s \in Storages, DeepCopy(s, v)
    PROVE  LoopsCopy'
  <1>1. /\ UNCHANGED layoutVars /\ view' = view /\ loop = Idle /\ copying = NotCopying
        /\ Complete(s) /\ (AnyStride \/ SameStrides(s, v))
    BY DEF DeepCopy, UsesView, Client
  <1>2. loop' = Idle BY <1>1 DEF layoutVars
  <1>3. CASE Fits(s, v)
    <2>1. copying' = [call |-> "deepCopy", to |-> s, from |-> v, block |-> 1, column |-> 1]
      BY <1>3 DEF DeepCopy
    <2>2. 1 \in DOMAIN Blocks /\ 1 \in DOMAIN Blocks[1]
      BY BlocksAssumption
    <2>3. Fits(s, v)' /\ Complete(s)' /\ (AnyStride \/ SameStrides(s, v)')
      BY <1>1, <1>3, ChecksStay
    <2>4. /\ copying'.call = "deepCopy" /\ copying'.to = s /\ copying'.from = v
          /\ copying'.block = 1 /\ copying'.column = 1
      BY <2>1
    <2>5. Fits(copying.to, copying.from)' BY <2>3, <2>4 DEF Fits
    <2>6. AnyStride \/ SameStrides(copying.to, copying.from)' BY <2>3, <2>4 DEF SameStrides
    <2>7. Complete(copying.to)' BY <2>3, <2>4 DEF Complete
    <2> QED BY <1>1, <1>2, <2>2, <2>4, <2>5, <2>6, <2>7 DEF LoopsCopy
  <1>4. CASE ~Fits(s, v)
    <2>1. copying' = copying BY <1>4 DEF DeepCopy
    <2> QED BY <1>1, <2>1 DEF LoopsCopy, NotCopying
  <1> QED BY <1>3, <1>4

LEMMA AssignColumnLoops ==
    ASSUME TypeOK, LoopsCopy, AssignColumn
    PROVE  LoopsCopy'
  <1>1. /\ UNCHANGED layoutVars /\ view' = view /\ copying.call = "assign"
    BY DEF AssignColumn
  <1>2. copying \in [call : {"assign"}, to : Views, from : Views, block : Nat, column : Nat,
                     row : Nat, fromRow : Nat]
    BY <1>1 DEF TypeOK, NotCopying
  <1>3. /\ loop = Idle /\ copying.from \in DOMAIN view /\ copying.to \in DOMAIN view
        /\ copying.block \in DOMAIN Blocks /\ copying.column \in DOMAIN Blocks[copying.block]
        /\ InRange(copying.to, copying.block, copying.row)
        /\ InRange(copying.from, copying.block, copying.fromRow)
    BY <1>1 DEF LoopsCopy, NotCopying
  <1>4. CASE copying' = NotCopying BY <1>4 DEF LoopsCopy
  <1>5. CASE copying' = [copying EXCEPT !.column = @ + 1] /\ copying.column < Len(Blocks[copying.block])
    <2>1. /\ copying'.call = "assign" /\ copying'.to = copying.to /\ copying'.from = copying.from
          /\ copying'.block = copying.block /\ copying'.column = copying.column + 1
          /\ copying'.row = copying.row /\ copying'.fromRow = copying.fromRow
      BY <1>2, <1>5
    <2>2. copying.column + 1 \in DOMAIN Blocks[copying.block] BY <1>3, <1>5, NextColumnThere
    <2>3. InRange(copying.to, copying.block, copying.row)'
      BY <1>1, <1>3, <2>1 DEF InRange
    <2>4. InRange(copying.from, copying.block, copying.fromRow)'
      BY <1>1, <1>3, <2>1 DEF InRange
    <2>5. loop' = Idle BY <1>1, <1>3 DEF layoutVars
    <2> QED BY <1>1, <1>3, <2>1, <2>2, <2>3, <2>4, <2>5 DEF LoopsCopy
  <1> QED BY <1>4, <1>5 DEF AssignColumn

LEMMA CopyColumnLoops ==
    ASSUME TypeOK, LoopsCopy, CopyColumn
    PROVE  LoopsCopy'
  <1>1. /\ UNCHANGED layoutVars /\ view' = view /\ copying.call = "deepCopy"
    BY DEF CopyColumn
  <1>2. copying \in [call : {"deepCopy"}, to : Storages, from : Views, block : Nat, column : Nat]
    BY <1>1 DEF TypeOK, NotCopying
  <1>3. /\ loop = Idle /\ copying.from \in DOMAIN view
        /\ copying.block \in DOMAIN Blocks /\ copying.column \in DOMAIN Blocks[copying.block]
        /\ Complete(copying.to) /\ Fits(copying.to, copying.from)
        /\ AnyStride \/ SameStrides(copying.to, copying.from)
    BY <1>1 DEF LoopsCopy, NotCopying
  <1>4. CASE copying' = NotCopying BY <1>4 DEF LoopsCopy
  <1>5. ASSUME copying'.call = "deepCopy", copying'.to = copying.to, copying'.from = copying.from,
               copying'.block \in DOMAIN Blocks, copying'.column \in DOMAIN Blocks[copying'.block]
        PROVE  LoopsCopy'
    <2>1. /\ Fits(copying.to, copying.from)' /\ Complete(copying.to)'
          /\ AnyStride \/ SameStrides(copying.to, copying.from)'
      <3>1. layout' = layout /\ loop' = loop BY <1>1 DEF layoutVars
      <3> QED BY <1>1, <1>3, <1>5, <3>1 DEF Fits, Complete, SameStrides
    <2>2. loop' = Idle BY <1>1, <1>3 DEF layoutVars
    <2> QED BY <1>1, <1>3, <1>5, <2>1, <2>2 DEF LoopsCopy
  <1>6. CASE copying' = [copying EXCEPT !.column = @ + 1] /\ copying.column < Len(Blocks[copying.block])
    <2>1. /\ copying'.call = "deepCopy" /\ copying'.to = copying.to /\ copying'.from = copying.from
          /\ copying'.block = copying.block /\ copying'.column = copying.column + 1
      BY <1>2, <1>6
    <2>2. copying.column + 1 \in DOMAIN Blocks[copying.block] BY <1>3, <1>6, NextColumnThere
    <2> QED BY <1>3, <1>5, <2>1, <2>2
  <1>7. CASE copying' = [copying EXCEPT !.column = 1, !.block = @ + 1] /\ copying.block < Len(Blocks)
    <2>1. copying' = [call |-> copying.call, to |-> copying.to, from |-> copying.from,
                      block |-> copying.block + 1, column |-> 1]
      BY <1>2, <1>7
    <2>2. copying.block + 1 \in DOMAIN Blocks /\ 1 \in DOMAIN Blocks[copying.block + 1]
      BY <1>3, <1>7, NextColumnThere
    <2> QED BY <1>1, <1>5, <2>1, <2>2
  <1> QED BY <1>4, <1>6, <1>7 DEF CopyColumn

(* A client writes bytes no cell holds yet.                                 *)
LEMMA SetWritten ==
    ASSUME TypeOK, BytesWritten, NEW v, NEW b \in DOMAIN Blocks, NEW c \in DOMAIN Blocks[b], NEW i,
           Set(v, b, c, i)
    PROVE  BytesWritten'
  <1>1. calls \in Nat /\ calls' = calls + 1 BY BoundsAssumption DEF TypeOK, Set, UsesView
  <1>2. CASE memory' = memory BY <1>1, <1>2 DEF BytesWritten
  <1>3. CASE memory' = Spread(memory, Blocks[b][c], view[v][b].columns[c], i, Fresh)
    <2>0. ASSUME NEW k \in 0 .. Width(Blocks[b][c]) - 1 PROVE Fresh[k] = -(calls + 1)
      <3>1. k \in Nat BY ElementNotEmpty
      <3> QED BY <3>1 DEF Fresh
    <2>1. ASSUME NEW a \in Address PROVE memory'[a] \in Int /\ memory'[a] >= -calls'
      <3>1. memory'[a] = memory[a] \/ \E k \in 0 .. Width(Blocks[b][c]) - 1 : memory'[a] = Fresh[k]
        <4>1. a \in DOMAIN memory BY DEF TypeOK
        <4> QED BY <1>3, <4>1, SpreadByte
      <3>2. memory'[a] = memory[a] \/ memory'[a] = -(calls + 1) BY <2>0, <3>1
      <3>3. memory[a] \in Int /\ memory[a] >= -calls BY DEF BytesWritten
      <3> QED BY <1>1, <3>2, <3>3
    <2> QED BY <2>1 DEF BytesWritten
  <1> QED BY <1>2, <1>3 DEF Set

(* Layouts that are being built leave the views alone.                      *)
LEMMA LayoutStepShows ==
    ASSUME IInv, ViewsShow, LayoutNext, view' = view
    PROVE  ViewsShow'
  <1> SUFFICES ASSUME NEW v \in DOMAIN view, NEW b \in DOMAIN Blocks, NEW c \in DOMAIN Blocks[b]
               PROVE  \E s, g, h : ShowsColumn(v, b, c, s, g, h)'
    BY DEF ViewsShow
  <1>1. PICK s, g, h : ShowsColumn(v, b, c, s, g, h) BY DEF ViewsShow
  <1>2. s \in Storages /\ Complete(s) BY <1>1 DEF ShowsColumn
  <1>3. Complete(s)' /\ layout'[s] = layout[s] BY <1>2, WholeStays DEF IInv, TypeOK
  <1>4. ShowsColumn(v, b, c, s, g, h)' BY <1>1, <1>3 DEF ShowsColumn
  <1> QED BY <1>4

LEMMA UseStep ==
    ASSUME AnyStride = FALSE
    PROVE  IInv /\ UseInv /\ [Next]_vars => UseInv'
  <1> SUFFICES ASSUME IInv, UseInv, [Next]_vars PROVE UseInv'
    OBVIOUS
  <1>0. /\ TypeOK /\ BuffersApart /\ ViewsShow /\ LoopsCopy /\ BytesWritten
        /\ calls \in Nat
    BY BoundsAssumption DEF IInv, UseInv, TypeOK
  <1> PICK o \in [Storages -> Tables] : Follows(o) BY DEF IInv
  <1>1. CASE copying = NotCopying /\ LayoutNext /\ UNCHANGED <<memory, view, copying, made, calls>>
    <2>1. BuffersApart' BY <1>0, <1>1, BuffersStayApart
    <2>2. ViewsShow' BY <1>0, <1>1, LayoutStepShows
    <2>3. LoopsCopy' /\ BytesWritten' BY <1>0, <1>1 DEF LoopsCopy, BytesWritten
    <2> QED BY <2>1, <2>2, <2>3 DEF UseInv
  <1>2. CASE ViewNext
    <2>0. UNCHANGED layoutVars BY <1>0, <1>2, ViewStep
    <2>1. BuffersApart' BY <1>0, <2>0 DEF BuffersApart, Held, layoutVars
    <2>a. MakesView \/ UsesView => copying = NotCopying BY DEF MakesView, UsesView, Client
    <2>b. MakesView => calls' = calls BY DEF MakesView
    <2>c. UsesView => calls' = calls + 1 BY DEF UsesView
    <2>d. /\ memory' = memory /\ calls' \in {calls, calls + 1} => BytesWritten'
          /\ copying' = NotCopying => LoopsCopy'
      BY <1>0 DEF BytesWritten, LoopsCopy
    <2>2. ASSUME NEW v \in Views, NEW s \in Storages, Look(v, s) PROVE UseInv'
      <3>1. ViewsShow' BY <1>0, <2>2, LookShows
      <3>2. MakesView /\ memory' = memory /\ copying' = copying BY <2>2 DEF Look
      <3> QED BY <2>1, <2>a, <2>b, <2>d, <3>1, <3>2 DEF UseInv
    <2>3. ASSUME NEW v \in DOMAIN view, NEW b \in DOMAIN Blocks, NEW picked \in Picks(b),
                 Merge(v, b, picked)
          PROVE  UseInv'
      <3>1. ViewsShow'
        <4>1. CASE view' = view BY <1>0, <2>0, <4>1, ViewsStay
        <4>2. CASE view' # view BY <1>0, <2>3, <4>2, MergeShows
        <4> QED BY <4>1, <4>2
      <3>2. MakesView /\ memory' = memory /\ copying' = copying BY <2>3 DEF Merge
      <3> QED BY <2>1, <2>a, <2>b, <2>d, <3>1, <3>2 DEF UseInv
    <2>4. ASSUME view' = view PROVE ViewsShow' BY <1>0, <2>0, <2>4, ViewsStay
    <2>5. ASSUME NEW v \in DOMAIN view, NEW b \in DOMAIN Blocks, NEW c \in DOMAIN Blocks[b], NEW i,
                 Get(v, b, c, i)
          PROVE  UseInv'
      <3>1. UsesView /\ memory' = memory /\ copying' = copying /\ view' = view BY <2>5 DEF Get
      <3> QED BY <2>1, <2>4, <2>a, <2>c, <2>d, <3>1 DEF UseInv
    <2>6. ASSUME NEW v \in DOMAIN view, NEW b \in DOMAIN Blocks, NEW c \in DOMAIN Blocks[b], NEW i,
                 Set(v, b, c, i)
          PROVE  UseInv'
      <3>1. UsesView /\ copying' = copying /\ view' = view BY <2>6 DEF Set
      <3>2. BytesWritten' BY <1>0, <2>6, SetWritten
      <3> QED BY <2>1, <2>4, <2>a, <2>d, <3>1, <3>2 DEF UseInv
    <2>7. ASSUME NEW v \in DOMAIN view, NEW w \in DOMAIN view, NEW b \in DOMAIN Blocks, NEW i, NEW j,
                 AssignElement(v, b, i, w, j)
          PROVE  UseInv'
      <3>1. UsesView /\ memory' = memory /\ view' = view BY <2>7 DEF AssignElement
      <3>2. LoopsCopy' BY <1>0, <2>7, AssignElementLoops
      <3> QED BY <2>1, <2>4, <2>c, <2>d, <3>1, <3>2 DEF UseInv
    <2>8. ASSUME NEW v \in DOMAIN view, NEW s \in Storages, DeepCopy(s, v) PROVE UseInv'
      <3>1. UsesView /\ memory' = memory /\ view' = view BY <2>8 DEF DeepCopy
      <3>2. LoopsCopy' BY <1>0, <2>8, DeepCopyLoops
      <3> QED BY <2>1, <2>4, <2>c, <2>d, <3>1, <3>2 DEF UseInv
    <2>9. ASSUME AssignColumn PROVE UseInv'
      <3>1. view' = view BY <2>9 DEF AssignColumn
      <3>2. LoopsCopy' /\ BytesWritten' BY <1>0, <2>9, AssignColumnLoops, AssignColumnWritten
      <3> QED BY <2>1, <2>4, <3>1, <3>2 DEF UseInv
    <2>10. ASSUME CopyColumn PROVE UseInv'
      <3>1. view' = view BY <2>10 DEF CopyColumn
      <3>2. LoopsCopy' /\ BytesWritten' BY <1>0, <2>10, CopyColumnLoops, CopyColumnWritten
      <3> QED BY <2>1, <2>4, <3>1, <3>2 DEF UseInv
    <2> QED BY <1>2, <2>2, <2>3, <2>5, <2>6, <2>7, <2>8, <2>9, <2>10 DEF ViewNext
  <1>3. CASE UNCHANGED vars
    <2>1. UNCHANGED <<layoutVars, memory, view, copying, calls>> BY <1>3 DEF vars
    <2>2. BuffersApart' /\ ViewsShow'
      BY <1>0, <2>1, ViewsStay DEF BuffersApart, Held, layoutVars
    <2>3. LoopsCopy'
      BY <1>0, <2>1 DEF LoopsCopy, layoutVars, Complete, Fits, SameStrides, InRange
    <2>4. BytesWritten' BY <1>0, <2>1 DEF BytesWritten
    <2> QED BY <2>2, <2>3, <2>4 DEF UseInv
  <1> QED BY <1>0, <1>1, <1>2, <1>3, StepKinds

LEMMA InitUse == Init => UseInv
  <1> SUFFICES ASSUME Init PROVE UseInv
    OBVIOUS
  <1>1. DOMAIN view = {} BY DEF Init
  <1>2. \A s \in Storages : Held(s) = {} BY DEF Init, LayoutInit, Held
  <1>3. \A a \in Address : a \in Int /\ a >= 0 BY ClientsAssumption
  <1>4. BytesWritten BY <1>3 DEF Init, BytesWritten
  <1>5. copying = NotCopying BY DEF Init
  <1> QED BY <1>1, <1>2, <1>4, <1>5 DEF UseInv, BuffersApart, ViewsShow, LoopsCopy

LEMMA UseHolds ==
    ASSUME AnyStride = FALSE
    PROVE  Spec => [](IInv /\ UseInv)
  <1>1. Init => UseInv BY InitUse
  <1>2. IInv /\ UseInv /\ [Next]_vars => UseInv' BY UseStep
  <1> QED BY <1>1, <1>2, InvariantHolds, PTL DEF Spec

(* deepCopy copies a column where the loop stands ...                       *)
LEMMA CopyColumnStands ==
    ASSUME TypeOK, LoopsCopy, CopyColumn
    PROVE  /\ copying.block \in DOMAIN Blocks /\ copying.column \in DOMAIN Blocks[copying.block]
           /\ copying.call = "deepCopy" /\ copying # NotCopying
           /\ copying \in [call : {"deepCopy"}, to : Storages, from : Views, block : Nat, column : Nat]
           /\ DOMAIN memory = Address /\ UNCHANGED layoutVars /\ view' = view
           /\ memory' = Memcpy(memory, layout[copying.to][copying.block].columns[copying.column].addr,
                   view[copying.from][copying.block].columns[copying.column].addr,
                   CopiedBytes(copying.block, copying.column))
  <1>1. copying.call = "deepCopy" /\ copying # NotCopying BY DEF CopyColumn, NotCopying
  <1>2. copying \in [call : {"deepCopy"}, to : Storages, from : Views, block : Nat, column : Nat]
    BY <1>1 DEF TypeOK, NotCopying
  <1>3. copying.block \in DOMAIN Blocks /\ copying.column \in DOMAIN Blocks[copying.block]
    BY <1>1 DEF LoopsCopy
  <1>4. DOMAIN memory = Address BY DEF TypeOK
  <1> QED BY <1>1, <1>2, <1>3, <1>4 DEF CopyColumn

(* ... so that the rows of the view arrive there ...                        *)
LEMMA ColumnArrives ==
    ASSUME IInv, UseInv, AnyStride = FALSE, CopyColumn,
           NEW i \in Rows(copying.block, copying.column, view[copying.from][copying.block].elements_)
    PROVE  Content(memory', Blocks[copying.block][copying.column],
                   layout[copying.to][copying.block].columns[copying.column], i) =
           Content(memory, Blocks[copying.block][copying.column],
                   view[copying.from][copying.block].columns[copying.column], i)
  <1>a. TypeOK /\ BuffersApart /\ ViewsShow /\ LoopsCopy BY DEF IInv, UseInv
  <1> PICK o \in [Storages -> Tables] : Follows(o) BY DEF IInv
  <1> DEFINE b == copying.block
             c == copying.column
             n == layout[copying.to][b].elements_
             m == view[copying.from][b].elements_
             to == layout[copying.to][b].columns[c]
             from == view[copying.from][b].columns[c]
  <1>1. /\ b \in DOMAIN Blocks /\ c \in DOMAIN Blocks[b] /\ copying.call = "deepCopy"
        /\ DOMAIN memory = Address
        /\ memory' = Memcpy(memory, to.addr, from.addr, CopiedBytes(b, c))
    BY <1>a, CopyColumnStands
  <1>2. /\ Lies(b, c, n, to) /\ Lies(b, c, m, from) /\ m \in 0 .. n
        /\ Stride(Blocks[b][c], m) = Stride(Blocks[b][c], n)
        /\ CopiedBytes(b, c) = Run(Blocks[b][c], n, m)
        /\ Placement(copying.to, b, c) \subseteq Address
    BY <1>a, <1>1, CopiedRun
  <1>3. Region(b, c, n, to) \subseteq DOMAIN memory BY <1>1, <1>2 DEF Placement
  <1>4. m <= n BY <1>2 DEF Lies
  <1>5. memory' = Memcpy(memory, to.addr, from.addr, Run(Blocks[b][c], n, m)) BY <1>1, <1>2
  <1>6. i \in Rows(b, c, m) OBVIOUS
  <1> HIDE DEF b, c, n, m, to, from
  <1>7. Content(Memcpy(memory, to.addr, from.addr, Run(Blocks[b][c], n, m)), Blocks[b][c], to, i) =
            Content(memory, Blocks[b][c], from, i)
    BY <1>1, <1>2, <1>3, <1>4, <1>6, MemcpyThere
  <1>8. Content(memory', Blocks[b][c], to, i) = Content(memory, Blocks[b][c], from, i)
    BY <1>5, <1>7
  <1> QED BY <1>8 DEF b, c, to, from

(* ... and other columns keep what they hold ...                            *)
OtherColumn(g, h, p, at) ==
    /\ Lies(g, h, p, at) /\ Region(g, h, p, at) \subseteq Address
    /\ Region(g, h, p, at) \cap Placement(copying.to, copying.block, copying.column) = {}

LEMMA CopyLeavesRegions ==
    ASSUME IInv, UseInv, AnyStride = FALSE, CopyColumn,
           NEW g \in DOMAIN Blocks, NEW h \in DOMAIN Blocks[g], NEW p, NEW at,
           OtherColumn(g, h, p, at), NEW j \in Rows(g, h, p)
    PROVE  Content(memory', Blocks[g][h], at, j) = Content(memory, Blocks[g][h], at, j)
  <1>a. TypeOK /\ BuffersApart /\ ViewsShow /\ LoopsCopy BY DEF IInv, UseInv
  <1> PICK o \in [Storages -> Tables] : Follows(o) BY DEF IInv
  <1> DEFINE b == copying.block
             c == copying.column
             t0 == layout[copying.to][b].columns[c].addr
             f0 == view[copying.from][b].columns[c].addr
             run == CopiedBytes(b, c)
  <1>0. /\ Lies(g, h, p, at) /\ Region(g, h, p, at) \subseteq Address
        /\ Region(g, h, p, at) \cap Placement(copying.to, b, c) = {}
    BY DEF OtherColumn
  <1>1. /\ b \in DOMAIN Blocks /\ c \in DOMAIN Blocks[b] /\ copying.call = "deepCopy"
        /\ DOMAIN memory = Address
        /\ memory' = Memcpy(memory, t0, f0, run)
    BY <1>a, CopyColumnStands
  <1>2. t0 .. t0 + run - 1 \subseteq Placement(copying.to, b, c) BY <1>a, <1>1, CopiedRun
  <1>3. ASSUME NEW k \in 0 .. Width(Blocks[g][h]) - 1
        PROVE  ElementBytes(Blocks[g][h], at, j)[k] \notin t0 .. t0 + run - 1
    <2>1. ElementBytes(Blocks[g][h], at, j)[k] \in Region(g, h, p, at) BY <1>0, ElementInRegion
    <2> HIDE DEF b, c, t0, run
    <2> QED BY <1>0, <1>2, <2>1 DEF b, c
  <1> HIDE DEF b, c, t0, f0, run
  <1> QED BY <1>0, <1>1, <1>3, MemcpyElsewhere

(* ... as do the rows of the same column that the view does not have, but   *)
(* for an Eigen column.                                                     *)
LEMMA CopyLeavesRows ==
    ASSUME IInv, UseInv, AnyStride = FALSE, CopyColumn, ~Eigen(copying.block, copying.column),
           NEW i \in Rows(copying.block, copying.column, layout[copying.to][copying.block].elements_),
           i \notin Rows(copying.block, copying.column, view[copying.from][copying.block].elements_)
    PROVE  Content(memory', Blocks[copying.block][copying.column],
                   layout[copying.to][copying.block].columns[copying.column], i) =
           Content(memory, Blocks[copying.block][copying.column],
                   layout[copying.to][copying.block].columns[copying.column], i)
  <1>a. TypeOK /\ BuffersApart /\ ViewsShow /\ LoopsCopy BY DEF IInv, UseInv
  <1> PICK o \in [Storages -> Tables] : Follows(o) BY DEF IInv
  <1> DEFINE b == copying.block
             c == copying.column
             n == layout[copying.to][b].elements_
             m == view[copying.from][b].elements_
             to == layout[copying.to][b].columns[c]
             f0 == view[copying.from][b].columns[c].addr
             run == CopiedBytes(b, c)
  <1>1. /\ b \in DOMAIN Blocks /\ c \in DOMAIN Blocks[b] /\ copying.call = "deepCopy"
        /\ DOMAIN memory = Address
        /\ memory' = Memcpy(memory, to.addr, f0, run)
    BY <1>a, CopyColumnStands
  <1>2. /\ Lies(b, c, n, to) /\ m \in 0 .. n
        /\ run = Run(Blocks[b][c], n, m)
        /\ Placement(copying.to, b, c) \subseteq Address
    BY <1>a, <1>1, CopiedRun
  <1>3. Region(b, c, n, to) \subseteq DOMAIN memory BY <1>1, <1>2 DEF Placement
  <1>4. /\ i \in Rows(b, c, n) /\ i \notin Rows(b, c, m) /\ ~Eigen(b, c) /\ n \in Nat
        /\ to.addr \in Nat
    BY <1>2 DEF Lies
  <1> HIDE DEF b, c, n, m, to, f0, run
  <1>5. ASSUME NEW k \in 0 .. Width(Blocks[b][c]) - 1
        PROVE  ElementBytes(Blocks[b][c], to, i)[k] \notin to.addr .. to.addr + run - 1
    <2> DEFINE at == to.addr
               off == Offset(Blocks[b][c], Stride(Blocks[b][c], n), i, k)
    <2>1. ElementBytes(Blocks[b][c], to, i)[k] = at + off /\ off \in Nat
      BY <1>1, <1>2, <1>4, ElementInRegion
    <2>2. off >= run BY <1>1, <1>2, <1>4, RunHolds
    <2>3. run \in Nat BY <1>1, <1>2, <1>4, RunFits
    <2>4. at \in Nat BY <1>4
    <2> HIDE DEF at, off
    <2>5. at + off \notin at .. at + run - 1 BY <2>1, <2>2, <2>3, <2>4
    <2> QED BY <2>1, <2>5 DEF at
  <1>6. Content(memory', Blocks[b][c], to, i) = Content(memory, Blocks[b][c], to, i)
    BY <1>1, <1>2, <1>3, <1>4, <1>5, MemcpyElsewhere
  <1> QED BY <1>6 DEF b, c, to

-----------------------------------------------------------------------------
(* What deepCopy has copied.                                                *)

(* After a column, the columns before it and the column itself are copied.  *)
UpTo(b, c) ==
    Before(b, c, copying.block, copying.column) \/ (b = copying.block /\ c = copying.column)

LEMMA ColumnsCopied ==
    ASSUME IInv, UseInv, AnyStride = FALSE,
           CopiedSoFar, CopyColumn, Elsewhere(copying.to, copying.from),
           NEW b \in DOMAIN Blocks, NEW c \in DOMAIN Blocks[b], UpTo(b, c),
           NEW r \in Rows(b, c, view[copying.from][b].elements_)
    PROVE  Content(memory', Blocks[b][c], layout[copying.to][b].columns[c], r) =
           Content(memory', Blocks[b][c], view[copying.from][b].columns[c], r)
  <1> DEFINE s == copying.to
             v == copying.from
             n == layout[s][b].elements_
             m == view[v][b].elements_
             to == layout[s][b].columns[c]
             from == view[v][b].columns[c]
             f == view[v][b].from[c]
  <1>0. TypeOK /\ BuffersApart /\ ViewsShow /\ LoopsCopy BY DEF IInv, UseInv
  <1> PICK o \in [Storages -> Tables] : Follows(o) BY DEF IInv
  <1>1. /\ copying.block \in DOMAIN Blocks /\ copying.column \in DOMAIN Blocks[copying.block]
        /\ copying.call = "deepCopy"
    BY <1>0, CopyColumnStands
  <1>2. /\ loop = Idle /\ s \in Storages /\ Complete(s) /\ v \in DOMAIN view
        /\ Lies(b, c, n, to) /\ Lies(b, c, m, from)
        /\ m \in 0 .. n
        /\ Placement(s, b, c) \subseteq Address /\ Region(b, c, m, from) \subseteq Address
    BY <1>0, <1>1, CopiedRun
  <1>3. Content(memory', Blocks[b][c], from, r) = Content(memory, Blocks[b][c], from, r)
    <2>1. ShowsColumn(v, b, c, f[1], f[2], f[3]) BY <1>0, <1>2, Shown
    <2>2. Region(b, c, m, from) = Placement(f[1], f[2], f[3]) BY <1>0, <1>2, <2>1, ShownLies
    <2>3. f[1] # s BY DEF Elsewhere
    <2>4. /\ f[1] \in Storages /\ Complete(f[1]) /\ f[2] \in DOMAIN Blocks
          /\ f[3] \in DOMAIN Blocks[f[2]]
      BY <2>1 DEF ShowsColumn
    <2>5. <<f[1], f[2], f[3]>> # <<s, copying.block, copying.column>> BY <2>3
    <2> HIDE DEF s, f
    <2>6. Placement(f[1], f[2], f[3]) \cap Placement(s, copying.block, copying.column) = {}
      BY <1>0, <1>1, <1>2, <2>4, <2>5, PlacementsApart

    <2>7. Region(b, c, m, from) \cap Placement(copying.to, copying.block, copying.column) = {}
      BY <2>2, <2>6 DEF s
    <2>8. r \in Rows(b, c, m) BY DEF m, v
    <2>9. OtherColumn(b, c, m, from) BY <1>2, <2>7 DEF OtherColumn
    <2> QED BY <2>8, <2>9, CopyLeavesRegions
  <1>4. Content(memory', Blocks[b][c], to, r) = Content(memory, Blocks[b][c], from, r)
    <2>1. CASE b = copying.block /\ c = copying.column BY <2>1, ColumnArrives
    <2>2. CASE Before(b, c, copying.block, copying.column)
      <3>1. Content(memory, Blocks[b][c], to, r) = Content(memory, Blocks[b][c], from, r)
        BY <1>1, <2>2 DEF CopiedSoFar, ColumnCopied
      <3>2. <<s, b, c>> # <<s, copying.block, copying.column>>
        <4>1. b \in Nat /\ c \in Nat BY Numbers
        <4> QED BY <2>2, <4>1 DEF Before
      <3> HIDE DEF s
      <3>3. Placement(s, b, c) \cap Placement(s, copying.block, copying.column) = {}
        BY <1>0, <1>1, <1>2, <3>2, PlacementsApart
      <3>4. Region(b, c, n, to) = Placement(s, b, c) BY DEF Placement
      <3>5. r \in Rows(b, c, n)
        <4> HIDE DEF n
        <4>1. m \in Nat /\ n \in Nat /\ m <= n BY <1>2 DEF Lies
        <4>2. r \in Rows(b, c, m) OBVIOUS
        <4> HIDE DEF m
        <4> QED BY <4>1, <4>2 DEF Rows
      <3> HIDE DEF n, to
      <3>6. Content(memory', Blocks[b][c], to, r) = Content(memory, Blocks[b][c], to, r)
        <4>1. Region(b, c, n, to) \cap Placement(copying.to, copying.block, copying.column) = {}
          BY <3>3, <3>4 DEF s
        <4>2. OtherColumn(b, c, n, to) BY <1>2, <3>4, <4>1 DEF OtherColumn
        <4> QED BY <3>5, <4>2, CopyLeavesRegions
      <3> QED BY <3>1, <3>6
    <2> QED BY <2>1, <2>2 DEF UpTo
  <1> QED BY <1>3, <1>4

(* So the loop can go on, or return.                                        *)
LEMMA CopiedStep ==
    ASSUME AnyStride = FALSE
    PROVE  IInv /\ UseInv /\ CopiedSoFar /\ [Next]_vars => CopiedSoFar'
  <1> SUFFICES ASSUME IInv, UseInv, CopiedSoFar, [Next]_vars,
                      copying'.call = "deepCopy", Elsewhere(copying.to, copying.from)',
                      NEW b \in DOMAIN Blocks, NEW c \in DOMAIN Blocks[b],
                      Before(b, c, copying'.block, copying'.column)
               PROVE  ColumnCopied(copying.to, copying.from, b, c)'
    BY DEF CopiedSoFar
  <1>0. TypeOK /\ LoopsCopy BY DEF IInv, UseInv
  <1> PICK o \in [Storages -> Tables] : Follows(o) BY DEF IInv
  <1>1. CASE copying' = NotCopying BY <1>1 DEF NotCopying
  <1>2. CASE ViewNext
    <2>a. MakesView \/ UsesView => copying = NotCopying BY DEF MakesView, UsesView, Client
    <2>1. CASE AssignColumn
      <3>1. copying \in [call : {"assign"}, to : Views, from : Views, block : Nat, column : Nat,
                         row : Nat, fromRow : Nat]
        BY <1>0, <2>1 DEF AssignColumn, TypeOK, NotCopying
      <3>2. copying'.call # "deepCopy" BY <2>1, <3>1 DEF AssignColumn, NotCopying
      <3> QED BY <3>2
    <2>2. CASE CopyColumn
      <3>1. /\ copying \in [call : {"deepCopy"}, to : Storages, from : Views, block : Nat, column : Nat]
            /\ UNCHANGED layoutVars /\ view' = view
            /\ copying.block \in DOMAIN Blocks /\ copying.column \in DOMAIN Blocks[copying.block]
        BY <1>0, <2>2, CopyColumnStands
      <3>2. /\ copying'.to = copying.to /\ copying'.from = copying.from
            /\ UpTo(b, c)
        <4>0. b \in Nat /\ c \in Nat /\ DOMAIN Blocks[b] = 1 .. Len(Blocks[b]) BY Numbers DEF Last
        <4>1. CASE copying' = NotCopying BY <1>1, <4>1 DEF NotCopying
        <4>2. CASE copying' = [copying EXCEPT !.column = @ + 1]
          <5>1. /\ copying'.to = copying.to /\ copying'.from = copying.from
                /\ copying'.block = copying.block /\ copying'.column = copying.column + 1
            BY <3>1, <4>2
          <5>2. copying.column \in Nat BY <3>1
          <5> QED BY <4>0, <5>1, <5>2 DEF Before, UpTo
        <4>3. CASE copying' = [copying EXCEPT !.column = 1, !.block = @ + 1]
                       /\ ~(copying.column < Len(Blocks[copying.block]))
          <5>1. copying' = [call |-> copying.call, to |-> copying.to, from |-> copying.from,
                            block |-> copying.block + 1, column |-> 1]
            BY <3>1, <4>3
          <5>2. /\ copying'.to = copying.to /\ copying'.from = copying.from
                /\ copying'.block = copying.block + 1 /\ copying'.column = 1
            BY <5>1
          <5>3. copying.column \in Nat /\ copying.block \in Nat BY <3>1
          <5>4. b < copying.block + 1 \/ (b = copying.block + 1 /\ c < 1) BY <5>2 DEF Before, UpTo
          <5>5. c >= 1 /\ c <= Len(Blocks[b]) /\ Len(Blocks[b]) \in Nat BY <4>0, Numbers DEF Last
          <5>6. b <= copying.block BY <4>0, <5>3, <5>4, <5>5
          <5>7. CASE b = copying.block
            <6>1. ~(copying.column < Len(Blocks[b])) BY <4>3, <5>7
            <6>2. copying.column >= Len(Blocks[b]) BY <5>3, <5>5, <6>1
            <6>3. c < copying.column \/ c = copying.column BY <4>0, <5>3, <5>5, <6>2
            <6> QED BY <5>2, <5>7, <6>3 DEF Before, UpTo
          <5>8. CASE b # copying.block BY <4>0, <5>2, <5>3, <5>6, <5>8 DEF Before, UpTo
          <5> QED BY <5>7, <5>8
        <4> QED BY <2>2, <4>1, <4>2, <4>3 DEF CopyColumn
      <3>3. layout' = layout BY <3>1 DEF layoutVars
      <3>4. Elsewhere(copying.to, copying.from) BY <3>1, <3>2 DEF Elsewhere
      <3>5. ASSUME NEW r \in Rows(b, c, view[copying.from][b].elements_)
            PROVE  Content(memory', Blocks[b][c], layout[copying.to][b].columns[c], r) =
                   Content(memory', Blocks[b][c], view[copying.from][b].columns[c], r)
        BY <1>0, <2>2, <3>2, <3>4, ColumnsCopied
      <3> QED BY <3>1, <3>2, <3>3, <3>5 DEF ColumnCopied
    <2>3. ASSUME NEW v \in DOMAIN view, NEW s \in Storages, DeepCopy(s, v)
          PROVE  ColumnCopied(copying.to, copying.from, b, c)'
      <3>1. copying = NotCopying BY <2>a, <2>3 DEF DeepCopy
      <3>2. copying' = [call |-> "deepCopy", to |-> s, from |-> v, block |-> 1, column |-> 1]
        BY <2>3, <3>1 DEF DeepCopy, NotCopying
      <3>3. copying'.block = 1 /\ copying'.column = 1 BY <3>2
      <3>4. b \in Nat \ {0} /\ c \in Nat \ {0} BY Numbers
      <3> QED BY <3>3, <3>4 DEF Before, UpTo
    <2>4. ASSUME NEW v \in DOMAIN view, NEW w \in DOMAIN view, NEW b0 \in DOMAIN Blocks, NEW i, NEW j,
                 AssignElement(v, b0, i, w, j)
          PROVE  ColumnCopied(copying.to, copying.from, b, c)'
      <3>1. copying = NotCopying BY <2>a, <2>4 DEF AssignElement
      <3>2. copying'.call # "deepCopy" BY <2>4, <3>1 DEF AssignElement, NotCopying
      <3> QED BY <3>2
    <2>5. ASSUME MakesView \/ UsesView, copying' = copying
          PROVE  ColumnCopied(copying.to, copying.from, b, c)'
      BY <1>1, <2>5, <2>a
    <2> QED BY <1>2, <2>1, <2>2, <2>3, <2>4, <2>5 DEF ViewNext, Look, Merge, Get, Set
  <1>3. CASE UNCHANGED vars
    <2>1. UNCHANGED <<layoutVars, memory, view, copying>> BY <1>3 DEF vars
    <2>2. layout' = layout BY <2>1 DEF layoutVars
    <2> QED BY <2>1, <2>2 DEF CopiedSoFar, ColumnCopied, Elsewhere
  <1>4. CASE copying = NotCopying /\ LayoutNext /\ UNCHANGED <<memory, view, copying, made, calls>>
    BY <1>1, <1>4
  <1> QED BY <1>0, <1>2, <1>3, <1>4, StepKinds

LEMMA ReturnedCopied ==
    ASSUME IInv, UseInv, CopiedSoFar, AnyStride = FALSE, [Next]_vars,
           copying.call = "deepCopy", copying' = NotCopying, Elsewhere(copying.to, copying.from),
           NEW b \in DOMAIN Blocks, NEW c \in DOMAIN Blocks[b],
           NEW r \in Rows(b, c, view[copying.from][b].elements_)
    PROVE  Content(memory', Blocks[b][c], layout[copying.to][b].columns[c], r) =
           Content(memory', Blocks[b][c], view[copying.from][b].columns[c], r)
  <1>0. TypeOK /\ LoopsCopy BY DEF IInv, UseInv
  <1> PICK o \in [Storages -> Tables] : Follows(o) BY DEF IInv
  <1>1. copying # NotCopying BY DEF NotCopying
  <1>2. CopyColumn
    <2>1. MakesView \/ UsesView => copying = NotCopying BY DEF MakesView, UsesView, Client
    <2>2. ViewNext BY <1>0, <1>1, StepKinds DEF vars
    <2>3. ~AssignColumn BY DEF AssignColumn
    <2> QED BY <1>1, <2>1, <2>2, <2>3 DEF ViewNext, Look, Merge, Get, Set, AssignElement, DeepCopy
  <1>3. /\ copying \in [call : {"deepCopy"}, to : Storages, from : Views, block : Nat, column : Nat]
        /\ copying.block \in DOMAIN Blocks /\ copying.column \in DOMAIN Blocks[copying.block]
    BY <1>0, <1>2, CopyColumnStands
  <1>4. /\ ~(copying.column < Len(Blocks[copying.block])) /\ ~(copying.block < Len(Blocks))
    <2>1. copying' # [copying EXCEPT !.column = @ + 1]
      <3>1. [copying EXCEPT !.column = @ + 1].call = "deepCopy" BY <1>3
      <3> QED BY <3>1 DEF NotCopying
    <2>2. copying' # [copying EXCEPT !.column = 1, !.block = @ + 1]
      <3> SUFFICES ASSUME copying' = [copying EXCEPT !.column = 1, !.block = @ + 1] PROVE FALSE
        OBVIOUS
      <3>1. copying' = [call |-> copying.call, to |-> copying.to, from |-> copying.from,
                        block |-> copying.block + 1, column |-> 1]
        BY <1>3
      <3>2. copying'.call = "deepCopy" BY <1>3, <3>1
      <3> QED BY <3>2 DEF NotCopying
    <2> QED BY <1>2, <2>1, <2>2 DEF CopyColumn
  <1>5. UpTo(b, c)
    <2>1. /\ b \in 1 .. Len(Blocks) /\ copying.block \in 1 .. Len(Blocks) /\ Len(Blocks) \in Nat
          /\ c \in 1 .. Len(Blocks[b]) /\ Len(Blocks[b]) \in Nat
      BY <1>3, Numbers DEF Last
    <2>2. copying.column \in Nat BY <1>3
    <2>3. copying.block = Len(Blocks) BY <1>4, <2>1
    <2>4. CASE b = copying.block
      <3>1. ~(copying.column < Len(Blocks[b])) BY <1>4, <2>4
      <3>2. c < copying.column \/ c = copying.column BY <2>1, <2>2, <3>1
      <3> QED BY <2>4, <3>2 DEF Before, UpTo
    <2>5. CASE b # copying.block BY <2>1, <2>3, <2>5 DEF Before, UpTo
    <2> QED BY <2>4, <2>5
  <1> QED BY <1>0, <1>2, <1>5, ColumnsCopied

(* Whatever buffers the clients' allocator gives, a view's rows are in the  *)
(* storage when deepCopy returns - if the strides of the Eigen columns are  *)
(* equal, which the code does not check.                                    *)
THEOREM DeepCopyArrives ==
    ASSUME AnyStride = FALSE
    PROVE  Spec => DeepCopyCopies
  <1>1. Init => CopiedSoFar BY DEF Init, CopiedSoFar, NotCopying
  <1>2. IInv /\ UseInv /\ CopiedSoFar /\ [Next]_vars => CopiedSoFar' BY CopiedStep
  <1>3. Spec => [](IInv /\ UseInv) BY UseHolds
  <1>4. ASSUME IInv, UseInv, CopiedSoFar, [Next]_vars,
               copying.call = "deepCopy", copying' = NotCopying,
               \A b \in DOMAIN Blocks : \A c \in DOMAIN Blocks[b] :
                   view[copying.from][b].from[c][1] # copying.to
        PROVE  \A b \in DOMAIN Blocks : \A c \in DOMAIN Blocks[b] :
                   \A r \in Rows(b, c, view[copying.from][b].elements_) :
                       Content(memory', Blocks[b][c], layout[copying.to][b].columns[c], r) =
                       Content(memory', Blocks[b][c], view[copying.from][b].columns[c], r)
    BY <1>4, ReturnedCopied DEF Elsewhere
  <1> QED BY <1>1, <1>2, <1>3, <1>4, PTL DEF Spec, DeepCopyCopies

-----------------------------------------------------------------------------
(* What the tables and the views made say of memory.                        *)

LEMMA TablesNow ==
    ASSUME NEW s \in Storages, Complete(s)
    PROVE  /\ s \in DOMAIN TablesMade
           /\ \A b \in DOMAIN Blocks :
                  /\ TablesMade[s][b].rows = layout[s][b].elements_
                  /\ \A c \in DOMAIN Blocks[b] :
                         /\ DOMAIN TablesMade[s][b].cells[c] = Rows(b, c, layout[s][b].elements_)
                         /\ \A r \in Rows(b, c, layout[s][b].elements_) :
                                TablesMade[s][b].cells[c][r] =
                                    Content(memory, Blocks[b][c], layout[s][b].columns[c], r)
  BY DEF TablesMade, TableMade

LEMMA TablesThen ==
    ASSUME UNCHANGED layoutVars, NEW s \in Storages, Complete(s)
    PROVE  /\ s \in DOMAIN TablesMade'
           /\ \A b \in DOMAIN Blocks :
                  /\ TablesMade'[s][b].rows = layout[s][b].elements_
                  /\ \A c \in DOMAIN Blocks[b] :
                         /\ DOMAIN TablesMade'[s][b].cells[c] = Rows(b, c, layout[s][b].elements_)
                         /\ \A r \in Rows(b, c, layout[s][b].elements_) :
                                TablesMade'[s][b].cells[c][r] =
                                    Content(memory', Blocks[b][c], layout[s][b].columns[c], r)
  <1>1. layout' = layout /\ loop' = loop BY DEF layoutVars
  <1>2. Complete(s)' BY <1>1 DEF Complete
  <1> QED BY <1>1, <1>2 DEF TablesMade, TableMade

LEMMA SameTables ==
    ASSUME UNCHANGED layoutVars
    PROVE  /\ DOMAIN TablesMade' = DOMAIN TablesMade
           /\ memory' = memory => TablesMade' = TablesMade
           /\ view' = view => ViewsMade' = ViewsMade
  <1>1. layout' = layout /\ loop' = loop BY DEF layoutVars
  <1>2. \A s : Complete(s)' <=> Complete(s) BY <1>1 DEF Complete
  <1>3. DOMAIN TablesMade' = DOMAIN TablesMade BY <1>2 DEF TablesMade
  <1>4. ASSUME memory' = memory PROVE TablesMade' = TablesMade
    BY <1>1, <1>2, <1>4 DEF TablesMade, TableMade
  <1>5. ASSUME view' = view PROVE ViewsMade' = ViewsMade BY <1>5 DEF ViewsMade
  <1> QED BY <1>3, <1>4, <1>5

LEMMA ViewsNow ==
    /\ DOMAIN ViewsMade = DOMAIN view
    /\ \A v \in DOMAIN view : \A b \in DOMAIN Blocks :
           ViewsMade[v][b].rows = view[v][b].elements_ /\ ViewsMade[v][b].from = view[v][b].from
  BY DEF ViewsMade

(* A step that leaves the layouts alone changes the cells whose bytes it    *)
(* changes.                                                                 *)
IsCell(s, b, c, r) ==
    /\ s \in Storages /\ Complete(s) /\ b \in DOMAIN Blocks /\ c \in DOMAIN Blocks[b]
    /\ r \in Rows(b, c, layout[s][b].elements_)

CellIn(m, s, b, c, r) == Content(m, Blocks[b][c], layout[s][b].columns[c], r)

LEMMA CellsChanged ==
    ASSUME UNCHANGED layoutVars, NEW cells,
           \A s, b, c, r : IsCell(s, b, c, r) =>
               <<s, b, c, r>> \in cells \/ CellIn(memory', s, b, c, r) = CellIn(memory, s, b, c, r)
    PROVE  Table!OnlyChanges(cells)
  <1>1. DOMAIN TablesMade' = DOMAIN TablesMade BY SameTables
  <1>2. \A s \in DOMAIN TablesMade : s \in Storages /\ Complete(s) BY DEF TablesMade
  <1>3. ASSUME NEW s \in DOMAIN TablesMade, NEW b \in DOMAIN Blocks
        PROVE  /\ TablesMade'[s][b].rows = TablesMade[s][b].rows
               /\ \A c \in DOMAIN Blocks[b] : \A r \in DOMAIN TablesMade[s][b].cells[c] :
                      \/ <<s, b, c, r>> \in cells
                      \/ TablesMade'[s][b].cells[c][r] = TablesMade[s][b].cells[c][r]
    <2>1. s \in Storages /\ Complete(s) BY <1>2
    <2>2. TablesMade'[s][b].rows = TablesMade[s][b].rows BY <2>1, TablesNow, TablesThen
    <2>3. ASSUME NEW c \in DOMAIN Blocks[b], NEW r \in DOMAIN TablesMade[s][b].cells[c]
          PROVE  <<s, b, c, r>> \in cells \/ TablesMade'[s][b].cells[c][r] = TablesMade[s][b].cells[c][r]
      <3>1. r \in Rows(b, c, layout[s][b].elements_) BY <2>1, TablesNow
      <3>2. /\ TablesMade[s][b].cells[c][r] =
                   Content(memory, Blocks[b][c], layout[s][b].columns[c], r)
            /\ TablesMade'[s][b].cells[c][r] =
                   Content(memory', Blocks[b][c], layout[s][b].columns[c], r)
        BY <2>1, <3>1, TablesNow, TablesThen
      <3>3. IsCell(s, b, c, r) BY <2>1, <3>1 DEF IsCell
      <3>4. <<s, b, c, r>> \in cells \/ CellIn(memory', s, b, c, r) = CellIn(memory, s, b, c, r)
        BY <3>3
      <3> QED BY <3>2, <3>4 DEF CellIn
    <2> QED BY <2>2, <2>3
  <1> QED BY <1>1, <1>3 DEF Table!OnlyChanges

(* The element a view shows is a cell of the table it shows.                *)
LEMMA ElementShown ==
    ASSUME IInv, UseInv, loop = Idle, NEW v \in DOMAIN view, NEW b \in DOMAIN Blocks,
           NEW c \in DOMAIN Blocks[b], NEW i, Scalar(b, c) \/ i \in Rows(b, c, view[v][b].elements_)
    PROVE  /\ Table!Of(TablesMade, Table!Shown(v, b, c, i)) =
                  Content(memory, Blocks[b][c], view[v][b].columns[c], i)
           /\ UNCHANGED layoutVars =>
                  Table!Of(TablesMade', Table!Shown(v, b, c, i)) =
                      Content(memory', Blocks[b][c], view[v][b].columns[c], i)
  <1> DEFINE f == view[v][b].from[c]
             j == IF Scalar(b, c) THEN 0 ELSE i
             n == view[v][b].elements_
  <1>0. TypeOK /\ BuffersApart /\ ViewsShow BY DEF IInv, UseInv
  <1> PICK o \in [Storages -> Tables] : Follows(o) BY DEF IInv
  <1>1. ShowsColumn(v, b, c, f[1], f[2], f[3]) BY <1>0, Shown
  <1>2. /\ f[1] \in Storages /\ Complete(f[1]) /\ f[2] \in DOMAIN Blocks
        /\ f[3] \in DOMAIN Blocks[f[2]] /\ Blocks[f[2]][f[3]] = Blocks[b][c]
        /\ view[v][b].columns[c] = layout[f[1]][f[2]].columns[f[3]]
        /\ n = layout[f[1]][f[2]].elements_
    BY <1>1 DEF ShowsColumn
  <1>3. Table!Shown(v, b, c, i) = <<f[1], f[2], f[3], j>>
    BY ViewsNow DEF Table!Shown, Table!Scalar, Scalar
  <1>4. j \in Rows(f[2], f[3], n)
    <2>1. Rows(f[2], f[3], n) = Rows(b, c, n) BY <1>0, <1>1, ShownLies
    <2>2. Scalar(b, c) => Rows(b, c, n) = 0 .. 0 BY DEF Rows
    <2>3. j \in Rows(b, c, n) BY <2>2
    <2> QED BY <2>1, <2>3
  <1>5. \A m : Content(m, Blocks[b][c], view[v][b].columns[c], i) =
               Content(m, Blocks[f[2]][f[3]], layout[f[1]][f[2]].columns[f[3]], j)
    <2>1. CASE Scalar(b, c)
      <3>1. \A at : ElementBytes(Blocks[b][c], at, i) = ElementBytes(Blocks[b][c], at, j)
        BY <2>1 DEF ElementBytes, Scalar
      <3> QED BY <1>2, <3>1 DEF Content
    <2>2. CASE ~Scalar(b, c) BY <1>2, <2>2
    <2> QED BY <2>1, <2>2
  <1> HIDE DEF f, j, n
  <1>6. TablesMade[f[1]][f[2]].cells[f[3]][j] =
            Content(memory, Blocks[f[2]][f[3]], layout[f[1]][f[2]].columns[f[3]], j)
    BY <1>2, <1>4, TablesNow
  <1>7. ASSUME UNCHANGED layoutVars
        PROVE  TablesMade'[f[1]][f[2]].cells[f[3]][j] =
                   Content(memory', Blocks[f[2]][f[3]], layout[f[1]][f[2]].columns[f[3]], j)
    BY <1>2, <1>4, <1>7, TablesThen
  <1> QED BY <1>3, <1>5, <1>6, <1>7 DEF Table!Of

-----------------------------------------------------------------------------
(* The steps of the layouts, seen in the tables.                            *)

(* Only the last block's end makes a storage whole.                         *)
LEMMA BecomesWhole ==
    ASSUME TypeOK, LayoutNext, NEW s \in Storages, ~Complete(s), Complete(s)'
    PROVE  /\ EndBlock /\ s = loop.target
           /\ result' = [call |-> "construct", kind |-> "ok"]
  <1>0. /\ layout \in [Storages -> Seq(Layout)] /\ loop \in Loops /\ LayoutTypeOK
        /\ Len(Blocks) \in Nat \ {0}
    BY Numbers DEF TypeOK, LayoutTypeOK
  <1>1. Len(layout'[s]) = Len(Blocks) /\ layout'[s] # <<>> BY <1>0 DEF Complete
  <1>2. ASSUME layout' = layout, loop.at \notin {"place", "check"} PROVE FALSE
    BY <1>2 DEF Complete
  <1>3. ASSUME NEW t \in Storages, layout'[s] = layout[s], loop.target # s \/ loop = Idle PROVE FALSE
    BY <1>1, <1>3 DEF Complete, Idle
  <1>4. ASSUME loop'.at \in {"place", "check"}, loop'.target = s PROVE FALSE BY <1>4 DEF Complete
  <1>5. ASSUME NEW t \in Storages, Construct(t) PROVE FALSE
    <2>1. CASE t = s
      <3>1. layout'[s] = <<>> \/ loop' = PlaceFrom(s, 1, buffer[s].base)
        BY <1>0, <1>5, <2>1 DEF Construct, Throw
      <3> QED BY <1>1, <1>4, <3>1 DEF PlaceFrom
    <2>2. CASE t # s
      <3>1. layout'[s] = layout[s] /\ loop = Idle BY <1>0, <1>5, <2>2 DEF Construct, Throw
      <3> QED BY <1>3, <3>1
    <2> QED BY <2>1, <2>2
  <1>6. ASSUME Place PROVE FALSE
    <2>1. loop \in [at : {"place"}, target : Storages, block : DOMAIN Blocks, column : Nat, cur : Nat]
      BY <1>0, <1>6 DEF Place, Loops, Idle
    <2>2. CASE loop.target # s
      <3>1. layout'[s] = layout[s] BY <1>0, <1>6, <2>2 DEF Place, Throw
      <3> QED BY <1>3, <2>2, <3>1
    <2>3. CASE loop.target = s /\ ~checkAlignment(loop.target, loop.cur)
      <3>1. layout'[s] = <<>> BY <1>0, <1>6, <2>3 DEF Place, Throw
      <3> QED BY <1>1, <3>1
    <2>4. CASE loop.target = s /\ checkAlignment(loop.target, loop.cur)
      <3> DEFINE next == loop.cur + PlacedBytes(Blocks[loop.block][loop.column], Current.elements_)
      <3>1. \/ loop' = [at |-> "check", target |-> loop.target, block |-> loop.block,
                        column |-> 1, cur |-> next, ret |-> 0]
            \/ loop' = [loop EXCEPT !.cur = next, !.column = @ + 1]
        BY <1>6, <2>4 DEF Place
      <3> HIDE DEF next
      <3>2. ASSUME loop' = [loop EXCEPT !.cur = next, !.column = @ + 1]
            PROVE  loop'.target = loop.target /\ loop'.at = loop.at
        BY <2>1, <3>2
      <3>3. ASSUME loop' = [at |-> "check", target |-> loop.target, block |-> loop.block,
                            column |-> 1, cur |-> next, ret |-> 0]
            PROVE  loop'.target = loop.target /\ loop'.at = "check"
        BY <3>3
      <3> QED BY <1>4, <2>1, <2>4, <3>1, <3>2, <3>3
    <2> QED BY <2>2, <2>3, <2>4
  <1>7. ASSUME AccumulateBlock PROVE FALSE
    <2>1. loop \in [at : {"check"}, target : Storages, block : DOMAIN Blocks, column : Nat,
                    cur : Nat, ret : Nat]
      BY <1>0, <1>7 DEF AccumulateBlock, Loops, Idle
    <2>2. loop'.target = loop.target /\ loop'.at = "check" /\ layout' = layout
      BY <1>7, <2>1 DEF AccumulateBlock
    <2> QED BY <1>3, <1>4, <2>2
  <1>8. ASSUME EndBlock
        PROVE  s = loop.target /\ result' = [call |-> "construct", kind |-> "ok"]
    <2>1. loop.target \in Storages BY <1>0, <1>8 DEF EndBlock, Loops, Idle
    <2>2. s = loop.target
      <3>1. loop.target # s => layout'[s] = layout[s] BY <1>0, <1>8, <2>1 DEF EndBlock, Throw
      <3> QED BY <1>3, <3>1
    <2>3. ASSUME Throw(loop.target) PROVE FALSE
      <3>1. layout'[s] = <<>> BY <1>0, <2>2, <2>3 DEF Throw
      <3> QED BY <1>1, <3>1
    <2>4. ASSUME NEW b, NEW mem, loop' = PlaceFrom(loop.target, b, mem) PROVE FALSE
      BY <1>4, <2>2, <2>4 DEF PlaceFrom
    <2> QED BY <1>8, <2>2, <2>3, <2>4 DEF EndBlock, Return
  <1>9. ASSUME \/ \E t \in Storages : \/ \E n \in Elements : ComputeDataSize(t, n)
                                      \/ \E u \in Storages : \E base \in Bases[u] : Clone(t, u, base)
                                      \/ \E b \in DOMAIN Blocks : Dump(t, b)
               \/ loop.at = "size" /\ \E base \in Bases[loop.target] : Allocate(base)
               \/ AccumulateBlocks \/ DumpColumn \/ DumpEnd
        PROVE  FALSE
    <2>1. ASSUME NEW t \in Storages, NEW n, ComputeDataSize(t, n)
          PROVE  layout' = layout /\ loop.at \notin {"place", "check"}
      BY <2>1 DEF ComputeDataSize, Idle
    <2>2. ASSUME NEW t \in Storages, NEW u, NEW base, Clone(t, u, base)
          PROVE  layout' = layout /\ loop.at \notin {"place", "check"}
      BY <2>2 DEF Clone, Idle
    <2>3. ASSUME NEW t \in Storages, NEW b, Dump(t, b)
          PROVE  layout' = layout /\ loop.at \notin {"place", "check"}
      BY <2>3 DEF Dump, Idle
    <2>4. ASSUME NEW base, Allocate(base)
          PROVE  layout' = layout /\ loop.at \notin {"place", "check"}
      BY <2>4 DEF Allocate
    <2>5. ASSUME AccumulateBlocks \/ DumpColumn \/ DumpEnd
          PROVE  layout' = layout /\ loop.at \notin {"place", "check"}
      BY <2>5 DEF AccumulateBlocks, DumpColumn, DumpEnd
    <2> QED BY <1>2, <1>9, <2>1, <2>2, <2>3, <2>4, <2>5
  <1> QED BY <1>5, <1>6, <1>7, <1>8, <1>9 DEF LayoutNext

(* What they return.                                                        *)
LEMMA LayoutReturns ==
    ASSUME LayoutNext
    PROVE  \/ result' = result
           \/ result' = [call |-> "computeDataSize", kind |-> "ok"]
           \/ result' = [call |-> "cloneToNewAddress", kind |-> "ok"]
           \/ result' = [call |-> "construct", kind |-> "runtime_error"]
           \/ EndBlock /\ layout' = [layout EXCEPT ![loop.target][loop.block].byteSize_ = Summed]
                       /\ loop' = Idle /\ ~(loop.block < Len(Blocks))
                       /\ result' = [call |-> "construct", kind |-> "ok"]
  BY DEF LayoutNext, ComputeDataSize, Clone, Construct, Dump, Allocate, AccumulateBlocks, Place,
         AccumulateBlock, EndBlock, DumpColumn, DumpEnd, Return, Throw

(* The end of the last block does make one.                                 *)
LEMMA WholeAtEnd ==
    ASSUME TypeOK, NEW o \in [Storages -> Tables], Follows(o), EndBlock, NEW s, s = loop.target,
           layout' = [layout EXCEPT ![loop.target][loop.block].byteSize_ = Summed],
           loop' = Idle, ~(loop.block < Len(Blocks))
    PROVE  s \in Storages /\ ~Complete(s) /\ Complete(s)'
  <1> DEFINE b == loop.block
             new == [layout[s][b] EXCEPT !.byteSize_ = Summed]
  <1>1. loop.at = "check" BY DEF EndBlock
  <1>2. /\ s \in Storages /\ b \in DOMAIN Blocks /\ layout[s] \in Seq(Layout)
        /\ Len(layout[s]) = b /\ b \in DOMAIN layout[s]
    BY <1>1, UnderConstruction
  <1>3. layout \in [Storages -> Seq(Layout)] BY DEF TypeOK, LayoutTypeOK
  <1>4. layout'[s] = [layout[s] EXCEPT ![b] = new]
    BY <1>2, <1>3
  <1>5. Len(layout'[s]) = Len(layout[s])
    <2> HIDE DEF new
    <2>1. Len([layout[s] EXCEPT ![b] = new]) = Len(layout[s]) BY <1>2
    <2> QED BY <1>4, <2>1
  <1>6. b = Len(Blocks) BY <1>2, Numbers
  <1>7. Complete(s)' BY <1>2, <1>5, <1>6 DEF Complete, Idle
  <1>8. ~Complete(s) BY <1>1 DEF Complete
  <1> QED BY <1>2, <1>7, <1>8

LEMMA LayoutRefines ==
    ASSUME IInv, LayoutNext, UNCHANGED <<memory, view>>
    PROVE  \/ \E s \in Storages : Table!Construct(s)
           \/ Table!Plain
           \/ UNCHANGED <<TablesMade, ViewsMade, result>>
  <1>0. TypeOK /\ LayoutTypeOK BY DEF IInv, TypeOK
  <1> PICK o \in [Storages -> Tables] : Follows(o) BY DEF IInv
  <1>1. ViewsMade' = ViewsMade BY DEF ViewsMade
  <1>2. ASSUME NEW s \in DOMAIN TablesMade
        PROVE  s \in DOMAIN TablesMade' /\ TablesMade'[s] = TablesMade[s]
    <2>1. s \in Storages /\ Complete(s) BY DEF TablesMade
    <2>2. Complete(s)' /\ layout'[s] = layout[s] BY <1>0, <2>1, WholeStays
    <2>3. TableMade(s)' = TableMade(s) BY <2>2 DEF TableMade
    <2> QED BY <2>1, <2>2, <2>3 DEF TablesMade
  <1>3. DOMAIN TablesMade = {s \in Storages : Complete(s)}
        /\ DOMAIN TablesMade' = {s \in Storages : Complete(s)'}
    BY DEF TablesMade
  <1>4. CASE \E s \in Storages : ~Complete(s) /\ Complete(s)'
    <2>1. PICK s \in Storages : ~Complete(s) /\ Complete(s)' BY <1>4
    <2>2. \A t \in Storages : ~Complete(t) /\ Complete(t)' => t = loop.target
      BY <1>0, BecomesWhole
    <2>3. s = loop.target /\ result' = [call |-> "construct", kind |-> "ok"]
      BY <1>0, <2>1, BecomesWhole
    <2>4. DOMAIN TablesMade' = DOMAIN TablesMade \cup {s} /\ s \notin DOMAIN TablesMade
      BY <1>2, <1>3, <2>1, <2>2, <2>3
    <2>5. Table!Construct(s) BY <1>1, <1>2, <2>3, <2>4 DEF Table!Construct, Table!Returned
    <2> QED BY <2>5
  <1>5. CASE ~\E s \in Storages : ~Complete(s) /\ Complete(s)'
    <2>1. DOMAIN TablesMade' = DOMAIN TablesMade BY <1>2, <1>3, <1>5
    <2>2. TablesMade' = TablesMade
      <3>1. TablesMade = [s \in DOMAIN TablesMade |-> TablesMade[s]] BY DEF TablesMade
      <3>2. TablesMade' = [s \in DOMAIN TablesMade' |-> TablesMade'[s]] BY DEF TablesMade
      <3> QED BY <1>2, <2>1, <3>1, <3>2
    <2>3. ~ (EndBlock /\ layout' = [layout EXCEPT ![loop.target][loop.block].byteSize_ = Summed]
                      /\ loop' = Idle /\ ~(loop.block < Len(Blocks)))
      BY <1>0, <1>5, WholeAtEnd
    <2>4. result' # result => Table!Plain
      <3>1. result' # result =>
                \/ result' = [call |-> "computeDataSize", kind |-> "ok"]
                \/ result' = [call |-> "cloneToNewAddress", kind |-> "ok"]
                \/ result' = [call |-> "construct", kind |-> "runtime_error"]
        BY <2>3, LayoutReturns
      <3> QED BY <1>1, <2>2, <3>1 DEF Table!Plain, Table!Returned
    <2> QED BY <1>1, <2>2, <2>4
  <1> QED BY <1>4, <1>5

(* An index a check let pass is a row.                                      *)
LEMMA RowThere ==
    ASSUME IInv, UseInv, loop = Idle, NEW v \in DOMAIN view, NEW b \in DOMAIN Blocks,
           NEW c \in DOMAIN Blocks[b], NEW i \in Nat
    PROVE  /\ view[v][b].elements_ \in Nat
           /\ ~Scalar(b, c) /\ i < view[v][b].elements_ =>
                  /\ i \in Rows(b, c, view[v][b].elements_)
                  /\ i \in 0 .. view[v][b].elements_ - 1
  <1> DEFINE f == view[v][b].from[c]
             n == view[v][b].elements_
  <1>0. TypeOK /\ BuffersApart /\ ViewsShow BY DEF IInv, UseInv
  <1> PICK o \in [Storages -> Tables] : Follows(o) BY DEF IInv
  <1>1. ShowsColumn(v, b, c, f[1], f[2], f[3]) BY <1>0, Shown
  <1>2. Lies(b, c, n, view[v][b].columns[c]) BY <1>0, <1>1, ShownLies
  <1>3. n \in Nat BY <1>2 DEF Lies
  <1> HIDE DEF n
  <1>4. ~Scalar(b, c) /\ i < n => i \in Rows(b, c, n) /\ i \in 0 .. n - 1 BY <1>3 DEF Rows
  <1> QED BY <1>3, <1>4 DEF n

-----------------------------------------------------------------------------
(* The steps of the views, seen in the tables.                              *)

LEMMA LookRefines ==
    ASSUME NEW v \in Views, NEW s \in Storages, Look(v, s)
    PROVE  Table!Look(v, s)
  <1>1. /\ Complete(s) /\ UNCHANGED layoutVars /\ memory' = memory
        /\ result' = [call |-> "view", kind |-> "ok"]
        /\ view' = [w \in DOMAIN view \cup {v} |-> IF w # v THEN view[w] ELSE
               [b \in DOMAIN Blocks |->
                   [elements_ |-> layout[s][b].elements_,
                    columns   |-> layout[s][b].columns,
                    from      |-> [c \in DOMAIN Blocks[b] |-> <<s, b, c>>]]]]
    BY DEF Look, Return
  <1>2. TablesMade' = TablesMade /\ s \in DOMAIN TablesMade BY <1>1, SameTables, TablesNow
  <1>3. DOMAIN view' = DOMAIN view \cup {v} BY <1>1
  <1>4. ViewsMade' = [w \in DOMAIN view \cup {v} |->
            [b \in DOMAIN Blocks |-> [rows |-> view'[w][b].elements_, from |-> view'[w][b].from]]]
    BY <1>3 DEF ViewsMade
  <1>5. ASSUME NEW w \in DOMAIN view \cup {v}
        PROVE  ViewsMade'[w] = IF w # v THEN ViewsMade[w] ELSE
            [b \in DOMAIN Blocks |->
                [rows |-> TablesMade[s][b].rows, from |-> [c \in DOMAIN Blocks[b] |-> <<s, b, c>>]]]
    <2>1. CASE w # v
      <3>1. view'[w] = view[w] /\ w \in DOMAIN view BY <1>1, <2>1
      <3>2. ViewsMade'[w] =
                [b \in DOMAIN Blocks |-> [rows |-> view[w][b].elements_, from |-> view[w][b].from]]
        BY <1>4, <3>1
      <3> QED BY <2>1, <3>1, <3>2 DEF ViewsMade
    <2>2. CASE w = v
      <3>1. \A b \in DOMAIN Blocks :
                /\ view'[w][b].elements_ = layout[s][b].elements_
                /\ view'[w][b].from = [c \in DOMAIN Blocks[b] |-> <<s, b, c>>]
                /\ TablesMade[s][b].rows = layout[s][b].elements_
        BY <1>1, <2>2, TablesNow
      <3> QED BY <1>4, <2>2, <3>1
    <2> QED BY <2>1, <2>2
  <1>6. ViewsMade' = [w \in DOMAIN view \cup {v} |-> ViewsMade'[w]] BY <1>4
  <1>7. ViewsMade' = [w \in DOMAIN ViewsMade \cup {v} |-> IF w # v THEN ViewsMade[w] ELSE
            [b \in DOMAIN Blocks |->
                [rows |-> TablesMade[s][b].rows, from |-> [c \in DOMAIN Blocks[b] |-> <<s, b, c>>]]]]
    BY <1>5, <1>6, ViewsNow
  <1> QED BY <1>1, <1>2, <1>7 DEF Table!Look, Table!Returned

LEMMA MergeRefines ==
    ASSUME UseInv, ViewsShow', NEW v \in DOMAIN view, NEW b \in DOMAIN Blocks, NEW picked \in Picks(b),
           Merge(v, b, picked)
    PROVE  Table!Merge(v, b) \/ Table!Plain
  <1>0. ViewsShow BY DEF UseInv
  <1>1. /\ UNCHANGED layoutVars /\ memory' = memory
        /\ \/ result' = [call |-> "merge", kind |-> "ok"]
           \/ result' = [call |-> "merge", kind |-> "runtime_error"] /\ view' = view
    BY DEF Merge, Return
  <1>2. TablesMade' = TablesMade BY <1>1, SameTables
  <1>3. CASE result' = [call |-> "merge", kind |-> "runtime_error"] /\ view' = view
    <2>1. ViewsMade' = ViewsMade BY <1>1, <1>3, SameTables
    <2> QED BY <1>2, <1>3, <2>1 DEF Table!Plain, Table!Returned
  <1>4. CASE result' = [call |-> "merge", kind |-> "ok"]
    <2>1. /\ DOMAIN view' = DOMAIN view
          /\ \A w \in DOMAIN view : \A d \in DOMAIN Blocks :
                 <<w, d>> # <<v, b>> => view'[w][d] = view[w][d]
      <3>1. CASE view' = view BY <3>1
      <3>2. CASE view' # view BY <1>0, <3>2, MergeShows
      <3> QED BY <3>1, <3>2
    <2> DEFINE new == ViewsMade'[v][b]
    <2>2. /\ ViewsMade = [w \in DOMAIN view |-> ViewsMade[w]]
          /\ ViewsMade' = [w \in DOMAIN view |-> ViewsMade'[w]]
          /\ \A w \in DOMAIN view : \A d \in DOMAIN Blocks :
                 /\ ViewsMade[w][d] = [rows |-> view[w][d].elements_, from |-> view[w][d].from]
                 /\ ViewsMade'[w][d] = [rows |-> view'[w][d].elements_, from |-> view'[w][d].from]
          /\ \A w \in DOMAIN view :
                 /\ ViewsMade[w] = [d \in DOMAIN Blocks |-> ViewsMade[w][d]]
                 /\ ViewsMade'[w] = [d \in DOMAIN Blocks |-> ViewsMade'[w][d]]
      BY <2>1 DEF ViewsMade
    <2>3. \A w \in DOMAIN view : \A d \in DOMAIN Blocks :
              <<w, d>> # <<v, b>> => ViewsMade'[w][d] = ViewsMade[w][d]
      <3> SUFFICES ASSUME NEW w \in DOMAIN view, NEW d \in DOMAIN Blocks, <<w, d>> # <<v, b>>
                   PROVE  ViewsMade'[w][d] = ViewsMade[w][d]
        OBVIOUS
      <3>1. view'[w][d] = view[w][d] BY <2>1
      <3>2. /\ ViewsMade[w][d] = [rows |-> view[w][d].elements_, from |-> view[w][d].from]
            /\ ViewsMade'[w][d] = [rows |-> view'[w][d].elements_, from |-> view'[w][d].from]
        BY <2>2
      <3> QED BY <3>1, <3>2
    <2>4. ViewsMade'[v] = [ViewsMade[v] EXCEPT ![b] = new]
      <3>1. \A d \in DOMAIN Blocks : d # b => ViewsMade'[v][d] = ViewsMade[v][d] BY <2>3
      <3> QED BY <2>2, <3>1
    <2>5. ASSUME NEW w \in DOMAIN view, w # v PROVE ViewsMade'[w] = ViewsMade[w]
      <3>1. \A d \in DOMAIN Blocks : ViewsMade'[w][d] = ViewsMade[w][d] BY <2>3, <2>5
      <3> QED BY <2>2, <3>1
    <2>6. ViewsMade' = [ViewsMade EXCEPT ![v][b] = new]
      <3> HIDE DEF new
      <3> QED BY <2>2, <2>4, <2>5
    <2>7. ASSUME NEW c \in DOMAIN Blocks[b]
          PROVE  TablesMade[new.from[c][1]][new.from[c][2]].rows = new.rows
      <3>1. v \in DOMAIN view' BY <2>1
      <3>2. PICK s, g, h : ShowsColumn(v, b, c, s, g, h)' BY <3>1 DEF ViewsShow
      <3>3. layout' = layout /\ loop' = loop BY <1>1 DEF layoutVars
      <3>4. /\ s \in Storages /\ Complete(s) /\ g \in DOMAIN Blocks
            /\ view'[v][b].from[c] = <<s, g, h>> /\ view'[v][b].elements_ = layout[s][g].elements_
        BY <3>2, <3>3 DEF ShowsColumn, Complete
      <3>5. new.from = view'[v][b].from /\ new.rows = view'[v][b].elements_
        <4>1. new = [rows |-> view'[v][b].elements_, from |-> view'[v][b].from] BY <2>2
        <4> QED BY <4>1
      <3>6. TablesMade[s][g].rows = layout[s][g].elements_ BY <3>4, TablesNow
      <3> HIDE DEF new
      <3>7. new.from[c][1] = s /\ new.from[c][2] = g BY <3>4, <3>5
      <3> QED BY <3>4, <3>5, <3>6, <3>7
    <2> QED BY <1>2, <1>4, <2>6, <2>7 DEF Table!Merge, Table!Returned
  <1> QED BY <1>1, <1>3, <1>4

LEMMA GetRefines ==
    ASSUME IInv, UseInv, NEW v \in DOMAIN view, NEW b \in DOMAIN Blocks, NEW c \in DOMAIN Blocks[b],
           NEW i \in Nat, Get(v, b, c, i)
    PROVE  Table!Get \/ Table!Plain
  <1>1. /\ UNCHANGED layoutVars /\ memory' = memory /\ view' = view /\ loop = Idle
    BY DEF Get, UsesView, Client
  <1>2. TablesMade' = TablesMade /\ ViewsMade' = ViewsMade BY <1>1, SameTables
  <1>3. CASE Accessible(v, b, c, i)
    <2>1. result' = [call |-> "get", kind |-> "value", at |-> <<v, b, c, i>>,
                     value |-> Content(memory, Blocks[b][c], view[v][b].columns[c], i)]
      BY <1>3 DEF Get
    <2>2. /\ result'.call = "get" /\ result'.kind = "value" /\ result'.at = <<v, b, c, i>>
          /\ result'.value = Content(memory, Blocks[b][c], view[v][b].columns[c], i)
      BY <2>1
    <2>3. Scalar(b, c) \/ i < view[v][b].elements_ BY <1>3 DEF Accessible, InRange
    <2>4. Scalar(b, c) \/ i \in Rows(b, c, view[v][b].elements_)
      BY <1>1, <2>3, RowThere
    <2>5. result'.value = Table!Of(TablesMade, Table!Shown(v, b, c, i))
      BY <1>1, <2>2, <2>4, ElementShown
    <2>6. Table!Scalar(b, c) \/ i < ViewsMade[v][b].rows
      BY <2>3, ViewsNow DEF Table!Scalar, Scalar
    <2> QED BY <1>2, <2>2, <2>5, <2>6 DEF Table!Get
  <1>4. CASE ~Accessible(v, b, c, i)
    <2>1. result' = [call |-> "get", kind |-> "out_of_range"] BY <1>4 DEF Get, Return
    <2>2. DOMAIN ViewsMade # {} BY ViewsNow
    <2> QED BY <1>2, <2>1, <2>2 DEF Table!Plain, Table!Returned
  <1> QED BY <1>3, <1>4

(* Writing an element leaves the other cells of all tables as they are ...  *)
Written(s, b, c, i, value) == Spread(memory, Blocks[b][c], layout[s][b].columns[c], i, value)

LEMMA SpreadAt ==
    ASSUME IInv, UseInv, loop = Idle,
           NEW s, NEW b, NEW c, NEW i, IsCell(s, b, c, i), NEW value,
           NEW t, NEW g, NEW h, NEW r, IsCell(t, g, h, r), <<t, g, h, r>> # <<s, b, c, i>>
    PROVE  CellIn(Written(s, b, c, i, value), t, g, h, r) = CellIn(memory, t, g, h, r)
  <1> DEFINE n == layout[s][b].elements_
             p == layout[t][g].elements_
             at == layout[s][b].columns[c]
             to == layout[t][g].columns[h]
  <1>0. TypeOK /\ BuffersApart BY DEF IInv, UseInv
  <1> PICK o \in [Storages -> Tables] : Follows(o) BY DEF IInv
  <1>a. /\ s \in Storages /\ Complete(s) /\ b \in DOMAIN Blocks /\ c \in DOMAIN Blocks[b]
        /\ t \in Storages /\ Complete(t) /\ g \in DOMAIN Blocks /\ h \in DOMAIN Blocks[g]
        /\ i \in Rows(b, c, n) /\ r \in Rows(g, h, p)
    BY DEF IsCell
  <1>1. /\ Lies(b, c, n, at) /\ Lies(g, h, p, to)
        /\ Placement(t, g, h) \subseteq Held(t)
    BY <1>0, <1>a, WholeLies
  <1>2. Region(g, h, p, to) \subseteq DOMAIN memory
    BY <1>0, <1>1, <1>a DEF Placement, BuffersApart, TypeOK
  <1>3. i \in Rows(b, c, n) /\ r \in Rows(g, h, p) BY <1>a
  <1>4. ASSUME NEW k \in 0 .. Width(Blocks[b][c]) - 1, NEW l \in 0 .. Width(Blocks[g][h]) - 1
        PROVE  ElementBytes(Blocks[b][c], at, i)[k] # ElementBytes(Blocks[g][h], to, r)[l]
    <2>1. CASE <<s, b, c>> # <<t, g, h>>
      <3>1. Placement(s, b, c) \cap Placement(t, g, h) = {} BY <1>0, <1>a, <2>1, PlacementsApart
      <3>2. ElementBytes(Blocks[b][c], at, i)[k] \in Placement(s, b, c)
        <4> HIDE DEF at, n
        <4>1. ElementBytes(Blocks[b][c], at, i)[k] \in Region(b, c, n, at)
          BY <1>1, <1>a, ElementInRegion
        <4> QED BY <4>1 DEF Placement, at, n
      <3>3. ElementBytes(Blocks[g][h], to, r)[l] \in Placement(t, g, h)
        <4> HIDE DEF to, p
        <4>1. ElementBytes(Blocks[g][h], to, r)[l] \in Region(g, h, p, to)
          BY <1>1, <1>a, ElementInRegion
        <4> QED BY <4>1 DEF Placement, to, p
      <3> QED BY <3>1, <3>2, <3>3
    <2>2. CASE <<s, b, c>> = <<t, g, h>>
      <3>1. s = t /\ b = g /\ c = h /\ i # r BY <2>2
      <3> DEFINE a0 == at.addr
                 x == Offset(Blocks[b][c], Stride(Blocks[b][c], n), i, k)
                 y == Offset(Blocks[b][c], Stride(Blocks[b][c], n), r, l)
      <3> HIDE DEF n, at
      <3>2. /\ r \in Rows(b, c, n) /\ l \in 0 .. Width(Blocks[b][c]) - 1
            /\ ElementBytes(Blocks[g][h], to, r) = ElementBytes(Blocks[b][c], at, r)
        BY <1>3, <3>1 DEF n, at
      <3>3. ElementBytes(Blocks[b][c], at, i)[k] = at.addr + x /\ x \in Nat
        BY <1>1, <1>a, ElementInRegion
      <3>4. ElementBytes(Blocks[b][c], at, r)[l] = at.addr + y /\ y \in Nat
        BY <1>1, <1>a, <3>2, ElementInRegion
      <3>5. x # y
        <4>1. n \in Nat BY <1>1 DEF Lies
        <4> QED BY <1>a, <3>1, <3>2, <4>1, OffsetInjective
      <3>6. a0 \in Nat BY <1>1 DEF Lies
      <3> HIDE DEF a0, x, y
      <3>7. a0 + x # a0 + y BY <3>3, <3>4, <3>5, <3>6
      <3> QED BY <3>2, <3>3, <3>4, <3>7 DEF a0
    <2> QED BY <2>1, <2>2
  <1> HIDE DEF n, p, at, to
  <1>5. Content(Spread(memory, Blocks[b][c], at, i, value), Blocks[g][h], to, r) =
            Content(memory, Blocks[g][h], to, r)
    BY <1>1, <1>2, <1>a, <1>4, SpreadElsewhere
  <1> QED BY <1>5 DEF at, to, CellIn, Written

Indexes(i, v, b, c) == Scalar(b, c) \/ i \in Rows(b, c, view[v][b].elements_)

LEMMA WriteChanges ==
    ASSUME IInv, UseInv, loop = Idle, UNCHANGED layoutVars, NEW v \in DOMAIN view,
           NEW b \in DOMAIN Blocks, NEW c \in DOMAIN Blocks[b], NEW i,
           Indexes(i, v, b, c), NEW value,
           memory' = Spread(memory, Blocks[b][c], view[v][b].columns[c], i, value)
    PROVE  Table!OnlyChanges({Table!Shown(v, b, c, i)})
  <1> DEFINE f == view[v][b].from[c]
             j == IF Scalar(b, c) THEN 0 ELSE i
             n == view[v][b].elements_
  <1>0. TypeOK /\ BuffersApart /\ ViewsShow BY DEF IInv, UseInv
  <1> PICK o \in [Storages -> Tables] : Follows(o) BY DEF IInv
  <1>1. ShowsColumn(v, b, c, f[1], f[2], f[3]) BY <1>0, Shown
  <1>2. /\ f[1] \in Storages /\ Complete(f[1]) /\ f[2] \in DOMAIN Blocks
        /\ f[3] \in DOMAIN Blocks[f[2]] /\ Blocks[f[2]][f[3]] = Blocks[b][c]
        /\ view[v][b].columns[c] = layout[f[1]][f[2]].columns[f[3]]
        /\ n = layout[f[1]][f[2]].elements_
    BY <1>1 DEF ShowsColumn
  <1>3. Table!Shown(v, b, c, i) = <<f[1], f[2], f[3], j>>
    BY ViewsNow DEF Table!Shown, Table!Scalar, Scalar
  <1>4. j \in Rows(f[2], f[3], layout[f[1]][f[2]].elements_)
    <2>1. Rows(f[2], f[3], n) = Rows(b, c, n) BY <1>0, <1>1, ShownLies
    <2>2. Scalar(b, c) => Rows(b, c, n) = 0 .. 0 BY DEF Rows
    <2>3. j \in Rows(b, c, n) BY <2>2 DEF Indexes
    <2> QED BY <1>2, <2>1, <2>3
  <1>5. memory' = Spread(memory, Blocks[f[2]][f[3]], layout[f[1]][f[2]].columns[f[3]], j, value)
    <2>1. CASE Scalar(b, c)
      <3>1. \A at : ElementBytes(Blocks[b][c], at, i) = ElementBytes(Blocks[b][c], at, j)
        BY <2>1 DEF ElementBytes, Scalar
      <3>2. memory' = Spread(memory, Blocks[b][c], view[v][b].columns[c], j, value)
        BY <3>1 DEF Spread
      <3> HIDE DEF f, j
      <3> QED BY <1>2, <3>2
    <2>2. CASE ~Scalar(b, c)
      <3>1. j = i BY <2>2
      <3> HIDE DEF f, j
      <3> QED BY <1>2, <3>1
    <2> QED BY <2>1, <2>2
  <1> HIDE DEF f, j, n
  <1>6. IsCell(f[1], f[2], f[3], j) BY <1>2, <1>4 DEF IsCell
  <1>7. \A s, g, h, r : IsCell(s, g, h, r) =>
            \/ <<s, g, h, r>> \in {<<f[1], f[2], f[3], j>>}
            \/ CellIn(memory', s, g, h, r) = CellIn(memory, s, g, h, r)
    <2> SUFFICES ASSUME NEW s, NEW g, NEW h, NEW r, IsCell(s, g, h, r),
                        <<s, g, h, r>> # <<f[1], f[2], f[3], j>>
                 PROVE  CellIn(memory', s, g, h, r) = CellIn(memory, s, g, h, r)
      OBVIOUS
    <2>1. CellIn(Written(f[1], f[2], f[3], j, value), s, g, h, r) = CellIn(memory, s, g, h, r)
      BY <1>6, SpreadAt
    <2> QED BY <1>5, <2>1 DEF Written
  <1>8. Table!OnlyChanges({<<f[1], f[2], f[3], j>>}) BY <1>7, CellsChanged
  <1> QED BY <1>3, <1>8

(* ... and the element holds what was written.                              *)
LEMMA WriteArrives ==
    ASSUME IInv, UseInv, loop = Idle, NEW v \in DOMAIN view,
           NEW b \in DOMAIN Blocks, NEW c \in DOMAIN Blocks[b], NEW i,
           Indexes(i, v, b, c), NEW value
    PROVE  LET new == Content(Spread(memory, Blocks[b][c], view[v][b].columns[c], i, value),
                              Blocks[b][c], view[v][b].columns[c], i)
           IN  /\ DOMAIN new = 0 .. Width(Blocks[b][c]) - 1
               /\ \A k \in 0 .. Width(Blocks[b][c]) - 1 : new[k] = value[k]
  <1> DEFINE f == view[v][b].from[c]
             j == IF Scalar(b, c) THEN 0 ELSE i
             n == view[v][b].elements_
             at == view[v][b].columns[c]
             new == Content(Spread(memory, Blocks[b][c], at, i, value), Blocks[b][c], at, i)
  <1>0. TypeOK /\ BuffersApart /\ ViewsShow BY DEF IInv, UseInv
  <1> PICK o \in [Storages -> Tables] : Follows(o) BY DEF IInv
  <1>1. ShowsColumn(v, b, c, f[1], f[2], f[3]) BY <1>0, Shown
  <1>2. Lies(b, c, n, at) /\ Region(b, c, n, at) \subseteq Address BY <1>0, <1>1, ShownLies
  <1>3. j \in Rows(b, c, n)
    <2>1. Scalar(b, c) => Rows(b, c, n) = 0 .. 0 BY DEF Rows
    <2> QED BY <2>1 DEF Indexes
  <1>4. Region(b, c, n, at) \subseteq DOMAIN memory BY <1>0, <1>2 DEF TypeOK
  <1> HIDE DEF n, at, f
  <1>5. ElementBytes(Blocks[b][c], at, i) = ElementBytes(Blocks[b][c], at, j)
    BY DEF ElementBytes, Scalar
  <1>6. new = Content(Spread(memory, Blocks[b][c], at, j, value), Blocks[b][c], at, j)
    BY <1>5 DEF Spread, Content
  <1> HIDE DEF j
  <1>7. ASSUME NEW k \in 0 .. Width(Blocks[b][c]) - 1
        PROVE  new[k] = value[k]
    <2>1. Content(Spread(memory, Blocks[b][c], at, j, value), Blocks[b][c], at, j)[k] = value[k]
      BY <1>2, <1>3, <1>4, SpreadThere
    <2> HIDE DEF new
    <2> QED BY <1>6, <2>1
  <1>8. DOMAIN new = 0 .. Width(Blocks[b][c]) - 1 BY DEF Content, Width
  <1> QED BY <1>7, <1>8 DEF at

(* An element's bytes are bytes of the memory.                              *)
LEMMA ReadsMemory ==
    ASSUME IInv, UseInv, loop = Idle, NEW v \in DOMAIN view,
           NEW b \in DOMAIN Blocks, NEW c \in DOMAIN Blocks[b], NEW i, Indexes(i, v, b, c)
    PROVE  \E a \in Address : Content(memory, Blocks[b][c], view[v][b].columns[c], i)[0] = memory[a]
  <1> DEFINE f == view[v][b].from[c]
             j == IF Scalar(b, c) THEN 0 ELSE i
             n == view[v][b].elements_
             at == view[v][b].columns[c]
  <1>0. TypeOK /\ BuffersApart /\ ViewsShow BY DEF IInv, UseInv
  <1> PICK o \in [Storages -> Tables] : Follows(o) BY DEF IInv
  <1>1. ShowsColumn(v, b, c, f[1], f[2], f[3]) BY <1>0, Shown
  <1>2. Lies(b, c, n, at) /\ Region(b, c, n, at) \subseteq Address BY <1>0, <1>1, ShownLies
  <1>3. j \in Rows(b, c, n)
    <2>1. Scalar(b, c) => Rows(b, c, n) = 0 .. 0 BY DEF Rows
    <2> QED BY <2>1 DEF Indexes
  <1> HIDE DEF n, at, f
  <1>4. ElementBytes(Blocks[b][c], at, i) = ElementBytes(Blocks[b][c], at, j)
    BY DEF ElementBytes, Scalar
  <1> HIDE DEF j
  <1>5. 0 \in 0 .. Width(Blocks[b][c]) - 1 BY ElementNotEmpty
  <1>6. ElementBytes(Blocks[b][c], at, j)[0] \in Address BY <1>2, <1>3, <1>5, ElementInRegion
  <1>7. Content(memory, Blocks[b][c], at, i)[0] = memory[ElementBytes(Blocks[b][c], at, j)[0]]
    BY <1>4, <1>5 DEF Content, Width
  <1>8. \E a \in Address : Content(memory, Blocks[b][c], at, i)[0] = memory[a] BY <1>6, <1>7
  <1> QED BY <1>8 DEF at

LEMMA SetRefines ==
    ASSUME IInv, UseInv, NEW v \in DOMAIN view, NEW b \in DOMAIN Blocks, NEW c \in DOMAIN Blocks[b],
           NEW i \in Nat, Set(v, b, c, i)
    PROVE  Table!Set \/ Table!Plain
  <1>1. UNCHANGED layoutVars /\ view' = view /\ loop = Idle
    BY DEF Set, UsesView, Client
  <1>2. ViewsMade' = ViewsMade BY <1>1, SameTables
  <1>3. CASE Accessible(v, b, c, i)
    <2> DEFINE col == Blocks[b][c]
               at == view[v][b].columns[c]
               cell == Table!Shown(v, b, c, i)
    <2>1. /\ memory' = Spread(memory, col, at, i, Fresh)
          /\ result' = [call |-> "set", kind |-> "ok", at |-> <<v, b, c, i>>]
      BY <1>3 DEF Set
    <2>2. Scalar(b, c) \/ i < view[v][b].elements_ BY <1>3 DEF Accessible, InRange
    <2>3. Indexes(i, v, b, c) BY <1>1, <2>2, RowThere DEF Indexes
    <2>4. Table!Scalar(b, c) \/ i < ViewsMade[v][b].rows
      BY <2>2, ViewsNow DEF Table!Scalar, Scalar
    <2>5. /\ Table!Of(TablesMade, cell) = Content(memory, col, at, i)
          /\ Table!Of(TablesMade', cell) = Content(memory', col, at, i)
      BY <1>1, <2>3, ElementShown DEF Indexes
    <2> DEFINE new == Content(memory', col, at, i)
    <2>6. DOMAIN new = 0 .. Width(col) - 1 /\ \A k \in 0 .. Width(col) - 1 : new[k] = Fresh[k]
      BY <1>1, <2>1, <2>3, WriteArrives
    <2>7. 0 \in 0 .. Width(col) - 1 /\ Width(col) \in Nat BY ElementNotEmpty
    <2>8. \A k \in 0 .. Width(col) - 1 : Fresh[k] = -(calls + 1) BY <2>7 DEF Fresh
    <2>9. \E a \in Address : Content(memory, col, at, i)[0] = memory[a]
      BY <1>1, <2>3, ReadsMemory
    <2> DEFINE old == Content(memory, col, at, i)
    <2> HIDE DEF new, old, col
    <2>10. old[0] \in Int /\ old[0] >= -calls /\ calls \in Nat
      BY <2>9, BoundsAssumption DEF UseInv, BytesWritten, IInv, TypeOK, old
    <2>11. \A k \in DOMAIN new : new[k] = new[0] BY <2>6, <2>7, <2>8
    <2>12. new[0] = -(calls + 1) BY <2>6, <2>7, <2>8
    <2>13. new # old
      <3>1. new[0] # old[0] BY <2>10, <2>12
      <3> QED BY <3>1
    <2>14. Table!OnlyChanges({cell})
      BY <1>1, <2>1, <2>3, WriteChanges DEF col
    <2>15. /\ \A k \in DOMAIN Table!Of(TablesMade', cell) :
                 Table!Of(TablesMade', cell)[k] = Table!Of(TablesMade', cell)[0]
           /\ Table!Of(TablesMade', cell) # Table!Of(TablesMade, cell)
      BY <2>5, <2>11, <2>13 DEF new, old
    <2>16. result'.call = "set" /\ result'.kind = "ok" /\ result'.at = <<v, b, c, i>> BY <2>1
    <2> HIDE DEF cell
    <2>17. result'.at[1] = v /\ result'.at[2] = b /\ result'.at[3] = c /\ result'.at[4] = i
      BY <2>16
    <2> QED BY <1>2, <2>4, <2>14, <2>15, <2>16, <2>17 DEF Table!Set, cell
  <1>4. CASE ~Accessible(v, b, c, i)
    <2>1. result' = [call |-> "set", kind |-> "out_of_range"] /\ memory' = memory
      BY <1>4 DEF Set, Return
    <2>2. DOMAIN ViewsMade # {} BY ViewsNow
    <2>3. TablesMade' = TablesMade BY <1>1, <2>1, SameTables
    <2> QED BY <1>2, <2>1, <2>2, <2>3 DEF Table!Plain, Table!Returned
  <1> QED BY <1>3, <1>4

LEMMA AssignElementRefines ==
    ASSUME NEW v \in DOMAIN view, NEW w \in DOMAIN view, NEW b \in DOMAIN Blocks, NEW i, NEW j,
           AssignElement(v, b, i, w, j)
    PROVE  UNCHANGED <<TablesMade, ViewsMade, result>> \/ Table!Plain
  <1>1. UNCHANGED layoutVars /\ view' = view /\ memory' = memory BY DEF AssignElement
  <1>2. TablesMade' = TablesMade /\ ViewsMade' = ViewsMade BY <1>1, SameTables
  <1>3. result' = result \/ result' = [call |-> "assign", kind |-> "out_of_range"]
    BY DEF AssignElement, Return
  <1>4. DOMAIN ViewsMade # {} BY ViewsNow
  <1> QED BY <1>2, <1>3, <1>4 DEF Table!Plain, Table!Returned

LEMMA DeepCopyRefines ==
    ASSUME IInv, UseInv, NEW v \in DOMAIN view, NEW s \in Storages, DeepCopy(s, v)
    PROVE  UNCHANGED <<TablesMade, ViewsMade, result>> \/ Table!Plain
  <1>1. /\ UNCHANGED layoutVars /\ view' = view /\ memory' = memory /\ loop = Idle /\ Complete(s)
    BY DEF DeepCopy, UsesView, Client
  <1>2. TablesMade' = TablesMade /\ ViewsMade' = ViewsMade BY <1>1, SameTables
  <1>3. CASE Fits(s, v) BY <1>2, <1>3 DEF DeepCopy
  <1>4. CASE ~Fits(s, v)
    <2>1. result' = [call |-> "deepCopy", kind |-> "runtime_error"] BY <1>4 DEF DeepCopy, Return
    <2>2. PICK b \in DOMAIN Blocks : ~(layout[s][b].elements_ >= view[v][b].elements_)
      BY <1>4 DEF Fits
    <2>3. 1 \in DOMAIN Blocks[b] BY Numbers
    <2>4. view[v][b].elements_ \in Nat
      <3>1. 0 \in Nat OBVIOUS
      <3> QED BY <1>1, <2>3, <3>1, RowThere
    <2>5. layout[s][b].elements_ \in Nat
      <3> PICK o \in [Storages -> Tables] : Follows(o) BY DEF IInv
      <3>1. Lies(b, 1, layout[s][b].elements_, layout[s][b].columns[1])
        BY <1>1, <2>3, WholeLies DEF IInv
      <3> QED BY <3>1 DEF Lies
    <2>6. view[v][b].elements_ > layout[s][b].elements_ BY <2>2, <2>4, <2>5
    <2>7. /\ s \in DOMAIN TablesMade /\ v \in DOMAIN ViewsMade
          /\ ViewsMade[v][b].rows > TablesMade[s][b].rows
      BY <1>1, <2>6, TablesNow, ViewsNow
    <2> QED BY <1>2, <2>1, <2>7 DEF Table!Plain, Table!Returned
  <1> QED BY <1>3, <1>4

LEMMA AssignColumnRefines ==
    ASSUME IInv, UseInv, AssignColumn
    PROVE  \/ UNCHANGED <<TablesMade, ViewsMade, result>>
           \/ Table!Plain
           \/ \E v \in DOMAIN ViewsMade, w \in DOMAIN ViewsMade, b \in DOMAIN Blocks :
                  \E c \in DOMAIN Blocks[b] :
                      \E r \in 0 .. ViewsMade[v][b].rows - 1, q \in 0 .. ViewsMade[w][b].rows - 1 :
                          ~Table!Scalar(b, c) /\ Table!AssignCell(v, b, c, r, w, q)
  <1> DEFINE v == copying.to
             w == copying.from
             b == copying.block
             c == copying.column
             i == copying.row
             j == copying.fromRow
  <1>0. TypeOK /\ BuffersApart /\ ViewsShow /\ LoopsCopy BY DEF IInv, UseInv
  <1> PICK o \in [Storages -> Tables] : Follows(o) BY DEF IInv
  <1>1. /\ copying.call = "assign" /\ copying # NotCopying
        /\ UNCHANGED layoutVars /\ view' = view
        /\ \/ result' = result
           \/ result' = [call |-> "assign", kind |-> "ok"]
    BY DEF AssignColumn, NotCopying, Return
  <1>2. /\ copying \in [call : {"assign"}, to : Views, from : Views, block : Nat, column : Nat,
                        row : Nat, fromRow : Nat]
        /\ loop = Idle /\ v \in DOMAIN view /\ w \in DOMAIN view
        /\ b \in DOMAIN Blocks /\ c \in DOMAIN Blocks[b]
    BY <1>0, <1>1 DEF LoopsCopy, TypeOK, NotCopying
  <1>3. ViewsMade' = ViewsMade BY <1>1, SameTables
  <1>4. CASE Scalar(b, c)
    <2>1. memory' = memory BY <1>4 DEF AssignColumn
    <2>2. TablesMade' = TablesMade BY <1>1, <2>1, SameTables
    <2> QED BY <1>1, <1>3, <2>2 DEF Table!Plain, Table!Returned
  <1>5. CASE ~Scalar(b, c)
    <2> DEFINE col == Blocks[b][c]
               old == Content(memory, col, view[w][b].columns[c], j)
               new == Content(memory', col, view[v][b].columns[c], i)
    <2>1. memory' = Spread(memory, col, view[v][b].columns[c], i, old)
      BY <1>5 DEF AssignColumn
    <2>2. i \in Rows(b, c, view[v][b].elements_) /\ j \in Rows(b, c, view[w][b].elements_)
      BY <1>0, <1>1, <1>2, <1>5, AssignedRows
    <2>3. Indexes(i, v, b, c) /\ Indexes(j, w, b, c) BY <2>2 DEF Indexes
    <2>4. DOMAIN new = 0 .. Width(col) - 1 /\ \A k \in 0 .. Width(col) - 1 : new[k] = old[k]
      <3> HIDE DEF old
      <3> QED BY <1>2, <2>1, <2>3, WriteArrives
    <2>5. DOMAIN old = 0 .. Width(col) - 1 BY DEF Content, Width
    <2>6. new = old
      <3>1. new = [k \in DOMAIN new |-> new[k]] /\ old = [k \in DOMAIN old |-> old[k]]
        BY DEF Content
      <3> HIDE DEF new, old
      <3> QED BY <2>4, <2>5, <3>1
    <2>7. Table!Of(TablesMade', Table!Shown(v, b, c, i)) = new
      BY <1>1, <1>2, <2>3, ElementShown DEF Indexes
    <2>8. Table!Of(TablesMade, Table!Shown(w, b, c, j)) = old
      BY <1>2, <2>3, ElementShown DEF Indexes
    <2>9. Table!OnlyChanges({Table!Shown(v, b, c, i)})
      <3> HIDE DEF old
      <3> QED BY <1>1, <1>2, <2>1, <2>3, WriteChanges
    <2>10. Table!AssignCell(v, b, c, i, w, j)
      BY <1>1, <1>3, <2>6, <2>7, <2>8, <2>9 DEF Table!AssignCell, Table!Loops, Table!Returned
    <2>11. ~Table!Scalar(b, c) BY <1>5 DEF Table!Scalar, Scalar
    <2>12. /\ i \in 0 .. ViewsMade[v][b].rows - 1
           /\ j \in 0 .. ViewsMade[w][b].rows - 1
      BY <1>2, <1>5, <2>2, ViewsNow DEF Rows
    <2>13. v \in DOMAIN ViewsMade /\ w \in DOMAIN ViewsMade BY <1>2, ViewsNow
    <2> HIDE DEF v, w, b, c, i, j
    <2> QED BY <1>2, <2>10, <2>11, <2>12, <2>13
  <1> QED BY <1>4, <1>5

LEMMA CopyColumnRefines ==
    ASSUME IInv, UseInv, AnyStride = FALSE, CopyColumn
    PROVE  \E v \in DOMAIN ViewsMade, s \in DOMAIN TablesMade, b \in DOMAIN Blocks :
               \E c \in DOMAIN Blocks[b] : Table!CopyColumn(s, v, b, c)
  <1> DEFINE s == copying.to
             v == copying.from
             b == copying.block
             c == copying.column
             n == layout[s][b].elements_
             m == view[v][b].elements_
             rows == IF Table!Scalar(b, c) THEN {0} ELSE 0 .. ViewsMade[v][b].rows - 1
             cells == {<<s, b, c, r>> :
                        r \in IF Table!Eigen(b, c) THEN DOMAIN TablesMade[s][b].cells[c] ELSE rows}
  <1>0. TypeOK /\ BuffersApart /\ ViewsShow /\ LoopsCopy BY DEF IInv, UseInv
  <1> PICK o \in [Storages -> Tables] : Follows(o) BY DEF IInv
  <1>1. /\ b \in DOMAIN Blocks /\ c \in DOMAIN Blocks[b] /\ copying.call = "deepCopy"
        /\ UNCHANGED layoutVars /\ view' = view
        /\ result' = result \/ result' = [call |-> "deepCopy", kind |-> "ok"]
    BY <1>0, CopyColumnStands DEF CopyColumn, Return
  <1>2. /\ loop = Idle /\ s \in Storages /\ Complete(s) /\ v \in DOMAIN view
        /\ Lies(b, c, n, layout[s][b].columns[c]) /\ m \in 0 .. n
    BY <1>0, <1>1, CopiedRun
  <1>3. ViewsMade' = ViewsMade BY <1>1, SameTables
  <1>4. rows = Rows(b, c, m)
    <2>1. ViewsMade[v][b].rows = m BY <1>1, <1>2, ViewsNow
    <2>2. CASE Scalar(b, c)
      <3>1. Rows(b, c, m) = 0 .. 0 BY <2>2 DEF Rows
      <3>2. 0 .. 0 = {0} OBVIOUS
      <3> QED BY <2>2, <3>1, <3>2 DEF Table!Scalar, Scalar
    <2>3. CASE ~Scalar(b, c) BY <2>1, <2>3 DEF Rows, Table!Scalar, Scalar
    <2> QED BY <2>2, <2>3
  <1>5. rows \subseteq Rows(b, c, n)
    <2>1. m \in Nat /\ n \in Nat /\ m <= n BY <1>2 DEF Lies
    <2> HIDE DEF n, m, rows
    <2> QED BY <1>4, <2>1 DEF Rows
  <1>6. \A d \in DOMAIN Blocks : ViewsMade[v][d].rows <= TablesMade[s][d].rows
    <2> SUFFICES ASSUME NEW d \in DOMAIN Blocks
                 PROVE  ViewsMade[v][d].rows <= TablesMade[s][d].rows
      OBVIOUS
    <2>1. 1 \in DOMAIN Blocks[d] BY Numbers
    <2>2. view[v][d].elements_ \in 0 .. layout[s][d].elements_
          /\ Lies(d, 1, layout[s][d].elements_, layout[s][d].columns[1])
      BY <1>0, <1>1, <2>1, CopiedRun
    <2>3. view[v][d].elements_ <= layout[s][d].elements_ BY <2>2 DEF Lies
    <2> QED BY <1>2, <2>3, ViewsNow, TablesNow
  <1>7. ASSUME NEW r \in rows
        PROVE  Table!Of(TablesMade', <<s, b, c, r>>) = Table!Of(TablesMade, Table!Shown(v, b, c, r))
    <2>1. r \in Rows(b, c, m) /\ r \in Rows(b, c, n) BY <1>4, <1>5
    <2>2. Table!Of(TablesMade, Table!Shown(v, b, c, r)) =
              Content(memory, Blocks[b][c], view[v][b].columns[c], r)
      BY <1>1, <1>2, <2>1, ElementShown
    <2>3. TablesMade'[s][b].cells[c][r] = Content(memory', Blocks[b][c], layout[s][b].columns[c], r)
      BY <1>1, <1>2, <2>1, TablesThen
    <2>4. Content(memory', Blocks[b][c], layout[s][b].columns[c], r) =
              Content(memory, Blocks[b][c], view[v][b].columns[c], r)
      BY <2>1, ColumnArrives
    <2>5. Table!Of(TablesMade', <<s, b, c, r>>) = TablesMade'[s][b].cells[c][r] BY DEF Table!Of
    <2> QED BY <2>2, <2>3, <2>4, <2>5
  <1>8. ASSUME NEW t, NEW g, NEW h, NEW r, IsCell(t, g, h, r)
        PROVE  <<t, g, h, r>> \in cells \/ CellIn(memory', t, g, h, r) = CellIn(memory, t, g, h, r)
    <2>1. /\ t \in Storages /\ Complete(t) /\ g \in DOMAIN Blocks /\ h \in DOMAIN Blocks[g]
          /\ r \in Rows(g, h, layout[t][g].elements_)
      BY <1>8 DEF IsCell
    <2>2. CASE <<t, g, h>> # <<s, b, c>>
      <3> DEFINE p == layout[t][g].elements_
                 at == layout[t][g].columns[h]
      <3>1. Lies(g, h, p, at) /\ Placement(t, g, h) \subseteq Address
        BY <1>0, <1>2, <2>1, WholeLies DEF BuffersApart
      <3> HIDE DEF b, c, s
      <3>2. Placement(t, g, h) \cap Placement(s, b, c) = {}
        BY <1>0, <1>1, <1>2, <2>1, <2>2, PlacementsApart
      <3>3. Region(g, h, p, at) = Placement(t, g, h) BY DEF Placement
      <3>4. OtherColumn(g, h, p, at) BY <3>1, <3>2, <3>3 DEF OtherColumn, b, c, s
      <3> HIDE DEF p, at
      <3>5. Content(memory', Blocks[g][h], at, r) = Content(memory, Blocks[g][h], at, r)
        BY <2>1, <3>4, CopyLeavesRegions DEF p
      <3> QED BY <3>5 DEF CellIn, at
    <2>3. CASE <<t, g, h>> = <<s, b, c>> /\ (r \in rows \/ Eigen(b, c))
      <3>1. t = s /\ g = b /\ h = c BY <2>3
      <3>2. Eigen(b, c) => r \in DOMAIN TablesMade[s][b].cells[c]
        BY <1>2, <2>1, <3>1, TablesNow
      <3>3. Table!Eigen(b, c) <=> Eigen(b, c) BY DEF Table!Eigen, Eigen
      <3> HIDE DEF rows, s, b, c
      <3> QED BY <2>3, <3>1, <3>2, <3>3
    <2>4. CASE <<t, g, h>> = <<s, b, c>> /\ r \notin rows /\ ~Eigen(b, c)
      <3>1. t = s /\ g = b /\ h = c BY <2>4
      <3>2. r \in Rows(b, c, n) /\ r \notin Rows(b, c, m) BY <1>4, <2>1, <2>4, <3>1
      <3>3. CellIn(memory', s, b, c, r) = CellIn(memory, s, b, c, r)
        BY <2>4, <3>2, CopyLeavesRows DEF CellIn
      <3> QED BY <3>1, <3>3
    <2> QED BY <2>2, <2>3, <2>4
  <1>9. Table!OnlyChanges(cells)
    <2> HIDE DEF cells
    <2> QED BY <1>1, <1>8, CellsChanged
  <1>10. Table!CopyColumn(s, v, b, c)
    BY <1>1, <1>3, <1>6, <1>7, <1>9 DEF Table!CopyColumn, Table!Loops, Table!Returned
  <1>11. v \in DOMAIN ViewsMade /\ s \in DOMAIN TablesMade BY <1>2, ViewsNow, TablesNow
  <1> HIDE DEF s, v, b, c
  <1> QED BY <1>1, <1>10, <1>11

-----------------------------------------------------------------------------
(* Every step of the structures of arrays is a step of their tables.        *)

LEMMA ViewRefines ==
    ASSUME AnyStride = FALSE, IInv, UseInv, ViewsShow', ViewNext
    PROVE  Table!Next \/ UNCHANGED <<TablesMade, ViewsMade, result>>
  <1>0. DOMAIN ViewsMade = DOMAIN view BY ViewsNow
  <1>1. ASSUME NEW v \in Views, NEW s \in Storages, Look(v, s) PROVE Table!Next
    BY <1>1, LookRefines DEF Table!Next
  <1>2. ASSUME NEW v \in DOMAIN view, NEW b \in DOMAIN Blocks, NEW picked \in Picks(b),
               Merge(v, b, picked)
        PROVE  Table!Next
    BY <1>0, <1>2, MergeRefines DEF Table!Next
  <1>3. ASSUME NEW v \in DOMAIN view, NEW b \in DOMAIN Blocks, NEW c \in DOMAIN Blocks[b],
               NEW i \in 0 .. view[v][b].elements_, Get(v, b, c, i) \/ Set(v, b, c, i)
        PROVE  Table!Next
    <2>1. i \in Nat OBVIOUS
    <2>2. CASE Get(v, b, c, i) BY <2>1, <2>2, GetRefines DEF Table!Next
    <2>3. CASE Set(v, b, c, i) BY <2>1, <2>3, SetRefines DEF Table!Next
    <2> QED BY <1>3, <2>2, <2>3
  <1>4. ASSUME NEW v \in DOMAIN view, NEW w \in DOMAIN view, NEW b \in DOMAIN Blocks, NEW i, NEW j,
               AssignElement(v, b, i, w, j)
        PROVE  Table!Next \/ UNCHANGED <<TablesMade, ViewsMade, result>>
    BY <1>4, AssignElementRefines DEF Table!Next
  <1>5. ASSUME NEW v \in DOMAIN view, NEW s \in Storages, DeepCopy(s, v)
        PROVE  Table!Next \/ UNCHANGED <<TablesMade, ViewsMade, result>>
    BY <1>5, DeepCopyRefines DEF Table!Next
  <1>6. ASSUME AssignColumn
        PROVE  Table!Next \/ UNCHANGED <<TablesMade, ViewsMade, result>>
    BY <1>6, AssignColumnRefines DEF Table!Next
  <1>7. ASSUME CopyColumn PROVE Table!Next
    BY <1>7, CopyColumnRefines DEF Table!Next
  <1> QED BY <1>1, <1>2, <1>3, <1>4, <1>5, <1>6, <1>7 DEF ViewNext

LEMMA StepRefines ==
    ASSUME AnyStride = FALSE
    PROVE  IInv /\ UseInv /\ [Next]_vars => [Table!Next]_(Table!vars)
  <1> SUFFICES ASSUME IInv, UseInv, [Next]_vars
               PROVE  Table!Next \/ UNCHANGED <<TablesMade, ViewsMade, result>>
    BY DEF Table!vars
  <1>0. TypeOK BY DEF IInv
  <1>1. CASE LayoutNext /\ UNCHANGED <<memory, view>>
    BY <1>1, LayoutRefines DEF Table!Next
  <1>2. CASE ViewNext
    <2>1. ViewsShow' BY UseStep DEF UseInv
    <2> QED BY <1>2, <2>1, ViewRefines
  <1>3. CASE UNCHANGED vars
    <2>1. UNCHANGED <<layoutVars, result, memory, view>> BY <1>3 DEF vars
    <2> QED BY <2>1, SameTables
  <1> QED BY <1>0, <1>1, <1>2, <1>3, StepKinds

LEMMA InitRefines == Init => Table!Init
  <1> SUFFICES ASSUME Init PROVE Table!Init
    OBVIOUS
  <1>1. \A s \in Storages : ~Complete(s) BY Numbers DEF Init, LayoutInit, Complete
  <1>2. DOMAIN TablesMade = {} BY <1>1 DEF TablesMade
  <1>3. DOMAIN ViewsMade = {} BY DEF Init, ViewsMade
  <1>4. TablesMade = [s \in DOMAIN TablesMade |-> TablesMade[s]] BY DEF TablesMade
  <1>5. ViewsMade = [v \in DOMAIN ViewsMade |-> ViewsMade[v]] BY DEF ViewsMade
  <1>6. ASSUME NEW f, f = [x \in DOMAIN f |-> f[x]], DOMAIN f = {} PROVE f = <<>>
    BY <1>6
  <1>7. result = [call |-> "none", kind |-> "ok"] BY DEF Init, LayoutInit
  <1> QED BY <1>2, <1>3, <1>4, <1>5, <1>6, <1>7 DEF Table!Init

(* Whatever columns the blocks have, whatever their sizes and alignments    *)
(* and wherever the buffers lie: accesses, assignments and copies through   *)
(* views read and change the cells they name and no others, and a call that *)
(* throws changes none - if deepCopy is called for Eigen columns of equal   *)
(* strides, which the code does not check.                                  *)
THEOREM TableImplemented ==
    ASSUME AnyStride = FALSE
    PROVE  Spec => ImplementsTable
  <1>1. Init => Table!Init BY InitRefines
  <1>2. IInv /\ UseInv /\ [Next]_vars => [Table!Next]_(Table!vars) BY StepRefines
  <1>3. Spec => [](IInv /\ UseInv) BY UseHolds
  <1> QED BY <1>1, <1>2, <1>3, PTL DEF Spec, ImplementsTable, Table!Spec
=============================================================================
