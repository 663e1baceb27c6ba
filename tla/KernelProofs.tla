---------------------------- MODULE KernelProofs ----------------------------
(***************************************************************************)
(* Theorems about KernelLaunch, for every layer, work division and order   *)
(* of the threads: the type invariant; no output is written twice; when    *)
(* the launch is done every element of the kernel's loop has been computed *)
(* and every output holds the value its element computes.  And about the   *)
(* kernels, for all extents: the windows of the pools are the cells their  *)
(* definitions name, the rows of a softmax are apart, and flat offsets     *)
(* stay within their buffer.  And about the compiler: the kernel it emits  *)
(* for a node is built for the tensors of the node, so that no launch      *)
(* leaves its buffers, and each of its steps computes what the node means, *)
(* so that a launch of a compiled layer writes nothing else.               *)
(***************************************************************************)
EXTENDS KernelLaunch, FiniteSetTheorems, SequenceTheorems, NaturalsInduction, WellFoundedInduction, TLAPS

(***************************************************************************)
(* Arithmetic.                                                             *)
(***************************************************************************)
LEMMA DivMod ==
    ASSUME NEW a \in Int, NEW d \in Nat \ {0}
    PROVE  /\ a \div d \in Int /\ a % d \in 0 .. d - 1
           /\ a = d * (a \div d) + (a % d)
           /\ a \in Nat => a \div d \in Nat
  OBVIOUS

(* A product grows with its factors. *)
LEMMA Monotonic ==
    ASSUME NEW a \in Int, NEW b \in Int, NEW d \in Nat, a <= b
    PROVE  a * d <= b * d /\ d * a <= d * b
<1>1. PICK c \in Nat : b = a + c
  <2>1. b - a \in Nat /\ b = a + (b - a)
    OBVIOUS
  <2> QED
    BY <2>1
<1>2. b * d = a * d + c * d /\ c * d \in Nat
  BY <1>1
<1> QED
  BY <1>2

(* a * d <= x < (a + 1) * d names a. *)
LEMMA SameChunk ==
    ASSUME NEW a \in Int, NEW b \in Int, NEW d \in Nat, NEW x \in Int,
           a * d <= x, x < a * d + d, b * d <= x, x < b * d + d
    PROVE  a = b
<1>1. ASSUME NEW p \in Int, NEW q \in Int, p < q, q * d <= x, x < p * d + d
      PROVE  FALSE
  <2>1. (p + 1) * d <= q * d
    BY <1>1, Monotonic
  <2>2. (p + 1) * d = p * d + d
    OBVIOUS
  <2>3. p * d \in Int /\ q * d \in Int
    OBVIOUS
  <2> QED
    BY <1>1, <2>1, <2>2, <2>3
<1> QED
  BY <1>1

(* floor(p / d) <= y, and y < ceil(p / d). *)
LEMMA FloorAtMost ==
    ASSUME NEW p \in Int, NEW d \in Nat \ {0}, NEW y \in Int
    PROVE  p \div d <= y <=> p < (y + 1) * d
<1> DEFINE q == p \div d
<1>1. q \in Int /\ p % d \in 0 .. d - 1 /\ p = d * q + (p % d)
  BY DivMod
<1> HIDE DEF q
<1>2. (y + 1) * d = y * d + d /\ y * d \in Int /\ y * d = d * y
  OBVIOUS
<1>5. d * q \in Int /\ d * q <= p /\ p < d * q + d
  BY <1>1
<1>3. ASSUME q <= y PROVE p < (y + 1) * d
  <2>1. d * q <= d * y
    BY <1>1, <1>3, Monotonic
  <2> QED
    BY <1>2, <1>5, <2>1
<1>4. ASSUME p < (y + 1) * d PROVE q <= y
  <2>1. SUFFICES ASSUME y + 1 <= q PROVE FALSE
    BY <1>1
  <2>2. d * (y + 1) <= d * q
    BY <1>1, <2>1, Monotonic
  <2>3. d * (y + 1) = (y + 1) * d
    OBVIOUS
  <2> QED
    BY <1>2, <1>4, <1>5, <2>2, <2>3
<1> QED
  BY <1>3, <1>4 DEF q

(* y lies below the quotient rounded up. *)
LEMMA BelowCeiling ==
    ASSUME NEW p \in Int, NEW d \in Nat \ {0}, NEW y \in Int
    PROVE  y < (p + d - 1) \div d <=> y * d < p
<1>1. (p + d - 1) \div d \in Int
  BY DivMod
<1>2. (p + d - 1) \div d <= y <=> p + d - 1 < (y + 1) * d
  BY FloorAtMost
<1>3. (y + 1) * d = y * d + d /\ y * d \in Int
  OBVIOUS
<1> QED
  BY <1>1, <1>2, <1>3

(***************************************************************************)
(* Windows.                                                                *)
(***************************************************************************)
(* The window of an adaptive pool is the set of the cells that overlap the *)
(* cell of the output, for all extents, also when the output is larger     *)
(* than the input.                                                         *)
THEOREM AdaptiveWindowOverlaps ==
    ASSUME NEW in \in Nat \ {0}, NEW size \in Nat \ {0}, NEW out \in 0 .. size - 1
    PROVE  AdaptiveWindow(out, in, size) = Overlapping(out, in, size)
<1> DEFINE p == out * in
           q == (out + 1) * in
<1>1. p \in Nat /\ q \in Nat /\ (out + 1) * in + size - 1 = q + size - 1
  OBVIOUS
<1>2. p \div size \in Nat /\ (q + size - 1) \div size \in Int
  BY <1>1, DivMod
<1>3. q <= size * in
  <2>1. out + 1 <= size /\ out + 1 \in Int /\ size \in Int
    OBVIOUS
  <2> QED
    BY <2>1, Monotonic
<1> HIDE DEF p, q
<1>4. \A y \in Int : p \div size <= y <=> p < (y + 1) * size
  BY <1>1, FloorAtMost
<1>5. \A y \in Int : y < (q + size - 1) \div size <=> y * size < q
  BY <1>1, BelowCeiling
<1>6. \A y \in Nat : y * size < q => y < in
  <2>1. SUFFICES ASSUME NEW y \in Nat, y * size < q, in <= y PROVE FALSE
    OBVIOUS
  <2>2. in * size <= y * size
    BY <2>1, Monotonic
  <2>3. in * size = size * in /\ size * in \in Int /\ y * size \in Int
    OBVIOUS
  <2> QED
    BY <1>1, <1>3, <2>1, <2>2, <2>3
<1>7. AdaptiveWindow(out, in, size) = (p \div size) .. ((q + size - 1) \div size) - 1
  BY <1>1 DEF AdaptiveWindow, AdaptiveStart, AdaptiveEnd, p, q
<1>8. Overlapping(out, in, size) = {y \in 0 .. in - 1 : y * size < q /\ (y + 1) * size > p}
  BY DEF Overlapping, p, q
<1>9. ASSUME NEW y \in Int
      PROVE  y \in (p \div size) .. ((q + size - 1) \div size) - 1
                <=> y \in 0 .. in - 1 /\ y * size < q /\ (y + 1) * size > p
  <2>1. y \in (p \div size) .. ((q + size - 1) \div size) - 1
            <=> p \div size <= y /\ y < (q + size - 1) \div size
    BY <1>2
  <2>2. (y + 1) * size \in Int /\ y * size \in Int
    OBVIOUS
  <2>3. p \div size <= y => y \in Nat
    BY <1>2
  <2> QED
    BY <1>1, <1>4, <1>5, <1>6, <2>1, <2>2, <2>3
<1> QED
  BY <1>7, <1>8, <1>9, <1>2

(* The taps of a convolution or a max pool that the kernel does not skip   *)
(* are the ones the padded window has inside the input.                    *)
THEOREM TapsAreCovered ==
    ASSUME NEW in \in Nat, NEW window \in Nat, NEW stride \in Nat, NEW padding \in Nat, NEW out \in Nat
    PROVE  Taps(out, stride, window, padding, in) = Covered(out, in, window, stride, 1, padding)
<1> DEFINE s == out * stride
<1>1. s \in Nat
  OBVIOUS
<1> HIDE DEF s
<1>2. Taps(out, stride, window, padding, in) =
        {<<k, (s + k) - padding>> : k \in {k \in 0 .. window - 1 : (s + k) - padding \in 0 .. in - 1}}
  BY DEF Taps, s
<1>3. Covered(out, in, window, stride, 1, padding) =
        {c \in (0 .. window - 1) \X (0 .. in - 1) : c[2] + padding = s + c[1]}
  BY DEF Covered, s
<1>4. ASSUME NEW k \in 0 .. window - 1, NEW y \in 0 .. in - 1
      PROVE  y + padding = s + k <=> y = (s + k) - padding
  BY <1>1
<1> QED
  BY <1>2, <1>3, <1>4, <1>1

(* The clamped window of an average pool is the part of the padded window  *)
(* inside the input, as long as the padding is not wider than the window   *)
(* and size_t holds the extents.                                           *)
THEOREM ClampedIsCovered ==
    ASSUME NEW in \in Nat, NEW window \in Nat, NEW stride \in Nat, NEW padding \in Nat, NEW out \in Nat,
           padding <= window, out * stride + window < WordSize
    PROVE  Clamped(out, stride, window, padding, in) =
             {c[2] : c \in Covered(out, in, window, stride, 1, padding)}
<1> DEFINE s == out * stride
<1>1. s \in Nat
  OBVIOUS
<1>2. ((s - padding) + window) % WordSize = (s - padding) + window
  <2>1. (s - padding) + window \in 0 .. WordSize - 1
    BY <1>1, WordSizeAssumption
  <2> HIDE DEF s
  <2> QED
    BY <2>1, WordSizeAssumption
<1> HIDE DEF s
<1>3. {c[2] : c \in Covered(out, in, window, stride, 1, padding)} =
        {y \in 0 .. in - 1 : \E k \in 0 .. window - 1 : y + padding = s + k}
  <2> DEFINE cells == (0 .. window - 1) \X (0 .. in - 1)
  <2>1. Covered(out, in, window, stride, 1, padding) = {c \in cells : c[2] + padding = s + c[1]}
    BY DEF Covered, s
  <2>2. ASSUME NEW y, NEW k \in 0 .. window - 1, y \in 0 .. in - 1, y + padding = s + k
        PROVE  \E c \in {c \in cells : c[2] + padding = s + c[1]} : y = c[2]
    <3>1. <<k, y>> \in cells /\ <<k, y>>[2] = y /\ <<k, y>>[1] = k
      BY <2>2
    <3> QED
      BY <2>2, <3>1
  <2>3. ASSUME NEW c \in cells, c[2] + padding = s + c[1]
        PROVE  c[2] \in 0 .. in - 1 /\ \E k \in 0 .. window - 1 : c[2] + padding = s + k
    BY <2>3
  <2> QED
    BY <2>1, <2>2, <2>3
<1>4. Clamped(out, stride, window, padding, in) =
        (IF s - padding < 0 THEN 0 ELSE s - padding) ..
        (IF (s - padding) + window < in THEN (s - padding) + window ELSE in) - 1
  BY <1>2 DEF Clamped, s
<1>5. ASSUME NEW y \in 0 .. in - 1
      PROVE  (\E k \in 0 .. window - 1 : y + padding = s + k)
                <=> s - padding <= y /\ y < (s - padding) + window
  <2>1. ASSUME s - padding <= y, y < (s - padding) + window
        PROVE  y + padding - s \in 0 .. window - 1 /\ y + padding = s + (y + padding - s)
    BY <1>1, <2>1
  <2> QED
    BY <1>1, <2>1
<1>6. ASSUME NEW y \in Int
      PROVE  y \in (IF s - padding < 0 THEN 0 ELSE s - padding) ..
                   (IF (s - padding) + window < in THEN (s - padding) + window ELSE in) - 1
                <=> y \in 0 .. in - 1 /\ s - padding <= y /\ y < (s - padding) + window
  BY <1>1
<1>7. {y \in 0 .. in - 1 : \E k \in 0 .. window - 1 : y + padding = s + k} =
        {y \in 0 .. in - 1 : s - padding <= y /\ y < (s - padding) + window}
  BY <1>5
<1>8. Clamped(out, stride, window, padding, in) =
        {y \in 0 .. in - 1 : s - padding <= y /\ y < (s - padding) + window}
  BY <1>1, <1>4, <1>6
<1> QED
  BY <1>3, <1>7, <1>8

(***************************************************************************)
(* Flat offsets.                                                           *)
(***************************************************************************)
LEMMA Flat2 ==
    ASSUME NEW A \in Nat, NEW B \in Nat, NEW a \in 0 .. A - 1, NEW b \in 0 .. B - 1
    PROVE  a * B + b \in 0 .. A * B - 1
<1>1. a + 1 <= A /\ a + 1 \in Int /\ a \in Nat
  OBVIOUS
<1>2. (a + 1) * B <= A * B
  BY <1>1, Monotonic
<1>3. (a + 1) * B = a * B + B /\ a * B \in Nat /\ A * B \in Nat
  BY <1>1
<1> QED
  BY <1>2, <1>3

(* An offset in an image is below the product of its extents. *)
LEMMA Flat4 ==
    ASSUME NEW N \in Nat, NEW C \in Nat, NEW H \in Nat, NEW W \in Nat,
           NEW n \in 0 .. N - 1, NEW c \in 0 .. C - 1, NEW h \in 0 .. H - 1, NEW w \in 0 .. W - 1
    PROVE  n * C * H * W + c * H * W + h * W + w \in 0 .. N * C * H * W - 1
<1>1. n * C + c \in 0 .. N * C - 1 /\ N * C \in Nat
  BY Flat2
<1>2. (n * C + c) * H + h \in 0 .. N * C * H - 1 /\ N * C * H \in Nat
  BY <1>1, Flat2
<1>3. ((n * C + c) * H + h) * W + w \in 0 .. N * C * H * W - 1
  BY <1>2, Flat2
<1>4. n * C \in Nat /\ c \in Nat /\ h \in Nat /\ w \in Nat
  OBVIOUS
<1>5. (n * C + c) * H = n * C * H + c * H /\ n * C * H \in Nat /\ c * H \in Nat
  BY <1>4
<1>6. (n * C * H + c * H + h) * W = n * C * H * W + c * H * W + h * W
  <2>1. (n * C * H + c * H + h) * W = (n * C * H + c * H) * W + h * W
    BY <1>4, <1>5
  <2>2. (n * C * H + c * H) * W = n * C * H * W + c * H * W
    BY <1>5
  <2> QED
    BY <2>1, <2>2
<1> QED
  BY <1>3, <1>5, <1>6

(* A quotient of an index is below the number of its blocks. *)
LEMMA DivBelow ==
    ASSUME NEW a \in Nat, NEW d \in Nat \ {0}, NEW x \in 0 .. a * d - 1
    PROVE  x \div d \in 0 .. a - 1
<1> DEFINE q == x \div d
<1>1. x \in Int /\ x \in Nat /\ a * d \in Nat /\ x < a * d
  OBVIOUS
<1>2. q \in Nat /\ x % d \in 0 .. d - 1 /\ x = d * q + (x % d)
  BY <1>1, DivMod
<1> HIDE DEF q
<1>3. ASSUME a <= q PROVE FALSE
  <2>1. d * a <= d * q /\ d * a = a * d /\ d * q \in Nat
    BY <1>2, <1>3, Monotonic
  <2> QED
    BY <1>1, <1>2, <2>1
<1>4. q \in 0 .. a - 1
  BY <1>2, <1>3
<1> QED
  BY <1>4 DEF q

(* A step decodes its number into an output of the layer. *)
LEMMA DecodeInside ==
    ASSUME NEW N \in Nat, NEW C \in Nat \ {0}, NEW H \in Nat \ {0}, NEW W \in Nat \ {0},
           NEW i \in 0 .. N * C * H * W - 1
    PROVE  LET o == Decode(i, C, H, W)
           IN  o.n \in 0 .. N - 1 /\ o.c \in 0 .. C - 1 /\ o.h \in 0 .. H - 1 /\ o.w \in 0 .. W - 1
<1>1. N * C \in Nat /\ N * C * H \in Nat
  OBVIOUS
<1> DEFINE a == i \div W
           b == a \div H
<1>2. a \in 0 .. N * C * H - 1
  BY <1>1, DivBelow
<1>3. i \in Int /\ i % W \in 0 .. W - 1
  <2>1. i \in Int
    OBVIOUS
  <2> QED
    BY <2>1, DivMod
<1> HIDE DEF a
<1>4. b \in 0 .. N * C - 1
  BY <1>1, <1>2, DivBelow
<1>5. a % H \in 0 .. H - 1
  <2>1. a \in Int
    BY <1>2
  <2> QED
    BY <2>1, DivMod
<1> HIDE DEF b
<1>6. b \div C \in 0 .. N - 1
  BY <1>4, DivBelow
<1>7. b % C \in 0 .. C - 1
  <2>1. b \in Int
    BY <1>4
  <2> QED
    BY <2>1, DivMod
<1> QED
  BY <1>3, <1>5, <1>6, <1>7 DEF Decode, a, b

(* A convolution reads its input, its weights and its bias only where they *)
(* have elements, whatever the extents, the stride and the padding.        *)
THEOREM ConvStaysInside ==
    ASSUME NEW k, k.impl = "Conv2d", ImageExtents(k.T), k.T.OutChannels \in Nat \ {0},
           k.T.KernelHeight \in Nat, k.T.KernelWidth \in Nat,
           NEW i \in 0 .. NumberOfElements(k) - 1, NEW r \in Reads(Conv2dValue(k, i))
    PROVE  LET T == k.T
           IN  \/ r[1] = "input" /\ r[2] \in 0 .. T.BatchSize * T.InChannels * T.InHeight * T.InWidth - 1
               \/ r[1] = "weights" /\
                    r[2] \in 0 .. T.OutChannels * T.InChannels * T.KernelHeight * T.KernelWidth - 1
               \/ T.Bias /\ r[1] = "bias" /\ r[2] \in 0 .. T.OutChannels - 1
<1> DEFINE T == k.T
           o == Decode(i, T.OutChannels, OutHeight(T), OutWidth(T))
           hs == Taps(o.h, T.StrideHeight, T.KernelHeight, T.PaddingHeight, T.InHeight)
           ws == Taps(o.w, T.StrideWidth, T.KernelWidth, T.PaddingWidth, T.InWidth)
           weight(c, kh, kw) ==
               o.c * T.InChannels * T.KernelHeight * T.KernelWidth +
               c * T.KernelHeight * T.KernelWidth + kh * T.KernelWidth + kw
           term(c, h, w) == <<<<"input", InputOffset(T, o.n, c, h[2], w[2])>>,
                              <<"weights", weight(c, h[1], w[1])>>>>
           own == IF T.Bias THEN <<<<"bias", o.c>>>> ELSE <<>>
           terms == {term(c, h, w) : c \in 0 .. T.InChannels - 1, h \in hs, w \in ws}
<1>1. o.n \in 0 .. T.BatchSize - 1 /\ o.c \in 0 .. T.OutChannels - 1
  <2>1. i \in 0 .. T.BatchSize * T.OutChannels * OutHeight(T) * OutWidth(T) - 1
    BY DEF NumberOfElements
  <2> QED
    BY <2>1, DecodeInside DEF ImageExtents, Positive
<1>2. /\ \A h \in hs : h[1] \in 0 .. T.KernelHeight - 1 /\ h[2] \in 0 .. T.InHeight - 1
      /\ \A w \in ws : w[1] \in 0 .. T.KernelWidth - 1 /\ w[2] \in 0 .. T.InWidth - 1
  BY DEF Taps
<1>3. Conv2dValue(k, i).own = own /\ Conv2dValue(k, i).terms = terms
  BY DEF Conv2dValue, Value
<1> HIDE DEF o, hs, ws
<1>4. ASSUME NEW c \in 0 .. T.InChannels - 1, NEW h \in hs, NEW w \in ws
      PROVE  /\ InputOffset(T, o.n, c, h[2], w[2])
                    \in 0 .. T.BatchSize * T.InChannels * T.InHeight * T.InWidth - 1
             /\ weight(c, h[1], w[1])
                    \in 0 .. T.OutChannels * T.InChannels * T.KernelHeight * T.KernelWidth - 1
  BY <1>1, <1>2, Flat4 DEF InputOffset, ImageExtents, Positive
<1>5. CASE \E j \in DOMAIN own : r = own[j]
  BY <1>1, <1>5
<1>6. CASE \E p \in terms : \E j \in DOMAIN p : r = p[j]
  <2>1. PICK p \in terms : \E j \in DOMAIN p : r = p[j]
    BY <1>6
  <2>2. PICK c \in 0 .. T.InChannels - 1, h \in hs, w \in ws : p = term(c, h, w)
    <3> HIDE DEF term, T
    <3> QED
      OBVIOUS
  <2> DEFINE x == InputOffset(T, o.n, c, h[2], w[2])
             y == weight(c, h[1], w[1])
  <2>3. p = <<<<"input", x>>, <<"weights", y>>>>
    BY <2>2
  <2>4. /\ x \in 0 .. T.BatchSize * T.InChannels * T.InHeight * T.InWidth - 1
        /\ y \in 0 .. T.OutChannels * T.InChannels * T.KernelHeight * T.KernelWidth - 1
    BY <1>4
  <2> HIDE DEF x, y
  <2>5. r = <<"input", x>> \/ r = <<"weights", y>>
    BY <2>1, <2>3
  <2> HIDE DEF T
  <2>6. CASE r = <<"input", x>>
    BY <2>4, <2>6 DEF T
  <2>7. CASE r = <<"weights", y>>
    BY <2>4, <2>7 DEF T
  <2> QED
    BY <2>5, <2>6, <2>7
<1> QED
  BY <1>3, <1>5, <1>6 DEF Reads

(* A pool that visits rows and columns of the input reads only inside it.  *)
LEMMA PooledInside ==
    ASSUME NEW k, ImageExtents(k.T), NEW reduce, NEW o, NEW divisor,
           o.n \in 0 .. k.T.BatchSize - 1, o.c \in 0 .. k.T.InChannels - 1,
           NEW hs \in SUBSET (0 .. k.T.InHeight - 1), NEW ws \in SUBSET (0 .. k.T.InWidth - 1),
           NEW r \in Reads(Pooled(k, reduce, o, hs, ws, divisor))
    PROVE  r[1] = "input" /\
           r[2] \in 0 .. k.T.BatchSize * k.T.InChannels * k.T.InHeight * k.T.InWidth - 1
<1> DEFINE T == k.T
           term(h, w) == <<<<"input", InputOffset(T, o.n, o.c, h, w)>>>>
           terms == {term(h, w) : h \in hs, w \in ws}
<1>1. Pooled(k, reduce, o, hs, ws, divisor).own = <<>> /\ Pooled(k, reduce, o, hs, ws, divisor).terms = terms
  BY DEF Pooled, Value
<1>2. PICK p \in terms : \E j \in DOMAIN p : r = p[j]
  <2> DEFINE v == Pooled(k, reduce, o, hs, ws, divisor)
  <2>1. r \in {v.own[j] : j \in DOMAIN v.own} \cup UNION {{p[j] : j \in DOMAIN p} : p \in v.terms}
    BY DEF Reads
  <2>2. v.own = <<>> /\ v.terms = terms
    BY <1>1
  <2> HIDE DEF v, terms
  <2>3. DOMAIN v.own = {}
    BY <2>2
  <2>4. PICK p \in terms : r \in {p[j] : j \in DOMAIN p}
    BY <2>1, <2>2, <2>3
  <2> QED
    BY <2>4
<1>3. PICK h \in hs, w \in ws : p = term(h, w)
  <2> HIDE DEF term
  <2> QED
    OBVIOUS
<1> DEFINE x == InputOffset(T, o.n, o.c, h, w)
<1>4. r = <<"input", x>>
  <2>1. p = <<<<"input", x>>>>
    BY <1>3
  <2> HIDE DEF x
  <2> QED
    BY <1>2, <2>1
<1>5. x \in 0 .. T.BatchSize * T.InChannels * T.InHeight * T.InWidth - 1
  <2>1. /\ T.BatchSize \in Nat /\ T.InChannels \in Nat /\ T.InHeight \in Nat /\ T.InWidth \in Nat
        /\ o.n \in 0 .. T.BatchSize - 1 /\ o.c \in 0 .. T.InChannels - 1
        /\ h \in 0 .. T.InHeight - 1 /\ w \in 0 .. T.InWidth - 1
    BY DEF ImageExtents, Positive
  <2> HIDE DEF T, x, terms, term
  <2>2. o.n * T.InChannels * T.InHeight * T.InWidth + o.c * T.InHeight * T.InWidth + h * T.InWidth + w
            \in 0 .. T.BatchSize * T.InChannels * T.InHeight * T.InWidth - 1
    BY ONLY <2>1, Flat4
  <2> QED
    BY <2>2 DEF InputOffset, x
<1> QED
  BY <1>4, <1>5

(* So do the pools: the windows are cut off at the edges of the image,     *)
(* those of an average pool also when the padding is wider than the window *)
(* and the end of one wraps around in size_t.                              *)
THEOREM PoolsStayInside ==
    ASSUME NEW k, ImageExtents(k.T),
           k.T.KernelHeight \in Nat, k.T.StrideHeight \in Nat, k.T.PaddingHeight \in Nat,
           k.T.KernelWidth \in Nat, k.T.StrideWidth \in Nat, k.T.PaddingWidth \in Nat,
           NEW i \in 0 .. k.T.BatchSize * k.T.InChannels * OutHeight(k.T) * OutWidth(k.T) - 1,
           NEW r \in Reads(MaxPool2dValue(k, i)) \cup Reads(AvgPool2dValue(k, i))
    PROVE  r[1] = "input" /\
           r[2] \in 0 .. k.T.BatchSize * k.T.InChannels * k.T.InHeight * k.T.InWidth - 1
<1> DEFINE T == k.T
           o == Decode(i, T.InChannels, OutHeight(T), OutWidth(T))
           In(taps) == {t[2] : t \in taps}
<1>1. /\ o.n \in 0 .. T.BatchSize - 1 /\ o.c \in 0 .. T.InChannels - 1
      /\ o.h \in Nat /\ o.w \in Nat
  <2>1. /\ T.BatchSize \in Nat /\ T.InChannels \in Nat \ {0}
        /\ OutHeight(T) \in Nat \ {0} /\ OutWidth(T) \in Nat \ {0}
    BY DEF ImageExtents, Positive
  <2>2. /\ o.n \in 0 .. T.BatchSize - 1 /\ o.c \in 0 .. T.InChannels - 1
        /\ o.h \in 0 .. OutHeight(T) - 1 /\ o.w \in 0 .. OutWidth(T) - 1
    BY <2>1, DecodeInside
  <2> HIDE DEF o
  <2> QED
    BY <2>1, <2>2
<1>2. ASSUME NEW out \in Nat, NEW stride \in Nat, NEW window \in Nat, NEW padding \in Nat, NEW in \in Nat
      PROVE  /\ In(Taps(out, stride, window, padding, in)) \subseteq 0 .. in - 1
             /\ Clamped(out, stride, window, padding, in) \subseteq 0 .. in - 1
  <2>1. In(Taps(out, stride, window, padding, in)) \subseteq 0 .. in - 1
    BY DEF Taps
  <2> DEFINE start == out * stride - padding
             end == (start + window) % WordSize
  <2>2. start \in Int
    <3>1. out * stride \in Int
      OBVIOUS
    <3> QED
      BY <3>1
  <2> HIDE DEF start
  <2>3. end \in Int
    BY <2>2, WordSizeAssumption
  <2> HIDE DEF end
  <2>4. Clamped(out, stride, window, padding, in) =
          (IF start < 0 THEN 0 ELSE start) .. (IF end < in THEN end ELSE in) - 1
    BY DEF Clamped, start, end
  <2>5. Clamped(out, stride, window, padding, in) \subseteq 0 .. in - 1
    BY <2>2, <2>3, <2>4
  <2> QED
    BY <2>1, <2>5
<1>3. CASE r \in Reads(MaxPool2dValue(k, i))
  <2> DEFINE hs == In(Taps(o.h, T.StrideHeight, T.KernelHeight, T.PaddingHeight, T.InHeight))
             ws == In(Taps(o.w, T.StrideWidth, T.KernelWidth, T.PaddingWidth, T.InWidth))
  <2>1. MaxPool2dValue(k, i) = Pooled(k, "max", o, hs, ws, 1)
    BY DEF MaxPool2dValue
  <2>2. T.InHeight \in Nat /\ T.InWidth \in Nat
    BY DEF ImageExtents, Positive
  <2> HIDE DEF o, In
  <2>3. hs \in SUBSET (0 .. T.InHeight - 1) /\ ws \in SUBSET (0 .. T.InWidth - 1)
    BY <1>1, <1>2, <2>2
  <2> HIDE DEF hs, ws
  <2> QED
    BY <1>1, <1>3, <2>1, <2>3, PooledInside
<1>4. CASE r \in Reads(AvgPool2dValue(k, i))
  <2> DEFINE hs == Clamped(o.h, T.StrideHeight, T.KernelHeight, T.PaddingHeight, T.InHeight)
             ws == Clamped(o.w, T.StrideWidth, T.KernelWidth, T.PaddingWidth, T.InWidth)
             area == T.KernelHeight * T.KernelWidth
  <2>1. AvgPool2dValue(k, i) = Pooled(k, "sum", o, hs, ws, area)
    BY DEF AvgPool2dValue
  <2>2. T.InHeight \in Nat /\ T.InWidth \in Nat
    BY DEF ImageExtents, Positive
  <2> HIDE DEF o, area
  <2>3. hs \in SUBSET (0 .. T.InHeight - 1) /\ ws \in SUBSET (0 .. T.InWidth - 1)
    BY <1>1, <1>2, <2>2
  <2> HIDE DEF hs, ws
  <2> QED
    BY <1>1, <1>4, <2>1, <2>3, PooledInside
<1> QED
  BY <1>3, <1>4

(***************************************************************************)
(* The rows of the kernels that write a row per step.                      *)
(***************************************************************************)
(* The row kernels never write an offset twice, provided a softmax has     *)
(* contiguous rows one after the other, as its alias gives it: this is the *)
(* part RowsApart of LayersAssumption, for all extents.                    *)
THEOREM ContiguousRowsApart ==
    ASSUME NEW k, NEW size \in Nat, NumberOfElements(k) \in Nat,
           k.impl \in RowKernels,
           k.impl = "Softmax" =>
                k.T.ReductionSize = size /\ k.T.StrideWithinDim = 1 /\ k.T.OuterStride = size,
           k.impl \in {"LayerNorm", "RMSNorm"} => k.T.EmbeddingDim = size
    PROVE  RowsApart(k)
<1>1. ASSUME NEW r \in Nat
      PROVE  RowOf(k, r) = {r * size + d : d \in 0 .. size - 1}
  <2>1. CASE k.impl = "Softmax"
    <3>1. RowOf(k, r) = {r * size + d * 1 : d \in 0 .. size - 1}
      BY <2>1 DEF RowOf, SoftmaxRow
    <3> QED
      BY <3>1
  <2>2. CASE k.impl = "LayerNorm"
    BY <2>2 DEF RowOf, LayerNormRow
  <2>3. CASE k.impl = "RMSNorm"
    BY <2>3 DEF RowOf, RMSNormRow
  <2> QED
    BY <2>1, <2>2, <2>3 DEF RowKernels
<1>2. ASSUME NEW r \in Nat, NEW x \in RowOf(k, r)
      PROVE  x \in Nat /\ r * size <= x /\ x < r * size + size
  <2>1. r * size \in Nat
    OBVIOUS
  <2> QED
    BY <1>1, <1>2, <2>1
<1>3. ASSUME NEW r \in Nat, NEW q \in Nat, NEW x \in RowOf(k, r), x \in RowOf(k, q)
      PROVE  r = q
  <2>1. x \in Nat /\ r * size <= x /\ x < r * size + size
    BY <1>2
  <2>2. q * size <= x /\ x < q * size + size
    BY <1>2, <1>3
  <2> QED
    BY <2>1, <2>2, SameChunk
<1> QED
  BY <1>2, <1>3 DEF RowsApart

(***************************************************************************)
(* The inductive invariant of a launch.  Element i belongs to the thread   *)
(* whose number is the residue of its chunk modulo the number of threads;  *)
(* it has been computed when that thread is past it; and what has been     *)
(* written is exactly what these elements write, once each.                *)
(***************************************************************************)
ComputedBy(i) == Computes(kernel, i, Given(layer), Operands(layer))

Owner(i) == (i \div grid.elements) % NumThreads(grid)

Passed(i) == i < thread[Owner(i)].index

Steps == 0 .. NumberOfElements(kernel) - 1

(* Thread t stands in a chunk of its own. *)
InChunk(t, at) ==
    /\ at \in [first : Nat, index : Nat]
    /\ \E c \in Nat : at.first = c * grid.elements /\ c % NumThreads(grid) = t
    /\ at.first <= at.index /\ at.index < at.first + grid.elements

Launched ==
    /\ grid \in [blocks : Nat \ {0}, threads : Nat \ {0}, elements : Nat \ {0}]
    /\ DOMAIN thread = 0 .. NumThreads(grid) - 1
    /\ \A t \in DOMAIN thread : InChunk(t, thread[t])

Written ==
    /\ DOMAIN output = DOMAIN writes
    /\ \A x \in DOMAIN writes :
        /\ writes[x] = 1
        /\ \E i \in Steps : Passed(i) /\ x \in DOMAIN ComputedBy(i) /\ output[x] = ComputedBy(i)[x]
    /\ \A i \in Steps : Passed(i) => DOMAIN ComputedBy(i) \subseteq DOMAIN writes

IInv ==
    /\ layer \in Layers
    /\ phase \in {"model", "refused", "compiled", "running", "done"}
    /\ phase \in {"compiled", "running", "done"} =>
        kernel = KernelOf(layer) /\ ~(layer.via = "onnx" /\ Refused(layer))
    /\ phase \notin {"running", "done"} => writes = <<>> /\ output = <<>>
    /\ phase \in {"running", "done"} => Launched /\ Written
    /\ phase = "done" => \A i \in Steps : Passed(i)

(***************************************************************************)
(* Chunks.                                                                 *)
(***************************************************************************)
LEMMA ChunkOf ==
    ASSUME NEW c \in Int, NEW d \in Nat \ {0}, NEW i \in Int, c * d <= i, i < c * d + d
    PROVE  i \div d = c
<1> DEFINE q == i \div d
<1>1. q \in Int /\ i % d \in 0 .. d - 1 /\ i = d * q + (i % d)
  BY DivMod
<1> HIDE DEF q
<1>2. d * q = q * d /\ q * d \in Int
  BY <1>1
<1>3. q * d <= i /\ i < q * d + d
  BY <1>1, <1>2
<1>4. q = c
  BY <1>1, <1>3, SameChunk
<1> QED
  BY <1>4 DEF q

(* The chunk a grid further on belongs to the same thread, and no chunk in *)
(* between does.                                                           *)
LEMMA NextOfThread ==
    ASSUME NEW c \in Nat, NEW m \in Nat \ {0}
    PROVE  (c + m) % m = c % m
<1> DEFINE q == c \div m
           r == (c + m) \div m
<1>1. q \in Int /\ c % m \in 0 .. m - 1 /\ c = m * q + (c % m)
  BY DivMod
<1>2. r \in Int /\ (c + m) % m \in 0 .. m - 1 /\ c + m = m * r + ((c + m) % m)
  <2>1. c + m \in Int
    OBVIOUS
  <2> QED
    BY <2>1, DivMod
<1> HIDE DEF q, r
<1>3. m * q \in Int /\ (q + 1) * m = m * q + m
  BY <1>1
<1>4. (q + 1) * m <= c + m /\ c + m < (q + 1) * m + m
  BY <1>1, <1>3
<1>5. r = q + 1
  <2>1. r = (c + m) \div m
    BY DEF r
  <2>2. QED
    <3>1. q + 1 \in Int /\ c + m \in Int
      BY <1>1
    <3> QED
      BY <1>4, <2>1, <3>1, ChunkOf
<1>6. m * r = m * q + m
  BY <1>1, <1>3, <1>5
<1> QED
  BY <1>1, <1>2, <1>3, <1>6

(* The blocks of one thread are a grid apart: the next is none before      *)
(* that.                                                                   *)
LEMMA BetweenChunks ==
    ASSUME NEW c \in Nat, NEW b \in Nat, NEW m \in Nat \ {0}, b % m = c % m, b < c + m
    PROVE  b <= c
<1>1. SUFFICES ASSUME c < b PROVE FALSE
  OBVIOUS
<1> DEFINE q == c \div m
           r == b \div m
           s == c % m
<1>2. q \in Int /\ s \in 0 .. m - 1 /\ c = m * q + s
  BY DivMod
<1>3. r \in Int /\ b = m * r + s
  BY DivMod
<1> HIDE DEF q, r, s
<1>4. m * q = q * m /\ m * r = r * m /\ q * m \in Int /\ r * m \in Int
  BY <1>2, <1>3
<1>5. q * m < r * m /\ r * m < q * m + m
  BY <1>1, <1>2, <1>3, <1>4
<1>6. r = q
  BY <1>2, <1>3, <1>4, <1>5, SameChunk
<1> QED
  BY <1>5, <1>6, <1>4

(***************************************************************************)
(* What a step writes.                                                     *)
(***************************************************************************)
LEMMA StepOffsets ==
    ASSUME IInv, phase \in {"compiled", "running", "done"}
    PROVE  /\ NumberOfElements(kernel) \in Nat
           /\ \A i \in Steps : DOMAIN ComputedBy(i) \subseteq Nat
           /\ \A i, j \in Steps : i # j => DOMAIN ComputedBy(i) \cap DOMAIN ComputedBy(j) = {}
<1>1. /\ NumberOfElements(kernel) \in Nat
      /\ RowsApart(kernel)
      /\ kernel.impl \in Impls
  BY LayersAssumption DEF IInv
<1>2. CASE kernel.impl \in RowKernels
  <2>1. ASSUME NEW i \in Steps PROVE DOMAIN ComputedBy(i) = RowOf(kernel, i)
    <3>1. CASE kernel.impl = "Softmax"
      BY <3>1 DEF ComputedBy, Computes, RowOf
    <3>2. CASE kernel.impl = "LayerNorm"
      BY <3>2 DEF ComputedBy, Computes, RowOf, LayerNormRow
    <3>3. CASE kernel.impl = "RMSNorm"
      BY <3>3 DEF ComputedBy, Computes, RowOf, RMSNormRow
    <3> QED
      BY <1>2, <3>1, <3>2, <3>3 DEF RowKernels
  <2> QED
    BY <1>1, <1>2, <2>1 DEF RowsApart, Steps
<1>3. CASE kernel.impl \notin RowKernels
  <2>1. ASSUME NEW i \in Steps PROVE DOMAIN ComputedBy(i) = {i}
    BY <1>1, <1>3 DEF ComputedBy, Computes, Impls, RowKernels
  <2>2. ASSUME NEW i \in Steps PROVE i \in Nat
    BY <1>1 DEF Steps
  <2>3. ASSUME NEW i \in Steps, NEW j \in Steps, i # j
        PROVE  DOMAIN ComputedBy(i) \cap DOMAIN ComputedBy(j) = {}
    <3>1. DOMAIN ComputedBy(i) = {i} /\ DOMAIN ComputedBy(j) = {j}
      BY <2>1
    <3> QED
      BY <2>3, <3>1
  <2>4. \A i \in Steps : DOMAIN ComputedBy(i) \subseteq Nat
    BY <2>1, <2>2
  <2> QED
    BY <1>1, <2>3, <2>4
<1> QED
  BY <1>2, <1>3

(* Where a thread is, Owner says whose the element is. *)
LEMMA ElementOfThread ==
    ASSUME Launched, NEW t \in DOMAIN thread
    PROVE  /\ t \in Nat /\ Owner(thread[t].index) = t
           /\ thread[t].index \in Nat
<1> DEFINE E == grid.elements
           G == NumThreads(grid)
<1>1. E \in Nat \ {0}
  BY DEF Launched
<1>2. PICK c \in Nat : thread[t].first = c * E /\ c % G = t
  BY DEF Launched, InChunk
<1>3. /\ thread[t].index \in Nat
      /\ thread[t].first <= thread[t].index /\ thread[t].index < thread[t].first + E
  BY DEF Launched, InChunk
<1>4. t \in Nat
  BY DEF Launched
<1> DEFINE i == thread[t].index
<1>5. i \in Nat /\ c * E <= i /\ i < c * E + E
  BY <1>2, <1>3
<1>6. Owner(i) = (i \div E) % G
  BY DEF Owner
<1> HIDE DEF E, G, i
<1>7. i \div E = c
  BY <1>1, <1>5, ChunkOf
<1> QED
  BY <1>2, <1>4, <1>5, <1>6, <1>7 DEF i

(* The elements a step of thread t passes are the one it computes, and     *)
(* others beyond the end of the loop.                                      *)
LEMMA AdvancePasses ==
    ASSUME Launched, NEW t \in DOMAIN thread, NEW n \in Nat, thread[t].index < n,
           NEW i \in 0 .. n - 1, Owner(i) = t
    PROVE  /\ InChunk(t, Advance(grid, thread[t], n))
           /\ i < Advance(grid, thread[t], n).index <=> i < thread[t].index \/ i = thread[t].index
<1> DEFINE E == grid.elements
           G == NumThreads(grid)
           at == thread[t]
           b == i \div E
<1>1. E \in Nat \ {0} /\ G \in Nat \ {0}
  BY DEF Launched, NumThreads
<1>2. PICK c \in Nat : at.first = c * E /\ c % G = t
  BY DEF Launched, InChunk
<1>3. /\ at \in [first : Nat, index : Nat]
      /\ at.first <= at.index /\ at.index < at.first + E
  BY DEF Launched, InChunk
<1>4. b % G = t
  BY DEF Owner
<1>5. b \in Nat /\ b * E <= i /\ i < b * E + E
  <2>1. b \in Nat /\ i % E \in 0 .. E - 1 /\ i = E * b + (i % E)
    <3>1. i \in Nat /\ i \in Int
      OBVIOUS
    <3> HIDE DEF E
    <3> QED
      BY <1>1, <3>1, DivMod
  <2> HIDE DEF b, E
  <2>2. E * b = b * E /\ b * E \in Int
    BY <1>1, <2>1
  <2>3. b * E <= i /\ i < b * E + E
    BY <1>1, <2>1, <2>2
  <2> QED
    BY <2>1, <2>3
<1> HIDE DEF b
<1>6. CASE at.index + 1 < at.first + E /\ at.index + 1 < n
  <2>1. Advance(grid, at, n) = [at EXCEPT !.index = at.index + 1]
    BY <1>6 DEF Advance
  <2>2. /\ Advance(grid, at, n).first = at.first /\ Advance(grid, at, n).index = at.index + 1
        /\ Advance(grid, at, n) \in [first : Nat, index : Nat]
    BY <1>3, <2>1
  <2>3. InChunk(t, Advance(grid, at, n))
    BY <1>2, <1>3, <1>6, <2>2 DEF InChunk
  <2> QED
    BY <1>3, <2>2, <2>3
<1>7. CASE ~(at.index + 1 < at.first + E /\ at.index + 1 < n)
  <2> DEFINE next == at.first + G * E
  <2>1. Advance(grid, at, n) = [first |-> next, index |-> next]
    BY <1>7 DEF Advance
  <2>2. next = (c + G) * E /\ next \in Nat /\ c + G \in Nat /\ c * E \in Nat
    BY <1>1, <1>2
  <2>3. (c + G) % G = t
    BY <1>1, <1>2, NextOfThread
  <2> HIDE DEF next
  <2>4. InChunk(t, Advance(grid, at, n))
    BY <1>1, <2>1, <2>2, <2>3 DEF InChunk
  <2>5. ASSUME i < next PROVE i < at.index \/ i = at.index
    <3>1. b < c + G
      <4>1. SUFFICES ASSUME c + G <= b PROVE FALSE
        BY <1>5, <2>2
      <4>2. (c + G) * E <= b * E
        BY <1>1, <1>5, <2>2, <4>1, Monotonic
      <4>3. b * E \in Int
        BY <1>1, <1>5
      <4> QED
        BY <1>5, <2>2, <2>5, <4>2, <4>3
    <3>2. b <= c
      BY <1>1, <1>2, <1>4, <1>5, <3>1, BetweenChunks
    <3>3. CASE b = c
      <4>1. at.first <= i /\ i < at.first + E /\ at.first \in Nat /\ at.index \in Nat
        BY <1>2, <1>3, <1>5, <3>3
      <4> HIDE DEF at, E
      <4> QED
        BY <1>1, <1>3, <1>7, <4>1
    <3>4. CASE b < c
      <4>1. (b + 1) * E <= c * E /\ (b + 1) * E = b * E + E
        BY <1>1, <1>5, <3>4, Monotonic
      <4>2. b * E \in Int
        BY <1>1, <1>5
      <4>3. b * E + E <= at.first /\ at.first <= at.index /\ at.index \in Nat /\ at.first \in Nat
        BY <1>2, <1>3, <4>1
      <4> HIDE DEF at, E
      <4> QED
        BY <1>1, <1>5, <4>2, <4>3
    <3> QED
      BY <1>5, <3>2, <3>3, <3>4
  <2>6. at.index < next
    <3>1. E <= G * E
      <4>1. 1 <= G
        BY <1>1
      <4>2. 1 * E <= G * E
        BY <1>1, <4>1, Monotonic
      <4> QED
        BY <1>1, <4>2
    <3>2. G * E \in Nat
      BY <1>1
    <3> QED
      BY <1>1, <1>2, <1>3, <2>2, <3>1, <3>2 DEF next
  <2> QED
    BY <1>3, <2>1, <2>2, <2>4, <2>5, <2>6
<1> QED
  BY <1>6, <1>7

(***************************************************************************)
(* The invariant is inductive.                                             *)
(***************************************************************************)
LEMMA InitInvariant == Init => IInv
  BY DEF Init, IInv, None

(* Compiling a layer keeps the invariant. *)
LEMMA CompileKeeps == IInv /\ Compile => IInv'
<1> SUFFICES ASSUME IInv, Compile PROVE IInv'
  OBVIOUS
<1>1. CASE layer.via = "onnx" /\ Refused(layer)
  BY <1>1 DEF IInv, Compile
<1>2. CASE ~(layer.via = "onnx" /\ Refused(layer))
  <2>1. phase' = "compiled" /\ kernel' = KernelOf(layer) /\ phase = "model"
    BY <1>2 DEF Compile
  <2>2. UNCHANGED <<layer, output, writes>>
    BY DEF Compile
  <2> QED
    BY <1>2, <2>1, <2>2 DEF IInv
<1> QED
  BY <1>1, <1>2

(* The grid of the generated code has a block for at most ThreadsPerBlock  *)
(* elements, hence at least one.                                           *)
LEMMA WorkdivPositive ==
    ASSUME IInv, phase = "compiled", NEW g \in Workdivs
    PROVE  g \in [blocks : Nat \ {0}, threads : Nat \ {0}, elements : Nat \ {0}]
<1>1. CASE layer.via = "direct"
  BY <1>1, LaunchAssumption DEF Workdivs
<1>2. CASE layer.via # "direct"
  <2>1. SizeExpr(layer) \in Nat \ {0}
    BY <1>2, LayersAssumption DEF IInv
  <2> DEFINE size == SizeExpr(layer)
             blocks == (size + ThreadsPerBlock - 1) \div ThreadsPerBlock
  <2>2. ThreadsPerBlock \in Nat \ {0}
    BY LaunchAssumption
  <2>3. g \in {MakeWorkdiv(acc, blocks, ThreadsPerBlock) : acc \in {"gpu", "cpu"}}
    BY <1>2 DEF Workdivs, DivideUpBy
  <2> HIDE DEF size
  <2>4. size \in Int /\ 0 * ThreadsPerBlock < size
    <3>1. 0 * ThreadsPerBlock = 0
      BY <2>2
    <3> QED
      BY <2>1, <3>1 DEF size
  <2>5. 0 < blocks
    BY <2>2, <2>4, BelowCeiling
  <2>6. blocks \in Nat \ {0}
    <3>1. size + ThreadsPerBlock - 1 \in Int
      BY <2>2, <2>4
    <3>2. blocks \in Int
      BY <2>2, <3>1, DivMod
    <3> QED
      BY <2>5, <3>2
  <2> HIDE DEF blocks
  <2> QED
    BY <2>2, <2>3, <2>6 DEF MakeWorkdiv
<1> QED
  BY <1>1, <1>2

(* At the start every thread stands at the first element of its first      *)
(* chunk, and none has passed any.                                         *)
LEMMA ExecKeeps == IInv /\ Exec => IInv'
<1> SUFFICES ASSUME IInv, Exec PROVE IInv'
  OBVIOUS
<1>1. PICK g \in Workdivs : grid' = g /\ thread' = Begin(g)
  BY DEF Exec
<1>2. g \in [blocks : Nat \ {0}, threads : Nat \ {0}, elements : Nat \ {0}]
  BY WorkdivPositive DEF Exec
<1>3. /\ phase = "compiled" /\ phase' = "running" /\ writes = <<>> /\ output = <<>>
      /\ UNCHANGED <<layer, kernel, output, writes>>
  BY DEF Exec, IInv
<1> DEFINE E == g.elements
           G == NumThreads(g)
<1>4. E \in Nat \ {0} /\ G \in Nat \ {0}
  BY <1>2 DEF NumThreads
<1>5. /\ DOMAIN thread' = 0 .. G - 1
      /\ \A t \in 0 .. G - 1 : thread'[t] = [first |-> t * E, index |-> t * E]
  BY <1>1 DEF Begin
<1>6. \A t \in 0 .. G - 1 : t * E \in Nat /\ t % G = t
  <2>1. SUFFICES ASSUME NEW t \in 0 .. G - 1 PROVE t * E \in Nat /\ t % G = t
    OBVIOUS
  <2>2. t \in Int /\ t \in Nat /\ 0 * G <= t /\ t < 0 * G + G
    BY <1>4
  <2> HIDE DEF E, G
  <2>3. t \div G = 0
    BY <1>4, <2>2, ChunkOf
  <2>4. t = G * (t \div G) + (t % G) /\ t % G \in Int
    BY <1>4, <2>2, DivMod
  <2> QED
    BY <1>4, <2>2, <2>3, <2>4
<1>7. Launched'
  <2>1. ASSUME NEW t \in 0 .. G - 1 PROVE InChunk(t, thread[t])'
    <3>1. thread'[t] \in [first : Nat, index : Nat]
      BY <1>5, <1>6
    <3>2. t \in Nat /\ thread'[t].first = t * E /\ t % G = t
      BY <1>4, <1>5, <1>6
    <3>3. thread'[t].first <= thread'[t].index /\ thread'[t].index < thread'[t].first + E
      BY <1>4, <1>5, <1>6
    <3> QED
      BY <1>1, <3>1, <3>2, <3>3 DEF InChunk
  <2> QED
    BY <1>1, <1>2, <1>5, <2>1 DEF Launched
<1>8. ASSUME NEW i \in Steps' PROVE ~Passed(i)'
  <2>1. i \in Nat
    BY <1>3, StepOffsets DEF Steps
  <2> DEFINE b == i \div E
             t == b % G
  <2>2. i \in Int /\ b \in Nat /\ i % E \in 0 .. E - 1 /\ i = E * b + (i % E)
    <3>1. i \in Nat /\ i \in Int
      BY <2>1
    <3> HIDE DEF E
    <3> QED
      BY <1>4, <3>1, DivMod
  <2>3. t \in 0 .. G - 1 /\ b = G * (b \div G) + t /\ b \div G \in Nat
    <3>1. b \in Nat /\ b \in Int
      BY <2>2
    <3> HIDE DEF b, G
    <3> QED
      BY <1>4, <3>1, DivMod
  <2>4. t <= b
    <3>1. G * (b \div G) \in Nat
      BY <1>4, <2>3
    <3> HIDE DEF t
    <3> QED
      BY <2>2, <2>3, <3>1
  <2>5. t * E <= b * E /\ b * E = E * b /\ b * E \in Int /\ t * E \in Int
    <3>1. t * E <= b * E
      <4>1. t \in Int /\ b \in Int /\ E \in Nat
        BY <1>4, <2>2, <2>3
      <4> HIDE DEF t, b, E
      <4> QED
        BY <2>4, <4>1, Monotonic
    <3> HIDE DEF t, b, E
    <3> QED
      BY <1>4, <2>2, <2>3, <3>1
  <2>6. thread'[t].index = t * E
    BY <1>5, <2>3
  <2>7. Passed(i)' <=> i < thread'[t].index
    BY <1>1, <1>3 DEF Passed, Owner
  <2> HIDE DEF t, b, E
  <2> QED
    BY <2>1, <2>2, <2>5, <2>6, <2>7
<1>9. Written'
  BY <1>3, <1>8 DEF Written
<1> QED
  BY <1>3, <1>7, <1>9 DEF IInv

(* The owner of an element is a thread of the grid. *)
LEMMA OwnerIsThread ==
    ASSUME Launched, NEW i \in Nat
    PROVE  Owner(i) \in DOMAIN thread
<1> DEFINE E == grid.elements
           G == NumThreads(grid)
           b == i \div E
<1>1. E \in Nat \ {0} /\ G \in Nat \ {0} /\ DOMAIN thread = 0 .. G - 1
  BY DEF Launched, NumThreads
<1>2. i \in Int /\ Owner(i) = b % G
  BY DEF Owner
<1> HIDE DEF E, G
<1>3. b \in Int
  BY <1>1, <1>2, DivMod
<1> HIDE DEF b
<1>4. b % G \in 0 .. G - 1
  BY <1>1, <1>3, DivMod
<1> QED
  BY <1>1, <1>2, <1>4

(* The step of thread t computes an element nobody has computed, so what   *)
(* it writes has not been written; after it the elements passed are the    *)
(* ones before and that one.                                               *)
LEMMA ElementKeeps ==
    ASSUME IInv, phase = "running", NEW t \in DOMAIN thread, Element(t)
    PROVE  IInv'
<1>0. SUFFICES ASSUME NEW now, now = thread[t].index PROVE IInv'
  OBVIOUS
<1> DEFINE n == NumberOfElements(kernel)
           at == thread[t]
           computed == ComputedBy(now)
<1>1. Launched /\ Written /\ kernel = KernelOf(layer)
  BY DEF IInv
<1>2. /\ n \in Nat
      /\ \A i \in Steps : DOMAIN ComputedBy(i) \subseteq Nat
      /\ \A i, j \in Steps : i # j => DOMAIN ComputedBy(i) \cap DOMAIN ComputedBy(j) = {}
  BY StepOffsets
<1>3. t \in Nat /\ Owner(now) = t /\ now \in Nat
  BY <1>0, <1>1, ElementOfThread
<1>4. now < n /\ now \in Steps
  BY <1>0, <1>2, <1>3 DEF Element, Steps
<1>5. /\ UNCHANGED <<layer, phase, kernel, grid>>
      /\ thread' = [thread EXCEPT ![t] = Advance(grid, at, n)]
  BY DEF Element
<1>6. /\ output' = [x \in DOMAIN output \cup DOMAIN computed |->
                        IF x \in DOMAIN computed THEN computed[x] ELSE output[x]]
      /\ writes' = [x \in DOMAIN writes \cup DOMAIN computed |->
                        (IF x \in DOMAIN writes THEN writes[x] ELSE 0) +
                        (IF x \in DOMAIN computed THEN 1 ELSE 0)]
  BY <1>0 DEF Element, ComputedBy
<1>7. /\ Steps' = Steps
      /\ \A i : ComputedBy(i)' = ComputedBy(i)
      /\ \A i : Owner(i)' = Owner(i)
  BY <1>5 DEF Steps, ComputedBy, Owner
<1>8. InChunk(t, Advance(grid, at, n))
  BY <1>0, <1>1, <1>2, <1>3, <1>4, AdvancePasses DEF Steps
<1>9. Launched'
  <2>1. DOMAIN thread' = DOMAIN thread
    BY <1>5
  <2>2. ASSUME NEW s \in DOMAIN thread PROVE InChunk(s, thread[s])'
    <3>1. CASE s = t
      <4>1. thread'[s] = Advance(grid, at, n)
        BY <1>5, <3>1
      <4> QED
        BY <1>5, <1>8, <3>1, <4>1 DEF InChunk
    <3>2. CASE s # t
      <4>1. thread'[s] = thread[s] /\ InChunk(s, thread[s])
        BY <1>1, <1>5, <3>2 DEF Launched
      <4> QED
        BY <1>5, <4>1 DEF InChunk
    <3> QED
      BY <3>1, <3>2
  <2> QED
    BY <1>1, <1>5, <2>1, <2>2 DEF Launched
<1>10. ASSUME NEW i \in Steps
       PROVE  Passed(i)' <=> Passed(i) \/ i = now
  <2>1. i \in 0 .. n - 1 /\ i \in Nat
    BY <1>2 DEF Steps
  <2>2. Owner(i) \in DOMAIN thread
    BY <1>1, <2>1, OwnerIsThread
  <2>3. Passed(i)' <=> i < thread'[Owner(i)].index
    BY <1>7 DEF Passed
  <2>4. CASE Owner(i) = t
    <3>1. thread'[Owner(i)] = Advance(grid, at, n)
      BY <1>5, <2>2, <2>4
    <3>2. i < Advance(grid, at, n).index <=> i < now \/ i = now
      BY <1>0, <1>1, <1>2, <1>4, <2>1, <2>4, AdvancePasses
    <3> QED
      BY <1>0, <2>3, <2>4, <3>1, <3>2 DEF Passed
  <2>5. CASE Owner(i) # t
    <3>1. thread'[Owner(i)] = thread[Owner(i)]
      BY <1>5, <2>2, <2>5
    <3>2. i # now
      BY <1>0, <1>3, <2>5
    <3> QED
      BY <2>3, <3>1, <3>2 DEF Passed
  <2> QED
    BY <2>4, <2>5
<1>11. ~Passed(now)
  BY <1>0, <1>3 DEF Passed
<1>12. ASSUME NEW x \in DOMAIN computed PROVE x \notin DOMAIN writes
  <2>1. SUFFICES ASSUME x \in DOMAIN writes PROVE FALSE
    OBVIOUS
  <2>2. PICK i \in Steps : Passed(i) /\ x \in DOMAIN ComputedBy(i)
    BY <1>1, <2>1 DEF Written
  <2>3. i # now
    BY <1>11, <2>2
  <2> QED
    BY <1>2, <1>4, <1>12, <2>2, <2>3
<1> HIDE DEF computed
<1>13. DOMAIN output' = DOMAIN writes' /\ DOMAIN writes' = DOMAIN writes \cup DOMAIN computed
  BY <1>1, <1>6 DEF Written
<1>14. ASSUME NEW x \in DOMAIN writes'
       PROVE  /\ writes'[x] = 1
              /\ \E i \in Steps : /\ Passed(i)' /\ x \in DOMAIN ComputedBy(i)
                                  /\ output'[x] = ComputedBy(i)[x]
  <2>1. CASE x \in DOMAIN computed
    <3>1. writes'[x] = 0 + 1 /\ output'[x] = computed[x]
      BY <1>6, <1>12, <1>13, <2>1
    <3>2. Passed(now)' /\ computed = ComputedBy(now)
      BY <1>4, <1>10 DEF computed
    <3> QED
      BY <1>4, <2>1, <3>1, <3>2
  <2>2. CASE x \notin DOMAIN computed
    <3>1. x \in DOMAIN writes /\ writes'[x] = writes[x] + 0
      BY <1>6, <1>13, <2>2
    <3>2. output'[x] = output[x]
      BY <1>6, <1>13, <2>2, <1>1, <3>1 DEF Written
    <3>3. writes[x] = 1
      BY <1>1, <3>1 DEF Written
    <3>4. PICK i \in Steps : /\ Passed(i) /\ x \in DOMAIN ComputedBy(i)
                             /\ output[x] = ComputedBy(i)[x]
      BY <1>1, <3>1 DEF Written
    <3>5. Passed(i)'
      BY <1>10, <3>4
    <3> QED
      BY <3>1, <3>2, <3>3, <3>4, <3>5
  <2> QED
    BY <2>1, <2>2
<1>15. ASSUME NEW i \in Steps, Passed(i)' PROVE DOMAIN ComputedBy(i) \subseteq DOMAIN writes'
  <2>1. CASE Passed(i)
    BY <1>1, <1>13, <2>1 DEF Written
  <2>2. CASE i = now
    BY <1>13, <2>2 DEF computed
  <2> QED
    BY <1>10, <1>15, <2>1, <2>2
<1>16. Written'
  <2>1. \A x \in DOMAIN writes' :
          /\ writes'[x] = 1
          /\ \E i \in Steps' : /\ Passed(i)' /\ x \in DOMAIN ComputedBy(i)'
                               /\ output'[x] = ComputedBy(i)'[x]
    BY <1>7, <1>14
  <2>2. \A i \in Steps' : Passed(i)' => DOMAIN ComputedBy(i)' \subseteq DOMAIN writes'
    BY <1>7, <1>15
  <2> QED
    BY <1>13, <2>1, <2>2 DEF Written
<1> QED
  BY <1>5, <1>9, <1>16 DEF IInv

(* Finishing a launch keeps the invariant. *)
LEMMA FinishKeeps == IInv /\ Finish => IInv'
<1> SUFFICES ASSUME IInv, Finish PROVE IInv'
  OBVIOUS
<1>1. /\ phase = "running" /\ phase' = "done"
      /\ UNCHANGED <<layer, kernel, grid, thread, output, writes>>
  BY DEF Finish
<1>2. Launched /\ Written /\ kernel = KernelOf(layer) /\ ~(layer.via = "onnx" /\ Refused(layer))
  BY <1>1 DEF IInv
<1>3. Launched' /\ Written'
  BY <1>1, <1>2 DEF Launched, InChunk, Written, Steps, Passed, Owner, ComputedBy
<1>4. NumberOfElements(kernel) \in Nat
  BY <1>1, StepOffsets
<1>5. ASSUME NEW i \in Steps PROVE Passed(i)
  <2>1. i \in Nat /\ i < NumberOfElements(kernel)
    BY <1>4 DEF Steps
  <2>2. Owner(i) \in DOMAIN thread
    BY <1>2, <2>1, OwnerIsThread
  <2>3. thread[Owner(i)].index >= NumberOfElements(kernel) /\ thread[Owner(i)].index \in Nat
    BY <1>2, <2>2, ElementOfThread DEF Finish
  <2> QED
    BY <1>4, <2>1, <2>3 DEF Passed
<1>6. (\A i \in Steps : Passed(i))'
  BY <1>1, <1>5 DEF Steps, Passed, Owner
<1> QED
  BY <1>1, <1>2, <1>3, <1>6 DEF IInv

(* Every step keeps the invariant. *)
LEMMA NextKeeps == IInv /\ [Next]_vars => IInv'
<1> SUFFICES ASSUME IInv, [Next]_vars PROVE IInv'
  OBVIOUS
<1>1. CASE Compile
  BY <1>1, CompileKeeps
<1>2. CASE Exec
  BY <1>2, ExecKeeps
<1>3. CASE \E t \in DOMAIN thread : Running(t)
  BY <1>3, ElementKeeps DEF Running
<1>4. CASE Finish
  BY <1>4, FinishKeeps
<1>5. CASE UNCHANGED vars
  BY <1>5 DEF vars, IInv, Launched, InChunk, Written, Steps, Passed, Owner, ComputedBy
<1> QED
  BY <1>1, <1>2, <1>3, <1>4, <1>5 DEF Next

(* The invariant holds in every launch. *)
THEOREM LaunchInvariant == Spec => []IInv
<1>1. Init => IInv
  BY InitInvariant
<1>2. IInv /\ [Next]_vars => IInv'
  BY NextKeeps
<1> QED
  BY <1>1, <1>2, PTL DEF Spec

(***************************************************************************)
(* What follows.                                                           *)
(***************************************************************************)
(* Type correctness, with the place of every thread: it never stands       *)
(* outside the chunk it took, whatever the grid.                           *)
THEOREM LaunchType == Spec => []TypeOK
<1>1. IInv => TypeOK
  <2> SUFFICES ASSUME IInv PROVE TypeOK
    OBVIOUS
  <2>1. DOMAIN output = DOMAIN writes /\ \A x \in DOMAIN writes : x \in Nat /\ writes[x] \in Nat \ {0}
    <3>1. CASE phase \notin {"running", "done"}
      BY <3>1 DEF IInv
    <3>2. CASE phase \in {"running", "done"}
      <4>1. \A i \in Steps : DOMAIN ComputedBy(i) \subseteq Nat
        BY <3>2, StepOffsets
      <4> QED
        BY <3>2, <4>1 DEF IInv, Written
    <3> QED
      BY <3>1, <3>2
  <2>2. ASSUME phase \in {"running", "done"}, NEW t \in DOMAIN thread
        PROVE  /\ thread[t] \in [first : Nat, index : Nat]
               /\ thread[t].index \in thread[t].first .. thread[t].first + grid.elements - 1
    BY <2>2 DEF IInv, Launched, InChunk
  <2> QED
    BY <2>1, <2>2 DEF TypeOK, IInv, Launched
<1> QED
  BY <1>1, LaunchInvariant, PTL

(* No output is written twice, by two threads or by one, for every grid,   *)
(* every number of elements and every order of the threads.                *)
THEOREM LaunchWritesOnce == Spec => []WrittenOnce
<1>1. IInv => WrittenOnce
  BY DEF IInv, Written, WrittenOnce
<1> QED
  BY <1>1, LaunchInvariant, PTL

(* When the launch is done all the work is done: every step of the loop    *)
(* has been computed, and its outputs hold what it computes.               *)
AllElementsComputed ==
    phase = "done" =>
        \A i \in Steps : \A x \in DOMAIN ComputedBy(i) :
            x \in DOMAIN output /\ output[x] = ComputedBy(i)[x]

(* No element of the loop is left out of a launch that is done. *)
THEOREM LaunchComputesAll == Spec => []AllElementsComputed
<1>1. IInv => AllElementsComputed
  <2> SUFFICES ASSUME IInv, phase = "done", NEW i \in Steps, NEW x \in DOMAIN ComputedBy(i)
               PROVE  x \in DOMAIN output /\ output[x] = ComputedBy(i)[x]
    BY DEF AllElementsComputed
  <2>1. Passed(i) /\ Written
    BY DEF IInv
  <2>2. x \in DOMAIN writes /\ DOMAIN output = DOMAIN writes
    BY <2>1 DEF Written
  <2>3. PICK j \in Steps : x \in DOMAIN ComputedBy(j) /\ output[x] = ComputedBy(j)[x]
    BY <2>1, <2>2 DEF Written
  <2>4. j = i
    BY <2>3, StepOffsets
  <2> QED
    BY <2>2, <2>3, <2>4
<1> QED
  BY <1>1, LaunchInvariant, PTL

(***************************************************************************)
(* A kernel stays inside the buffers it is built for.                      *)
(***************************************************************************)
Fits(l, r) == r[2] \in 0 .. Extent(l, r[1]) - 1

Within(l, v) == \A r \in Reads(v) : Fits(l, r)

(* An offset below the length a buffer has at least fits the buffer. *)
LEMMA HeldFits ==
    ASSUME NEW l, NEW r, NEW n \in Int, Holds(l, r[1], n), r[2] \in 0 .. n - 1
    PROVE  Fits(l, r)
BY DEF Holds, Fits

(* A number below the length the output has at least is an output. *)
LEMMA OutputFits ==
    ASSUME NEW l, NEW n \in Int, OutputHolds(l, n), NEW x \in 0 .. n - 1
    PROVE  x \in Outputs(l)
BY DEF OutputHolds, Outputs

(* A value stays within the buffers if its own reads and its terms do.     *)
LEMMA WithinParts ==
    ASSUME NEW l, NEW v, \A j \in DOMAIN v.own : Fits(l, v.own[j]),
           \A p \in v.terms : \A j \in DOMAIN p : Fits(l, p[j])
    PROVE  Within(l, v)
<1> SUFFICES ASSUME NEW r \in Reads(v) PROVE Fits(l, r)
  BY DEF Within
<1>1. \/ \E j \in DOMAIN v.own : r = v.own[j]
      \/ \E p \in v.terms : \E j \in DOMAIN p : r = p[j]
  <2>1. r \in {v.own[j] : j \in DOMAIN v.own} \cup UNION {{p[j] : j \in DOMAIN p} : p \in v.terms}
    BY DEF Reads
  <2> QED
    BY <2>1
<1> QED
  BY <1>1

(* A convolution reads its windows of the input, its weights and its bias. *)
LEMMA ConvWithin ==
    ASSUME NEW l, NEW k, k.impl = "Conv2d", BuiltFor(k, l), NEW i \in 0 .. NumberOfElements(k) - 1
    PROVE  Within(l, Conv2dValue(k, i))
<1> SUFFICES ASSUME NEW r \in Reads(Conv2dValue(k, i)) PROVE Fits(l, r)
  BY DEF Within
<1>1. /\ ImageExtents(k.T) /\ k.T.OutChannels \in Nat \ {0}
      /\ k.T.KernelHeight \in Nat /\ k.T.KernelWidth \in Nat
      /\ Holds(l, "input", ImageSize(k.T)) /\ Holds(l, "weights", WeightsSize(k.T))
      /\ k.T.Bias => Holds(l, "bias", k.T.OutChannels)
  BY DEF BuiltFor, Positive
<1>2. \/ r[1] = "input" /\ r[2] \in 0 .. ImageSize(k.T) - 1
      \/ r[1] = "weights" /\ r[2] \in 0 .. WeightsSize(k.T) - 1
      \/ k.T.Bias /\ r[1] = "bias" /\ r[2] \in 0 .. k.T.OutChannels - 1
  BY <1>1, ConvStaysInside DEF ImageSize, WeightsSize
<1>3. ImageSize(k.T) \in Int /\ WeightsSize(k.T) \in Int /\ k.T.OutChannels \in Int
  <2>1. ImageSize(k.T) \in Int
    BY <1>1 DEF ImageExtents, Positive, ImageSize
  <2>2. WeightsSize(k.T) \in Int
    BY <1>1 DEF ImageExtents, Positive, WeightsSize
  <2> QED
    BY <1>1, <2>1, <2>2
<1> QED
  BY <1>1, <1>2, <1>3, HeldFits

(* A pool reads the cells of the input its window covers. *)
LEMMA PoolWithin ==
    ASSUME NEW l, NEW k, k.impl \in {"MaxPool2d", "AvgPool2d"}, BuiltFor(k, l),
           NEW i \in 0 .. NumberOfElements(k) - 1
    PROVE  Within(l, MaxPool2dValue(k, i)) /\ Within(l, AvgPool2dValue(k, i))
<1> SUFFICES ASSUME NEW r \in Reads(MaxPool2dValue(k, i)) \cup Reads(AvgPool2dValue(k, i))
             PROVE  Fits(l, r)
  BY DEF Within
<1>1. /\ ImageExtents(k.T)
      /\ k.T.KernelHeight \in Nat /\ k.T.StrideHeight \in Nat /\ k.T.PaddingHeight \in Nat
      /\ k.T.KernelWidth \in Nat /\ k.T.StrideWidth \in Nat /\ k.T.PaddingWidth \in Nat
      /\ Holds(l, "input", ImageSize(k.T))
  BY DEF BuiltFor
<1>2. i \in 0 .. k.T.BatchSize * k.T.InChannels * OutHeight(k.T) * OutWidth(k.T) - 1
  BY DEF NumberOfElements
<1>3. r[1] = "input" /\ r[2] \in 0 .. ImageSize(k.T) - 1
  BY <1>1, <1>2, PoolsStayInside DEF ImageSize
<1>4. ImageSize(k.T) \in Int
  BY <1>1 DEF ImageExtents, Positive, ImageSize
<1> QED
  BY <1>1, <1>3, <1>4, HeldFits

(* The windows of the adaptive pools overlap an output cell, and so do not *)
(* leave the input.                                                        *)
LEMMA AdaptiveWithin ==
    ASSUME NEW l, NEW k, k.impl \in {"AdaptiveAvgPool2d", "AdaptiveMaxPool2d"}, BuiltFor(k, l),
           NEW i \in 0 .. NumberOfElements(k) - 1
    PROVE  Within(l, AdaptiveAvgPool2dValue(k, i)) /\ Within(l, AdaptiveMaxPool2dValue(k, i))
<1> DEFINE T == k.T
           o == Decode(i, T.InChannels, T.OutHeight, T.OutWidth)
           hs == AdaptiveWindow(o.h, T.InHeight, T.OutHeight)
           ws == AdaptiveWindow(o.w, T.InWidth, T.OutWidth)
<1>1. ImageExtents(T) /\ Holds(l, "input", ImageSize(T)) /\ {"OutHeight", "OutWidth"} \subseteq DOMAIN T
  BY DEF BuiltFor
<1>2. OutHeight(T) = T.OutHeight /\ OutWidth(T) = T.OutWidth
  BY <1>1 DEF OutHeight, OutWidth
<1>3. /\ T.BatchSize \in Nat /\ T.InChannels \in Nat \ {0} /\ T.InHeight \in Nat \ {0}
      /\ T.InWidth \in Nat \ {0} /\ T.OutHeight \in Nat \ {0} /\ T.OutWidth \in Nat \ {0}
  BY <1>1, <1>2 DEF ImageExtents, Positive
<1>4. i \in 0 .. T.BatchSize * T.InChannels * T.OutHeight * T.OutWidth - 1
  BY <1>2 DEF NumberOfElements
<1>5. /\ o.n \in 0 .. T.BatchSize - 1 /\ o.c \in 0 .. T.InChannels - 1
      /\ o.h \in 0 .. T.OutHeight - 1 /\ o.w \in 0 .. T.OutWidth - 1
  BY <1>3, <1>4, DecodeInside
<1> HIDE DEF o
<1>6. hs \in SUBSET (0 .. T.InHeight - 1) /\ ws \in SUBSET (0 .. T.InWidth - 1)
  <2>1. ASSUME NEW in \in Nat \ {0}, NEW size \in Nat \ {0}, NEW out \in 0 .. size - 1
        PROVE  AdaptiveWindow(out, in, size) \subseteq 0 .. in - 1
    <3>1. AdaptiveWindow(out, in, size) = Overlapping(out, in, size)
      BY AdaptiveWindowOverlaps
    <3> QED
      BY <3>1 DEF Overlapping
  <2> QED
    BY <1>3, <1>5, <2>1
<1> HIDE DEF hs, ws
<1>7. ASSUME NEW reduce, NEW divisor PROVE Within(l, Pooled(k, reduce, o, hs, ws, divisor))
  <2> SUFFICES ASSUME NEW r \in Reads(Pooled(k, reduce, o, hs, ws, divisor)) PROVE Fits(l, r)
    BY DEF Within
  <2>1. r[1] = "input" /\ r[2] \in 0 .. ImageSize(T) - 1
    BY <1>1, <1>5, <1>6, PooledInside DEF ImageSize
  <2>2. ImageSize(T) \in Int
    BY <1>3 DEF ImageSize
  <2> QED
    BY <1>1, <2>1, <2>2, HeldFits
<1>8. \E divisor : AdaptiveAvgPool2dValue(k, i) = Pooled(k, "sum", o, hs, ws, divisor)
  BY DEF AdaptiveAvgPool2dValue, o, hs, ws
<1>9. AdaptiveMaxPool2dValue(k, i) = Pooled(k, "max", o, hs, ws, 1)
  BY DEF AdaptiveMaxPool2dValue, o, hs, ws
<1> QED
  BY <1>7, <1>8, <1>9

(* Strided rows reach no further than their last element. *)
LEMMA WithinReach ==
    ASSUME NEW m \in Nat, NEW stride \in Nat, NEW n \in Nat, NEW within \in Nat,
           NEW a \in 0 .. m - 1, NEW b \in 0 .. n - 1
    PROVE  /\ Reach(m, stride, n, within) \in Int
           /\ a * stride + b * within \in 0 .. Reach(m, stride, n, within) - 1
<1>1. a * stride <= (m - 1) * stride /\ b * within <= (n - 1) * within
  <2>1. a <= m - 1 /\ b <= n - 1 /\ a \in Int /\ b \in Int /\ m - 1 \in Int /\ n - 1 \in Int
    OBVIOUS
  <2> QED
    BY <2>1, Monotonic
<1>2. /\ a * stride \in Nat /\ b * within \in Nat
      /\ (m - 1) * stride \in Int /\ (n - 1) * within \in Int
  OBVIOUS
<1> QED
  BY <1>1, <1>2 DEF Reach

(* The matrix kernels read the strided elements of a row and a column.     *)
LEMMA LinearWithin ==
    ASSUME NEW l, NEW k, k.impl = "Linear", BuiltFor(k, l), NEW i \in 0 .. NumberOfElements(k) - 1
    PROVE  Within(l, LinearValue(k, i, Given(l)))
<1> DEFINE T == k.T
           r == i \div T.OutDim
           c == i % T.OutDim
           x(j) == r * T.InRowStride + j * T.InColStride
           w(j) == c * T.WeightRowStride + j * T.WeightColStride
           own == Optional(Given(l), "bias", c)
           terms == {<<<<"input", x(j)>>, <<"weights", w(j)>>>> : j \in 0 .. T.InDim - 1}
           v == LinearValue(k, i, Given(l))
<1>1. /\ T.NumRows \in Nat /\ T.InDim \in Nat /\ T.OutDim \in Nat \ {0}
      /\ T.InRowStride \in Nat /\ T.InColStride \in Nat
      /\ T.WeightRowStride \in Nat /\ T.WeightColStride \in Nat
  BY DEF BuiltFor, Positive
<1>2. /\ Holds(l, "input", Reach(T.NumRows, T.InRowStride, T.InDim, T.InColStride))
      /\ Holds(l, "weights", Reach(T.OutDim, T.WeightRowStride, T.InDim, T.WeightColStride))
      /\ "bias" \in Given(l) => Holds(l, "bias", T.OutDim)
  BY DEF BuiltFor
<1>3. i \in 0 .. T.NumRows * T.OutDim - 1 /\ i \in Int
  BY DEF NumberOfElements
<1>4. r \in 0 .. T.NumRows - 1 /\ c \in 0 .. T.OutDim - 1
  <2> HIDE DEF T
  <2>1. r \in 0 .. T.NumRows - 1
    BY <1>1, <1>3, DivBelow
  <2>2. c \in 0 .. T.OutDim - 1
    BY <1>1, <1>3, DivMod
  <2> QED
    BY <2>1, <2>2
<1>5. v.own = own /\ v.terms = terms
  BY DEF LinearValue, Value
<1> HIDE DEF v, r, c, T
<1>6. ASSUME NEW j \in DOMAIN own PROVE Fits(l, own[j])
  <2>1. "bias" \in Given(l) /\ own = <<<<"bias", c>>>>
    BY <1>6 DEF Optional
  <2>2. own[j] = <<"bias", c>>
    BY <1>6, <2>1
  <2> QED
    BY <1>1, <1>2, <1>4, <2>1, <2>2, HeldFits
<1>7. ASSUME NEW j \in 0 .. T.InDim - 1
      PROVE  Fits(l, <<"input", x(j)>>) /\ Fits(l, <<"weights", w(j)>>)
  <2>1. Fits(l, <<"input", x(j)>>)
    <3>1. /\ x(j) \in 0 .. Reach(T.NumRows, T.InRowStride, T.InDim, T.InColStride) - 1
          /\ Reach(T.NumRows, T.InRowStride, T.InDim, T.InColStride) \in Int
      BY <1>1, <1>4, WithinReach
    <3> HIDE DEF x
    <3> QED
      BY <1>2, <3>1, HeldFits
  <2>2. Fits(l, <<"weights", w(j)>>)
    <3>0. T.OutDim \in Nat
      BY <1>1
    <3>1. /\ w(j) \in 0 .. Reach(T.OutDim, T.WeightRowStride, T.InDim, T.WeightColStride) - 1
          /\ Reach(T.OutDim, T.WeightRowStride, T.InDim, T.WeightColStride) \in Int
      BY <1>1, <1>4, <3>0, WithinReach
    <3> HIDE DEF w
    <3> QED
      BY <1>2, <3>1, HeldFits
  <2> QED
    BY <2>1, <2>2
<1>8. ASSUME NEW p \in terms, NEW n \in DOMAIN p PROVE Fits(l, p[n])
  <2>1. PICK j \in 0 .. T.InDim - 1 : p = <<<<"input", x(j)>>, <<"weights", w(j)>>>>
    BY <1>8
  <2>2. p[n] = <<"input", x(j)>> \/ p[n] = <<"weights", w(j)>>
    <3> HIDE DEF x, w
    <3> QED
      BY <1>8, <2>1
  <2> HIDE DEF x, w
  <2> QED
    BY <1>7, <2>2
<1> HIDE DEF own, terms
<1>9. (\A j \in DOMAIN v.own : Fits(l, v.own[j])) /\ \A p \in v.terms : \A n \in DOMAIN p : Fits(l, p[n])
  BY <1>5, <1>6, <1>8
<1>10. Within(l, v)
  BY <1>9, WithinParts
<1> QED
  BY <1>10 DEF v

(* A matrix product reads its row and its column. *)
LEMMA MatMulWithin ==
    ASSUME NEW l, NEW k, k.impl = "MatMul", BuiltFor(k, l), NEW i \in 0 .. NumberOfElements(k) - 1
    PROVE  Within(l, MatMulValue(k, i))
<1> DEFINE T == k.T
           slice == T.M * T.N
           b == i \div slice
           m == (i % slice) \div T.N
           n == (i % slice) % T.N
           x(j) == b * T.A_BatchStride + m * T.A_RowStride + j * T.A_ColStride
           y(j) == b * T.B_BatchStride + j * T.B_RowStride + n * T.B_ColStride
           terms == {<<<<"A", x(j)>>, <<"B", y(j)>>>> : j \in 0 .. T.K - 1}
           v == MatMulValue(k, i)
           reachA == Reach(T.M, T.A_RowStride, T.K, T.A_ColStride)
           reachB == Reach(T.K, T.B_RowStride, T.N, T.B_ColStride)
<1>1. /\ T.BatchSize \in Nat /\ T.M \in Nat \ {0} /\ T.K \in Nat /\ T.N \in Nat \ {0}
      /\ T.A_BatchStride \in Nat /\ T.A_RowStride \in Nat /\ T.A_ColStride \in Nat
      /\ T.B_BatchStride \in Nat /\ T.B_RowStride \in Nat /\ T.B_ColStride \in Nat
  BY DEF BuiltFor, Positive
<1>2. /\ Holds(l, "A", (T.BatchSize - 1) * T.A_BatchStride + reachA)
      /\ Holds(l, "B", (T.BatchSize - 1) * T.B_BatchStride + reachB)
  BY DEF BuiltFor
<1>3. i \in 0 .. T.BatchSize * T.M * T.N - 1
  BY DEF NumberOfElements
<1> HIDE DEF T
<1>4. slice \in Nat \ {0} /\ T.BatchSize * slice = T.BatchSize * T.M * T.N
  BY <1>1
<1>5. b \in 0 .. T.BatchSize - 1 /\ i % slice \in 0 .. slice - 1
  <2> HIDE DEF slice
  <2>1. i \in 0 .. T.BatchSize * slice - 1 /\ i \in Int
    BY <1>3, <1>4
  <2>2. b \in 0 .. T.BatchSize - 1
    BY <1>1, <1>4, <2>1, DivBelow
  <2> QED
    BY <1>4, <2>1, <2>2, DivMod
<1>6. m \in 0 .. T.M - 1 /\ n \in 0 .. T.N - 1
  <2> DEFINE rest == i % slice
  <2>1. rest \in 0 .. T.M * T.N - 1 /\ rest \in Int
    BY <1>4, <1>5
  <2> HIDE DEF rest
  <2>2. T.M \in Nat
    BY <1>1
  <2>3. rest \div T.N \in 0 .. T.M - 1
    BY <1>1, <2>1, <2>2, DivBelow
  <2>4. rest % T.N \in 0 .. T.N - 1
    BY <1>1, <2>1, DivMod
  <2> QED
    BY <2>3, <2>4 DEF rest
<1>7. v.own = <<>> /\ v.terms = terms
  BY DEF MatMulValue, Value, T
<1> HIDE DEF v, b, m, n, slice
<1> DEFINE whole(stride, reach) == (T.BatchSize - 1) * stride + reach
           from(stride, at) == b * stride + at
<1>8. ASSUME NEW stride \in Nat, NEW at \in Int, NEW reach \in Int, at \in 0 .. reach - 1
      PROVE  /\ whole(stride, reach) \in Int
             /\ from(stride, at) \in 0 .. whole(stride, reach) - 1
  <2>1. b * stride <= (T.BatchSize - 1) * stride
    <3>1. b <= T.BatchSize - 1 /\ b \in Int /\ T.BatchSize - 1 \in Int
      BY <1>1, <1>5
    <3> QED
      BY <3>1, Monotonic
  <2>2. b * stride \in Nat /\ (T.BatchSize - 1) * stride \in Int
    BY <1>1, <1>5
  <2> QED
    BY <1>8, <2>1, <2>2
<1>9. ASSUME NEW j \in 0 .. T.K - 1
      PROVE  Fits(l, <<"A", x(j)>>) /\ Fits(l, <<"B", y(j)>>)
  <2>1. Fits(l, <<"A", x(j)>>)
    <3> DEFINE at == m * T.A_RowStride + j * T.A_ColStride
    <3>0. T.M \in Nat
      BY <1>1
    <3>1. at \in 0 .. reachA - 1 /\ reachA \in Int
      BY <1>1, <1>6, <3>0, WithinReach
    <3>2. x(j) = from(T.A_BatchStride, at)
      <4>1. /\ b * T.A_BatchStride \in Int /\ m * T.A_RowStride \in Int
            /\ j * T.A_ColStride \in Int
        BY <1>1, <1>5, <1>6
      <4> QED
        BY <4>1
    <3> HIDE DEF x, at, reachA
    <3>3. at \in Int
      BY <3>1
    <3>4. T.A_BatchStride \in Nat
      BY <1>1
    <3>5. Holds(l, "A", whole(T.A_BatchStride, reachA))
      BY <1>2 DEF reachA
    <3> HIDE DEF whole, from
    <3>6. /\ whole(T.A_BatchStride, reachA) \in Int
          /\ x(j) \in 0 .. whole(T.A_BatchStride, reachA) - 1
      BY <1>8, <3>1, <3>2, <3>3, <3>4
    <3> QED
      BY <3>5, <3>6, HeldFits
  <2>2. Fits(l, <<"B", y(j)>>)
    <3> DEFINE at == j * T.B_RowStride + n * T.B_ColStride
    <3>0. T.N \in Nat
      BY <1>1
    <3>1. at \in 0 .. reachB - 1 /\ reachB \in Int
      BY <1>1, <1>6, <3>0, WithinReach
    <3>2. y(j) = from(T.B_BatchStride, at)
      <4>1. /\ b * T.B_BatchStride \in Int /\ n * T.B_ColStride \in Int
            /\ j * T.B_RowStride \in Int
        BY <1>1, <1>5, <1>6
      <4> QED
        BY <4>1
    <3> HIDE DEF y, at, reachB
    <3>3. at \in Int
      BY <3>1
    <3>4. T.B_BatchStride \in Nat
      BY <1>1
    <3>5. Holds(l, "B", whole(T.B_BatchStride, reachB))
      BY <1>2 DEF reachB
    <3> HIDE DEF whole, from
    <3>6. /\ whole(T.B_BatchStride, reachB) \in Int
          /\ y(j) \in 0 .. whole(T.B_BatchStride, reachB) - 1
      BY <1>8, <3>1, <3>2, <3>3, <3>4
    <3> QED
      BY <3>5, <3>6, HeldFits
  <2> QED
    BY <2>1, <2>2
<1>10. ASSUME NEW p \in terms, NEW z \in DOMAIN p PROVE Fits(l, p[z])
  <2>1. PICK j \in 0 .. T.K - 1 : p = <<<<"A", x(j)>>, <<"B", y(j)>>>>
    BY <1>10
  <2>2. p[z] = <<"A", x(j)>> \/ p[z] = <<"B", y(j)>>
    <3> HIDE DEF x, y
    <3> QED
      BY <1>10, <2>1
  <2> HIDE DEF x, y
  <2> QED
    BY <1>9, <2>2
<1> HIDE DEF terms
<1>11. (\A j \in DOMAIN v.own : Fits(l, v.own[j])) /\ \A p \in v.terms : \A z \in DOMAIN p : Fits(l, p[z])
  BY <1>7, <1>10
<1>12. Within(l, v)
  BY <1>11, WithinParts
<1> QED
  BY <1>12 DEF v

(* A row stays inside, what it writes as well as what it reads. *)
RowWithin(l, row) == \A x \in DOMAIN row : x \in Outputs(l) /\ Within(l, row[x])

(* A softmax reads its row. *)
LEMMA SoftmaxWithin ==
    ASSUME NEW l, NEW k, k.impl = "Softmax", BuiltFor(k, l), NEW r \in 0 .. NumberOfElements(k) - 1
    PROVE  RowWithin(l, SoftmaxRow(k, r))
<1> DEFINE T == k.T
           at(j) == r * T.OuterStride + j * T.StrideWithinDim
           row == {at(j) : j \in 0 .. T.ReductionSize - 1}
           reach == Reach(T.NumReductions, T.OuterStride, T.ReductionSize, T.StrideWithinDim)
           own(idx) == <<<<"input", idx>>>>
           terms == {<<<<"input", x>>>> : x \in row}
<1>1. /\ T.NumReductions \in Nat /\ T.ReductionSize \in Nat
      /\ T.OuterStride \in Nat /\ T.StrideWithinDim \in Nat
      /\ Holds(l, "input", reach) /\ OutputHolds(l, reach)
      /\ r \in 0 .. T.NumReductions - 1
  BY DEF BuiltFor, NumberOfElements
<1>2. SoftmaxRow(k, r) = [idx \in row |-> Value(k, "softmax", own(idx), terms, 1)]
  BY DEF SoftmaxRow
<1> HIDE DEF T
<1>3. ASSUME NEW x \in row PROVE x \in 0 .. reach - 1 /\ reach \in Int
  <2>1. PICK j \in 0 .. T.ReductionSize - 1 : x = at(j)
    BY <1>3
  <2> QED
    BY <1>1, <2>1, WithinReach
<1> HIDE DEF row, reach
<1>4. ASSUME NEW x \in row PROVE Fits(l, <<"input", x>>) /\ x \in Outputs(l)
  BY <1>1, <1>3, HeldFits, OutputFits
<1>5. ASSUME NEW idx \in row PROVE Within(l, Value(k, "softmax", own(idx), terms, 1))
  <2> DEFINE v == Value(k, "softmax", own(idx), terms, 1)
  <2>1. v.own = own(idx) /\ v.terms = terms
    BY DEF Value
  <2>2. /\ \A j \in DOMAIN own(idx) : own(idx)[j] = <<"input", idx>>
        /\ \A p \in terms : \A j \in DOMAIN p : \E x \in row : p[j] = <<"input", x>>
    OBVIOUS
  <2> HIDE DEF v, own, terms
  <2>3. Within(l, v)
    BY <1>4, <2>1, <2>2, WithinParts
  <2> QED
    BY <2>3 DEF v
<1> QED
  BY <1>2, <1>4, <1>5 DEF RowWithin

(* The elements of a row of n follow one another. *)
LEMMA RowInside ==
    ASSUME NEW n \in Nat, NEW size \in Nat, NEW t \in 0 .. n - 1, NEW d \in 0 .. size - 1
    PROVE  /\ t * size + d \in 0 .. n * size - 1 /\ n * size \in Int
           /\ (t * size + d) - t * size = d
<1>1. t * size + d \in 0 .. n * size - 1
  BY Flat2
<1>2. t * size \in Int /\ n * size \in Int
  OBVIOUS
<1> QED
  BY <1>1, <1>2

(* The parameters of a normalisation are read if they are given.  The set  *)
(* of reads that fit is closed under appending an optional one.            *)
LEMMA OptionalFits ==
    ASSUME NEW l, NEW S, \A r \in S : Fits(l, r), NEW s \in Seq(S),
           NEW b, NEW d, b \in Given(l) => <<b, d>> \in S
    PROVE  s \o Optional(Given(l), b, d) \in Seq(S)
<1>1. Optional(Given(l), b, d) \in Seq(S)
  BY DEF Optional
<1> QED
  BY <1>1, ConcatProperties

(* The gain and the bias of a norm are as long as its row. *)
LEMMA NormFits ==
    ASSUME NEW l, NEW n \in Nat, NEW size \in Nat, NEW t \in 0 .. n - 1, NEW d \in 0 .. size - 1,
           Holds(l, "input", n * size),
           \A b \in {"gamma", "beta"} \cap Given(l) : Holds(l, b, size),
           NEW own, NEW idx, idx = t * size + d,
           \/ own = <<<<"input", idx>>>> \o Optional(Given(l), "gamma", d) \o Optional(Given(l), "beta", d)
           \/ own = <<<<"input", idx>>>> \o Optional(Given(l), "gamma", d)
    PROVE  \A j \in DOMAIN own : Fits(l, own[j])
<1> DEFINE S == {r \in {<<"input", idx>>, <<"gamma", d>>, <<"beta", d>>} : Fits(l, r)}
           own1 == <<<<"input", idx>>>>
           own2 == own1 \o Optional(Given(l), "gamma", d)
           own3 == own2 \o Optional(Given(l), "beta", d)
<1>1. idx \in 0 .. n * size - 1 /\ n * size \in Int
  BY RowInside
<1>2. Fits(l, <<"input", idx>>)
  BY <1>1, HeldFits
<1>3. \A b \in {"gamma", "beta"} \cap Given(l) : Fits(l, <<b, d>>)
  BY HeldFits
<1>4. \A r \in S : Fits(l, r)
  OBVIOUS
<1>5. /\ <<"input", idx>> \in S
      /\ "gamma" \in Given(l) => <<"gamma", d>> \in S
      /\ "beta" \in Given(l) => <<"beta", d>> \in S
  BY <1>2, <1>3
<1>6. own = own2 \/ own = own3
  OBVIOUS
<1> HIDE DEF S, own2, own3
<1>7. own1 \in Seq(S)
  BY <1>5
<1> HIDE DEF own1
<1>8. own2 \in Seq(S)
  BY <1>4, <1>5, <1>7, OptionalFits DEF own2
<1>9. own3 \in Seq(S)
  BY <1>4, <1>5, <1>8, OptionalFits DEF own3
<1>10. own \in Seq(S)
  BY <1>6, <1>8, <1>9
<1>11. \A j \in DOMAIN own : own[j] \in S
  BY <1>10
<1> QED
  BY <1>4, <1>11

(* A norm reads its row, its gain and its bias. *)
LEMMA NormWithin ==
    ASSUME NEW l, NEW k, k.impl \in {"LayerNorm", "RMSNorm"}, BuiltFor(k, l),
           NEW t \in 0 .. NumberOfElements(k) - 1
    PROVE  RowWithin(l, LayerNormRow(k, t, Given(l))) /\ RowWithin(l, RMSNormRow(k, t, Given(l)))
<1> DEFINE n == k.T.NumTokens
           size == k.T.EmbeddingDim
           row == {t * size + d : d \in 0 .. size - 1}
           own1(idx) == <<<<"input", idx>>>> \o Optional(Given(l), "gamma", idx - t * size)
           own2(idx) == own1(idx) \o Optional(Given(l), "beta", idx - t * size)
           terms == {<<<<"input", x>>>> : x \in row}
<1>1. /\ n \in Nat /\ size \in Nat /\ t \in 0 .. n - 1
      /\ Holds(l, "input", n * size) /\ OutputHolds(l, n * size)
      /\ \A b \in {"gamma", "beta"} \cap Given(l) : Holds(l, b, size)
  BY DEF BuiltFor, NumberOfElements
<1>2. LayerNormRow(k, t, Given(l)) =
        [idx \in row |-> Value(k, "layer_norm", own2(idx), terms, size)]
  BY DEF LayerNormRow
<1>3. RMSNormRow(k, t, Given(l)) =
        [idx \in row |-> Value(k, "rms_norm", own1(idx), terms, size)]
  BY DEF RMSNormRow
<1> HIDE DEF n, size
<1>4. ASSUME NEW x \in row
      PROVE  /\ Fits(l, <<"input", x>>) /\ x \in Outputs(l)
             /\ \A j \in DOMAIN own1(x) : Fits(l, own1(x)[j])
             /\ \A j \in DOMAIN own2(x) : Fits(l, own2(x)[j])
  <2>1. PICK d \in 0 .. size - 1 : x = t * size + d
    BY <1>4
  <2>2. x \in 0 .. n * size - 1 /\ n * size \in Int /\ x - t * size = d
    BY <1>1, <2>1, RowInside
  <2>3. Fits(l, <<"input", x>>) /\ x \in Outputs(l)
    BY <1>1, <2>2, HeldFits, OutputFits
  <2>4. /\ own1(x) = <<<<"input", x>>>> \o Optional(Given(l), "gamma", d)
        /\ own2(x) = <<<<"input", x>>>> \o Optional(Given(l), "gamma", d) \o Optional(Given(l), "beta", d)
    BY <2>2
  <2> HIDE DEF own1, own2
  <2>5. \A j \in DOMAIN own1(x) : Fits(l, own1(x)[j])
    BY <1>1, <2>1, <2>4, NormFits
  <2>6. \A j \in DOMAIN own2(x) : Fits(l, own2(x)[j])
    BY <1>1, <2>1, <2>4, NormFits
  <2> QED
    BY <2>3, <2>5, <2>6
<1>20. \A x \in row : Fits(l, <<"input", x>>)
  BY <1>4
<1> HIDE DEF row
<1>5. ASSUME NEW x \in row, NEW reduce, NEW own, \A j \in DOMAIN own : Fits(l, own[j])
      PROVE  Within(l, Value(k, reduce, own, terms, size))
  <2> DEFINE v == Value(k, reduce, own, terms, size)
  <2>1. v.own = own /\ v.terms = terms
    BY DEF Value
  <2>2. \A p \in terms : \A j \in DOMAIN p : \E y \in row : p[j] = <<"input", y>>
    OBVIOUS
  <2> HIDE DEF v, terms
  <2>3. Within(l, v)
    BY <1>20, <1>5, <2>1, <2>2, WithinParts
  <2> QED
    BY <2>3 DEF v
<1> HIDE DEF own1, own2, terms
<1>6. \A x \in row : /\ Within(l, Value(k, "layer_norm", own2(x), terms, size))
                     /\ Within(l, Value(k, "rms_norm", own1(x), terms, size))
  BY <1>4, <1>5
<1> QED
  BY <1>2, <1>3, <1>4, <1>6 DEF RowWithin

(* Four vectors are indexed by the channel. *)
LEMMA BatchNormWithin ==
    ASSUME NEW l, NEW k, k.impl = "BatchNorm2d", BuiltFor(k, l), NEW i \in 0 .. NumberOfElements(k) - 1
    PROVE  Within(l, BatchNorm2dValue(k, i))
<1> DEFINE T == k.T
           channel == (i \div (T.Height * T.Width)) % T.Channels
           own == <<<<"input", i>>, <<"mean", channel>>, <<"variance", channel>>,
                    <<"gemma", channel>>, <<"beta", channel>>>>
           v == BatchNorm2dValue(k, i)
<1>1. /\ T.BatchSize \in Nat /\ T.Channels \in Nat \ {0} /\ T.Height \in Nat /\ T.Width \in Nat
      /\ Holds(l, "input", NumberOfElements(k))
      /\ \A b \in {"mean", "variance", "gemma", "beta"} : Holds(l, b, T.Channels)
  BY DEF BuiltFor, Positive
<1>2. NumberOfElements(k) = T.BatchSize * T.Channels * T.Height * T.Width
  BY DEF NumberOfElements
<1>3. v.own = own /\ v.terms = {}
  BY DEF BatchNorm2dValue, Value
<1> HIDE DEF T, v
<1>4. NumberOfElements(k) \in Int /\ i \in Int
  BY <1>1, <1>2
<1>5. channel \in 0 .. T.Channels - 1
  <2>1. T.Height * T.Width \in Nat \ {0}
    <3>1. T.Height * T.Width \in Nat
      BY <1>1
    <3>2. ASSUME T.Height * T.Width = 0 PROVE FALSE
      <4>1. /\ T.BatchSize * T.Channels \in Nat
            /\ T.BatchSize * T.Channels * T.Height * T.Width = T.BatchSize * T.Channels * (T.Height * T.Width)
        BY <1>1
      <4>2. T.BatchSize * T.Channels * (T.Height * T.Width) = 0
        BY <3>2, <4>1
      <4> QED
        BY <1>2, <4>1, <4>2
    <3> QED
      BY <3>1, <3>2
  <2>2. i \div (T.Height * T.Width) \in Int
    BY <1>4, <2>1, DivMod
  <2> QED
    BY <1>1, <2>2, DivMod
<1> HIDE DEF channel
<1>6. ASSUME NEW j \in DOMAIN own PROVE Fits(l, own[j])
  <2>1. \/ own[j] = <<"input", i>>
        \/ \E b \in {"mean", "variance", "gemma", "beta"} : own[j] = <<b, channel>>
    BY <1>6
  <2>2. Fits(l, <<"input", i>>)
    BY <1>1, <1>4, HeldFits
  <2>3. \A b \in {"mean", "variance", "gemma", "beta"} : Fits(l, <<b, channel>>)
    BY <1>1, <1>5, HeldFits
  <2> QED
    BY <2>1, <2>2, <2>3
<1> HIDE DEF own
<1>7. Within(l, v)
  BY <1>3, <1>6, WithinParts
<1> QED
  BY <1>7 DEF v

(* An element-wise kernel reads every operand at the offset it writes.     *)
LEMMA ElementWiseWithin ==
    ASSUME NEW l, NEW k, k.impl = "ElementWise", BuiltFor(k, l), NumberOfElements(k) \in Int,
           NEW i \in 0 .. NumberOfElements(k) - 1
    PROVE  Within(l, ElementWiseValue(k, i, Operands(l)))
<1> DEFINE own == [j \in 1 .. Len(Operands(l)) |-> <<Operands(l)[j], i>>]
           v == ElementWiseValue(k, i, Operands(l))
<1>1. v.own = own /\ v.terms = {}
  BY DEF ElementWiseValue, Value
<1>2. NumberOfElements(k) = k.T.Size
  BY DEF NumberOfElements
<1>3. DOMAIN Operands(l) = 1 .. Len(Operands(l))
  <2>1. CASE l.op \in Binary
    BY <2>1 DEF Operands
  <2>2. CASE l.op \notin Binary
    BY <2>2 DEF Operands
  <2> QED
    BY <2>1, <2>2
<1>4. \A j \in DOMAIN Operands(l) : Holds(l, Operands(l)[j], k.T.Size)
  BY DEF BuiltFor
<1>5. ASSUME NEW j \in DOMAIN own PROVE Fits(l, own[j])
  <2>1. own[j] = <<Operands(l)[j], i>> /\ j \in DOMAIN Operands(l)
    BY <1>3
  <2>2. Fits(l, <<Operands(l)[j], i>>)
    BY <1>2, <1>4, <2>1, HeldFits
  <2> QED
    BY <2>1, <2>2
<1> HIDE DEF own, v
<1>6. Within(l, v)
  BY <1>1, <1>5, WithinParts
<1> QED
  BY <1>6 DEF v

(* So every step of every kernel stays inside the buffers the kernel is    *)
(* built for.                                                              *)
LEMMA StepWithin ==
    ASSUME NEW l, NEW k, k.impl \in Impls, BuiltFor(k, l), NumberOfElements(k) \in Int,
           NEW i \in 0 .. NumberOfElements(k) - 1
    PROVE  RowWithin(l, Computes(k, i, Given(l), Operands(l)))
<1>1. ASSUME k.impl \notin RowKernels PROVE i \in Outputs(l)
  <2>1. OutputHolds(l, NumberOfElements(k))
    BY <1>1 DEF BuiltFor, Impls, RowKernels, NumberOfElements
  <2> QED
    BY <2>1, OutputFits
<1>2. ASSUME NEW v, Within(l, v), k.impl \notin RowKernels
      PROVE  RowWithin(l, [idx \in {i} |-> v])
  BY <1>1, <1>2 DEF RowWithin
<1>3. CASE k.impl = "Conv2d"
  BY <1>2, <1>3, ConvWithin DEF Computes, RowKernels
<1>4. CASE k.impl = "MaxPool2d"
  <2>1. Within(l, MaxPool2dValue(k, i))
    BY <1>4, PoolWithin
  <2>2. Computes(k, i, Given(l), Operands(l)) = [idx \in {i} |-> MaxPool2dValue(k, i)]
    BY <1>4 DEF Computes
  <2> QED
    BY <1>2, <1>4, <2>1, <2>2 DEF RowKernels
<1>5. CASE k.impl = "AvgPool2d"
  <2>1. Within(l, AvgPool2dValue(k, i))
    BY <1>5, PoolWithin
  <2>2. Computes(k, i, Given(l), Operands(l)) = [idx \in {i} |-> AvgPool2dValue(k, i)]
    BY <1>5 DEF Computes
  <2> QED
    BY <1>2, <1>5, <2>1, <2>2 DEF RowKernels
<1>6. CASE k.impl = "AdaptiveAvgPool2d"
  <2>1. Within(l, AdaptiveAvgPool2dValue(k, i))
    BY <1>6, AdaptiveWithin
  <2>2. Computes(k, i, Given(l), Operands(l)) = [idx \in {i} |-> AdaptiveAvgPool2dValue(k, i)]
    BY <1>6 DEF Computes
  <2> QED
    BY <1>2, <1>6, <2>1, <2>2 DEF RowKernels
<1>7. CASE k.impl = "AdaptiveMaxPool2d"
  <2>1. Within(l, AdaptiveMaxPool2dValue(k, i))
    BY <1>7, AdaptiveWithin
  <2>2. Computes(k, i, Given(l), Operands(l)) = [idx \in {i} |-> AdaptiveMaxPool2dValue(k, i)]
    BY <1>7 DEF Computes
  <2> QED
    BY <1>2, <1>7, <2>1, <2>2 DEF RowKernels
<1>8. CASE k.impl = "Linear"
  BY <1>2, <1>8, LinearWithin DEF Computes, RowKernels
<1>9. CASE k.impl = "MatMul"
  BY <1>2, <1>9, MatMulWithin DEF Computes, RowKernels
<1>10. CASE k.impl = "BatchNorm2d"
  BY <1>2, <1>10, BatchNormWithin DEF Computes, RowKernels
<1>11. CASE k.impl = "ElementWise"
  BY <1>2, <1>11, ElementWiseWithin DEF Computes, RowKernels
<1>12. CASE k.impl = "Softmax"
  BY <1>12, SoftmaxWithin DEF Computes
<1>13. CASE k.impl = "LayerNorm"
  BY <1>13, NormWithin DEF Computes
<1>14. CASE k.impl = "RMSNorm"
  BY <1>14, NormWithin DEF Computes
<1> QED
  BY <1>3, <1>4, <1>5, <1>6, <1>7, <1>8, <1>9, <1>10, <1>11, <1>12, <1>13, <1>14
     DEF Impls, RowKernels

(***************************************************************************)
(* The sizes of tensors.                                                   *)
(***************************************************************************)
(* A set of numbers has a least one: used in place of induction. *)
LEMMA LeastNumber ==
    ASSUME NEW B \in SUBSET Nat, B # {}
    PROVE  \E n \in B : \A m \in B : n <= m
<1> DEFINE R == {ss \in Nat \X Nat : ss[1] < ss[2]}
<1>1. R = OpToRel(<, Nat)
  BY Zenon DEF OpToRel
<1>2. IsWellFoundedOn(R, Nat)
  BY <1>1, NatLessThanWellFounded, Zenon
<1>3. PICK n \in B : \A m \in B : ~ (<<m, n>> \in R)
  <2> HIDE DEF R
  <2> QED
    BY <1>2, WFMin
<1>4. ASSUME NEW m \in B PROVE n <= m
  <2>1. m \in Nat /\ n \in Nat
    BY <1>3
  <2>2. ~ (<<m, n>> \in R)
    BY <1>3
  <2>3. m < n => <<m, n>> \in R
    BY <2>1
  <2> QED
    BY <2>1, <2>2, <2>3
<1> QED
  BY <1>4

IsSize(f, shape, n) == f = [j \in 0 .. n |-> IF j = 0 THEN 1 ELSE f[j - 1] * shape[j]]

(* The products of the first dimensions, up to any number of them. *)
LEMMA ProductsExist ==
    ASSUME NEW shape, NEW n \in Nat
    PROVE  \E f : IsSize(f, shape, n)
<1> DEFINE bad == {m \in Nat : ~ \E f : IsSize(f, shape, m)}
<1> SUFFICES ASSUME bad # {} PROVE FALSE
  OBVIOUS
<1>1. PICK m \in bad : \A o \in bad : m <= o
  <2> HIDE DEF bad
  <2>1. bad \in SUBSET Nat
    BY DEF bad
  <2> QED
    BY <2>1, LeastNumber
<1>2. m # 0
  <2>1. IsSize([j \in 0 .. 0 |-> 1], shape, 0)
    BY DEF IsSize
  <2> QED
    BY <2>1
<1>3. m - 1 \in Nat /\ m - 1 \notin bad
  BY <1>1, <1>2
<1>4. PICK f : IsSize(f, shape, m - 1)
  BY <1>3
<1> DEFINE g == [j \in 0 .. m |-> IF j = m THEN f[m - 1] * shape[m] ELSE f[j]]
<1>5. IsSize(g, shape, m)
  <2>1. \A j \in 0 .. m - 1 : f[j] = IF j = 0 THEN 1 ELSE f[j - 1] * shape[j]
    BY <1>4 DEF IsSize
  <2>2. ASSUME NEW j \in 0 .. m PROVE g[j] = IF j = 0 THEN 1 ELSE g[j - 1] * shape[j]
    <3>1. CASE j = m
      <4>1. m - 1 \in 0 .. m /\ m - 1 # m /\ j # 0
        BY <1>1, <1>2, <3>1
      <4>2. g[m - 1] = f[m - 1] /\ g[m] = f[m - 1] * shape[m]
        BY <1>1, <4>1
      <4> HIDE DEF g
      <4> QED
        BY <3>1, <4>1, <4>2
    <3>2. CASE j # m
      <4>1. j \in 0 .. m - 1 /\ g[j] = f[j]
        BY <1>1, <3>2
      <4>2. j # 0 => j - 1 \in 0 .. m /\ j - 1 # m /\ g[j - 1] = f[j - 1]
        BY <1>1, <3>2
      <4> HIDE DEF g
      <4> QED
        BY <2>1, <4>1, <4>2
    <3> QED
      BY <3>1, <3>2
  <2>3. g = [j \in 0 .. m |-> IF j = 0 THEN 1 ELSE g[j - 1] * shape[j]]
    <3>1. DOMAIN g = 0 .. m /\ g = [j \in 0 .. m |-> g[j]]
      OBVIOUS
    <3> HIDE DEF g
    <3> QED
      BY <2>2, <3>1
  <2> QED
    BY <2>3 DEF IsSize
<1> QED
  BY <1>1, <1>5

(* The recursion of Size. *)
LEMMA SizeIs ==
    ASSUME NEW shape, Len(shape) \in Nat
    PROVE  \E f : IsSize(f, shape, Len(shape)) /\ Size(shape) = f[Len(shape)]
<1> DEFINE size == CHOOSE f : IsSize(f, shape, Len(shape))
<1>1. IsSize(size, shape, Len(shape))
  BY ProductsExist
<1>2. Size(shape) = size[Len(shape)]
  BY DEF Size, IsSize
<1> QED
  BY <1>1, <1>2

(* Each product is the one before times a dimension. *)
LEMMA SizeSteps ==
    ASSUME NEW f, NEW shape, NEW n \in Nat, IsSize(f, shape, n)
    PROVE  f[0] = 1 /\ \A j \in 1 .. n : f[j] = f[j - 1] * shape[j]
<1>1. f[0] = 1
  BY DEF IsSize
<1>2. ASSUME NEW j \in 1 .. n PROVE f[j] = f[j - 1] * shape[j]
  <2>1. j \in 0 .. n /\ j # 0
    OBVIOUS
  <2> QED
    BY <2>1 DEF IsSize
<1> QED
  BY <1>1, <1>2

(* Unfolded for matrices and for images. *)
LEMMA Size2 ==
    ASSUME NEW s, Len(s) = 2, s[1] \in Int, s[2] \in Int
    PROVE  Size(s) = s[1] * s[2]
<1>1. PICK f : IsSize(f, s, 2) /\ Size(s) = f[2]
  <2>1. Len(s) \in Nat
    OBVIOUS
  <2> QED
    BY <2>1, SizeIs
<1>2. f[0] = 1 /\ f[1] = f[0] * s[1] /\ f[2] = f[1] * s[2]
  BY <1>1 DEF IsSize
<1> QED
  BY <1>1, <1>2

(* ...and for vectors. *)
LEMMA Size1 ==
    ASSUME NEW s, Len(s) = 1, s[1] \in Int
    PROVE  Size(s) = s[1]
<1>1. PICK f : IsSize(f, s, 1) /\ Size(s) = f[1]
  <2>1. Len(s) \in Nat
    OBVIOUS
  <2> QED
    BY <2>1, SizeIs
<1>2. f[0] = 1 /\ f[1] = f[0] * s[1]
  BY <1>1 DEF IsSize
<1> QED
  BY <1>1, <1>2

(* The size of an image. *)
LEMMA Size4 ==
    ASSUME NEW s, Len(s) = 4, s[1] \in Int, s[2] \in Int, s[3] \in Int, s[4] \in Int
    PROVE  Size(s) = s[1] * s[2] * s[3] * s[4]
<1>1. PICK f : IsSize(f, s, 4) /\ Size(s) = f[4]
  <2>1. Len(s) \in Nat
    OBVIOUS
  <2> QED
    BY <2>1, SizeIs
<1>2. f[0] = 1 /\ f[1] = f[0] * s[1] /\ f[2] = f[1] * s[2] /\ f[3] = f[2] * s[3] /\ f[4] = f[3] * s[4]
  BY <1>1 DEF IsSize
<1>3. f[1] = s[1] /\ f[2] = s[1] * s[2] /\ f[3] = s[1] * s[2] * s[3]
  BY <1>2
<1> QED
  BY <1>1, <1>2, <1>3

(* A tensor has at least as many elements as the rows that its first       *)
(* dimension counts have in its last.                                      *)
LEMMA SizeOfRows ==
    ASSUME NEW s, NEW n \in Nat, n >= 2, Len(s) = n, \A j \in 1 .. n : s[j] \in Positive
    PROVE  Size(s) \in Nat /\ s[1] * s[n] <= Size(s)
<1>1. PICK f : IsSize(f, s, n) /\ Size(s) = f[n]
  BY SizeIs
<1>2. f[0] = 1 /\ \A j \in 1 .. n : f[j] = f[j - 1] * s[j]
  BY <1>1 DEF IsSize
<1> DEFINE bad == {j \in 1 .. n : ~(f[j] \in Nat /\ s[1] <= f[j])}
<1>3. bad = {}
  <2> SUFFICES ASSUME bad # {} PROVE FALSE
    OBVIOUS
  <2>1. PICK j \in bad : \A o \in bad : j <= o
    <3>1. bad \in SUBSET Nat
      OBVIOUS
    <3> HIDE DEF bad
    <3> QED
      BY <3>1, LeastNumber
  <2>2. j # 1
    <3>1. f[1] = 1 * s[1] /\ s[1] \in Nat
      BY <1>2 DEF Positive
    <3>2. f[1] = s[1]
      BY <3>1
    <3> QED
      BY <3>1, <3>2
  <2>3. j \in 1 .. n /\ j - 1 \in 1 .. n /\ j - 1 \notin bad
    BY <2>1, <2>2
  <2>4. f[j - 1] \in Nat /\ s[1] <= f[j - 1] /\ s[j] \in Nat /\ 1 <= s[j] /\ s[1] \in Nat
    BY <2>3 DEF Positive
  <2>5. f[j] = f[j - 1] * s[j]
    BY <1>2, <2>3
  <2> DEFINE a == f[j - 1]
             b == s[j]
  <2>6. a \in Nat /\ b \in Nat /\ 1 <= b
    BY <2>4
  <2> HIDE DEF a, b
  <2>7. a * 1 <= a * b /\ a * b \in Nat
    BY <2>6, Monotonic
  <2>8. f[j] \in Nat /\ s[1] <= f[j]
    BY <2>4, <2>5, <2>6, <2>7 DEF a, b
  <2> QED
    BY <2>1, <2>8
<1>4. n - 1 \in 1 .. n /\ n \in 1 .. n
  OBVIOUS
<1>5. f[n - 1] \in Nat /\ s[1] <= f[n - 1] /\ s[n] \in Nat /\ s[1] \in Nat
  BY <1>3, <1>4 DEF Positive
<1>6. f[n] = f[n - 1] * s[n]
  BY <1>2, <1>4
<1>7. s[1] * s[n] <= f[n - 1] * s[n]
  BY <1>5, Monotonic
<1> QED
  BY <1>1, <1>5, <1>6, <1>7

Batch(shape) == IF shape[1] = -1 THEN KBatchSize ELSE shape[1]

(* The dimensions of a tensor once the batch is known. *)
LEMMA ConcreteIs ==
    ASSUME NEW rank \in Nat \ {0}, NEW s, Tensor(s, rank)
    PROVE  /\ Len(Concrete(s)) = rank
           /\ \A j \in 1 .. rank : Concrete(s)[j] \in Positive
           /\ Concrete(s)[1] = Batch(s)
           /\ \A j \in 2 .. rank : Concrete(s)[j] = s[j]
<1>1. s \in Seq(Int) /\ DOMAIN s = 1 .. rank
  BY DEF Tensor
<1>2. DOMAIN Concrete(s) = 1 .. rank
  BY <1>1 DEF Concrete
<1>3. \A j \in 1 .. rank : Concrete(s)[j] = IF s[j] = -1 THEN KBatchSize ELSE s[j]
  BY <1>1 DEF Concrete
<1>4. Len(Concrete(s)) = rank
  <2>1. Concrete(s) \in [1 .. rank -> Int]
    BY <1>1, BuffersAssumption DEF Concrete, Positive
  <2> QED
    BY <2>1
<1>5. \A j \in 2 .. rank : s[j] # -1 /\ s[j] \in Positive
  BY DEF Tensor, Positive
<1>6. KBatchSize \in Positive /\ s[1] \in Positive \cup {-1}
  BY BuffersAssumption DEF Tensor
<1>7. \A j \in 1 .. rank : Concrete(s)[j] \in Positive
  <2> TAKE j \in 1 .. rank
  <2>1. CASE j = 1
    BY <1>3, <1>6, <2>1
  <2>2. CASE j # 1
    BY <1>3, <1>5, <2>2
  <2> QED
    BY <2>1, <2>2
<1>8. Concrete(s)[1] = Batch(s)
  BY <1>3 DEF Batch
<1>9. \A j \in 2 .. rank : Concrete(s)[j] = s[j]
  BY <1>3, <1>5
<1> QED
  BY <1>4, <1>7, <1>8, <1>9

(* A size is the first dimension times the size of the others... *)
LEMMA SizeOfTail ==
    ASSUME NEW s, s \in Seq(Int), NEW t, t \in Seq(Int), Len(s) = Len(t) + 1,
           \A j \in 1 .. Len(t) : t[j] = s[j + 1]
    PROVE  Size(t) \in Int /\ Size(s) = s[1] * Size(t)
<1> DEFINE n == Len(t)
<1>1. n \in Nat /\ Len(s) = n + 1 /\ s[1] \in Int /\ \A j \in 1 .. n : t[j] \in Int
  OBVIOUS
<1>2. PICK f : IsSize(f, s, n + 1) /\ Size(s) = f[n + 1]
  <2>1. Len(s) \in Nat
    BY <1>1
  <2> QED
    BY <1>1, <2>1, SizeIs
<1>3. PICK g : IsSize(g, t, n) /\ Size(t) = g[n]
  BY <1>1, SizeIs
<1> HIDE DEF n
<1>4. f[0] = 1 /\ \A j \in 1 .. n + 1 : f[j] = f[j - 1] * s[j]
  <2> DEFINE m == n + 1
  <2>1. m \in Nat /\ IsSize(f, s, m)
    BY <1>1, <1>2 DEF n
  <2> HIDE DEF m
  <2>2. f[0] = 1 /\ \A j \in 1 .. m : f[j] = f[j - 1] * s[j]
    BY <2>1, SizeSteps
  <2> QED
    BY <2>2 DEF m
<1>5. g[0] = 1 /\ \A j \in 1 .. n : g[j] = g[j - 1] * t[j]
  BY <1>1, <1>3 DEF IsSize
<1> DEFINE bad == {j \in 0 .. n : ~(g[j] \in Int /\ f[j + 1] = s[1] * g[j])}
<1>6. bad = {}
  <2> SUFFICES ASSUME bad # {} PROVE FALSE
    OBVIOUS
  <2>1. PICK j \in bad : \A o \in bad : j <= o
    <3>1. bad \in SUBSET Nat
      BY <1>1
    <3> HIDE DEF bad
    <3> QED
      BY <3>1, LeastNumber
  <2>2. j # 0
    <3>1. f[1] = f[0] * s[1]
      BY <1>1, <1>4
    <3>2. f[0 + 1] = s[1] * g[0] /\ g[0] \in Int
      BY <1>1, <1>4, <1>5, <3>1
    <3> QED
      BY <3>2
  <2>3. j \in 1 .. n /\ j - 1 \in 0 .. n /\ j - 1 \notin bad
    BY <1>1, <2>1, <2>2
  <2>4. g[j - 1] \in Int /\ f[j] = s[1] * g[j - 1]
    BY <2>3
  <2>5. g[j] = g[j - 1] * t[j] /\ f[j + 1] = f[j] * s[j + 1] /\ t[j] = s[j + 1] /\ t[j] \in Int
    <3>1. j \in 1 .. n + 1 /\ j + 1 \in 1 .. n + 1 /\ (j + 1) - 1 = j
      BY <1>1, <2>3 DEF n
    <3>2. f[j + 1] = f[(j + 1) - 1] * s[j + 1]
      BY <1>4, <3>1
    <3>3. t[j] = s[j + 1] /\ t[j] \in Int
      BY <1>1, <2>3 DEF n
    <3>4. g[j] = g[j - 1] * t[j]
      BY <1>5, <2>3
    <3> QED
      BY <3>1, <3>2, <3>3, <3>4
  <2> DEFINE a == g[j - 1]
             b == t[j]
             c == s[1]
  <2>6. a \in Int /\ b \in Int /\ c \in Int /\ g[j] = a * b /\ f[j + 1] = (c * a) * b
    BY <1>1, <2>4, <2>5
  <2> HIDE DEF a, b
  <2>7. g[j] \in Int /\ f[j + 1] = c * g[j]
    BY <2>6
  <2> QED
    BY <2>1, <2>7
<1>7. g[n] \in Int /\ f[n + 1] = s[1] * g[n]
  <2>1. n \in 0 .. n
    BY <1>1 DEF n
  <2> QED
    BY <1>6, <2>1
<1> QED
  BY <1>2, <1>3, <1>7

(* ...and positive if the dimensions are. *)
LEMMA SizePositive ==
    ASSUME NEW s, s \in Seq(Positive)
    PROVE  Size(s) \in Positive
<1> DEFINE n == Len(s)
<1>1. n \in Nat /\ \A j \in 1 .. n : s[j] \in Positive
  OBVIOUS
<1>2. PICK f : IsSize(f, s, n) /\ Size(s) = f[n]
  BY <1>1, SizeIs
<1> HIDE DEF n
<1>3. f[0] = 1 /\ \A j \in 1 .. n : f[j] = f[j - 1] * s[j]
  BY <1>1, <1>2 DEF IsSize
<1> DEFINE bad == {j \in 0 .. n : f[j] \notin Positive}
<1>4. bad = {}
  <2> SUFFICES ASSUME bad # {} PROVE FALSE
    OBVIOUS
  <2>1. PICK j \in bad : \A o \in bad : j <= o
    <3>1. bad \in SUBSET Nat
      BY <1>1
    <3> HIDE DEF bad
    <3> QED
      BY <3>1, LeastNumber
  <2>2. j # 0
    BY <1>3 DEF Positive
  <2>3. j \in 1 .. n /\ j - 1 \in 0 .. n /\ j - 1 \notin bad
    BY <1>1, <2>1, <2>2
  <2> DEFINE a == f[j - 1]
             b == s[j]
  <2>4. a \in Positive /\ b \in Positive /\ f[j] = a * b
    BY <1>1, <1>3, <2>3
  <2> HIDE DEF a, b
  <2>5. 1 * b <= a * b /\ a * b \in Nat /\ b \in Nat /\ 1 <= b
    BY <2>4, Monotonic DEF Positive
  <2>6. a * b \in Positive
    BY <2>5 DEF Positive
  <2> QED
    BY <2>1, <2>4, <2>6
<1>5. f[n] \in Positive
  BY <1>1, <1>4
<1> QED
  BY <1>2, <1>5

(* Folding the dimensions after the first leaves the number of elements,   *)
(* and of a matrix the rows.                                               *)
LEMMA FoldedIs ==
    ASSUME NEW x, x \in Seq(Positive \cup {-1}), Len(x) > 1, \A j \in 2 .. Len(x) : x[j] > 0
    PROVE  /\ Len(Concrete(FoldedShape(x))) = 2
           /\ Concrete(FoldedShape(x))[2] \in Positive
           /\ Concrete(x)[1] * Concrete(FoldedShape(x))[2] = Size(Concrete(x))
           /\ Size(Concrete(FoldedShape(x))) = Size(Concrete(x))
           /\ Len(x) = 2 => Concrete(FoldedShape(x))[2] = x[2]
<1> DEFINE n == Len(x)
           t == Tail(x)
           c == Concrete(x)
           v == Size(t)
<1>1. n \in Nat /\ n >= 2 /\ KBatchSize \in Positive
  BY BuffersAssumption
<1>2. x \in Seq(Int) /\ x[1] \in Positive \cup {-1} /\ \A j \in 2 .. n : x[j] \in Positive
  <2>1. \A j \in 1 .. n : x[j] \in Positive \cup {-1}
    OBVIOUS
  <2>2. \A j \in 2 .. n : x[j] \in Positive
    BY <1>1, <2>1
  <2>3. Positive \cup {-1} \subseteq Int
    BY DEF Positive
  <2> QED
    BY <1>1, <2>1, <2>2, <2>3
<1>3. t \in Seq(Int) /\ Len(t) = n - 1 /\ \A j \in 1 .. n - 1 : t[j] = x[j + 1]
  BY <1>1, <1>2
<1>4. t \in Seq(Positive)
  <2>1. \A j \in 1 .. n - 1 : t[j] \in Positive
    BY <1>1, <1>2, <1>3
  <2>2. t = [j \in 1 .. n - 1 |-> t[j]] /\ n - 1 \in Nat
    <3>1. n - 1 \in Nat /\ Len(t) = n - 1
      BY <1>1, <1>3
    <3> HIDE DEF t, n
    <3>2. t \in Seq(Int)
      BY <1>3
    <3> QED
      BY <3>1, <3>2
  <2> HIDE DEF t, n
  <2> QED
    BY <2>1, <2>2
<1>5. v \in Positive
  BY <1>4, SizePositive
<1>6. c \in Seq(Int) /\ Len(c) = n /\ c[1] \in Int /\ \A j \in 2 .. n : c[j] = x[j]
  <2>1. DOMAIN x = 1 .. n /\ c = [j \in 1 .. n |-> IF x[j] = -1 THEN KBatchSize ELSE x[j]]
    BY DEF Concrete
  <2>2. \A j \in 1 .. n : (IF x[j] = -1 THEN KBatchSize ELSE x[j]) \in Int
    BY <1>1, <1>2 DEF Positive
  <2>3. \A j \in 2 .. n : x[j] # -1
    BY <1>2 DEF Positive
  <2> HIDE DEF n, c
  <2>4. c \in [1 .. n -> Int]
    BY <2>1, <2>2
  <2> QED
    BY <1>1, <2>1, <2>3, <2>4
<1>7. v \in Int /\ Size(c) = c[1] * v
  <2>1. Len(c) = Len(t) + 1 /\ \A j \in 1 .. Len(t) : t[j] = c[j + 1]
    BY <1>1, <1>3, <1>6
  <2> HIDE DEF c, t, n
  <2> QED
    BY <1>3, <1>6, <2>1, SizeOfTail
<1>8. FoldedShape(x) = <<x[1], v>>
  <2>1. ~(n <= 1) /\ ~ \E j \in 2 .. n : x[j] <= 0
    BY <1>1, <1>2 DEF Positive
  <2> QED
    BY <2>1, Zenon DEF FoldedShape
<1> HIDE DEF v
<1>9. Concrete(FoldedShape(x)) = <<c[1], v>>
  <2> DEFINE y == <<x[1], v>>
  <2>1. Concrete(y) = [j \in 1 .. 2 |-> IF y[j] = -1 THEN KBatchSize ELSE y[j]]
    BY DEF Concrete
  <2>2. v # -1
    BY <1>5 DEF Positive
  <2>3. c[1] = IF x[1] = -1 THEN KBatchSize ELSE x[1]
    BY <1>1 DEF Concrete
  <2> HIDE DEF c
  <2>4. [j \in 1 .. 2 |-> IF y[j] = -1 THEN KBatchSize ELSE y[j]] = <<c[1], v>>
    BY <2>2, <2>3
  <2> HIDE DEF y
  <2> QED
    BY <1>8, <2>1, <2>4 DEF y
<1>10. Size(<<c[1], v>>) = c[1] * v
  <2> DEFINE y == <<c[1], v>>
  <2>1. Len(y) = 2 /\ y[1] = c[1] /\ y[2] = v
    OBVIOUS
  <2> HIDE DEF y, c
  <2>2. Size(y) = y[1] * y[2]
    BY <1>6, <1>7, <2>1, Size2
  <2> QED
    BY <2>1, <2>2 DEF y
<1>11. n = 2 => v = x[2]
  <2> SUFFICES ASSUME n = 2 PROVE v = x[2]
    OBVIOUS
  <2>20. 2 \in 2 .. n
    OBVIOUS
  <2>1. Len(t) = 1 /\ t[1] = x[2] /\ t[1] \in Int
    <3>1. 1 \in 1 .. n - 1 /\ n - 1 = 1
      OBVIOUS
    <3> HIDE DEF t, n
    <3>2. t[1] = x[1 + 1] /\ 1 + 1 = 2
      BY <1>3, <3>1
    <3>3. Len(t) = 1 /\ t \in Seq(Int)
      BY <1>3, <3>1
    <3>4. t[1] \in Int
      <4>1. x[2] \in Positive
        BY <1>2, <2>20 DEF n
      <4> QED
        BY <3>2, <4>1 DEF Positive
    <3> QED
      BY <3>2, <3>3, <3>4
  <2> HIDE DEF t
  <2> QED
    BY <2>1, Size1 DEF v
<1> HIDE DEF c
<1> QED
  BY <1>5, <1>7, <1>9, <1>10, <1>11 DEF c

(* The factors of the size in the generated code are those of the output,  *)
(* whether folded or not.                                                  *)
LEMMA FactorsSize ==
    ASSUME NEW l, OutputShape(l) \in Seq(Positive \cup {-1})
    PROVE  SizeExpr(l) = Size(Concrete(OutputShape(l)))
<1> DEFINE x == OutputShape(l)
<1>1. SizeExpr(l) = Size(Concrete(IF l.folded THEN FoldedShape(x) ELSE x))
  BY DEF SizeExpr, SizeFactors, Concrete
<1> HIDE DEF x
<1>2. CASE l.folded
  <2>1. CASE Len(x) > 1 /\ \A j \in 2 .. Len(x) : x[j] > 0
    <3>1. x \in Seq(Positive \cup {-1})
      BY DEF x
    <3>2. Size(Concrete(FoldedShape(x))) = Size(Concrete(x))
      BY <2>1, <3>1, FoldedIs
    <3> QED
      BY <1>1, <1>2, <3>2 DEF x
  <2>2. CASE ~(Len(x) > 1 /\ \A j \in 2 .. Len(x) : x[j] > 0)
    <3>1. Len(x) \in Nat /\ \A j \in 1 .. Len(x) : x[j] \in Int
      BY DEF x, Positive
    <3>2. Len(x) <= 1 \/ \E j \in 2 .. Len(x) : x[j] <= 0
      BY <2>2, <3>1
    <3>3. FoldedShape(x) = x
      BY <3>2 DEF FoldedShape
    <3> QED
      BY <1>1, <3>3 DEF x
  <2> QED
    BY <2>1, <2>2
<1>3. CASE ~ l.folded
  BY <1>1, <1>3 DEF x
<1> QED
  BY <1>2, <1>3

(* The last factor counts the elements after the first dimension, or the   *)
(* last of them: as many as the rows have, at most.                        *)
LEMMA LastFactor ==
    ASSUME NEW l, NEW n \in Nat, n >= 2, Tensor(OutputShape(l), n)
    PROVE  LET v == SizeFactors(l)[Len(SizeFactors(l))]
               c == Concrete(OutputShape(l))
           IN  /\ v \in Positive /\ c[1] * v <= Size(c) /\ Size(c) \in Nat
               /\ n = 2 => v = OutputShape(l)[2]
<1> DEFINE x == OutputShape(l)
           c == Concrete(x)
           f == Concrete(FoldedShape(x))
<1>1. SizeFactors(l) = IF l.folded THEN f ELSE c
  BY DEF SizeFactors, Concrete
<1>2. /\ Len(c) = n /\ (\A j \in 1 .. n : c[j] \in Positive)
      /\ \A j \in 2 .. n : c[j] = x[j]
  <2>1. n \in Nat \ {0}
    OBVIOUS
  <2> QED
    BY <2>1, ConcreteIs
<1>3. Size(c) \in Nat /\ c[1] * c[n] <= Size(c)
  <2> HIDE DEF c
  <2> QED
    BY <1>2, SizeOfRows
<1>4. /\ Len(f) = 2 /\ f[2] \in Positive /\ c[1] * f[2] = Size(c)
      /\ n = 2 => f[2] = x[2]
  <2>1. Len(x) = n /\ x \in Seq(Int) /\ x[1] \in Positive \cup {-1} /\ \A j \in 2 .. n : x[j] \in Positive
    BY DEF Tensor
  <2> HIDE DEF x
  <2>2. x \in Seq(Positive \cup {-1})
    <3>1. \A j \in 1 .. n : x[j] \in Positive \cup {-1}
      BY <2>1
    <3>2. x = [j \in 1 .. n |-> x[j]]
      BY <2>1
    <3> QED
      BY <3>1, <3>2
  <2>3. Len(x) > 1 /\ \A j \in 2 .. Len(x) : x[j] > 0
    BY <2>1 DEF Positive
  <2>4. /\ Len(Concrete(FoldedShape(x))) = 2
        /\ Concrete(FoldedShape(x))[2] \in Positive
        /\ Concrete(x)[1] * Concrete(FoldedShape(x))[2] = Size(Concrete(x))
        /\ Len(x) = 2 => Concrete(FoldedShape(x))[2] = x[2]
    BY <2>2, <2>3, FoldedIs
  <2> QED
    BY <2>1, <2>4, Zenon
<1> HIDE DEF c, f, x
<1>5. CASE l.folded
  <2>1. SizeFactors(l)[Len(SizeFactors(l))] = f[2]
    BY <1>1, <1>4, <1>5
  <2> QED
    BY <1>3, <1>4, <2>1 DEF c, x
<1>6. CASE ~ l.folded
  <2>1. SizeFactors(l)[Len(SizeFactors(l))] = c[n]
    BY <1>1, <1>2, <1>6
  <2> QED
    BY <1>2, <1>3, <2>1 DEF c, x
<1> QED
  BY <1>5, <1>6

(* The extents of an image and of a matrix, whatever the batch. *)
LEMMA ImageTensor ==
    ASSUME NEW s, Tensor(s, 4)
    PROVE  /\ Size(Concrete(s)) = Batch(s) * s[2] * s[3] * s[4]
           /\ Size(Concrete(s)) \in Nat
           /\ Batch(s) \in Positive /\ s[2] \in Positive /\ s[3] \in Positive /\ s[4] \in Positive
<1> DEFINE c == Concrete(s)
<1>1. /\ Len(c) = 4 /\ \A j \in 1 .. 4 : c[j] \in Positive
      /\ c[1] = Batch(s) /\ \A j \in 2 .. 4 : c[j] = s[j]
  <2>1. 4 \in Nat \ {0}
    OBVIOUS
  <2> DEFINE rank == 4
  <2> HIDE DEF rank
  <2> QED
    BY <2>1, ConcreteIs DEF rank, c
<1> HIDE DEF c
<1>2. /\ c[1] \in Positive /\ c[2] \in Positive /\ c[3] \in Positive /\ c[4] \in Positive
      /\ c[2] = s[2] /\ c[3] = s[3] /\ c[4] = s[4]
  BY <1>1
<1>3. Size(c) = c[1] * c[2] * c[3] * c[4]
  BY <1>1, <1>2, Size4 DEF Positive
<1>4. c[1] * c[2] * c[3] * c[4] \in Nat
  BY <1>2 DEF Positive
<1> QED
  BY <1>1, <1>2, <1>3, <1>4 DEF c

(* The size of a matrix with a dynamic batch. *)
LEMMA MatrixTensor ==
    ASSUME NEW s, Tensor(s, 2)
    PROVE  /\ Size(Concrete(s)) = Batch(s) * s[2]
           /\ Size(Concrete(s)) \in Nat
           /\ Batch(s) \in Positive /\ s[2] \in Positive
<1> DEFINE c == Concrete(s)
<1>1. /\ Len(c) = 2 /\ \A j \in 1 .. 2 : c[j] \in Positive
      /\ c[1] = Batch(s) /\ \A j \in 2 .. 2 : c[j] = s[j]
  <2>1. 2 \in Nat \ {0}
    OBVIOUS
  <2> DEFINE rank == 2
  <2> HIDE DEF rank
  <2> QED
    BY <2>1, ConcreteIs DEF rank, c
<1> HIDE DEF c
<1>2. /\ c[1] \in Positive /\ c[2] \in Positive /\ c[2] = s[2]
  BY <1>1
<1>3. Size(c) = c[1] * c[2]
  BY <1>1, <1>2, Size2 DEF Positive
<1>4. c[1] * c[2] \in Nat
  BY <1>2 DEF Positive
<1> QED
  BY <1>1, <1>2, <1>3, <1>4 DEF c

(***************************************************************************)
(* Arguments and parameters.                                               *)
(***************************************************************************)
Names == {"BatchSize", "InHeight", "InWidth", "InChannels", "OutChannels", "KernelHeight",
          "KernelWidth", "StrideHeight", "StrideWidth", "PaddingHeight", "PaddingWidth", "Bias",
          "OutHeight", "OutWidth", "NumRows", "InDim", "OutDim", "InRowStride", "InColStride",
          "WeightRowStride", "WeightColStride", "NumReductions", "ReductionSize",
          "StrideWithinDim", "OuterStride", "Size"}

Argument == Int \cup {TRUE}

Distinct(parameters) ==
    \A i, j \in 1 .. Len(parameters) : parameters[i] = parameters[j] => i = j

(* An argument is bound to the parameter at its position, and a parameter  *)
(* left out to its default.                                                *)
LEMMA BindIs ==
    ASSUME NEW parameters \in Seq(Names), NEW args \in Seq(Argument), NEW defaults \in Seq(Argument),
           Len(parameters) - Len(args) <= Len(defaults), Distinct(parameters)
    PROVE  /\ DOMAIN Bind(parameters, args, defaults) = {parameters[j] : j \in 1 .. Len(parameters)}
           /\ \A j \in 1 .. Len(parameters) :
                Bind(parameters, args, defaults)[parameters[j]] =
                    IF j <= Len(args) THEN args[j]
                    ELSE defaults[j - Len(parameters) + Len(defaults)]
<1> DEFINE n == Len(parameters)
           missing == n - Len(args)
           rest == SubSeq(defaults, Len(defaults) - missing + 1, Len(defaults))
           values == args \o rest
           b == Bind(parameters, args, defaults)
<1>1. n \in Nat /\ Len(args) \in Nat /\ Len(defaults) \in Nat /\ DOMAIN parameters = 1 .. n
  OBVIOUS
<1>2. b = [name \in {parameters[j] : j \in 1 .. n} |->
             values[CHOOSE j \in 1 .. n : parameters[j] = name]]
  BY <1>1 DEF Bind
<1>3. ASSUME NEW j \in 1 .. n PROVE b[parameters[j]] = values[j]
  <2>1. (CHOOSE i \in 1 .. n : parameters[i] = parameters[j]) = j
    BY DEF Distinct
  <2> HIDE DEF values, n
  <2> QED
    BY <1>2, <2>1
<1>4. ASSUME NEW j \in 1 .. n, j <= Len(args) PROVE values[j] = args[j]
  <2>1. rest \in Seq(Argument)
    BY <1>1
  <2> HIDE DEF rest
  <2> QED
    BY <1>1, <1>4, <2>1
<1>5. ASSUME NEW j \in 1 .. n, ~(j <= Len(args))
      PROVE  values[j] = defaults[j - n + Len(defaults)]
  <2> DEFINE lo == Len(defaults) - missing + 1
  <2>1. lo \in 1 .. Len(defaults) /\ missing \in Nat
    BY <1>1, <1>5
  <2>2. rest \in Seq(Argument) /\ Len(rest) = missing /\ \A i \in 1 .. missing : rest[i] = defaults[lo + i - 1]
    <3>1. lo \in Int /\ Len(defaults) - lo + 1 = missing
      BY <1>1
    <3> HIDE DEF missing, lo
    <3> QED
      BY <1>1, <2>1, <3>1
  <2> HIDE DEF rest
  <2>3. values[j] = rest[j - Len(args)] /\ j - Len(args) \in 1 .. missing
    BY <1>1, <1>5, <2>2
  <2> QED
    BY <1>1, <2>2, <2>3
<1> QED
  BY <1>1, <1>2, <1>3, <1>4, <1>5

(* The elements of two sequences, one after the other. *)
LEMMA ConcatAt ==
    ASSUME NEW S, NEW s \in Seq(S), NEW t \in Seq(S)
    PROVE  /\ s \o t \in Seq(S) /\ Len(s \o t) = Len(s) + Len(t)
           /\ \A i \in 1 .. Len(s) : (s \o t)[i] = s[i]
           /\ \A i \in 1 .. Len(t) : (s \o t)[Len(s) + i] = t[i]
<1>1. s \o t \in Seq(S) /\ Len(s \o t) = Len(s) + Len(t) /\ Len(s) \in Nat /\ Len(t) \in Nat
  OBVIOUS
<1>2. ASSUME NEW i \in 1 .. Len(s) PROVE (s \o t)[i] = s[i]
  BY <1>1
<1>3. ASSUME NEW i \in 1 .. Len(t) PROVE (s \o t)[Len(s) + i] = t[i]
  <2> DEFINE j == Len(s) + i
  <2>1. j \in 1 .. Len(s) + Len(t) /\ j > Len(s) /\ j - Len(s) = i
    BY <1>1
  <2> HIDE DEF j
  <2>2. (s \o t)[j] = t[j - Len(s)]
    BY <1>1, <2>1
  <2> QED
    BY <2>1, <2>2 DEF j
<1> QED
  BY <1>1, <1>2, <1>3

(* The parameters of the kernels of images and windows. *)
LEMMA ImageNames ==
    /\ Image \in Seq(Names) /\ Len(Image) = 4
    /\ Image[1] = "BatchSize" /\ Image[2] = "InHeight" /\ Image[3] = "InWidth"
    /\ Image[4] = "InChannels"
BY DEF Image, Names

(* The names of the parameters of a window, by position. *)
LEMMA WindowNames ==
    /\ Window \in Seq(Names) /\ Len(Window) = 6
    /\ Window[1] = "KernelHeight" /\ Window[2] = "KernelWidth" /\ Window[3] = "StrideHeight"
    /\ Window[4] = "StrideWidth" /\ Window[5] = "PaddingHeight" /\ Window[6] = "PaddingWidth"
BY DEF Window, Names

PoolParameters == Image \o Window
ConvParameters == Image \o <<"OutChannels">> \o Window \o <<"Bias">>
AdaptiveParameters == Image \o <<"OutHeight", "OutWidth">>

(* ...of the pools, of a convolution and of the adaptive pools. *)
LEMMA PoolNames ==
    /\ PoolParameters \in Seq(Names) /\ Len(PoolParameters) = 10
    /\ PoolParameters[1] = "BatchSize" /\ PoolParameters[2] = "InHeight"
    /\ PoolParameters[3] = "InWidth" /\ PoolParameters[4] = "InChannels"
    /\ PoolParameters[5] = "KernelHeight" /\ PoolParameters[6] = "KernelWidth"
    /\ PoolParameters[7] = "StrideHeight" /\ PoolParameters[8] = "StrideWidth"
    /\ PoolParameters[9] = "PaddingHeight" /\ PoolParameters[10] = "PaddingWidth"
<1> DEFINE p == Image \o Window
<1>1. /\ p \in Seq(Names) /\ Len(p) = Len(Image) + Len(Window)
      /\ \A i \in 1 .. Len(Image) : p[i] = Image[i]
      /\ \A i \in 1 .. Len(Window) : p[Len(Image) + i] = Window[i]
  <2>1. Image \in Seq(Names) /\ Window \in Seq(Names)
    BY ImageNames, WindowNames
  <2> QED
    BY <2>1, ConcatAt
<1>2. PoolParameters = p
  BY DEF PoolParameters
<1> HIDE DEF p
<1>3. /\ p[1] = Image[1] /\ p[2] = Image[2] /\ p[3] = Image[3] /\ p[4] = Image[4]
      /\ p[4 + 1] = Window[1] /\ p[4 + 2] = Window[2] /\ p[4 + 3] = Window[3]
      /\ p[4 + 4] = Window[4] /\ p[4 + 5] = Window[5] /\ p[4 + 6] = Window[6]
  BY <1>1, ImageNames, WindowNames
<1> QED
  BY <1>1, <1>2, <1>3, ImageNames, WindowNames

(* Those of a convolution. *)
LEMMA ConvNames ==
    /\ ConvParameters \in Seq(Names) /\ Len(ConvParameters) = 12
    /\ ConvParameters[1] = "BatchSize" /\ ConvParameters[2] = "InHeight"
    /\ ConvParameters[3] = "InWidth" /\ ConvParameters[4] = "InChannels"
    /\ ConvParameters[5] = "OutChannels"
    /\ ConvParameters[6] = "KernelHeight" /\ ConvParameters[7] = "KernelWidth"
    /\ ConvParameters[8] = "StrideHeight" /\ ConvParameters[9] = "StrideWidth"
    /\ ConvParameters[10] = "PaddingHeight" /\ ConvParameters[11] = "PaddingWidth"
    /\ ConvParameters[12] = "Bias"
<1> DEFINE a == <<"OutChannels">>
           b == <<"Bias">>
<1>1. a \in Seq(Names) /\ Len(a) = 1 /\ a[1] = "OutChannels"
  BY DEF Names
<1>2. b \in Seq(Names) /\ Len(b) = 1 /\ b[1] = "Bias"
  BY DEF Names
<1>3. ConvParameters = ((Image \o a) \o Window) \o b
  BY DEF ConvParameters
<1> HIDE DEF a, b
<1> DEFINE s == Image \o a
           t == s \o Window
<1>4. /\ s \in Seq(Names) /\ Len(s) = 5 /\ s[1] = "BatchSize" /\ s[2] = "InHeight"
      /\ s[3] = "InWidth" /\ s[4] = "InChannels" /\ s[5] = "OutChannels"
  <2>1. /\ s \in Seq(Names) /\ Len(s) = Len(Image) + Len(a)
        /\ \A i \in 1 .. Len(Image) : s[i] = Image[i]
        /\ \A i \in 1 .. Len(a) : s[Len(Image) + i] = a[i]
    <3>1. Image \in Seq(Names) /\ a \in Seq(Names)
      BY <1>1, ImageNames
    <3> QED
      BY <3>1, ConcatAt
  <2> HIDE DEF s
  <2>2. /\ s[1] = Image[1] /\ s[2] = Image[2] /\ s[3] = Image[3] /\ s[4] = Image[4]
        /\ s[4 + 1] = a[1]
    BY <1>1, <2>1, ImageNames
  <2> QED
    BY <1>1, <2>1, <2>2, ImageNames
<1> HIDE DEF s
<1>5. /\ t \in Seq(Names) /\ Len(t) = 11
      /\ t[1] = "BatchSize" /\ t[2] = "InHeight"
      /\ t[3] = "InWidth" /\ t[4] = "InChannels" /\ t[5] = "OutChannels"
      /\ t[6] = "KernelHeight" /\ t[7] = "KernelWidth"
      /\ t[8] = "StrideHeight" /\ t[9] = "StrideWidth"
      /\ t[10] = "PaddingHeight" /\ t[11] = "PaddingWidth"
  <2>1. /\ t \in Seq(Names) /\ Len(t) = Len(s) + Len(Window)
        /\ \A i \in 1 .. Len(s) : t[i] = s[i]
        /\ \A i \in 1 .. Len(Window) : t[Len(s) + i] = Window[i]
    <3>1. s \in Seq(Names) /\ Window \in Seq(Names)
      BY <1>4, WindowNames
    <3> QED
      BY <3>1, ConcatAt
  <2> HIDE DEF t
  <2>2. /\ t[1] = s[1] /\ t[2] = s[2] /\ t[3] = s[3] /\ t[4] = s[4] /\ t[5] = s[5]
        /\ t[5 + 1] = Window[1] /\ t[5 + 2] = Window[2] /\ t[5 + 3] = Window[3]
        /\ t[5 + 4] = Window[4] /\ t[5 + 5] = Window[5] /\ t[5 + 6] = Window[6]
    BY <1>4, <2>1, WindowNames
  <2> QED
    BY <1>4, <2>1, <2>2, WindowNames
<1> HIDE DEF t
<1>6. ConvParameters = t \o b
  BY <1>3 DEF s, t
<1> DEFINE p == t \o b
<1>7. /\ p \in Seq(Names) /\ Len(p) = Len(t) + Len(b)
      /\ \A i \in 1 .. Len(t) : p[i] = t[i]
      /\ \A i \in 1 .. Len(b) : p[Len(t) + i] = b[i]
  <2>1. t \in Seq(Names) /\ b \in Seq(Names)
    BY <1>2, <1>5
  <2> QED
    BY <2>1, ConcatAt
<1> HIDE DEF p
<1>8. ConvParameters = p
  BY <1>6 DEF p
<1>9. /\ p[1] = t[1] /\ p[2] = t[2] /\ p[3] = t[3] /\ p[4] = t[4] /\ p[5] = t[5]
      /\ p[6] = t[6] /\ p[7] = t[7] /\ p[8] = t[8] /\ p[9] = t[9] /\ p[10] = t[10]
      /\ p[11] = t[11] /\ p[11 + 1] = b[1]
  BY <1>2, <1>5, <1>7
<1> QED
  BY <1>2, <1>5, <1>7, <1>8, <1>9

(* Those of an adaptive pool. *)
LEMMA AdaptiveNames ==
    /\ AdaptiveParameters \in Seq(Names) /\ Len(AdaptiveParameters) = 6
    /\ AdaptiveParameters[1] = "BatchSize" /\ AdaptiveParameters[2] = "InHeight"
    /\ AdaptiveParameters[3] = "InWidth" /\ AdaptiveParameters[4] = "InChannels"
    /\ AdaptiveParameters[5] = "OutHeight" /\ AdaptiveParameters[6] = "OutWidth"
<1> DEFINE a == <<"OutHeight", "OutWidth">>
<1>1. a \in Seq(Names) /\ Len(a) = 2 /\ a[1] = "OutHeight" /\ a[2] = "OutWidth"
  BY DEF Names
<1>2. AdaptiveParameters = Image \o a
  BY DEF AdaptiveParameters
<1> DEFINE p == Image \o a
<1>3. /\ p \in Seq(Names) /\ Len(p) = Len(Image) + Len(a)
      /\ \A i \in 1 .. Len(Image) : p[i] = Image[i]
      /\ \A i \in 1 .. Len(a) : p[Len(Image) + i] = a[i]
  <2> HIDE DEF a
  <2> QED
    <3>1. Image \in Seq(Names) /\ a \in Seq(Names)
      BY <1>1, ImageNames
    <3> QED
      BY <3>1, ConcatAt
<1> HIDE DEF a, p
<1>4. AdaptiveParameters = p
  BY <1>2 DEF p
<1>5. /\ p[1] = Image[1] /\ p[2] = Image[2] /\ p[3] = Image[3] /\ p[4] = Image[4]
      /\ p[4 + 1] = a[1] /\ p[4 + 2] = a[2]
  BY <1>1, <1>3, ImageNames
<1> QED
  BY <1>1, <1>3, <1>4, <1>5, ImageNames

(***************************************************************************)
(* The kernels of the aliases.                                             *)
(***************************************************************************)
ImageIs(T, a) ==
    T.BatchSize = a[1] /\ T.InHeight = a[2] /\ T.InWidth = a[3] /\ T.InChannels = a[4]

WindowIs(T, kh, kw, sh, sw, ph, pw) ==
    /\ T.KernelHeight = kh /\ T.KernelWidth = kw /\ T.StrideHeight = sh /\ T.StrideWidth = sw
    /\ T.PaddingHeight = ph /\ T.PaddingWidth = pw
    /\ "OutHeight" \notin DOMAIN T /\ "OutWidth" \notin DOMAIN T

(* Integers are arguments. *)
LEMMA IntArgument == \A n \in Int : n \in Argument
  BY Zenon DEF Argument

(* What Conv2d is instantiated with. *)
LEMMA ConvKernel ==
    ASSUME NEW act, NEW args \in Seq(Argument), Len(args) >= 11
    PROVE  /\ Conv2d(act, args).impl = "Conv2d" /\ ImageIs(Conv2d(act, args).T, args)
           /\ Conv2d(act, args).T.OutChannels = args[5]
           /\ WindowIs(Conv2d(act, args).T, args[6], args[7], args[8], args[9], args[10], args[11])
<1> DEFINE p == ConvParameters
           d == <<1, 1, 0, 0, TRUE>>
           b == Bind(p, args, d)
<1>1. Conv2d(act, args).impl = "Conv2d" /\ Conv2d(act, args).T = b
  BY DEF Conv2d, Kernel, ConvParameters
<1>2. d \in Seq(Argument) /\ Len(d) = 5
  <2> DEFINE yes == TRUE
             e == <<1, 1, 0, 0, yes>>
  <2>1. yes \in Argument
    BY Zenon DEF Argument
  <2>2. 0 \in Argument /\ 1 \in Argument
    BY DEF Argument
  <2>3. d = e
    BY Zenon
  <2> HIDE DEF yes
  <2>4. e \in Seq(Argument) /\ Len(e) = 5
    BY <2>1, <2>2
  <2> HIDE DEF d, e
  <2> QED
    BY <2>3, <2>4
<1>3. p \in Seq(Names) /\ Len(p) = 12 /\ Distinct(p)
  BY ConvNames DEF Distinct
<1> HIDE DEF p, d, b
<1>4. /\ DOMAIN b = {p[j] : j \in 1 .. Len(p)}
      /\ \A j \in 1 .. Len(p) :
            b[p[j]] = IF j <= Len(args) THEN args[j] ELSE d[j - Len(p) + Len(d)]
  <2>1. Len(p) - Len(args) <= Len(d)
    BY <1>2, <1>3
  <2> QED
    BY <1>2, <1>3, <2>1, BindIs DEF b
<1>5. \A j \in 1 .. 11 : b[p[j]] = args[j]
  BY <1>3, <1>4
<1>6. /\ b[p[1]] = args[1] /\ b[p[2]] = args[2] /\ b[p[3]] = args[3] /\ b[p[4]] = args[4]
      /\ b[p[5]] = args[5] /\ b[p[6]] = args[6] /\ b[p[7]] = args[7] /\ b[p[8]] = args[8]
      /\ b[p[9]] = args[9] /\ b[p[10]] = args[10] /\ b[p[11]] = args[11]
  BY <1>5
<1>7. DOMAIN b = {p[j] : j \in 1 .. 12}
  BY <1>3, <1>4
<1>8. /\ b["BatchSize"] = args[1] /\ b["InHeight"] = args[2] /\ b["InWidth"] = args[3]
      /\ b["InChannels"] = args[4] /\ b["OutChannels"] = args[5] /\ b["KernelHeight"] = args[6]
      /\ b["KernelWidth"] = args[7] /\ b["StrideHeight"] = args[8] /\ b["StrideWidth"] = args[9]
      /\ b["PaddingHeight"] = args[10] /\ b["PaddingWidth"] = args[11]
  BY <1>6, ConvNames DEF p
<1>9. "OutHeight" \notin DOMAIN b /\ "OutWidth" \notin DOMAIN b
  BY <1>7, ConvNames DEF p
<1> QED
  BY <1>1, <1>8, <1>9 DEF ImageIs, WindowIs

(* What MaxPool2d is instantiated with. *)
LEMMA MaxPoolKernel ==
    ASSUME NEW act, NEW args \in Seq(Argument), Len(args) >= 10
    PROVE  /\ MaxPool2d(act, args).impl = "MaxPool2d" /\ ImageIs(MaxPool2d(act, args).T, args)
           /\ WindowIs(MaxPool2d(act, args).T, args[5], args[6], args[7], args[8], args[9], args[10])
<1> DEFINE p == PoolParameters
           d == <<args[5], args[6], 0, 0>>
           b == Bind(p, args, d)
<1>1. MaxPool2d(act, args).impl = "MaxPool2d" /\ MaxPool2d(act, args).T = b
  BY DEF MaxPool2d, Kernel, PoolParameters
<1>2. d \in Seq(Argument) /\ Len(d) = 4
  <2>1. args[5] \in Argument /\ args[6] \in Argument
    OBVIOUS
  <2>2. 0 \in Argument
    BY DEF Argument
  <2> QED
    BY <2>1, <2>2
<1>3. p \in Seq(Names) /\ Len(p) = 10 /\ Distinct(p)
  BY PoolNames DEF Distinct
<1> HIDE DEF p, d, b
<1>4. /\ DOMAIN b = {p[j] : j \in 1 .. Len(p)}
      /\ \A j \in 1 .. Len(p) :
            b[p[j]] = IF j <= Len(args) THEN args[j] ELSE d[j - Len(p) + Len(d)]
  <2>1. Len(p) - Len(args) <= Len(d)
    BY <1>2, <1>3
  <2> QED
    BY <1>2, <1>3, <2>1, BindIs DEF b
<1>5. \A j \in 1 .. 10 : b[p[j]] = args[j]
  BY <1>3, <1>4
<1>6. /\ b[p[1]] = args[1] /\ b[p[2]] = args[2] /\ b[p[3]] = args[3] /\ b[p[4]] = args[4]
      /\ b[p[5]] = args[5] /\ b[p[6]] = args[6] /\ b[p[7]] = args[7] /\ b[p[8]] = args[8]
      /\ b[p[9]] = args[9] /\ b[p[10]] = args[10]
  BY <1>5
<1>7. DOMAIN b = {p[j] : j \in 1 .. 10}
  BY <1>3, <1>4
<1>8. /\ b["BatchSize"] = args[1] /\ b["InHeight"] = args[2] /\ b["InWidth"] = args[3]
      /\ b["InChannels"] = args[4] /\ b["KernelHeight"] = args[5] /\ b["KernelWidth"] = args[6]
      /\ b["StrideHeight"] = args[7] /\ b["StrideWidth"] = args[8] /\ b["PaddingHeight"] = args[9]
      /\ b["PaddingWidth"] = args[10]
  BY <1>6, PoolNames DEF p
<1>9. "OutHeight" \notin DOMAIN b /\ "OutWidth" \notin DOMAIN b
  BY <1>7, PoolNames DEF p
<1> QED
  BY <1>1, <1>8, <1>9 DEF ImageIs, WindowIs

(* What AvgPool2d is instantiated with. *)
LEMMA AvgPoolKernel ==
    ASSUME NEW act, NEW args \in Seq(Argument), Len(args) >= 10
    PROVE  /\ AvgPool2d(act, args).impl = "AvgPool2d" /\ ImageIs(AvgPool2d(act, args).T, args)
           /\ WindowIs(AvgPool2d(act, args).T, args[5], args[6], args[7], args[8], args[9], args[10])
<1> DEFINE p == PoolParameters
           d == <<1, 1, 0, 0>>
           b == Bind(p, args, d)
<1>1. AvgPool2d(act, args).impl = "AvgPool2d" /\ AvgPool2d(act, args).T = b
  BY DEF AvgPool2d, Kernel, PoolParameters
<1>2. d \in Seq(Argument) /\ Len(d) = 4
  BY DEF Argument
<1>3. p \in Seq(Names) /\ Len(p) = 10 /\ Distinct(p)
  BY PoolNames DEF Distinct
<1> HIDE DEF p, d, b
<1>4. /\ DOMAIN b = {p[j] : j \in 1 .. Len(p)}
      /\ \A j \in 1 .. Len(p) :
            b[p[j]] = IF j <= Len(args) THEN args[j] ELSE d[j - Len(p) + Len(d)]
  <2>1. Len(p) - Len(args) <= Len(d)
    BY <1>2, <1>3
  <2> QED
    BY <1>2, <1>3, <2>1, BindIs DEF b
<1>5. \A j \in 1 .. 10 : b[p[j]] = args[j]
  BY <1>3, <1>4
<1>6. /\ b[p[1]] = args[1] /\ b[p[2]] = args[2] /\ b[p[3]] = args[3] /\ b[p[4]] = args[4]
      /\ b[p[5]] = args[5] /\ b[p[6]] = args[6] /\ b[p[7]] = args[7] /\ b[p[8]] = args[8]
      /\ b[p[9]] = args[9] /\ b[p[10]] = args[10]
  BY <1>5
<1>7. DOMAIN b = {p[j] : j \in 1 .. 10}
  BY <1>3, <1>4
<1>8. /\ b["BatchSize"] = args[1] /\ b["InHeight"] = args[2] /\ b["InWidth"] = args[3]
      /\ b["InChannels"] = args[4] /\ b["KernelHeight"] = args[5] /\ b["KernelWidth"] = args[6]
      /\ b["StrideHeight"] = args[7] /\ b["StrideWidth"] = args[8] /\ b["PaddingHeight"] = args[9]
      /\ b["PaddingWidth"] = args[10]
  BY <1>6, PoolNames DEF p
<1>9. "OutHeight" \notin DOMAIN b /\ "OutWidth" \notin DOMAIN b
  BY <1>7, PoolNames DEF p
<1> QED
  BY <1>1, <1>8, <1>9 DEF ImageIs, WindowIs

(* What AdaptiveAvgPool2d is instantiated with. *)
LEMMA AdaptiveKernel ==
    ASSUME NEW act, NEW args \in Seq(Argument), Len(args) >= 6
    PROVE  /\ AdaptiveAvgPool2d(act, args).impl = "AdaptiveAvgPool2d" /\ ImageIs(AdaptiveAvgPool2d(act, args).T, args)
           /\ {"OutHeight", "OutWidth"} \subseteq DOMAIN AdaptiveAvgPool2d(act, args).T
           /\ AdaptiveAvgPool2d(act, args).T.OutHeight = args[5]
           /\ AdaptiveAvgPool2d(act, args).T.OutWidth = args[6]
<1> DEFINE p == AdaptiveParameters
           d == <<>>
           b == Bind(p, args, d)
<1>1. AdaptiveAvgPool2d(act, args).impl = "AdaptiveAvgPool2d" /\ AdaptiveAvgPool2d(act, args).T = b
  BY DEF AdaptiveAvgPool2d, Kernel, AdaptiveParameters
<1>2. d \in Seq(Argument) /\ Len(d) = 0
  BY DEF Argument
<1>3. p \in Seq(Names) /\ Len(p) = 6 /\ Distinct(p)
  BY AdaptiveNames DEF Distinct
<1> HIDE DEF p, d, b
<1>4. /\ DOMAIN b = {p[j] : j \in 1 .. Len(p)}
      /\ \A j \in 1 .. Len(p) :
            b[p[j]] = IF j <= Len(args) THEN args[j] ELSE d[j - Len(p) + Len(d)]
  <2>1. Len(p) - Len(args) <= Len(d)
    BY <1>2, <1>3
  <2> QED
    BY <1>2, <1>3, <2>1, BindIs DEF b
<1>5. \A j \in 1 .. 6 : b[p[j]] = args[j]
  BY <1>3, <1>4
<1>6. /\ b[p[1]] = args[1] /\ b[p[2]] = args[2] /\ b[p[3]] = args[3] /\ b[p[4]] = args[4]
      /\ b[p[5]] = args[5] /\ b[p[6]] = args[6]
  BY <1>5
<1>7. DOMAIN b = {p[j] : j \in 1 .. 6}
  BY <1>3, <1>4
<1>8. /\ b["BatchSize"] = args[1] /\ b["InHeight"] = args[2] /\ b["InWidth"] = args[3]
      /\ b["InChannels"] = args[4] /\ b["OutHeight"] = args[5] /\ b["OutWidth"] = args[6]
  BY <1>6, AdaptiveNames DEF p
<1>9. {"OutHeight", "OutWidth"} \subseteq DOMAIN b
  BY <1>7, AdaptiveNames DEF p
<1> QED
  BY <1>1, <1>8, <1>9 DEF ImageIs

(* What Linear is instantiated with. *)
LEMMA LinearKernel ==
    ASSUME NEW act, NEW args, args[1] \in Int, args[2] \in Int, args[3] \in Int
    PROVE  /\ Linear(act, args).impl = "Linear"
           /\ Linear(act, args).T.NumRows = args[1]
           /\ Linear(act, args).T.InDim = args[2] /\ Linear(act, args).T.OutDim = args[3]
           /\ Linear(act, args).T.InRowStride = args[2] /\ Linear(act, args).T.InColStride = 1
           /\ Linear(act, args).T.WeightRowStride = args[2]
           /\ Linear(act, args).T.WeightColStride = 1
<1> DEFINE a == <<args[1], args[2], args[3], args[2], 1, args[2], 1>>
           p == <<"NumRows", "InDim", "OutDim", "InRowStride", "InColStride", "WeightRowStride", "WeightColStride">>
           b == Bind(p, a, <<>>)
<1>1. Linear(act, args).impl = "Linear" /\ Linear(act, args).T = b
  BY DEF Linear, Kernel
<1>2. a \in Seq(Argument) /\ Len(a) = 7
  <2>1. args[1] \in Argument /\ args[2] \in Argument /\ args[3] \in Argument /\ 1 \in Argument
    BY IntArgument
  <2> QED
    BY <2>1
<1>3. p \in Seq(Names) /\ Len(p) = 7 /\ Distinct(p)
  BY DEF Names, Distinct
<1> HIDE DEF p, b, a
<1>4. \A j \in 1 .. Len(p) :
         b[p[j]] = IF j <= Len(a) THEN a[j] ELSE <<>>[j - Len(p) + Len(<<>>)]
  <2> DEFINE d == <<>>
  <2>1. d \in Seq(Argument) /\ Len(d) = 0
    OBVIOUS
  <2>2. b = Bind(p, a, d)
    BY DEF b
  <2>3. Len(p) - Len(a) <= Len(d)
    BY <1>2, <1>3, <2>1
  <2> HIDE DEF d
  <2>4. \A j \in 1 .. Len(p) :
           b[p[j]] = IF j <= Len(a) THEN a[j] ELSE d[j - Len(p) + Len(d)]
    BY <1>2, <1>3, <2>1, <2>2, <2>3, BindIs
  <2> QED
    BY <2>4 DEF d
<1>5. \A j \in 1 .. 7 : b[p[j]] = a[j]
  BY <1>2, <1>3, <1>4
<1>6. b[p[1]] = a[1] /\ b[p[2]] = a[2] /\ b[p[3]] = a[3] /\ b[p[4]] = a[4] /\ b[p[5]] = a[5] /\ b[p[6]] = a[6] /\ b[p[7]] = a[7]
  BY <1>5
<1>7. /\ b["NumRows"] = args[1]
      /\ b["InDim"] = args[2]
      /\ b["OutDim"] = args[3]
      /\ b["InRowStride"] = args[2]
      /\ b["InColStride"] = 1
      /\ b["WeightRowStride"] = args[2]
      /\ b["WeightColStride"] = 1
  BY <1>6 DEF p, a
<1> QED
  BY <1>1, <1>7

(* What Softmax is instantiated with. *)
LEMMA SoftmaxKernel ==
    ASSUME NEW args, args[1] \in Int, args[2] \in Int
    PROVE  /\ Softmax(args).impl = "Softmax"
           /\ Softmax(args).T.NumReductions = args[1] /\ Softmax(args).T.ReductionSize = args[2]
           /\ Softmax(args).T.StrideWithinDim = 1 /\ Softmax(args).T.OuterStride = args[2]
<1> DEFINE a == <<args[1], args[2], 1, args[2]>>
           p == <<"NumReductions", "ReductionSize", "StrideWithinDim", "OuterStride">>
           d == <<1, a[2] * (IF Len(a) > 2 THEN a[3] ELSE 1)>>
           b == Bind(p, a, d)
<1>1. Softmax(args).impl = "Softmax" /\ Softmax(args).T = b
  BY DEF Softmax, SoftmaxImpl, Kernel
<1>2. a \in Seq(Argument) /\ Len(a) = 4
  <2>1. args[1] \in Argument /\ args[2] \in Argument /\ 1 \in Argument
    BY IntArgument
  <2> QED
    BY <2>1
<1>3. p \in Seq(Names) /\ Len(p) = 4 /\ Distinct(p)
  BY DEF Names, Distinct
<1>4. d \in Seq(Argument) /\ Len(d) = 2
  <2>1. a[2] \in Int /\ a[3] \in Int
    OBVIOUS
  <2> DEFINE stride == a[2] * (IF Len(a) > 2 THEN a[3] ELSE 1)
  <2>2. stride \in Int
    <3> HIDE DEF a
    <3> QED
      BY <2>1
  <2> HIDE DEF stride
  <2>3. stride \in Argument /\ 1 \in Argument
    BY <2>2, IntArgument
  <2>4. <<1, stride>> \in Seq(Argument) /\ Len(<<1, stride>>) = 2
    BY <2>3
  <2> QED
    BY <2>4 DEF stride
<1> HIDE DEF p, b, a, d
<1>5. \A j \in 1 .. Len(p) :
         b[p[j]] = IF j <= Len(a) THEN a[j] ELSE d[j - Len(p) + Len(d)]
  <2>1. Len(p) - Len(a) <= Len(d)
    BY <1>2, <1>3, <1>4
  <2> QED
    BY <1>2, <1>3, <1>4, <2>1, BindIs DEF b
<1>6. \A j \in 1 .. 4 : b[p[j]] = a[j]
  BY <1>2, <1>3, <1>5
<1>7. b[p[1]] = a[1] /\ b[p[2]] = a[2] /\ b[p[3]] = a[3] /\ b[p[4]] = a[4]
  BY <1>6
<1>8. /\ b["NumReductions"] = args[1]
      /\ b["ReductionSize"] = args[2]
      /\ b["StrideWithinDim"] = 1
      /\ b["OuterStride"] = args[2]
  BY <1>7 DEF p, a
<1> QED
  BY <1>1, <1>8

(* What an element-wise kernel is instantiated with. *)
LEMMA ElementWiseKernel ==
    ASSUME NEW operator, NEW args \in Seq(Argument), Len(args) >= 1
    PROVE  /\ ElementWise(operator, args).impl = "ElementWise"
           /\ ElementWise(operator, args).T.Size = args[1]
<1> DEFINE p == <<"Size">>
           d == <<>>
           b == Bind(p, args, d)
<1>1. ElementWise(operator, args).impl = "ElementWise" /\ ElementWise(operator, args).T = b
  BY DEF ElementWise, Kernel
<1>2. p \in Seq(Names) /\ Len(p) = 1 /\ Distinct(p) /\ p[1] = "Size"
  BY DEF Names, Distinct
<1>3. d \in Seq(Argument) /\ Len(d) = 0
  OBVIOUS
<1> HIDE DEF p, b, d
<1>4. \A j \in 1 .. Len(p) :
         b[p[j]] = IF j <= Len(args) THEN args[j] ELSE d[j - Len(p) + Len(d)]
  <2>1. Len(p) - Len(args) <= Len(d)
    BY <1>2, <1>3
  <2> QED
    BY <1>2, <1>3, <2>1, BindIs DEF b
<1>5. b["Size"] = args[1]
  <2>1. 1 \in 1 .. Len(p) /\ 1 <= Len(args)
    BY <1>2
  <2>2. b[p[1]] = args[1]
    BY <1>4, <2>1
  <2> QED
    BY <1>2, <2>2
<1> QED
  BY <1>1, <1>5

(***************************************************************************)
(* The compiler builds the kernel of a node for the tensors of the node.   *)
(***************************************************************************)
(* The batch of the kernel and of the input are extents.                   *)
LEMMA BatchIs ==
    ASSUME NEW l, l.x[1] \in Positive \cup {-1}
    PROVE  /\ BatchExpr(l) \in Positive /\ Batch(l.x) \in Positive
           /\ BatchExpr(l) = IF l.dynamic THEN KBatchSize ELSE 1
<1>1. KBatchSize \in Positive
  BY BuffersAssumption
<1>2. BatchExpr(l) = IF l.dynamic THEN KBatchSize ELSE 1
  BY DEF BatchExpr, BatchSize
<1>3. BatchExpr(l) \in Positive
  BY <1>1, <1>2 DEF Positive
<1>4. Batch(l.x) \in Positive
  BY <1>1 DEF Batch
<1> QED
  BY <1>2, <1>3, <1>4

(* If a dynamic model is dynamic in this input, the kernel's batch is that *)
(* of the input, or a part of it.                                          *)
LEMMA BatchFits ==
    ASSUME NEW l, l.x[1] \in Positive \cup {-1}, l.dynamic => l.x[1] = -1
    PROVE  /\ BatchExpr(l) \in Positive /\ Batch(l.x) \in Positive
           /\ BatchExpr(l) <= Batch(l.x)
<1>1. /\ BatchExpr(l) \in Positive /\ Batch(l.x) \in Positive
      /\ BatchExpr(l) = IF l.dynamic THEN KBatchSize ELSE 1
  BY BatchIs
<1>2. CASE l.dynamic
  BY <1>1, <1>2 DEF Batch, Positive
<1>3. CASE ~ l.dynamic
  BY <1>1, <1>3 DEF Positive
<1> QED
  BY <1>1, <1>2, <1>3

(* A product of four extents grows with the first two. *)
LEMMA ProductsBelow ==
    ASSUME NEW a \in Nat, NEW b \in Nat, NEW c \in Nat, NEW d \in Nat, NEW h \in Nat, NEW w \in Nat,
           a <= b, c <= d
    PROVE  a * c * h * w \in Nat /\ a * c * h * w <= b * d * h * w
<1>1. a * c <= b * c /\ b * c <= b * d /\ a * c \in Nat /\ b * c \in Nat /\ b * d \in Nat
  BY Monotonic
<1> DEFINE p == a * c
           q == b * d
           m == h * w
<1>2. p \in Nat /\ q \in Nat /\ p <= q /\ m \in Nat
  BY <1>1
<1> HIDE DEF p, q, m
<1>3. p * m <= q * m /\ p * m \in Nat
  BY <1>2, Monotonic
<1>4. p * m = a * c * h * w /\ q * m = b * d * h * w
  BY DEF p, q, m
<1> QED
  BY <1>3, <1>4

(* The image a kernel is told of lies in the tensor of the input... *)
LEMMA ImageFits ==
    ASSUME NEW l, NEW T, Tensor(l.x, 4), l.dynamic => l.x[1] = -1, l.op \notin Binary,
           T.BatchSize = BatchExpr(l),
           T.InHeight = l.x[3], T.InWidth = l.x[4], T.InChannels \in Positive, T.InChannels <= l.x[2]
    PROVE  /\ T.BatchSize \in Nat /\ T.InHeight \in Positive /\ T.InWidth \in Positive
           /\ Holds(l, "input", ImageSize(T))
<1>1. /\ Size(X(l)) = Batch(l.x) * l.x[2] * l.x[3] * l.x[4] /\ Size(X(l)) \in Nat
      /\ l.x[2] \in Positive /\ l.x[3] \in Positive /\ l.x[4] \in Positive
  BY ImageTensor DEF X
<1>2. /\ BatchExpr(l) \in Positive /\ Batch(l.x) \in Positive /\ BatchExpr(l) <= Batch(l.x)
  BY BatchFits DEF Tensor
<1> DEFINE a == BatchExpr(l)
           b == Batch(l.x)
           c == T.InChannels
           d == l.x[2]
           h == l.x[3]
           w == l.x[4]
<1>3. /\ a \in Nat /\ b \in Nat /\ c \in Nat /\ d \in Nat /\ h \in Nat /\ w \in Nat
      /\ a <= b /\ c <= d
  BY <1>1, <1>2 DEF Positive
<1>4. ImageSize(T) = a * c * h * w
  BY DEF ImageSize
<1>5. Size(X(l)) = b * d * h * w
  BY <1>1
<1> HIDE DEF a, b, c, d, h, w
<1>6. ImageSize(T) <= Size(X(l))
  BY <1>3, <1>4, <1>5, ProductsBelow
<1>7. Extent(l, "input") = Size(X(l))
  BY DEF Extent
<1> QED
  BY <1>1, <1>2, <1>6, <1>7 DEF Holds, Positive

(* ...and the one it writes in the tensor of the output. *)
LEMMA OutputImageFits ==
    ASSUME NEW l, NEW c, NEW h, NEW w, l.x[1] \in Positive \cup {-1}, l.dynamic => l.x[1] = -1,
           OutputShape(l) \in Seq(Int), Len(OutputShape(l)) = 4,
           OutputShape(l)[1] = l.x[1], OutputShape(l)[2] = c, OutputShape(l)[3] = h,
           OutputShape(l)[4] = w, c \in Positive, h \in Positive, w \in Positive
    PROVE  /\ OutputHolds(l, BatchExpr(l) * c * h * w)
           /\ Concrete(OutputShape(l))[2] = c
<1> DEFINE s == OutputShape(l)
<1>1. Tensor(s, 4)
  <2>1. ASSUME NEW j \in 2 .. 4 PROVE s[j] \in Positive
    <3>1. j = 2 \/ j = 3 \/ j = 4
      OBVIOUS
    <3> QED
      BY <3>1
  <2> QED
    BY <2>1 DEF Tensor
<1>2. Size(Concrete(s)) = Batch(s) * s[2] * s[3] * s[4] /\ Size(Concrete(s)) \in Nat
  BY <1>1, ImageTensor
<1>3. Batch(s) = Batch(l.x)
  BY DEF Batch
<1>4. Concrete(s)[2] = s[2]
  <2>1. \A j \in 2 .. 4 : Concrete(s)[j] = s[j]
    <3> DEFINE rank == 4
    <3>1. rank \in Nat \ {0}
      OBVIOUS
    <3> HIDE DEF rank, s
    <3> QED
      BY <1>1, <3>1, ConcreteIs DEF rank
  <2> QED
    BY <2>1
<1>5. /\ BatchExpr(l) \in Positive /\ Batch(l.x) \in Positive /\ BatchExpr(l) <= Batch(l.x)
  BY BatchFits
<1>6. BatchExpr(l) * c * h * w <= Batch(l.x) * c * h * w
  <2> DEFINE a == BatchExpr(l)
             b == Batch(l.x)
  <2>1. a \in Nat /\ b \in Nat /\ a <= b /\ c \in Nat /\ h \in Nat /\ w \in Nat /\ c <= c
    BY <1>5 DEF Positive
  <2> HIDE DEF a, b
  <2>2. a * c * h * w <= b * c * h * w
    BY <2>1, ProductsBelow
  <2> QED
    BY <2>2 DEF a, b
<1>7. Size(Concrete(s)) = Batch(l.x) * c * h * w
  BY <1>2, <1>3
<1> QED
  BY <1>2, <1>4, <1>6, <1>7 DEF OutputHolds

(* Padded alike on both sides and not dilated, a window that fits has the  *)
(* extents the kernel takes it to have, though the kernel's are modulo 2^w. *)
LEMMA SpatialIs ==
    ASSUME NEW in \in Int, NEW window \in Positive, NEW stride \in Positive, NEW padding \in Int,
           NEW after, after = padding, in + padding + after < WordSize,
           Spatial(in, window, stride, 1, padding, after) \in Positive
    PROVE  /\ Spatial(in, window, stride, 1, padding, after) = OutExtent(in, window, stride, padding)
           /\ window <= in + 2 * padding
<1> DEFINE room == in + 2 * padding - window
           q == room \div stride
<1>1. room \in Int /\ window \in Int /\ 1 <= window /\ stride \in Nat \ {0}
  BY DEF Positive
<1>2. in + padding + after - 1 * (window - 1) - 1 = room
  BY <1>1
<1>3. Spatial(in, window, stride, 1, padding, after) = q + 1
  BY <1>2 DEF Spatial
<1>4. room < WordSize
  BY <1>1, WordSizeAssumption
<1>5. q \in Int
  <2> HIDE DEF room
  <2> QED
    BY <1>1, DivMod
<1> HIDE DEF q
<1>6. ~(q <= -1)
  BY <1>3, <1>5 DEF Positive
<1>7. 0 <= room
  <2> HIDE DEF room
  <2>1. q <= -1 <=> room < (-1 + 1) * stride
    <3> DEFINE y == -1
    <3>1. y \in Int
      OBVIOUS
    <3> HIDE DEF y
    <3>2. q <= y <=> room < (y + 1) * stride
      BY <1>1, <3>1, FloorAtMost DEF q
    <3> QED
      BY <3>2 DEF y
  <2> QED
    BY <1>1, <1>6, <2>1
<1>8. OutExtent(in, window, stride, padding) = q + 1
  <2>1. room % WordSize = room
    <3> HIDE DEF room
    <3> QED
      BY <1>1, <1>4, <1>7, WordSizeAssumption
  <2> QED
    BY <2>1 DEF OutExtent, q
<1>9. window <= in + 2 * padding
  BY <1>1, <1>7
<1> QED
  BY <1>3, <1>8, <1>9

(* The extents of a window's output are those ONNX infers, and positive.   *)
LEMMA WindowedIs ==
    ASSUME NEW l, NEW kh \in Positive, NEW kw \in Positive, l.dilation = 1, SymmetricPads(l),
           Tensor(l.x, 4), Windows(l, kh, kw)
    PROVE  LET h == OutExtent(l.x[3], kh, l.strides[1], l.pads[1])
               w == OutExtent(l.x[4], kw, l.strides[2], l.pads[2])
           IN  /\ Windowed(l, kh, kw) = <<h, w>> /\ h \in Positive /\ w \in Positive
               /\ kh <= l.x[3] + 2 * l.pads[1] /\ kw <= l.x[4] + 2 * l.pads[2]
<1> DEFINE h == OutExtent(l.x[3], kh, l.strides[1], l.pads[1])
           w == OutExtent(l.x[4], kw, l.strides[2], l.pads[2])
<1>1. /\ l.x[3] \in Int /\ l.x[4] \in Int
      /\ l.strides[1] \in Positive /\ l.strides[2] \in Positive /\ l.pads[1] \in Int /\ l.pads[2] \in Int
      /\ l.pads[3] = l.pads[1] /\ l.pads[4] = l.pads[2]
  <2>1. l.x[3] \in Int /\ l.x[4] \in Int
    <3>1. \A j \in 2 .. 4 : l.x[j] \in Positive
      BY DEF Tensor
    <3> QED
      BY <3>1 DEF Positive
  <2>2. l.strides[1] \in Positive /\ l.strides[2] \in Positive
    <3>1. l.strides \in Positive \X Positive
      BY DEF Windows
    <3> QED
      BY <3>1
  <2>3. l.pads[1] \in Int /\ l.pads[2] \in Int
    BY DEF Windows
  <2>4. l.pads[3] = l.pads[1] /\ l.pads[4] = l.pads[2]
    BY DEF SymmetricPads
  <2> QED
    BY <2>1, <2>2, <2>3, <2>4
<1> DEFINE sh == Spatial(l.x[3], kh, l.strides[1], 1, l.pads[1], l.pads[3])
           sw == Spatial(l.x[4], kw, l.strides[2], 1, l.pads[2], l.pads[4])
<1>2. Windowed(l, kh, kw) = <<sh, sw>>
  BY DEF Windowed
<1>3. sh \in Positive /\ sw \in Positive
  <2> HIDE DEF sh, sw
  <2>1. <<sh, sw>> \in Positive \X Positive
    BY <1>2 DEF Windows
  <2> QED
    BY <2>1
<1>4. /\ l.x[3] + l.pads[1] + l.pads[3] < WordSize
      /\ l.x[4] + l.pads[2] + l.pads[4] < WordSize
  BY DEF Windows
<1>5. sh = h /\ kh <= l.x[3] + 2 * l.pads[1]
  BY <1>1, <1>3, <1>4, SpatialIs
<1>6. sw = w /\ kw <= l.x[4] + 2 * l.pads[2]
  BY <1>1, <1>3, <1>4, SpatialIs
<1> HIDE DEF h, w, sh, sw
<1> QED
  BY <1>2, <1>3, <1>5, <1>6 DEF h, w

(***************************************************************************)
(* The elements of a tensor.                                               *)
(***************************************************************************)
IsAt(f, shape, c, n) == f = [j \in 0 .. n |-> IF j = 0 THEN 0 ELSE f[j - 1] * shape[j] + c[j]]

(* The offsets in the first dimensions, up to any number of them. *)
LEMMA OffsetsExist ==
    ASSUME NEW shape, NEW c, NEW n \in Nat
    PROVE  \E f : IsAt(f, shape, c, n)
<1> DEFINE bad == {m \in Nat : ~ \E f : IsAt(f, shape, c, m)}
<1> SUFFICES ASSUME bad # {} PROVE FALSE
  OBVIOUS
<1>1. PICK m \in bad : \A o \in bad : m <= o
  <2> HIDE DEF bad
  <2>1. bad \in SUBSET Nat
    BY DEF bad
  <2> QED
    BY <2>1, LeastNumber
<1>2. m # 0
  <2>1. IsAt([j \in 0 .. 0 |-> 0], shape, c, 0)
    BY DEF IsAt
  <2> QED
    BY <2>1
<1>3. m - 1 \in Nat /\ m - 1 \notin bad
  BY <1>1, <1>2
<1>4. PICK f : IsAt(f, shape, c, m - 1)
  BY <1>3
<1> DEFINE g == [j \in 0 .. m |-> IF j = m THEN f[m - 1] * shape[m] + c[m] ELSE f[j]]
<1>5. IsAt(g, shape, c, m)
  <2>1. \A j \in 0 .. m - 1 : f[j] = IF j = 0 THEN 0 ELSE f[j - 1] * shape[j] + c[j]
    BY <1>4 DEF IsAt
  <2>2. ASSUME NEW j \in 0 .. m PROVE g[j] = IF j = 0 THEN 0 ELSE g[j - 1] * shape[j] + c[j]
    <3>1. CASE j = m
      <4>1. m - 1 \in 0 .. m /\ m - 1 # m /\ j # 0
        BY <1>1, <1>2, <3>1
      <4>2. g[m - 1] = f[m - 1] /\ g[m] = f[m - 1] * shape[m] + c[m]
        BY <1>1, <4>1
      <4> HIDE DEF g
      <4> QED
        BY <3>1, <4>1, <4>2
    <3>2. CASE j # m
      <4>1. j \in 0 .. m - 1 /\ g[j] = f[j]
        BY <1>1, <3>2
      <4>2. j # 0 => j - 1 \in 0 .. m /\ j - 1 # m /\ g[j - 1] = f[j - 1]
        BY <1>1, <3>2
      <4> HIDE DEF g
      <4> QED
        BY <2>1, <4>1, <4>2
    <3> QED
      BY <3>1, <3>2
  <2>3. g = [j \in 0 .. m |-> IF j = 0 THEN 0 ELSE g[j - 1] * shape[j] + c[j]]
    <3>1. DOMAIN g = 0 .. m /\ g = [j \in 0 .. m |-> g[j]]
      OBVIOUS
    <3> HIDE DEF g
    <3> QED
      BY <2>2, <3>1
  <2> QED
    BY <2>3 DEF IsAt
<1> QED
  BY <1>1, <1>5

(* The recursion of At. *)
LEMMA AtIs ==
    ASSUME NEW shape, NEW c, Len(shape) \in Nat
    PROVE  \E f : IsAt(f, shape, c, Len(shape)) /\ At(shape, c) = f[Len(shape)]
<1> DEFINE at == CHOOSE f : IsAt(f, shape, c, Len(shape))
<1>1. IsAt(at, shape, c, Len(shape))
  BY OffsetsExist
<1>2. At(shape, c) = at[Len(shape)]
  BY DEF At, IsAt
<1> QED
  BY <1>1, <1>2

(* Unfolded for matrices and for images. *)
LEMMA At2 ==
    ASSUME NEW s, NEW c, Len(s) = 2, s[1] \in Int, s[2] \in Int, c[1] \in Int, c[2] \in Int
    PROVE  At(s, c) = c[1] * s[2] + c[2]
<1>1. PICK f : IsAt(f, s, c, 2) /\ At(s, c) = f[2]
  <2>1. Len(s) \in Nat
    OBVIOUS
  <2> QED
    BY <2>1, AtIs
<1>2. f[0] = 0 /\ f[1] = f[0] * s[1] + c[1] /\ f[2] = f[1] * s[2] + c[2]
  BY <1>1 DEF IsAt
<1>3. f[1] = c[1]
  BY <1>2
<1> QED
  BY <1>1, <1>2, <1>3

(* The offset of an element of an image. *)
LEMMA At4 ==
    ASSUME NEW s, NEW c, Len(s) = 4, s[1] \in Int, s[2] \in Int, s[3] \in Int, s[4] \in Int,
           c[1] \in Int, c[2] \in Int, c[3] \in Int, c[4] \in Int
    PROVE  /\ At(s, c) = ((c[1] * s[2] + c[2]) * s[3] + c[3]) * s[4] + c[4]
           /\ At(s, c) = c[1] * s[2] * s[3] * s[4] + c[2] * s[3] * s[4] + c[3] * s[4] + c[4]
<1>1. PICK f : IsAt(f, s, c, 4) /\ At(s, c) = f[4]
  <2>1. Len(s) \in Nat
    OBVIOUS
  <2> QED
    BY <2>1, AtIs
<1>2. /\ f[0] = 0 /\ f[1] = f[0] * s[1] + c[1] /\ f[2] = f[1] * s[2] + c[2]
      /\ f[3] = f[2] * s[3] + c[3] /\ f[4] = f[3] * s[4] + c[4]
  BY <1>1 DEF IsAt
<1>3. f[1] = c[1]
  BY <1>2
<1>4. f[3] = (c[1] * s[2] + c[2]) * s[3] + c[3]
  BY <1>2, <1>3
<1>5. f[4] = ((c[1] * s[2] + c[2]) * s[3] + c[3]) * s[4] + c[4]
  BY <1>2, <1>4
<1> DEFINE p == c[1] * s[2]
<1>6. p \in Int
  OBVIOUS
<1>7. (p + c[2]) * s[3] = p * s[3] + c[2] * s[3] /\ p * s[3] \in Int /\ c[2] * s[3] \in Int
  BY <1>6
<1>8. (p * s[3] + c[2] * s[3] + c[3]) * s[4] = p * s[3] * s[4] + c[2] * s[3] * s[4] + c[3] * s[4]
  <2> DEFINE q == p * s[3]
             r == c[2] * s[3]
  <2>1. q \in Int /\ r \in Int
    BY <1>7
  <2> HIDE DEF q, r
  <2>2. (q + r + c[3]) * s[4] = q * s[4] + r * s[4] + c[3] * s[4]
    BY <2>1
  <2> QED
    BY <2>2 DEF q, r
<1> QED
  BY <1>1, <1>5, <1>7, <1>8

(* A number and a digit are those of their sum. *)
LEMMA Digits ==
    ASSUME NEW a \in Int, NEW d \in Nat \ {0}, NEW r \in 0 .. d - 1
    PROVE  (a * d + r) \div d = a /\ (a * d + r) % d = r
<1> DEFINE x == a * d + r
           q == x \div d
           m == x % d
<1>1. a * d \in Int /\ x \in Int
  OBVIOUS
<1>2. q \in Int /\ m \in 0 .. d - 1 /\ x = d * q + m
  BY <1>1, DivMod
<1>3. x = a * d + r
  OBVIOUS
<1> HIDE DEF x, q, m
<1>4. d * q = q * d /\ q * d \in Int
  BY <1>2
<1>5. a = q
  <2>1. a * d <= x /\ x < a * d + d /\ q * d <= x /\ x < q * d + d
    BY <1>1, <1>2, <1>3, <1>4
  <2> QED
    BY <1>1, <1>2, <2>1, SameChunk
<1>6. m = r
  BY <1>1, <1>2, <1>3, <1>4, <1>5
<1> QED
  BY <1>5, <1>6 DEF x, q, m

(* The dimensions have a largest. *)
LEMMA Widest ==
    ASSUME NEW s, NEW n \in Nat, n >= 1, \A j \in 1 .. n : s[j] \in Int
    PROVE  \E k \in 1 .. n : \A j \in 1 .. n : s[j] <= s[k]
<1> DEFINE Largest(m) == \E k \in 1 .. m : \A j \in 1 .. m : s[j] <= s[k]
           bad == {m \in Nat : m >= 1 /\ m <= n /\ ~Largest(m)}
<1>1. bad = {}
  <2> SUFFICES ASSUME bad # {} PROVE FALSE
    OBVIOUS
  <2>1. PICK m \in bad : \A o \in bad : m <= o
    <3>1. bad \in SUBSET Nat
      OBVIOUS
    <3> HIDE DEF bad
    <3> QED
      BY <3>1, LeastNumber
  <2>2. m \in Nat /\ m >= 1 /\ m <= n /\ ~Largest(m)
    BY <2>1
  <2>3. m # 1
    <3>1. 1 \in 1 .. n => s[1] <= s[1]
      OBVIOUS
    <3>2. n >= 1 => Largest(1)
      BY <3>1
    <3> HIDE DEF Largest
    <3> QED
      BY <2>2, <3>2
  <2>4. m - 1 \in Nat /\ m - 1 >= 1 /\ m - 1 <= n /\ m - 1 \notin bad
    <3> HIDE DEF Largest
    <3> QED
      BY <2>1, <2>2, <2>3
  <2>5. PICK k \in 1 .. m - 1 : \A j \in 1 .. m - 1 : s[j] <= s[k]
    <3>1. Largest(m - 1)
      <4> HIDE DEF Largest
      <4> QED
        BY <2>4
    <3> QED
      BY <3>1
  <2>6. s[k] \in Int /\ s[m] \in Int /\ k \in 1 .. m /\ m \in 1 .. m
    BY <2>2, <2>5
  <2>7. CASE s[m] <= s[k]
    <3>1. \A j \in 1 .. m : s[j] <= s[k]
      <4> TAKE j \in 1 .. m
      <4>1. j = m \/ j \in 1 .. m - 1
        BY <2>2
      <4> HIDE DEF bad
      <4> QED
        BY <2>5, <2>7, <4>1
    <3> QED
      BY <2>2, <2>6, <3>1
  <2>8. CASE ~(s[m] <= s[k])
    <3>1. \A j \in 1 .. m : s[j] <= s[m]
      <4> TAKE j \in 1 .. m
      <4>1. j = m \/ j \in 1 .. m - 1
        BY <2>2
      <4>2. s[j] \in Int
        BY <2>2
      <4> QED
        BY <2>5, <2>6, <2>8, <4>1, <4>2
    <3> QED
      BY <2>2, <2>6, <3>1
  <2> QED
    BY <2>7, <2>8
<1>2. Largest(n)
  <2> HIDE DEF Largest
  <2> QED
    BY <1>1
<1> QED
  BY <1>2

(* The coordinates of a tensor are those below its dimensions. *)
LEMMA CoordinatesAre ==
    ASSUME NEW s, NEW n \in Nat, s \in Seq(Positive), Len(s) = n, NEW c
    PROVE  c \in Coordinates(s) <=>
               c \in [1 .. n -> Nat] /\ \A j \in 1 .. n : c[j] < s[j]
<1>1. DOMAIN s = 1 .. n /\ \A j \in 1 .. n : s[j] \in Nat \ {0}
  BY DEF Positive
<1> DEFINE D == {s[j] : j \in 1 .. n}
           widest == CHOOSE d \in D : \A j \in 1 .. n : s[j] <= d
<1>2. Coordinates(s) = {e \in [1 .. n -> 0 .. widest - 1] : \A j \in 1 .. n : e[j] < s[j]}
  BY <1>1 DEF Coordinates
<1>3. n >= 1 => widest \in Int /\ \A j \in 1 .. n : s[j] <= widest
  <2> SUFFICES ASSUME n >= 1 PROVE widest \in Int /\ \A j \in 1 .. n : s[j] <= widest
    OBVIOUS
  <2>1. \A j \in 1 .. n : s[j] \in Int
    BY <1>1
  <2>2. \E k \in 1 .. n : \A j \in 1 .. n : s[j] <= s[k]
    BY <2>1, Widest
  <2>3. \E d \in D : \A j \in 1 .. n : s[j] <= d
    BY <2>2
  <2>4. widest \in D /\ \A j \in 1 .. n : s[j] <= widest
    <3> HIDE DEF D
    <3> QED
      BY <2>3
  <2> HIDE DEF widest
  <2> QED
    BY <2>1, <2>4
<1> HIDE DEF widest
<1>4. ASSUME c \in Coordinates(s) PROVE c \in [1 .. n -> Nat] /\ \A j \in 1 .. n : c[j] < s[j]
  <2>1. c \in [1 .. n -> 0 .. widest - 1] /\ \A j \in 1 .. n : c[j] < s[j]
    BY <1>2, <1>4
  <2>2. ASSUME NEW j \in 1 .. n PROVE c[j] \in Nat
    <3>1. n >= 1
      OBVIOUS
    <3>2. c[j] \in 0 .. widest - 1
      BY <2>1
    <3> QED
      BY <1>3, <3>1, <3>2
  <2> QED
    BY <2>1, <2>2
<1>5. ASSUME c \in [1 .. n -> Nat], \A j \in 1 .. n : c[j] < s[j] PROVE c \in Coordinates(s)
  <2>1. ASSUME NEW j \in 1 .. n PROVE c[j] \in 0 .. widest - 1
    <3>1. n >= 1
      OBVIOUS
    <3>2. c[j] \in Nat /\ c[j] < s[j] /\ s[j] \in Nat /\ s[j] <= widest /\ widest \in Int
      BY <1>1, <1>3, <1>5, <3>1
    <3> QED
      BY <3>2
  <2>2. c \in [1 .. n -> 0 .. widest - 1]
    BY <1>5, <2>1
  <2> QED
    BY <1>2, <1>5, <2>2
<1> QED
  BY <1>4, <1>5

Flat(n, c, h, w, C, H, W) == ((n * C + c) * H + h) * W + w

(* The output a step decodes its number into is the one the number is the  *)
(* offset of.                                                              *)
LEMMA DecodeSplits ==
    ASSUME NEW i, i \in Nat, NEW C, C \in Positive, NEW H, H \in Positive, NEW W, W \in Positive
    PROVE  LET o == Decode(i, C, H, W) IN Flat(o.n, o.c, o.h, o.w, C, H, W) = i
<1> DEFINE a == i \div W
           b == a \div H
           o == Decode(i, C, H, W)
<1>0. C \in Nat \ {0} /\ H \in Nat \ {0} /\ W \in Nat \ {0}
  BY DEF Positive
<1>1. a \in Nat /\ i % W \in 0 .. W - 1 /\ i = W * a + (i % W)
  <2>1. i \in Int
    OBVIOUS
  <2> QED
    BY <1>0, <2>1, DivMod
<1> HIDE DEF a
<1>2. b \in Nat /\ a % H \in 0 .. H - 1 /\ a = H * b + (a % H)
  <2>1. a \in Nat /\ a \in Int
    BY <1>1
  <2> QED
    BY <1>0, <2>1, DivMod
<1> HIDE DEF b
<1>3. b \div C \in Nat /\ b % C \in 0 .. C - 1 /\ b = C * (b \div C) + (b % C)
  <2>1. b \in Nat /\ b \in Int
    BY <1>2
  <2> QED
    BY <1>0, <2>1, DivMod
<1> DEFINE n == b \div C
           c == b % C
           h == a % H
           w == i % W
<1>4. o.w = w /\ o.h = h /\ o.c = c /\ o.n = n
  BY DEF Decode, a, b
<1>5. n \in Nat /\ c \in Nat /\ h \in Nat /\ w \in Nat
  BY <1>0, <1>1, <1>2, <1>3
<1>6. i = W * a + w /\ a = H * b + h /\ b = C * n + c
  BY <1>1, <1>2, <1>3
<1> HIDE DEF n, c, h, w
<1>7. n * C + c = b
  BY <1>0, <1>5, <1>6
<1>8. (n * C + c) * H + h = a
  BY <1>0, <1>2, <1>5, <1>6, <1>7
<1>9. ((n * C + c) * H + h) * W + w = i
  BY <1>0, <1>1, <1>5, <1>6, <1>8
<1> QED
  BY <1>4, <1>9 DEF Flat

(* Decoding an offset gives the coordinates it is made of. *)
LEMMA DecodeJoins ==
    ASSUME NEW C, C \in Positive, NEW H, H \in Positive, NEW W, W \in Positive,
           NEW n, n \in Nat, NEW c, c \in 0 .. C - 1, NEW h, h \in 0 .. H - 1, NEW w, w \in 0 .. W - 1
    PROVE  Decode(Flat(n, c, h, w, C, H, W), C, H, W) = [w |-> w, h |-> h, c |-> c, n |-> n]
<1>1. C \in Nat \ {0} /\ H \in Nat \ {0} /\ W \in Nat \ {0}
  BY DEF Positive
<1>2. PICK b \in Int : b = n * C + c
  BY <1>1
<1>3. b \div C = n /\ b % C = c
  <2>1. n \in Int
    OBVIOUS
  <2> QED
    BY <1>1, <1>2, <2>1, Digits
<1>4. PICK a \in Int : a = b * H + h
  BY <1>1
<1>5. a \div H = b /\ a % H = h
  BY <1>1, <1>4, Digits
<1>6. PICK i \in Int : i = a * W + w
  BY <1>1
<1>7. i \div W = a /\ i % W = w
  BY <1>1, <1>6, Digits
<1>8. Decode(i, C, H, W) = [w |-> w, h |-> h, c |-> c, n |-> n]
  BY <1>3, <1>5, <1>7 DEF Decode
<1> QED
  BY <1>2, <1>4, <1>6, <1>8 DEF Flat

(* A number of a range from 0 is below its end. *)
LEMMA Below ==
    ASSUME NEW a, NEW d \in Int, a \in 0 .. d - 1
    PROVE  a \in Nat /\ a < d
  OBVIOUS

(* The element of an image at an offset. *)
LEMMA ImageElement ==
    ASSUME NEW s, s \in Seq(Positive), Len(s) = 4,
           s[1] \in Positive, s[2] \in Positive, s[3] \in Positive, s[4] \in Positive,
           NEW i \in 0 .. Size(s) - 1
    PROVE  LET o == Decode(i, s[2], s[3], s[4])
               c == CHOOSE e \in Coordinates(s) : At(s, e) = i
           IN  /\ c[1] = o.n /\ c[2] = o.c /\ c[3] = o.h /\ c[4] = o.w
               /\ o.n \in 0 .. s[1] - 1 /\ o.c \in 0 .. s[2] - 1
               /\ o.h \in 0 .. s[3] - 1 /\ o.w \in 0 .. s[4] - 1
<1> DEFINE o == Decode(i, s[2], s[3], s[4])
           d == <<o.n, o.c, o.h, o.w>>
           c == CHOOSE e \in Coordinates(s) : At(s, e) = i
<1>1. /\ s[1] \in Int /\ s[2] \in Int /\ s[3] \in Int /\ s[4] \in Int
      /\ s[1] \in Nat \ {0} /\ s[2] \in Nat \ {0} /\ s[3] \in Nat \ {0} /\ s[4] \in Nat \ {0}
  BY DEF Positive
<1>2. i \in Nat
  OBVIOUS
<1>3. /\ o.n \in 0 .. s[1] - 1 /\ o.c \in 0 .. s[2] - 1
      /\ o.h \in 0 .. s[3] - 1 /\ o.w \in 0 .. s[4] - 1
  <2> DEFINE N == s[1]
             C == s[2]
             H == s[3]
             W == s[4]
  <2>1. Size(s) = N * C * H * W
    BY <1>1, Size4
  <2>2. N \in Nat /\ C \in Nat \ {0} /\ H \in Nat \ {0} /\ W \in Nat \ {0}
    BY <1>1
  <2>3. o = Decode(i, C, H, W)
    OBVIOUS
  <2> HIDE DEF o, N, C, H, W
  <2>4. o.n \in 0 .. N - 1 /\ o.c \in 0 .. C - 1 /\ o.h \in 0 .. H - 1 /\ o.w \in 0 .. W - 1
    BY <2>1, <2>2, <2>3, DecodeInside
  <2> QED
    BY <2>4 DEF N, C, H, W
<1>4. Flat(o.n, o.c, o.h, o.w, s[2], s[3], s[4]) = i
  BY <1>1, <1>2, DecodeSplits, Zenon
<1> HIDE DEF o
<1>5. d \in [1 .. 4 -> Nat] /\ \A j \in 1 .. 4 : d[j] < s[j]
  <2>1. o.n \in Nat /\ o.c \in Nat /\ o.h \in Nat /\ o.w \in Nat
    BY <1>1, <1>3
  <2>2. d[1] < s[1] /\ d[2] < s[2] /\ d[3] < s[3] /\ d[4] < s[4]
    <3>1. d[1] = o.n /\ d[2] = o.c /\ d[3] = o.h /\ d[4] = o.w
      OBVIOUS
    <3>2. o.n < s[1] /\ o.c < s[2] /\ o.h < s[3] /\ o.w < s[4]
      BY <1>1, <1>3, Below, Zenon
    <3> HIDE DEF d
    <3> QED
      BY <3>1, <3>2
  <2>3. d \in [1 .. 4 -> Nat]
    BY <2>1
  <2> HIDE DEF d
  <2>4. \A j \in 1 .. 4 : j = 1 \/ j = 2 \/ j = 3 \/ j = 4
    OBVIOUS
  <2>5. ASSUME NEW j \in 1 .. 4 PROVE d[j] < s[j]
    BY <2>2, <2>4
  <2> QED
    BY <2>3, <2>5
<1>6. d \in Coordinates(s)
  <2> DEFINE rank == 4
  <2>1. rank \in Nat /\ Len(s) = rank /\ d \in [1 .. rank -> Nat] /\ \A j \in 1 .. rank : d[j] < s[j]
    BY <1>5
  <2> HIDE DEF rank, d
  <2> QED
    BY <2>1, CoordinatesAre
<1>7. At(s, d) = i
  <2>1. d[1] = o.n /\ d[2] = o.c /\ d[3] = o.h /\ d[4] = o.w
    OBVIOUS
  <2>2. d[1] \in Int /\ d[2] \in Int /\ d[3] \in Int /\ d[4] \in Int
    BY <1>3, <2>1
  <2> HIDE DEF d
  <2>3. At(s, d) = ((d[1] * s[2] + d[2]) * s[3] + d[3]) * s[4] + d[4]
    BY <1>1, <2>2, At4, Zenon
  <2> QED
    BY <1>4, <2>1, <2>3 DEF Flat
<1> HIDE DEF d
<1>8. c \in Coordinates(s) /\ At(s, c) = i
  BY <1>6, <1>7
<1> HIDE DEF c
<1>9. c \in [1 .. 4 -> Nat] /\ \A j \in 1 .. 4 : c[j] < s[j]
  <2> DEFINE rank == 4
  <2>1. rank \in Nat /\ Len(s) = rank
    OBVIOUS
  <2> HIDE DEF rank
  <2>2. c \in [1 .. rank -> Nat] /\ \A j \in 1 .. rank : c[j] < s[j]
    BY <1>8, <2>1, CoordinatesAre
  <2> QED
    BY <2>2 DEF rank
<1>10. /\ c[1] \in Nat /\ c[2] \in 0 .. s[2] - 1 /\ c[3] \in 0 .. s[3] - 1 /\ c[4] \in 0 .. s[4] - 1
  BY <1>1, <1>9
<1>11. i = ((c[1] * s[2] + c[2]) * s[3] + c[3]) * s[4] + c[4]
  <2>1. c[1] \in Int /\ c[2] \in Int /\ c[3] \in Int /\ c[4] \in Int
    BY <1>10
  <2>2. At(s, c) = ((c[1] * s[2] + c[2]) * s[3] + c[3]) * s[4] + c[4]
    BY <1>1, <2>1, At4, Zenon
  <2> QED
    BY <1>8, <2>2
<1>12. o = [w |-> c[4], h |-> c[3], c |-> c[2], n |-> c[1]]
  <2>1. i = Flat(c[1], c[2], c[3], c[4], s[2], s[3], s[4])
    BY <1>11 DEF Flat
  <2>2. Decode(Flat(c[1], c[2], c[3], c[4], s[2], s[3], s[4]), s[2], s[3], s[4]) =
            [w |-> c[4], h |-> c[3], c |-> c[2], n |-> c[1]]
    BY <1>10, DecodeJoins
  <2> QED
    BY <2>1, <2>2 DEF o
<1>13. c[1] = o.n /\ c[2] = o.c /\ c[3] = o.h /\ c[4] = o.w
  BY <1>12
<1> QED
  BY <1>3, <1>13 DEF c, o

(* ...and of a matrix. *)
LEMMA MatrixElement ==
    ASSUME NEW s, s \in Seq(Positive), Len(s) = 2, s[1] \in Positive, s[2] \in Positive,
           NEW i \in 0 .. Size(s) - 1
    PROVE  LET c == CHOOSE e \in Coordinates(s) : At(s, e) = i
           IN  /\ c \in [1 .. 2 -> Nat] /\ c[1] = i \div s[2] /\ c[2] = i % s[2]
               /\ i \div s[2] \in 0 .. s[1] - 1 /\ i % s[2] \in 0 .. s[2] - 1
<1> DEFINE q == i \div s[2]
           r == i % s[2]
           d == <<q, r>>
           c == CHOOSE e \in Coordinates(s) : At(s, e) = i
<1>1. s[1] \in Int /\ s[2] \in Int /\ s[1] \in Nat \ {0} /\ s[2] \in Nat \ {0}
  BY DEF Positive
<1>2. i \in Nat
  OBVIOUS
<1>3. q \in Nat /\ r \in 0 .. s[2] - 1 /\ i = s[2] * q + r
  <2>1. PICK w \in Nat \ {0} : w = s[2]
    BY <1>1
  <2>2. i \in Nat /\ i \in Int
    BY <1>2
  <2>3. i \div w \in Nat /\ i % w \in 0 .. w - 1 /\ i = w * (i \div w) + (i % w)
    BY <2>2, DivMod
  <2> QED
    BY <2>1, <2>3
<1>4. q \in 0 .. s[1] - 1
  <2>1. PICK w \in Nat \ {0} : w = s[2]
    BY <1>1
  <2>2. PICK h \in Nat : h = s[1]
    BY <1>1
  <2>3. Size(s) = h * w
    BY <1>1, <2>1, <2>2, Size2
  <2>4. i \in 0 .. h * w - 1
    BY <2>3
  <2>5. i \div w \in 0 .. h - 1
    BY <2>4, DivBelow
  <2> QED
    BY <2>1, <2>2, <2>5
<1> HIDE DEF q, r
<1>5. d \in [1 .. 2 -> Nat] /\ d[1] = q /\ d[2] = r
  BY <1>1, <1>3
<1> HIDE DEF d
<1>6. d \in Coordinates(s)
  <2>1. \A j \in 1 .. 2 : d[j] < s[j]
    <3>1. \A j \in 1 .. 2 : j = 1 \/ j = 2
      OBVIOUS
    <3>2. d[1] < s[1] /\ d[2] < s[2]
      BY <1>1, <1>3, <1>4, <1>5
    <3> QED
      BY <3>1, <3>2
  <2> DEFINE rank == 2
  <2>2. rank \in Nat /\ Len(s) = rank /\ d \in [1 .. rank -> Nat] /\ \A j \in 1 .. rank : d[j] < s[j]
    BY <1>5, <2>1
  <2> HIDE DEF rank
  <2> QED
    BY <2>2, CoordinatesAre
<1>7. At(s, d) = i
  <2>1. d[1] \in Int /\ d[2] \in Int
    BY <1>3, <1>5
  <2>2. At(s, d) = d[1] * s[2] + d[2]
    BY <1>1, <2>1, At2
  <2> QED
    BY <1>1, <1>3, <1>5, <2>2
<1>8. c \in Coordinates(s) /\ At(s, c) = i
  BY <1>6, <1>7
<1> HIDE DEF c
<1>9. c \in [1 .. 2 -> Nat] /\ \A j \in 1 .. 2 : c[j] < s[j]
  <2> DEFINE rank == 2
  <2>1. rank \in Nat /\ Len(s) = rank
    OBVIOUS
  <2> HIDE DEF rank
  <2>2. c \in [1 .. rank -> Nat] /\ \A j \in 1 .. rank : c[j] < s[j]
    BY <1>8, <2>1, CoordinatesAre
  <2> QED
    BY <2>2 DEF rank
<1>10. c[1] \in Nat /\ c[2] \in 0 .. s[2] - 1
  BY <1>1, <1>9
<1>11. i = c[1] * s[2] + c[2]
  BY <1>1, <1>8, <1>10, At2
<1>12. c[1] = q /\ c[2] = r
  <2>1. PICK w \in Nat \ {0} : w = s[2]
    BY <1>1
  <2>2. PICK a \in Int : a = c[1]
    BY <1>10
  <2>3. PICK b \in 0 .. w - 1 : b = c[2]
    BY <1>10, <2>1
  <2>4. i = a * w + b
    BY <1>11, <2>1, <2>2, <2>3
  <2>5. i \div w = a /\ i % w = b
    BY <2>4, Digits
  <2> QED
    BY <2>1, <2>2, <2>3, <2>5 DEF q, r
<1> QED
  BY <1>3, <1>4, <1>9, <1>12 DEF c, q, r

(* The recursion has one solution. *)
LEMMA OneOffset ==
    ASSUME NEW shape, NEW c, NEW n \in Nat, NEW f, NEW g, IsAt(f, shape, c, n), IsAt(g, shape, c, n)
    PROVE  f[n] = g[n]
<1> DEFINE bad == {m \in 0 .. n : f[m] # g[m]}
<1>1. bad = {}
  <2> SUFFICES ASSUME bad # {} PROVE FALSE
    OBVIOUS
  <2>1. PICK m \in bad : \A o \in bad : m <= o
    <3>1. bad \in SUBSET Nat
      OBVIOUS
    <3> HIDE DEF bad
    <3> QED
      BY <3>1, LeastNumber
  <2>2. /\ f[m] = IF m = 0 THEN 0 ELSE f[m - 1] * shape[m] + c[m]
        /\ g[m] = IF m = 0 THEN 0 ELSE g[m - 1] * shape[m] + c[m]
    BY <2>1 DEF IsAt
  <2>3. m # 0
    BY <2>1, <2>2
  <2>4. m - 1 \in 0 .. n /\ m - 1 \notin bad
    BY <2>1, <2>3
  <2>5. f[m - 1] = g[m - 1]
    BY <2>4
  <2> QED
    BY <2>1, <2>2, <2>3, <2>5
<1> QED
  BY <1>1

(* Every offset of a tensor of any rank is that of an element. *)
LEMMA TensorElement ==
    ASSUME NEW s, s \in Seq(Positive), NEW i \in 0 .. Size(s) - 1
    PROVE  LET c == CHOOSE e \in Coordinates(s) : At(s, e) = i
           IN  c \in Coordinates(s) /\ At(s, c) = i
<1> DEFINE n == Len(s)
<1>1. n \in Nat /\ \A j \in 1 .. n : s[j] \in Nat \ {0}
  BY DEF Positive
<1> HIDE DEF n
<1>2. PICK f : IsSize(f, s, n) /\ Size(s) = f[n]
  BY <1>1, SizeIs DEF n
<1>3. f[0] = 1 /\ \A j \in 1 .. n : f[j] = f[j - 1] * s[j]
  BY <1>1, <1>2 DEF IsSize
<1> DEFINE Found(m, x) ==
               \E c \in [1 .. m -> Nat] : \E g :
                   (\A j \in 1 .. m : c[j] < s[j]) /\ IsAt(g, s, c, m) /\ g[m] = x
           Reached(m) == f[m] \in Nat /\ \A x \in 0 .. f[m] - 1 : Found(m, x)
           bad == {m \in 0 .. n : ~Reached(m)}
<1>4. Reached(0)
  <2> DEFINE c == [j \in 1 .. 0 |-> 0]
             g == [j \in 0 .. 0 |-> 0]
  <2>1. c \in [1 .. 0 -> Nat] /\ (\A j \in 1 .. 0 : c[j] < s[j]) /\ IsAt(g, s, c, 0) /\ g[0] = 0
    BY DEF IsAt
  <2> HIDE DEF c, g
  <2>2. \A x \in 0 .. f[0] - 1 : x = 0
    BY <1>3
  <2>3. Found(0, 0)
    BY <2>1
  <2> HIDE DEF Found
  <2> QED
    BY <1>3, <2>2, <2>3
<1>5. ASSUME NEW m \in 1 .. n, Reached(m - 1) PROVE Reached(m)
  <2>1. f[m] = f[m - 1] * s[m] /\ f[m - 1] \in Nat /\ s[m] \in Nat \ {0} /\ m \in Nat /\ m # 0
    BY <1>1, <1>3, <1>5
  <2>2. f[m] \in Nat
    BY <2>1
  <2>3. ASSUME NEW x \in 0 .. f[m] - 1 PROVE Found(m, x)
    <3> DEFINE q == x \div s[m]
               r == x % s[m]
    <3>1. q \in 0 .. f[m - 1] - 1
      BY <2>1, DivBelow
    <3>2. r \in 0 .. s[m] - 1 /\ x = s[m] * q + r /\ x \in Nat
      <4>1. x \in Int /\ x \in Nat
        BY <2>2
      <4> QED
        BY <2>1, <4>1, DivMod
    <3> HIDE DEF q, r
    <3>3. Found(m - 1, q)
      <4> HIDE DEF Found
      <4> QED
        BY <1>5, <3>1
    <3>20. PICK c \in [1 .. m - 1 -> Nat] : \E g :
              (\A j \in 1 .. m - 1 : c[j] < s[j]) /\ IsAt(g, s, c, m - 1) /\ g[m - 1] = q
      BY <3>3
    <3>4. PICK g :
              (\A j \in 1 .. m - 1 : c[j] < s[j]) /\ IsAt(g, s, c, m - 1) /\ g[m - 1] = q
      BY <3>20
    <3> DEFINE d == [j \in 1 .. m |-> IF j = m THEN r ELSE c[j]]
               h == [j \in 0 .. m |-> IF j = m THEN x ELSE g[j]]
    <3>5. d \in [1 .. m -> Nat]
      <4>1. \A j \in 1 .. m : j # m => j \in 1 .. m - 1
        BY <2>1
      <4>2. r \in Nat
        BY <2>1, <3>2
      <4> QED
        BY <3>4, <4>1, <4>2
    <3>6. \A j \in 1 .. m : d[j] < s[j]
      <4> TAKE j \in 1 .. m
      <4>1. CASE j = m
        BY <2>1, <3>2, <4>1
      <4>2. CASE j # m
        <5>1. j \in 1 .. m - 1 /\ d[j] = c[j]
          BY <2>1, <4>2
        <5> QED
          BY <3>4, <5>1
      <4> QED
        BY <4>1, <4>2
    <3>7. IsAt(h, s, d, m)
      <4>1. \A j \in 0 .. m - 1 : g[j] = IF j = 0 THEN 0 ELSE g[j - 1] * s[j] + c[j]
        BY <3>4 DEF IsAt
      <4>2. ASSUME NEW j \in 0 .. m PROVE h[j] = IF j = 0 THEN 0 ELSE h[j - 1] * s[j] + d[j]
        <5>1. CASE j = m
          <6>1. m - 1 \in 0 .. m /\ m - 1 # m /\ j # 0 /\ m \in 1 .. m /\ m \in 0 .. m
            BY <2>1, <5>1
          <6>2. h[m - 1] = g[m - 1] /\ h[m] = x /\ d[m] = r
            BY <6>1
          <6>3. h[m - 1] = q
            BY <3>4, <6>2
          <6>4. q \in Nat /\ r \in Nat
            BY <2>1, <3>1, <3>2
          <6> HIDE DEF h, d
          <6>5. h[m] = h[m - 1] * s[m] + d[m]
            BY <2>1, <3>2, <6>2, <6>3, <6>4
          <6> QED
            BY <5>1, <6>1, <6>5
        <5>2. CASE j # m
          <6>1. j \in 0 .. m - 1 /\ h[j] = g[j]
            BY <2>1, <5>2
          <6>2. j # 0 => j - 1 \in 0 .. m /\ j - 1 # m /\ h[j - 1] = g[j - 1] /\ d[j] = c[j]
            BY <2>1, <5>2
          <6> HIDE DEF h, d
          <6> QED
            BY <4>1, <6>1, <6>2
        <5> QED
          BY <5>1, <5>2
      <4>3. h = [j \in 0 .. m |-> IF j = 0 THEN 0 ELSE h[j - 1] * s[j] + d[j]]
        <5>1. DOMAIN h = 0 .. m /\ h = [j \in 0 .. m |-> h[j]]
          OBVIOUS
        <5> HIDE DEF h, d
        <5> QED
          BY <4>2, <5>1
      <4> HIDE DEF h, d
      <4> QED
        BY <4>3 DEF IsAt
    <3>8. h[m] = x
      BY <2>1
    <3> HIDE DEF h, d
    <3> QED
      BY <3>5, <3>6, <3>7, <3>8
  <2> HIDE DEF Found
  <2> QED
    BY <2>2, <2>3
<1> HIDE DEF Reached
<1>6. bad = {}
  <2> SUFFICES ASSUME bad # {} PROVE FALSE
    OBVIOUS
  <2>1. PICK m \in bad : \A o \in bad : m <= o
    <3>1. bad \in SUBSET Nat
      BY <1>1
    <3> HIDE DEF bad
    <3> QED
      BY <3>1, LeastNumber
  <2>2. m # 0
    BY <1>4, <2>1
  <2>3. m \in 1 .. n /\ m - 1 \in 0 .. n /\ m - 1 \notin bad
    BY <1>1, <2>1, <2>2
  <2>4. Reached(m - 1)
    BY <2>3
  <2> QED
    BY <1>5, <2>1, <2>3, <2>4
<1>7. Found(n, i)
  <2>1. Reached(n)
    BY <1>1, <1>6
  <2> HIDE DEF Found
  <2> QED
    BY <1>2, <2>1 DEF Reached
<1>20. PICK c \in [1 .. n -> Nat] : \E g :
          (\A j \in 1 .. n : c[j] < s[j]) /\ IsAt(g, s, c, n) /\ g[n] = i
  BY <1>7
<1>8. PICK g : (\A j \in 1 .. n : c[j] < s[j]) /\ IsAt(g, s, c, n) /\ g[n] = i
  BY <1>20
<1>9. c \in Coordinates(s)
  BY <1>1, <1>8, CoordinatesAre DEF n
<1>10. At(s, c) = i
  <2>1. PICK at : IsAt(at, s, c, n) /\ At(s, c) = at[n]
    BY <1>1, AtIs DEF n
  <2> QED
    BY <1>1, <1>8, <2>1, OneOffset
<1> QED
  BY <1>9, <1>10

(* The function of an alias: the arguments after the kernel's own are the  *)
(* slope of a LeakyReLU.                                                   *)
LEMMA FunctionalIs ==
    ASSUME NEW args \in Seq(Argument), NEW n \in Nat, NEW slope \in Seq(Argument), Len(slope) = 2,
           Len(args) = n + 2, args[n + 1] = slope[1], args[n + 2] = slope[2]
    PROVE  Functional("LeakyReLU", args, n) = <<"LeakyReLU">> \o slope
<1> DEFINE own == SubSeq(args, n + 1, n + 2)
<1>1. own \in Seq(Argument) /\ Len(own) = 2 /\ own[1] = args[n + 1] /\ own[2] = args[n + 2]
  <2> DEFINE lo == n + 1
             hi == n + 2
  <2>1. lo \in 1 .. Len(args) /\ hi \in 1 .. Len(args) /\ hi - lo + 1 = 2 /\ lo <= hi
    OBVIOUS
  <2>2. lo \in Nat /\ lo + 1 - 1 = n + 1 /\ lo + 2 - 1 = n + 2
    OBVIOUS
  <2> HIDE DEF lo, hi
  <2>3. /\ SubSeq(args, lo, hi) \in Seq(Argument) /\ Len(SubSeq(args, lo, hi)) = 2
        /\ \A j \in 1 .. 2 : SubSeq(args, lo, hi)[j] = args[lo + j - 1]
    BY <2>1
  <2>4. SubSeq(args, lo, hi)[1] = args[n + 1] /\ SubSeq(args, lo, hi)[2] = args[n + 2]
    <3>1. SubSeq(args, lo, hi)[1] = args[lo + 1 - 1] /\ SubSeq(args, lo, hi)[2] = args[lo + 2 - 1]
      BY <2>3
    <3> QED
      BY <2>2, <3>1
  <2> QED
    BY <2>3, <2>4 DEF lo, hi
<1> HIDE DEF own
<1>2. own = slope
  <2>1. \A j \in 1 .. 2 : own[j] = slope[j]
    <3>1. \A j \in 1 .. 2 : j = 1 \/ j = 2
      OBVIOUS
    <3> QED
      BY <1>1, <3>1
  <2>2. own = [j \in 1 .. 2 |-> own[j]] /\ slope = [j \in 1 .. 2 |-> slope[j]]
    BY <1>1
  <2> QED
    BY <2>1, <2>2
<1>3. Len(args) > n
  OBVIOUS
<1>4. Functional("LeakyReLU", args, n) = <<"LeakyReLU">> \o own
  BY <1>3 DEF Functional, own
<1> QED
  BY <1>2, <1>4

Activation(act, slope) == IF act = "LeakyReLU" THEN <<act>> \o slope ELSE <<act>>

(* The function a layer means. *)
LEMMA FnIs ==
    ASSUME NEW l, l.op = "Clip" => l.clip = <<0, 6>>
    PROVE  Fn(l) = Activation(l.act, l.slope)
<1>1. CASE l.act = "LeakyReLU"
  BY <1>1 DEF Fn, Activation
<1>2. CASE l.act # "LeakyReLU"
  BY <1>2 DEF Fn, Activation
<1> QED
  BY <1>1, <1>2

(* The function of a kernel whose arguments end in the slope. *)
LEMMA FunctionalOfSlope ==
    ASSUME NEW act, NEW slope \in Seq(Argument), Len(slope) = 2, NEW first \in Seq(Argument),
           NEW args, args = first \o (IF act = "LeakyReLU" THEN slope ELSE <<>>)
    PROVE  Functional(act, args, Len(first)) = Activation(act, slope)
<1>1. CASE act # "LeakyReLU"
  BY <1>1 DEF Functional, Activation
<1>2. CASE act = "LeakyReLU"
  <2> DEFINE n == Len(first)
  <2>1. args = first \o slope
    BY <1>2
  <2>2. /\ args \in Seq(Argument) /\ Len(args) = n + 2
        /\ \A i \in 1 .. 2 : args[n + i] = slope[i]
    BY <2>1, ConcatAt
  <2>3. n \in Nat
    OBVIOUS
  <2>4. args[n + 1] = slope[1] /\ args[n + 2] = slope[2]
    BY <2>2
  <2> HIDE DEF n
  <2>5. Functional("LeakyReLU", args, n) = <<"LeakyReLU">> \o slope
    BY <2>2, <2>3, <2>4, FunctionalIs
  <2> QED
    BY <1>2, <2>5 DEF Activation, n
<1> QED
  BY <1>1, <1>2

(* The bias and the function of a convolution. *)
LEMMA ConvOptions ==
    ASSUME NEW act, NEW args \in Seq(Argument), Len(args) >= 11,
           Len(args) >= 12 => args[12] = TRUE
    PROVE  /\ Conv2d(act, args).T.Bias = TRUE
           /\ Conv2d(act, args).operator = Functional(act, args, 12)
<1> DEFINE p == ConvParameters
           d == <<1, 1, 0, 0, TRUE>>
           b == Bind(p, args, d)
<1>1. /\ Conv2d(act, args).T = b
      /\ Conv2d(act, args).operator = Functional(act, args, Len(ConvParameters))
  BY DEF Conv2d, Kernel, ConvParameters
<1>2. d \in Seq(Argument) /\ Len(d) = 5 /\ d[5] = TRUE
  <2> DEFINE yes == TRUE
             e == <<1, 1, 0, 0, yes>>
  <2>1. yes \in Argument
    BY Zenon DEF Argument
  <2>2. 0 \in Argument /\ 1 \in Argument
    BY DEF Argument
  <2>3. d = e
    BY Zenon
  <2> HIDE DEF yes
  <2>4. e \in Seq(Argument) /\ Len(e) = 5 /\ e[5] = yes
    BY <2>1, <2>2
  <2>5. yes = TRUE
    BY Zenon DEF yes
  <2> HIDE DEF d, e
  <2> QED
    BY <2>3, <2>4, <2>5
<1>3. p \in Seq(Names) /\ Len(p) = 12 /\ Distinct(p)
  BY ConvNames DEF Distinct
<1> HIDE DEF p, d, b
<1>4. \A j \in 1 .. Len(p) :
            b[p[j]] = IF j <= Len(args) THEN args[j] ELSE d[j - Len(p) + Len(d)]
  <2>1. Len(p) - Len(args) <= Len(d)
    BY <1>2, <1>3
  <2> QED
    BY <1>2, <1>3, <2>1, BindIs DEF b
<1>5. b[p[12]] = TRUE
  <2>1. b[p[12]] = IF 12 <= Len(args) THEN args[12] ELSE d[12 - 12 + 5]
    BY <1>2, <1>3, <1>4
  <2>2. 12 - 12 + 5 = 5
    OBVIOUS
  <2>3. Len(args) \in Nat
    OBVIOUS
  <2>4. CASE 12 <= Len(args)
    <3>1. args[12] = TRUE
      BY <2>3, <2>4
    <3> QED
      BY <2>1, <2>4, <3>1
  <2>5. CASE ~(12 <= Len(args))
    BY <1>2, <2>1, <2>2, <2>5
  <2> QED
    BY <2>4, <2>5
<1>6. b["Bias"] = TRUE
  <2>1. p[12] = "Bias"
    BY ConvNames DEF p
  <2> QED
    BY <1>5, <2>1
<1>7. Len(ConvParameters) = 12
  BY ConvNames
<1> QED
  BY <1>1, <1>6, <1>7

(* The padding that is read is the operator's. *)
LEMMA PadsReadAre ==
    ASSUME NEW l, l.via = "onnx", l.op \in {"Conv", "MaxPool", "AveragePool"}, SameExtents(l)
    PROVE  PadsRead(l) = l.pads
<1>1. l.autoPad => l.pads = <<0, 0, 0, 0>>
  BY DEF SameExtents
<1> QED
  BY <1>1, Zenon DEF PadsRead

(* The kernel of a convolution: its extents are the node's. *)
LEMMA ConvEmitted ==
    ASSUME NEW l, l.via = "onnx", l.op = "Conv", WellFormed(l), SameExtents(l)
    PROVE  LET k == KernelOf(l)
               T == k.T
               h == OutExtent(l.x[3], l.w[3], l.strides[1], l.pads[1])
               w == OutExtent(l.x[4], l.w[4], l.strides[2], l.pads[2])
           IN  /\ k.impl = "Conv2d" /\ k.operator = Fn(l) /\ T.Bias = TRUE
               /\ T.BatchSize = BatchExpr(l) /\ T.InHeight = l.x[3] /\ T.InWidth = l.x[4]
               /\ T.InChannels = l.w[2] /\ T.OutChannels = l.w[1]
               /\ T.KernelHeight = l.w[3] /\ T.KernelWidth = l.w[4]
               /\ T.StrideHeight = l.strides[1] /\ T.StrideWidth = l.strides[2]
               /\ T.PaddingHeight = l.pads[1] /\ T.PaddingWidth = l.pads[2]
               /\ OutHeight(T) = h /\ OutWidth(T) = w
               /\ OutputShape(l) \in Seq(Int) /\ Len(OutputShape(l)) = 4
               /\ OutputShape(l)[1] = l.x[1] /\ OutputShape(l)[2] = l.w[1]
               /\ OutputShape(l)[3] = h /\ OutputShape(l)[4] = w /\ h \in Positive /\ w \in Positive
<1> DEFINE args == ConvArgs(ParseConv2d(l), BatchExpr(l))
           k == KernelOf(l)
           T == k.T
           h == OutExtent(l.x[3], l.w[3], l.strides[1], l.pads[1])
           w == OutExtent(l.x[4], l.w[4], l.strides[2], l.pads[2])
<1>1. /\ Tensor(l.x, 4) /\ Weights(l.w, 4) /\ l.group \in Positive
      /\ l.x[2] = l.group * l.w[2] /\ Windows(l, l.w[3], l.w[4])
      /\ l.slope \in Seq(Int) /\ Len(l.slope) = 2
  BY DEF WellFormed, Binary, Activations
<1>2. SymmetricPads(l) /\ l.dilation = 1
  BY DEF SameExtents
<1>3. /\ l.w[1] \in Positive /\ l.w[2] \in Positive /\ l.w[3] \in Positive /\ l.w[4] \in Positive
      /\ l.x[2] \in Positive /\ l.x[3] \in Positive /\ l.x[4] \in Positive
      /\ l.x[1] \in Positive \cup {-1}
  BY <1>1 DEF Weights, Tensor
<1>4. /\ Windowed(l, l.w[3], l.w[4]) = <<h, w>> /\ h \in Positive /\ w \in Positive
  BY <1>1, <1>2, <1>3, WindowedIs
<1>5. /\ l.strides[1] \in Int /\ l.strides[2] \in Int /\ l.pads[1] \in Int /\ l.pads[2] \in Int
  BY <1>1 DEF Windows, Positive
<1>6. BatchExpr(l) \in Positive
  BY <1>3, BatchIs
<1>7. args = <<BatchExpr(l), l.x[3], l.x[4], l.w[2], l.w[1], l.w[3], l.w[4],
               l.strides[1], l.strides[2], l.pads[1], l.pads[2]>>
  BY PadsReadAre DEF ConvArgs, ParseConv2d, Geometry
<1>8. args \in Seq(Argument) /\ Len(args) = 11
  <2>1. /\ BatchExpr(l) \in Argument /\ l.x[3] \in Argument /\ l.x[4] \in Argument
        /\ l.w[1] \in Argument /\ l.w[2] \in Argument /\ l.w[3] \in Argument /\ l.w[4] \in Argument
        /\ l.strides[1] \in Argument /\ l.strides[2] \in Argument
        /\ l.pads[1] \in Argument /\ l.pads[2] \in Argument
    BY <1>3, <1>5, <1>6, IntArgument DEF Positive
  <2> QED
    BY <1>7, <2>1
<1> HIDE DEF args
<1>9. PICK a \in Seq(Argument) : /\ Len(a) >= 11 /\ \A j \in 1 .. 11 : a[j] = args[j]
                                 /\ Len(a) >= 12 => a[12] = TRUE
                                 /\ Functional(l.act, a, 12) = Activation(l.act, l.slope)
                                 /\ k = Conv2d(l.act, a)
  <2>1. CASE l.act = "Identity"
    <3>1. k = Conv2d(l.act, args)
      <4>1. Emitted(l) = KernelType("Conv2d", l.act, args)
        <5>1. Emitted(l) = EmitConv2d(l)
          BY <2>1 DEF Emitted, Binary, Activations
        <5> QED
          BY <5>1 DEF EmitConv2d, args
      <4>2. KernelOf(l) = Instantiate(KernelType("Conv2d", l.act, args))
        BY <4>1 DEF KernelOf
      <4> QED
        BY <4>2 DEF Instantiate, KernelType
    <3>2. Functional(l.act, args, 12) = Activation(l.act, l.slope)
      BY <2>1 DEF Functional, Activation
    <3>3. /\ Len(args) >= 11 /\ (\A j \in 1 .. 11 : args[j] = args[j])
          /\ Len(args) >= 12 => args[12] = TRUE
      BY <1>8
    <3> HIDE DEF k
    <3> QED
      BY <1>8, <3>1, <3>2, <3>3
  <2>2. CASE l.act # "Identity"
    <3> DEFINE one == <<TRUE>>
               more == IF l.act = "LeakyReLU" THEN one \o Slope(l) ELSE <<>>
               both == args \o more
    <3>1. k = Conv2d(l.act, both)
      <4>1. Emitted(l) = KernelType("Conv2d", l.act, args \o more)
        <5>1. Emitted(l) = EmitFusedConv2d(l)
          BY <2>2 DEF Emitted, Binary, Activations
        <5> QED
          BY <5>1 DEF EmitFusedConv2d, args
      <4>2. KernelOf(l) = Instantiate(KernelType("Conv2d", l.act, args \o more))
        BY <4>1 DEF KernelOf
      <4> HIDE DEF more
      <4> QED
        BY <4>2 DEF Instantiate, KernelType
    <3>2. l.slope \in Seq(Argument)
      <4>1. Seq(Int) \subseteq Seq(Argument)
        BY IntArgument
      <4> QED
        BY <1>1, <4>1
    <3>3. one \in Seq(Argument) /\ Len(one) = 1 /\ one[1] = TRUE
      <4> DEFINE yes == TRUE
                 unit == <<yes>>
      <4>1. yes \in Argument
        BY Zenon DEF Argument
      <4>2. one = unit
        BY Zenon
      <4> HIDE DEF yes
      <4>3. unit \in Seq(Argument) /\ Len(unit) = 1 /\ unit[1] = yes
        BY <4>1
      <4>4. yes = TRUE
        BY Zenon DEF yes
      <4> HIDE DEF unit, one
      <4> QED
        BY <4>2, <4>3, <4>4
    <3> HIDE DEF one
    <3>4. CASE l.act = "LeakyReLU"
      <4>1. more = one \o l.slope
        BY <3>4 DEF Slope
      <4> HIDE DEF more
      <4>2. /\ more \in Seq(Argument) /\ Len(more) = 3
            /\ \A i \in 1 .. 1 : more[i] = one[i]
            /\ \A i \in 1 .. 2 : more[1 + i] = l.slope[i]
        <5>1. /\ one \o l.slope \in Seq(Argument)
              /\ Len(one \o l.slope) = Len(one) + Len(l.slope)
              /\ \A i \in 1 .. Len(one) : (one \o l.slope)[i] = one[i]
              /\ \A i \in 1 .. Len(l.slope) : (one \o l.slope)[Len(one) + i] = l.slope[i]
          BY <3>2, <3>3, ConcatAt
        <5> QED
          BY <1>1, <3>3, <4>1, <5>1
      <4>3. more[1] = TRUE /\ more[2] = l.slope[1] /\ more[3] = l.slope[2]
        <5>1. more[1] = one[1] /\ more[1 + 1] = l.slope[1] /\ more[1 + 2] = l.slope[2]
          BY <4>2
        <5> QED
          BY <3>3, <5>1
      <4>4. /\ both \in Seq(Argument) /\ Len(both) = 14
            /\ \A j \in 1 .. 11 : both[j] = args[j]
            /\ \A j \in 1 .. 3 : both[11 + j] = more[j]
        <5>1. /\ args \o more \in Seq(Argument) /\ Len(args \o more) = Len(args) + Len(more)
              /\ \A j \in 1 .. Len(args) : (args \o more)[j] = args[j]
              /\ \A j \in 1 .. Len(more) : (args \o more)[Len(args) + j] = more[j]
          <6>1. args \in Seq(Argument) /\ more \in Seq(Argument)
            BY <1>8, <4>2
          <6> HIDE DEF both
          <6> QED
            BY <6>1, ConcatAt
        <5>2. both = args \o more
          OBVIOUS
        <5> HIDE DEF both
        <5>3. Len(args) = 11 /\ Len(more) = 3
          BY <1>8, <4>2
        <5>4. both \in Seq(Argument) /\ Len(both) = 14
          BY <5>1, <5>2, <5>3
        <5>5. /\ \A j \in 1 .. Len(args) : both[j] = args[j]
              /\ \A j \in 1 .. Len(more) : both[Len(args) + j] = more[j]
          BY <5>1, <5>2, Zenon
        <5> QED
          BY <5>3, <5>4, <5>5
      <4> HIDE DEF both
      <4>5. both[12] = TRUE /\ both[13] = l.slope[1] /\ both[14] = l.slope[2]
        <5>1. both[11 + 1] = more[1] /\ both[11 + 2] = more[2] /\ both[11 + 3] = more[3]
          BY <4>4
        <5> QED
          BY <4>3, <5>1
      <4>6. Functional(l.act, both, 12) = Activation(l.act, l.slope)
        <5> DEFINE n == 12
        <5>1. n \in Nat /\ Len(both) = n + 2 /\ both[n + 1] = l.slope[1] /\ both[n + 2] = l.slope[2]
          BY <4>4, <4>5
        <5> HIDE DEF n
        <5>2. Functional("LeakyReLU", both, n) = <<"LeakyReLU">> \o l.slope
          BY <1>1, <3>2, <4>4, <5>1, FunctionalIs
        <5> QED
          BY <3>4, <5>2 DEF n, Activation
      <4> HIDE DEF k
      <4>7. Len(both) >= 11
        BY <4>4
      <4> QED
        BY <3>1, <4>4, <4>5, <4>6, <4>7
    <3>5. CASE l.act # "LeakyReLU"
      <4>1. more = <<>>
        BY <3>5
      <4>2. both = args
        <5> HIDE DEF more
        <5> QED
          BY <1>8, <4>1
      <4> HIDE DEF both, k
      <4>3. k = Conv2d(l.act, args)
        BY <3>1, <4>2
      <4>4. Functional(l.act, args, 12) = Activation(l.act, l.slope)
        BY <3>5 DEF Functional, Activation
      <4>5. /\ Len(args) >= 11 /\ (\A j \in 1 .. 11 : args[j] = args[j])
            /\ Len(args) >= 12 => args[12] = TRUE
        BY <1>8
      <4> QED
        BY <1>8, <4>3, <4>4, <4>5
    <3> QED
      BY <3>4, <3>5
  <2> QED
    BY <2>1, <2>2
<1>10. /\ k.impl = "Conv2d" /\ ImageIs(T, a) /\ T.OutChannels = a[5]
       /\ WindowIs(T, a[6], a[7], a[8], a[9], a[10], a[11])
  BY <1>9, ConvKernel
<1>11. T.Bias = TRUE /\ k.operator = Functional(l.act, a, 12)
  BY <1>9, ConvOptions
<1>12. k.operator = Fn(l)
  <2>1. Fn(l) = Activation(l.act, l.slope)
    BY FnIs
  <2> QED
    BY <1>9, <1>11, <2>1
<1>13. /\ a[1] = args[1] /\ a[2] = args[2] /\ a[3] = args[3] /\ a[4] = args[4] /\ a[5] = args[5]
       /\ a[6] = args[6] /\ a[7] = args[7] /\ a[8] = args[8] /\ a[9] = args[9]
       /\ a[10] = args[10] /\ a[11] = args[11]
  BY <1>9
<1>14. /\ T.BatchSize = BatchExpr(l) /\ T.InHeight = l.x[3] /\ T.InWidth = l.x[4]
       /\ T.InChannels = l.w[2] /\ T.OutChannels = l.w[1]
  BY <1>7, <1>10, <1>13 DEF ImageIs
<1>15. /\ T.KernelHeight = l.w[3] /\ T.KernelWidth = l.w[4]
       /\ T.StrideHeight = l.strides[1] /\ T.StrideWidth = l.strides[2]
       /\ T.PaddingHeight = l.pads[1] /\ T.PaddingWidth = l.pads[2]
       /\ "OutHeight" \notin DOMAIN T /\ "OutWidth" \notin DOMAIN T
  BY <1>7, <1>10, <1>13 DEF WindowIs
<1> HIDE DEF k
<1>16. OutHeight(T) = h /\ OutWidth(T) = w
  <2> HIDE DEF T
  <2> QED
    BY <1>14, <1>15 DEF OutHeight, OutWidth
<1> HIDE DEF h, w
<1>17. /\ OutputShape(l) \in Seq(Int) /\ Len(OutputShape(l)) = 4
       /\ OutputShape(l)[1] = l.x[1] /\ OutputShape(l)[2] = l.w[1]
       /\ OutputShape(l)[3] = h /\ OutputShape(l)[4] = w
  <2>1. OutputShape(l) = <<l.x[1], l.w[1]>> \o <<h, w>>
    BY <1>4 DEF OutputShape
  <2>2. l.x[1] \in Int /\ l.w[1] \in Int /\ h \in Int /\ w \in Int
    BY <1>3, <1>4 DEF Positive
  <2> QED
    BY <2>1, <2>2
<1> HIDE DEF T
<1> QED
  BY <1>4, <1>10, <1>11, <1>12, <1>14, <1>15, <1>16, <1>17 DEF k, T, h, w

(* Without a fused activation the function is the identity. *)
LEMMA IdentityIs ==
    ASSUME NEW l, l.op \notin {"Clip"}, l.act = "Identity", NEW args
    PROVE  /\ Fn(l) = <<"Identity">>
           /\ MaxPool2d("Identity", args).operator = <<"Identity">>
           /\ AvgPool2d("Identity", args).operator = <<"Identity">>
           /\ AdaptiveAvgPool2d("Identity", args).operator = <<"Identity">>
<1>1. Fn(l) = <<"Identity">>
  BY DEF Fn
<1>2. \A n : Functional("Identity", args, n) = <<"Identity">>
  BY DEF Functional
<1>3. /\ MaxPool2d("Identity", args).operator = <<"Identity">>
      /\ AvgPool2d("Identity", args).operator = <<"Identity">>
      /\ AdaptiveAvgPool2d("Identity", args).operator = <<"Identity">>
  <2> DEFINE id == <<"Identity">>
  <2>1. \A n : Functional("Identity", args, n) = id
    BY <1>2
  <2> HIDE DEF id
  <2>2. \A impl, p, d : Kernel(impl, "Identity", args, p, d).operator = id
    BY <2>1 DEF Kernel
  <2>3. /\ MaxPool2d("Identity", args).operator = id
        /\ AvgPool2d("Identity", args).operator = id
        /\ AdaptiveAvgPool2d("Identity", args).operator = id
    BY <2>2, Zenon DEF MaxPool2d, AvgPool2d, AdaptiveAvgPool2d
  <2> QED
    BY <2>3 DEF id
<1> QED
  BY <1>1, <1>3

(* The kernel of a max or average pool. *)
LEMMA PoolEmitted ==
    ASSUME NEW l, l.via = "onnx", l.op \in {"MaxPool", "AveragePool"}, WellFormed(l), SameExtents(l)
    PROVE  LET k == KernelOf(l)
               T == k.T
               h == OutExtent(l.x[3], l.kernel[1], l.strides[1], l.pads[1])
               w == OutExtent(l.x[4], l.kernel[2], l.strides[2], l.pads[2])
           IN  /\ k.impl = (IF l.op = "MaxPool" THEN "MaxPool2d" ELSE "AvgPool2d")
               /\ k.operator = Fn(l)
               /\ T.BatchSize = BatchExpr(l) /\ T.InHeight = l.x[3] /\ T.InWidth = l.x[4]
               /\ T.InChannels = l.x[2]
               /\ T.KernelHeight = l.kernel[1] /\ T.KernelWidth = l.kernel[2]
               /\ T.StrideHeight = l.strides[1] /\ T.StrideWidth = l.strides[2]
               /\ T.PaddingHeight = l.pads[1] /\ T.PaddingWidth = l.pads[2]
               /\ OutHeight(T) = h /\ OutWidth(T) = w
               /\ OutputShape(l) \in Seq(Int) /\ Len(OutputShape(l)) = 4
               /\ OutputShape(l)[1] = l.x[1] /\ OutputShape(l)[2] = l.x[2]
               /\ OutputShape(l)[3] = h /\ OutputShape(l)[4] = w /\ h \in Positive /\ w \in Positive
<1> DEFINE args == PoolArgs(ParseMaxPool(l), BatchExpr(l))
           k == KernelOf(l)
           T == k.T
           h == OutExtent(l.x[3], l.kernel[1], l.strides[1], l.pads[1])
           w == OutExtent(l.x[4], l.kernel[2], l.strides[2], l.pads[2])
<1>1. /\ Tensor(l.x, 4) /\ l.kernel \in Positive \X Positive
      /\ Windows(l, l.kernel[1], l.kernel[2]) /\ l.act = "Identity"
  BY DEF WellFormed, Binary, Activations
<1>2. SymmetricPads(l) /\ l.dilation = 1
  BY DEF SameExtents
<1>3. /\ l.kernel[1] \in Positive /\ l.kernel[2] \in Positive
      /\ l.x[2] \in Positive /\ l.x[3] \in Positive /\ l.x[4] \in Positive
      /\ l.x[1] \in Positive \cup {-1}
  <2>1. l.kernel[1] \in Positive /\ l.kernel[2] \in Positive
    BY <1>1
  <2> QED
    BY <1>1, <2>1 DEF Tensor
<1>4. /\ Windowed(l, l.kernel[1], l.kernel[2]) = <<h, w>> /\ h \in Positive /\ w \in Positive
  BY <1>1, <1>2, <1>3, WindowedIs
<1>5. /\ l.strides[1] \in Positive /\ l.strides[2] \in Positive
      /\ l.pads[1] \in Nat /\ l.pads[2] \in Nat
  <2>1. l.strides \in Positive \X Positive /\ l.pads \in Nat \X Nat \X Nat \X Nat
    BY <1>1 DEF Windows
  <2> QED
    BY <2>1
<1>6. BatchExpr(l) \in Positive
  BY <1>3, BatchIs
<1>7. args = <<BatchExpr(l), l.x[3], l.x[4], l.x[2], l.kernel[1], l.kernel[2],
               l.strides[1], l.strides[2], l.pads[1], l.pads[2]>>
  BY PadsReadAre DEF PoolArgs, ParseMaxPool, Geometry
<1>8. args \in Seq(Argument) /\ Len(args) = 10
  <2>1. /\ BatchExpr(l) \in Argument /\ l.x[3] \in Argument /\ l.x[4] \in Argument
        /\ l.x[2] \in Argument /\ l.kernel[1] \in Argument /\ l.kernel[2] \in Argument
        /\ l.strides[1] \in Argument /\ l.strides[2] \in Argument
        /\ l.pads[1] \in Argument /\ l.pads[2] \in Argument
    BY <1>3, <1>5, <1>6, IntArgument DEF Positive
  <2> QED
    BY <1>7, <2>1
<1> HIDE DEF args
<1>9. \/ l.op = "MaxPool" /\ k = MaxPool2d("Identity", args)
      \/ l.op = "AveragePool" /\ k = AvgPool2d("Identity", args)
  <2>1. CASE l.op = "MaxPool"
    <3>1. Emitted(l) = EmitMaxPool2d(l)
      BY <2>1 DEF Emitted, Binary, Activations
    <3>2. Emitted(l) = KernelType("MaxPool2d", "Identity", args)
      BY <3>1 DEF EmitMaxPool2d, args
    <3>3. k = Instantiate(KernelType("MaxPool2d", "Identity", args))
      BY <3>2 DEF KernelOf
    <3> QED
      BY <2>1, <3>3 DEF Instantiate, KernelType
  <2>2. CASE l.op = "AveragePool"
    <3>1. Emitted(l) = EmitAvgPool2d(l)
      BY <2>2 DEF Emitted, Binary, Activations
    <3>2. Emitted(l) = KernelType("AvgPool2d", "Identity", args)
      BY <3>1 DEF EmitAvgPool2d, ParseAveragePool, ParseMaxPool, args
    <3>3. k = Instantiate(KernelType("AvgPool2d", "Identity", args))
      BY <3>2 DEF KernelOf
    <3> QED
      BY <2>2, <3>3 DEF Instantiate, KernelType
  <2> QED
    BY <2>1, <2>2
<1>10. /\ k.impl = (IF l.op = "MaxPool" THEN "MaxPool2d" ELSE "AvgPool2d") /\ ImageIs(T, args)
       /\ WindowIs(T, args[5], args[6], args[7], args[8], args[9], args[10])
  <2>1. CASE l.op = "MaxPool"
    <3> DEFINE act == "Identity"
    <3>1. k = MaxPool2d(act, args)
      BY <1>9, <2>1
    <3> HIDE DEF act, k, T
    <3>2. /\ MaxPool2d(act, args).impl = "MaxPool2d" /\ ImageIs(MaxPool2d(act, args).T, args)
          /\ WindowIs(MaxPool2d(act, args).T, args[5], args[6], args[7], args[8], args[9], args[10])
      <4>1. Len(args) >= 10
        BY <1>8
      <4> QED
        BY <1>8, <4>1, MaxPoolKernel
    <3> QED
      BY <2>1, <3>1, <3>2 DEF T
  <2>2. CASE l.op = "AveragePool"
    <3> DEFINE act == "Identity"
    <3>1. k = AvgPool2d(act, args)
      BY <1>9, <2>2
    <3> HIDE DEF act, k, T
    <3>2. /\ AvgPool2d(act, args).impl = "AvgPool2d" /\ ImageIs(AvgPool2d(act, args).T, args)
          /\ WindowIs(AvgPool2d(act, args).T, args[5], args[6], args[7], args[8], args[9], args[10])
      <4>1. Len(args) >= 10
        BY <1>8
      <4> QED
        BY <1>8, <4>1, AvgPoolKernel
    <3> QED
      BY <2>2, <3>1, <3>2 DEF T
  <2> QED
    BY <2>1, <2>2
<1>11. /\ T.BatchSize = BatchExpr(l) /\ T.InHeight = l.x[3] /\ T.InWidth = l.x[4]
       /\ T.InChannels = l.x[2]
  BY <1>7, <1>10 DEF ImageIs
<1>12. /\ T.KernelHeight = l.kernel[1] /\ T.KernelWidth = l.kernel[2]
       /\ T.StrideHeight = l.strides[1] /\ T.StrideWidth = l.strides[2]
       /\ T.PaddingHeight = l.pads[1] /\ T.PaddingWidth = l.pads[2]
       /\ "OutHeight" \notin DOMAIN T /\ "OutWidth" \notin DOMAIN T
  BY <1>7, <1>10 DEF WindowIs
<1>13. k.operator = Fn(l)
  <2>1. /\ Fn(l) = <<"Identity">>
        /\ MaxPool2d("Identity", args).operator = <<"Identity">>
        /\ AvgPool2d("Identity", args).operator = <<"Identity">>
    BY <1>1, IdentityIs
  <2> HIDE DEF k
  <2> QED
    BY <1>9, <2>1
<1> HIDE DEF k
<1>14. OutHeight(T) = h /\ OutWidth(T) = w
  <2> HIDE DEF T
  <2> QED
    BY <1>11, <1>12 DEF OutHeight, OutWidth
<1> HIDE DEF h, w
<1>15. /\ OutputShape(l) \in Seq(Int) /\ Len(OutputShape(l)) = 4
       /\ OutputShape(l)[1] = l.x[1] /\ OutputShape(l)[2] = l.x[2]
       /\ OutputShape(l)[3] = h /\ OutputShape(l)[4] = w
  <2>1. OutputShape(l) = <<l.x[1], l.x[2]>> \o <<h, w>>
    BY <1>4 DEF OutputShape
  <2>2. l.x[1] \in Int /\ l.x[2] \in Int /\ h \in Int /\ w \in Int
    BY <1>3, <1>4 DEF Positive
  <2> QED
    BY <2>1, <2>2
<1> HIDE DEF T
<1> QED
  BY <1>4, <1>10, <1>11, <1>12, <1>13, <1>14, <1>15 DEF k, T, h, w

(* The kernel of a global average pool: an adaptive pool with one output   *)
(* per channel.                                                            *)
LEMMA AdaptiveEmitted ==
    ASSUME NEW l, l.via = "onnx", l.op \in {"GlobalAveragePool", "ReduceMean"}, WellFormed(l),
           SameExtents(l)
    PROVE  LET k == KernelOf(l)
               T == k.T
           IN  /\ k.impl = "AdaptiveAvgPool2d" /\ k.operator = Fn(l)
               /\ {"OutHeight", "OutWidth"} \subseteq DOMAIN T
               /\ T.BatchSize = BatchExpr(l) /\ T.InHeight = l.x[3] /\ T.InWidth = l.x[4]
               /\ T.InChannels = l.x[2] /\ T.OutHeight = 1 /\ T.OutWidth = 1
               /\ OutHeight(T) = 1 /\ OutWidth(T) = 1
               /\ OutputShape(l) \in Seq(Int) /\ Len(OutputShape(l)) = 4
               /\ OutputShape(l)[1] = l.x[1] /\ OutputShape(l)[2] = l.x[2]
               /\ OutputShape(l)[3] = 1 /\ OutputShape(l)[4] = 1
<1> DEFINE args == <<BatchExpr(l), l.x[3], l.x[4], l.x[2], 1, 1>>
           k == KernelOf(l)
           T == k.T
<1>1. Tensor(l.x, 4) /\ l.act = "Identity"
  BY DEF WellFormed, Binary, Activations
<1>2. l.op = "ReduceMean" => l.axes # <<>>
  BY DEF SameExtents
<1>3. /\ l.x[2] \in Positive /\ l.x[3] \in Positive /\ l.x[4] \in Positive
      /\ l.x[1] \in Positive \cup {-1}
  BY <1>1 DEF Tensor
<1>4. BatchExpr(l) \in Positive
  BY <1>3, BatchIs
<1>5. args \in Seq(Argument) /\ Len(args) = 6
  <2>1. /\ BatchExpr(l) \in Argument /\ l.x[3] \in Argument /\ l.x[4] \in Argument
        /\ l.x[2] \in Argument /\ 1 \in Argument
    BY <1>3, <1>4, IntArgument DEF Positive
  <2> QED
    BY <2>1
<1>6. k = AdaptiveAvgPool2d("Identity", args)
  <2>1. Emitted(l) = EmitAdaptiveAvgPool2d(l)
    BY DEF Emitted, Binary, Activations
  <2>2. Emitted(l) = KernelType("AdaptiveAvgPool2d", "Identity", args)
    BY <2>1 DEF EmitAdaptiveAvgPool2d, ParseReduceMean, ParseGlobalAvgPool
  <2>3. k = Instantiate(KernelType("AdaptiveAvgPool2d", "Identity", args))
    BY <2>2 DEF KernelOf
  <2> QED
    BY <2>3 DEF Instantiate, KernelType
<1>7. /\ k.impl = "AdaptiveAvgPool2d" /\ ImageIs(T, args)
      /\ {"OutHeight", "OutWidth"} \subseteq DOMAIN T
      /\ T.OutHeight = args[5] /\ T.OutWidth = args[6]
  <2> DEFINE act == "Identity"
             p == AdaptiveAvgPool2d(act, args)
  <2>1. k = p
    BY <1>6
  <2> HIDE DEF act, k, T, args
  <2>2. /\ p.impl = "AdaptiveAvgPool2d" /\ ImageIs(p.T, args)
        /\ {"OutHeight", "OutWidth"} \subseteq DOMAIN p.T
        /\ p.T.OutHeight = args[5] /\ p.T.OutWidth = args[6]
    <3>1. Len(args) >= 6 /\ args \in Seq(Argument)
      BY <1>5
    <3> QED
      BY <3>1, AdaptiveKernel
  <2> HIDE DEF p
  <2> QED
    BY <2>1, <2>2 DEF T
<1>8. /\ T.BatchSize = BatchExpr(l) /\ T.InHeight = l.x[3] /\ T.InWidth = l.x[4]
      /\ T.InChannels = l.x[2] /\ T.OutHeight = 1 /\ T.OutWidth = 1
  BY <1>7 DEF ImageIs
<1>9. OutHeight(T) = 1 /\ OutWidth(T) = 1
  BY <1>7 DEF OutHeight, OutWidth
<1> HIDE DEF args
<1>10. k.operator = Fn(l)
  <2>1. /\ Fn(l) = <<"Identity">>
        /\ AdaptiveAvgPool2d("Identity", args).operator = <<"Identity">>
    BY <1>1, IdentityIs
  <2> HIDE DEF k
  <2> QED
    BY <1>6, <2>1
<1>11. OutputShape(l) = <<l.x[1], l.x[2], 1, 1>>
  BY <1>2 DEF OutputShape
<1>12. /\ OutputShape(l) \in Seq(Int) /\ Len(OutputShape(l)) = 4
       /\ OutputShape(l)[1] = l.x[1] /\ OutputShape(l)[2] = l.x[2]
       /\ OutputShape(l)[3] = 1 /\ OutputShape(l)[4] = 1
  <2>1. l.x[1] \in Int /\ l.x[2] \in Int
    BY <1>3 DEF Positive
  <2> QED
    BY <1>11, <2>1
<1> HIDE DEF k, T
<1> QED
  BY <1>7, <1>8, <1>9, <1>10, <1>12 DEF k, T

(* The kernel of a Gemm. *)
LEMMA GemmEmitted ==
    ASSUME NEW l, l.via = "onnx", l.op = "Gemm", WellFormed(l), SameExtents(l)
    PROVE  LET k == KernelOf(l)
               T == k.T
               in == IF l.transB THEN l.w[2] ELSE l.w[1]
               out == IF l.transB THEN l.w[1] ELSE l.w[2]
           IN  /\ k.impl = "Linear" /\ k.operator = Fn(l)
               /\ T.NumRows = BatchExpr(l) /\ T.InDim = in /\ T.OutDim = out
               /\ T.InRowStride = in /\ T.InColStride = 1
               /\ T.WeightRowStride = in /\ T.WeightColStride = 1
               /\ OutputShape(l) \in Seq(Int) /\ Len(OutputShape(l)) = 2
               /\ OutputShape(l)[1] = l.x[1] /\ OutputShape(l)[2] = out
<1> DEFINE in == IF l.transB THEN l.w[2] ELSE l.w[1]
           out == IF l.transB THEN l.w[1] ELSE l.w[2]
           first == <<BatchExpr(l), in, out>>
           args == first \o Slope(l)
           k == KernelOf(l)
           T == k.T
<1>1. /\ Tensor(l.x, 2) /\ Weights(l.w, 2) /\ l.x[2] = in
      /\ l.slope \in Seq(Int) /\ Len(l.slope) = 2
  <2>1. ~ l.transA
    BY DEF SameExtents
  <2> QED
    BY <2>1 DEF WellFormed, Binary, Activations
<1>2. /\ l.w[1] \in Positive /\ l.w[2] \in Positive /\ l.x[2] \in Positive
      /\ l.x[1] \in Positive \cup {-1}
  BY <1>1 DEF Weights, Tensor
<1>3. BatchExpr(l) \in Positive
  BY <1>2, BatchIs
<1>4. in \in Positive /\ out \in Positive
  BY <1>2
<1>5. k = Linear(l.act, args)
  <2>1. Emitted(l) = EmitLinear(l)
    BY DEF Emitted, Binary, Activations
  <2>2. ParseGemm(l).in_features = in /\ ParseGemm(l).out_features = out
    BY DEF ParseGemm
  <2> HIDE DEF in, out
  <2>3. Emitted(l) = KernelType("Linear", l.act, args)
    BY <2>1, <2>2 DEF EmitLinear
  <2>4. k = Instantiate(KernelType("Linear", l.act, args))
    BY <2>3 DEF KernelOf
  <2> QED
    BY <2>4 DEF Instantiate, KernelType
<1> HIDE DEF in, out
<1>6. /\ first \in Seq(Int) /\ Len(first) = 3
      /\ first[1] = BatchExpr(l) /\ first[2] = in /\ first[3] = out
  BY <1>3, <1>4 DEF Positive
<1>20. args = first \o Slope(l)
  OBVIOUS
<1> HIDE DEF args, first
<1>7. args[1] = BatchExpr(l) /\ args[2] = in /\ args[3] = out
  <2>1. Slope(l) \in Seq(Int)
    BY <1>1 DEF Slope
  <2>2. \A j \in 1 .. Len(first) : (first \o Slope(l))[j] = first[j]
    BY <1>6, <2>1, ConcatAt
  <2>3. \A j \in 1 .. 3 : args[j] = first[j]
    BY <1>6, <2>2, <1>20
  <2> QED
    BY <1>6, <2>3
<1>8. /\ k.impl = "Linear" /\ T.NumRows = BatchExpr(l) /\ T.InDim = in /\ T.OutDim = out
      /\ T.InRowStride = in /\ T.InColStride = 1
      /\ T.WeightRowStride = in /\ T.WeightColStride = 1
  <2>1. args[1] \in Int /\ args[2] \in Int /\ args[3] \in Int
    BY <1>3, <1>4, <1>7 DEF Positive
  <2> QED
    BY <1>5, <1>7, <2>1, LinearKernel
<1>9. k.operator = Fn(l)
  <2>1. Linear(l.act, args).operator = Functional(l.act, args, 3)
    BY DEF Linear, Kernel
  <2>2. first \in Seq(Argument) /\ l.slope \in Seq(Argument)
    <3>1. Seq(Int) \subseteq Seq(Argument)
      BY IntArgument
    <3> QED
      BY <1>1, <1>6, <3>1
  <2>3. args = first \o (IF l.act = "LeakyReLU" THEN l.slope ELSE <<>>)
    BY <1>20 DEF Slope
  <2>4. Functional(l.act, args, Len(first)) = Activation(l.act, l.slope)
    BY <1>1, <2>2, <2>3, FunctionalOfSlope
  <2>5. Fn(l) = Activation(l.act, l.slope)
    BY FnIs
  <2> HIDE DEF k
  <2> QED
    BY <1>5, <1>6, <2>1, <2>4, <2>5
<1>10. OutputShape(l) = <<l.x[1], out>>
  <2>1. ~ l.transA
    BY DEF SameExtents
  <2> QED
    BY <2>1 DEF OutputShape, out
<1>11. /\ OutputShape(l) \in Seq(Int) /\ Len(OutputShape(l)) = 2
       /\ OutputShape(l)[1] = l.x[1] /\ OutputShape(l)[2] = out
  <2>1. l.x[1] \in Int /\ out \in Int
    BY <1>2, <1>4 DEF Positive
  <2> QED
    BY <1>10, <2>1
<1> HIDE DEF k, T
<1> QED
  BY <1>8, <1>9, <1>11 DEF k, T, in, out

(* The kernel of a softmax over the last factor of the size. *)
LEMMA SoftmaxEmitted ==
    ASSUME NEW l, l.via = "onnx", l.op = "Softmax", WellFormed(l)
    PROVE  LET k == KernelOf(l)
               T == k.T
               v == SizeFactors(l)[Len(SizeFactors(l))]
           IN  /\ k.impl = "Softmax" /\ k.operator = Fn(l) /\ OutputShape(l) = l.x
               /\ T.NumReductions = BatchExpr(l) /\ T.ReductionSize = v
               /\ T.StrideWithinDim = 1 /\ T.OuterStride = v /\ v \in Positive
               /\ X(l)[1] * v <= Size(X(l)) /\ Size(X(l)) \in Nat
               /\ Len(l.x) = 2 => v = l.x[2]
<1> DEFINE n == Len(l.x)
           x == X(l)
           v == SizeFactors(l)[Len(SizeFactors(l))]
           args == <<BatchExpr(l), v>>
           k == KernelOf(l)
           T == k.T
<1>1. n >= 2 /\ Tensor(l.x, n) /\ l.act = "Identity"
  BY DEF WellFormed, Binary, Activations
<1>2. n \in Nat /\ l.x \in Seq(Int) /\ l.x[1] \in Positive \cup {-1}
  BY <1>1 DEF Tensor
<1>3. BatchExpr(l) \in Positive
  BY <1>2, BatchIs
<1>4. OutputShape(l) = l.x
  BY DEF OutputShape
<1> HIDE DEF n, x
<1>8. v \in Positive /\ x[1] * v <= Size(x) /\ Size(x) \in Nat /\ (n = 2 => v = l.x[2])
  BY <1>1, <1>2, <1>4, LastFactor DEF x, X
<1>9. k = Softmax(args)
  <2>1. Emitted(l) = EmitSoftmax(l)
    BY DEF Emitted, Binary, Activations
  <2>2. Emitted(l) = KernelType("Softmax", "Identity", args)
    BY <2>1 DEF EmitSoftmax
  <2> HIDE DEF args
  <2>3. k = Instantiate(KernelType("Softmax", "Identity", args))
    BY <2>2 DEF KernelOf
  <2> QED
    BY <2>3 DEF Instantiate, KernelType
<1> HIDE DEF v
<1>10. args[1] = BatchExpr(l) /\ args[2] = v
  OBVIOUS
<1> HIDE DEF args
<1>11. /\ k.impl = "Softmax" /\ T.NumReductions = BatchExpr(l) /\ T.ReductionSize = v
       /\ T.StrideWithinDim = 1 /\ T.OuterStride = v
  <2>1. args[1] \in Int /\ args[2] \in Int
    BY <1>3, <1>8, <1>10 DEF Positive
  <2> QED
    BY <1>9, <1>10, <2>1, SoftmaxKernel
<1>12. k.operator = Fn(l)
  <2> DEFINE id == <<"Identity">>
  <2>1. \A a, m : Functional("Identity", a, m) = id
    BY DEF Functional
  <2> HIDE DEF id
  <2>2. \A impl, a, p, d : Kernel(impl, "Identity", a, p, d).operator = id
    BY <2>1 DEF Kernel
  <2>3. Softmax(args).operator = id
    BY <2>2, Zenon DEF Softmax, SoftmaxImpl
  <2>4. Fn(l) = id
    BY <1>1, IdentityIs DEF id
  <2> HIDE DEF k
  <2> QED
    BY <1>9, <2>3, <2>4
<1> HIDE DEF k, T
<1> QED
  BY <1>4, <1>8, <1>11, <1>12 DEF k, T, v, x, n

(* The kernel of an element-wise operator or activation. *)
LEMMA ElementWiseEmitted ==
    ASSUME NEW l, l.via = "onnx", l.op \in Binary \cup Activations, WellFormed(l),
           SizeExpr(l) \in Nat
    PROVE  LET k == KernelOf(l)
           IN  /\ k.impl = "ElementWise" /\ OutputShape(l) = l.x
               /\ k.T.Size = Size(X(l))
               /\ (l.op = "Clip" => l.clip = <<0, 6>>) => k.operator = Fn(l)
<1> DEFINE first == <<SizeExpr(l)>>
           args == first \o Slope(l)
           k == KernelOf(l)
           T == k.T
<1>1. OutputShape(l) = l.x
  BY DEF OutputShape, Binary, Activations
<1>2. SizeExpr(l) = Size(X(l))
  <2>1. l.x \in Seq(Positive \cup {-1})
    BY DEF WellFormed, Binary, Activations
  <2> QED
    BY <1>1, <2>1, FactorsSize DEF X
<1>20. /\ l.slope \in Seq(Int) /\ Len(l.slope) = 2 /\ (l.op = "Clip" => l.act = "ReLU6")
  BY DEF WellFormed
<1>3. k = ElementWise(l.act, args)
  <2>1. Emitted(l) = EmitElementWise(l)
    BY DEF Emitted, Binary, Activations
  <2>2. Emitted(l) = KernelType("ElementWise", l.act, args)
    BY <1>20, <2>1 DEF EmitElementWise
  <2> HIDE DEF args
  <2>3. k = Instantiate(KernelType("ElementWise", l.act, args))
    BY <2>2 DEF KernelOf
  <2> QED
    BY <2>3 DEF Instantiate, KernelType
<1>4. first \in Seq(Argument) /\ Len(first) = 1 /\ first[1] = SizeExpr(l)
  <2>1. SizeExpr(l) \in Argument
    BY IntArgument
  <2> QED
    BY <2>1
<1>5. l.slope \in Seq(Argument) /\ Slope(l) \in Seq(Argument)
  <2>1. Seq(Int) \subseteq Seq(Argument)
    BY IntArgument
  <2>2. <<>> \in Seq(Argument)
    OBVIOUS
  <2> QED
    BY <1>20, <2>1, <2>2 DEF Slope
<1>6. args = first \o Slope(l)
  OBVIOUS
<1> HIDE DEF args, first
<1>7. args \in Seq(Argument) /\ Len(args) >= 1 /\ args[1] = SizeExpr(l)
  <2>1. /\ first \o Slope(l) \in Seq(Argument)
        /\ Len(first \o Slope(l)) = Len(first) + Len(Slope(l))
        /\ \A j \in 1 .. Len(first) : (first \o Slope(l))[j] = first[j]
    BY <1>4, <1>5, ConcatAt
  <2>2. Len(Slope(l)) \in Nat /\ 1 \in 1 .. Len(first)
    BY <1>4, <1>5
  <2> QED
    BY <1>4, <1>6, <2>1, <2>2
<1>8. k.impl = "ElementWise" /\ T.Size = SizeExpr(l)
  BY <1>3, <1>7, ElementWiseKernel
<1>9. ASSUME l.op = "Clip" => l.clip = <<0, 6>> PROVE k.operator = Fn(l)
  <2>1. ElementWise(l.act, args).operator = Functional(l.act, args, 1)
    BY DEF ElementWise, Kernel
  <2>2. args = first \o (IF l.act = "LeakyReLU" THEN l.slope ELSE <<>>)
    BY <1>6 DEF Slope
  <2>3. Functional(l.act, args, Len(first)) = Activation(l.act, l.slope)
    BY <1>4, <1>5, <1>20, <2>2, FunctionalOfSlope
  <2>4. Fn(l) = Activation(l.act, l.slope)
    BY <1>9, FnIs
  <2> HIDE DEF k
  <2> QED
    BY <1>3, <1>4, <2>1, <2>3, <2>4
<1> HIDE DEF k, T
<1> QED
  BY <1>1, <1>2, <1>8, <1>9 DEF k, T

(* So each kernel is built for its node. *)
LEMMA ConvFits ==
    ASSUME NEW l, l.via = "onnx", l.op = "Conv", WellFormed(l), SameExtents(l)
    PROVE  BuiltFor(KernelOf(l), l)
<1> DEFINE k == KernelOf(l)
           T == k.T
           h == OutExtent(l.x[3], l.w[3], l.strides[1], l.pads[1])
           w == OutExtent(l.x[4], l.w[4], l.strides[2], l.pads[2])
<1>1. /\ Tensor(l.x, 4) /\ Weights(l.w, 4) /\ l.group \in Positive
      /\ l.x[2] = l.group * l.w[2] /\ Windows(l, l.w[3], l.w[4])
  BY DEF WellFormed, Binary, Activations
<1>2. /\ l.w[1] \in Positive /\ l.w[2] \in Positive /\ l.w[3] \in Positive /\ l.w[4] \in Positive
      /\ l.x[2] \in Positive /\ l.x[3] \in Positive /\ l.x[4] \in Positive
      /\ l.x[1] \in Positive \cup {-1}
  BY <1>1 DEF Weights, Tensor
<1>3. /\ k.impl = "Conv2d"
      /\ T.BatchSize = BatchExpr(l) /\ T.InHeight = l.x[3] /\ T.InWidth = l.x[4]
      /\ T.InChannels = l.w[2] /\ T.OutChannels = l.w[1]
      /\ T.KernelHeight = l.w[3] /\ T.KernelWidth = l.w[4]
      /\ OutHeight(T) = h /\ OutWidth(T) = w
      /\ OutputShape(l) \in Seq(Int) /\ Len(OutputShape(l)) = 4
      /\ OutputShape(l)[1] = l.x[1] /\ OutputShape(l)[2] = l.w[1]
      /\ OutputShape(l)[3] = h /\ OutputShape(l)[4] = w /\ h \in Positive /\ w \in Positive
  BY ConvEmitted
<1> HIDE DEF k, T, h, w
<1>20. l.dynamic => l.x[1] = -1
  BY DEF SameExtents, Binary, Activations
<1>4. l.w[2] <= l.x[2]
  <2> DEFINE g == l.group
             c == l.w[2]
  <2>1. g \in Nat /\ c \in Nat /\ 1 <= g /\ l.x[2] = g * c
    BY <1>1, <1>2 DEF Positive
  <2> HIDE DEF g, c
  <2>2. 1 * c <= g * c
    BY <2>1, Monotonic
  <2> QED
    BY <2>1, <2>2 DEF c
<1>5. /\ T.BatchSize \in Nat /\ T.InHeight \in Positive /\ T.InWidth \in Positive
       /\ Holds(l, "input", ImageSize(T))
  <2>1. l.op \notin Binary
    BY DEF Binary
  <2> QED
    BY <1>1, <1>2, <1>3, <1>4, <1>20, <2>1, ImageFits
<1>6. ImageExtents(T)
  BY <1>2, <1>3, <1>5 DEF ImageExtents
<1>7. Holds(l, "weights", WeightsSize(T))
  <2>1. /\ Size(Concrete(l.w)) = Batch(l.w) * l.w[2] * l.w[3] * l.w[4]
        /\ Size(Concrete(l.w)) \in Nat
    BY <1>1, ImageTensor DEF Weights
  <2>2. Batch(l.w) = l.w[1]
    BY <1>1 DEF Batch, Weights
  <2>3. Size(Concrete(l.w)) = WeightsSize(T)
    BY <1>3, <2>1, <2>2 DEF WeightsSize
  <2>4. Extent(l, "weights") = Size(Concrete(l.w))
    BY DEF Extent
  <2> QED
    BY <2>1, <2>3, <2>4 DEF Holds
<1>8. /\ OutputHolds(l, BatchExpr(l) * l.w[1] * h * w) /\ Concrete(OutputShape(l))[2] = l.w[1]
  BY <1>2, <1>3, <1>20, OutputImageFits
<1>9. OutputHolds(l, NumberOfElements(k))
  <2>1. NumberOfElements(k) = BatchExpr(l) * l.w[1] * h * w
    BY <1>3 DEF NumberOfElements, T
  <2> QED
    BY <1>8, <2>1
<1>10. Holds(l, "bias", T.OutChannels)
  <2>1. Extent(l, "bias") = l.w[1]
    BY <1>8 DEF Extent
  <2> QED
    BY <1>2, <1>3, <2>1 DEF Holds, Positive
<1>11. /\ T.OutChannels \in Positive /\ T.KernelHeight \in Nat /\ T.KernelWidth \in Nat
  BY <1>2, <1>3 DEF Positive
<1>12. BuiltFor(k, l)
  BY <1>3, <1>5, <1>6, <1>7, <1>9, <1>10, <1>11 DEF BuiltFor, T
<1> QED
  BY <1>12 DEF k

(* Nor does the kernel of a max or average pool reach further than its     *)
(* buffers.                                                                *)
LEMMA PoolFits ==
    ASSUME NEW l, l.via = "onnx", l.op \in {"MaxPool", "AveragePool"}, WellFormed(l), SameExtents(l)
    PROVE  BuiltFor(KernelOf(l), l)
<1> DEFINE k == KernelOf(l)
           T == k.T
           h == OutExtent(l.x[3], l.kernel[1], l.strides[1], l.pads[1])
           w == OutExtent(l.x[4], l.kernel[2], l.strides[2], l.pads[2])
<1>1. /\ Tensor(l.x, 4) /\ l.kernel \in Positive \X Positive
      /\ Windows(l, l.kernel[1], l.kernel[2])
  BY DEF WellFormed, Binary, Activations
<1>2. /\ l.kernel[1] \in Positive /\ l.kernel[2] \in Positive
      /\ l.x[2] \in Positive /\ l.x[3] \in Positive /\ l.x[4] \in Positive
      /\ l.x[1] \in Positive \cup {-1}
  <2>1. l.kernel[1] \in Positive /\ l.kernel[2] \in Positive
    BY <1>1
  <2> QED
    BY <1>1, <2>1 DEF Tensor
<1>3. /\ l.strides[1] \in Positive /\ l.strides[2] \in Positive
      /\ l.pads[1] \in Nat /\ l.pads[2] \in Nat
  <2>1. l.strides \in Positive \X Positive /\ l.pads \in Nat \X Nat \X Nat \X Nat
    BY <1>1 DEF Windows
  <2> QED
    BY <2>1
<1>4. /\ k.impl = (IF l.op = "MaxPool" THEN "MaxPool2d" ELSE "AvgPool2d")
      /\ T.BatchSize = BatchExpr(l) /\ T.InHeight = l.x[3] /\ T.InWidth = l.x[4]
      /\ T.InChannels = l.x[2]
      /\ T.KernelHeight = l.kernel[1] /\ T.KernelWidth = l.kernel[2]
      /\ T.StrideHeight = l.strides[1] /\ T.StrideWidth = l.strides[2]
      /\ T.PaddingHeight = l.pads[1] /\ T.PaddingWidth = l.pads[2]
      /\ OutHeight(T) = h /\ OutWidth(T) = w
      /\ OutputShape(l) \in Seq(Int) /\ Len(OutputShape(l)) = 4
      /\ OutputShape(l)[1] = l.x[1] /\ OutputShape(l)[2] = l.x[2]
      /\ OutputShape(l)[3] = h /\ OutputShape(l)[4] = w /\ h \in Positive /\ w \in Positive
  BY PoolEmitted
<1>5. k.impl \in {"MaxPool2d", "AvgPool2d"} /\ BatchExpr(l) \in Positive
  BY <1>2, <1>4, BatchIs
<1> HIDE DEF k, T, h, w
<1>20. l.dynamic => l.x[1] = -1
  BY DEF SameExtents, Binary, Activations
<1>6. /\ T.BatchSize \in Nat /\ T.InHeight \in Positive /\ T.InWidth \in Positive
       /\ Holds(l, "input", ImageSize(T))
  <2>1. l.op \notin Binary /\ T.InChannels <= l.x[2]
    BY <1>2, <1>4 DEF Binary, Positive
  <2> QED
    BY <1>1, <1>2, <1>4, <1>20, <2>1, ImageFits
<1>7. ImageExtents(T)
  BY <1>2, <1>4, <1>6 DEF ImageExtents
<1>8. OutputHolds(l, BatchExpr(l) * l.x[2] * h * w)
  BY <1>2, <1>4, <1>20, OutputImageFits
<1>9. OutputHolds(l, NumberOfElements(k))
  <2>1. NumberOfElements(k) = BatchExpr(l) * l.x[2] * h * w
    BY <1>5, <1>4 DEF NumberOfElements, T
  <2> QED
    BY <1>8, <2>1
<1>10. /\ T.KernelHeight \in Nat /\ T.StrideHeight \in Nat /\ T.PaddingHeight \in Nat
       /\ T.KernelWidth \in Nat /\ T.StrideWidth \in Nat /\ T.PaddingWidth \in Nat
  BY <1>2, <1>3, <1>4 DEF Positive
<1>11. BuiltFor(k, l)
  BY <1>5, <1>6, <1>7, <1>9, <1>10 DEF BuiltFor, T
<1> QED
  BY <1>11 DEF k

(* That of a global average pool. *)
LEMMA AdaptiveFits ==
    ASSUME NEW l, l.via = "onnx", l.op \in {"GlobalAveragePool", "ReduceMean"}, WellFormed(l),
           SameExtents(l)
    PROVE  BuiltFor(KernelOf(l), l)
<1> DEFINE k == KernelOf(l)
           T == k.T
<1>1. Tensor(l.x, 4)
  BY DEF WellFormed, Binary, Activations
<1>2. /\ l.x[2] \in Positive /\ l.x[3] \in Positive /\ l.x[4] \in Positive
      /\ l.x[1] \in Positive \cup {-1}
  BY <1>1 DEF Tensor
<1>3. /\ k.impl = "AdaptiveAvgPool2d" /\ {"OutHeight", "OutWidth"} \subseteq DOMAIN T
      /\ T.BatchSize = BatchExpr(l) /\ T.InHeight = l.x[3] /\ T.InWidth = l.x[4]
      /\ T.InChannels = l.x[2] /\ OutHeight(T) = 1 /\ OutWidth(T) = 1
      /\ OutputShape(l) \in Seq(Int) /\ Len(OutputShape(l)) = 4
      /\ OutputShape(l)[1] = l.x[1] /\ OutputShape(l)[2] = l.x[2]
      /\ OutputShape(l)[3] = 1 /\ OutputShape(l)[4] = 1
  BY AdaptiveEmitted
<1> HIDE DEF k, T
<1>20. l.dynamic => l.x[1] = -1
  BY DEF SameExtents, Binary, Activations
<1>4. /\ T.BatchSize \in Nat /\ T.InHeight \in Positive /\ T.InWidth \in Positive
       /\ Holds(l, "input", ImageSize(T))
  <2>1. l.op \notin Binary /\ T.InChannels <= l.x[2]
    BY <1>2, <1>3 DEF Binary, Positive
  <2> QED
    BY <1>1, <1>2, <1>3, <1>20, <2>1, ImageFits
<1>5. 1 \in Positive
  BY DEF Positive
<1>6. ImageExtents(T)
  BY <1>2, <1>3, <1>4, <1>5 DEF ImageExtents
<1>7. OutputHolds(l, BatchExpr(l) * l.x[2] * 1 * 1)
  <2> DEFINE h == 1
  <2>1. h \in Positive
    BY <1>5
  <2>2. OutputShape(l)[3] = h /\ OutputShape(l)[4] = h
    BY <1>3
  <2> HIDE DEF h
  <2>3. OutputHolds(l, BatchExpr(l) * l.x[2] * h * h)
    BY <1>2, <1>3, <1>20, <2>1, <2>2, OutputImageFits
  <2> QED
    BY <2>3 DEF h
<1>8. OutputHolds(l, NumberOfElements(k))
  <2>1. NumberOfElements(k) = BatchExpr(l) * l.x[2] * 1 * 1
    BY <1>3 DEF NumberOfElements, T
  <2> QED
    BY <1>7, <2>1
<1>9. BuiltFor(k, l)
  BY <1>3, <1>4, <1>6, <1>8 DEF BuiltFor, T
<1> QED
  BY <1>9 DEF k

(* Rows one after the other reach as far as their product. *)
LEMMA DenseReach ==
    ASSUME NEW m \in Int, NEW n \in Int
    PROVE  Reach(m, n, n, 1) = m * n
<1>1. (m - 1) * n = m * n - n
  OBVIOUS
<1> QED
  BY <1>1 DEF Reach

(* That of a Gemm. *)
LEMMA GemmFits ==
    ASSUME NEW l, l.via = "onnx", l.op = "Gemm", WellFormed(l), SameExtents(l)
    PROVE  BuiltFor(KernelOf(l), l)
<1> DEFINE in == IF l.transB THEN l.w[2] ELSE l.w[1]
           out == IF l.transB THEN l.w[1] ELSE l.w[2]
           k == KernelOf(l)
           T == k.T
<1>1. Tensor(l.x, 2) /\ Weights(l.w, 2) /\ l.x[2] = in /\ (l.dynamic => l.x[1] = -1)
  <2>1. ~ l.transA /\ (l.dynamic => l.x[1] = -1)
    BY DEF SameExtents, Binary, Activations
  <2> QED
    BY <2>1 DEF WellFormed, Binary, Activations
<1>2. /\ l.w[1] \in Positive /\ l.w[2] \in Positive /\ l.x[2] \in Positive
      /\ l.x[1] \in Positive \cup {-1}
  BY <1>1 DEF Weights, Tensor
<1>3. /\ BatchExpr(l) \in Positive /\ Batch(l.x) \in Positive /\ BatchExpr(l) <= Batch(l.x)
  BY <1>1, <1>2, BatchFits
<1>4. in \in Positive /\ out \in Positive
  BY <1>2
<1>5. /\ k.impl = "Linear" /\ T.NumRows = BatchExpr(l) /\ T.InDim = in /\ T.OutDim = out
      /\ T.InRowStride = in /\ T.InColStride = 1
      /\ T.WeightRowStride = in /\ T.WeightColStride = 1
      /\ OutputShape(l) \in Seq(Int) /\ Len(OutputShape(l)) = 2
      /\ OutputShape(l)[1] = l.x[1] /\ OutputShape(l)[2] = out
  BY GemmEmitted
<1> HIDE DEF k, T, in, out
<1>6. Holds(l, "input", Reach(T.NumRows, T.InRowStride, T.InDim, T.InColStride))
  <2>1. Reach(T.NumRows, T.InRowStride, T.InDim, T.InColStride) = BatchExpr(l) * in
    BY <1>3, <1>4, <1>5, DenseReach DEF Positive
  <2>2. Size(X(l)) = Batch(l.x) * in /\ Size(X(l)) \in Nat
    BY <1>1, MatrixTensor DEF X
  <2>3. BatchExpr(l) * in <= Batch(l.x) * in
    BY <1>3, <1>4, Monotonic DEF Positive
  <2>4. Extent(l, "input") = Size(X(l))
    BY DEF Extent
  <2> QED
    BY <2>1, <2>2, <2>3, <2>4 DEF Holds
<1>7. Holds(l, "weights", Reach(T.OutDim, T.WeightRowStride, T.InDim, T.WeightColStride))
  <2>1. Reach(T.OutDim, T.WeightRowStride, T.InDim, T.WeightColStride) = out * in
    BY <1>4, <1>5, DenseReach DEF Positive
  <2>2. Size(Concrete(l.w)) = Batch(l.w) * l.w[2] /\ Size(Concrete(l.w)) \in Nat
    BY <1>1, MatrixTensor DEF Weights
  <2>3. Batch(l.w) = l.w[1]
    BY <1>1 DEF Batch, Weights
  <2>4. out * in = l.w[1] * l.w[2]
    BY <1>2 DEF in, out, Positive
  <2>5. Extent(l, "weights") = Size(Concrete(l.w))
    BY DEF Extent
  <2>6. out * in <= Size(Concrete(l.w))
    BY <2>2, <2>3, <2>4
  <2> QED
    BY <2>1, <2>2, <2>5, <2>6 DEF Holds
<1> DEFINE s == OutputShape(l)
<1>8. Tensor(s, 2) /\ s[1] = l.x[1] /\ s[2] = out
  BY <1>2, <1>4, <1>5 DEF Tensor
<1> HIDE DEF s
<1>9. Concrete(s)[2] = out
  <2> DEFINE rank == 2
  <2>1. rank \in Nat \ {0} /\ Tensor(s, rank) /\ 2 \in 2 .. rank
    BY <1>8
  <2> HIDE DEF rank
  <2>2. Concrete(s)[2] = s[2]
    BY <2>1, ConcreteIs
  <2> QED
    BY <1>8, <2>2
<1>10. OutputHolds(l, NumberOfElements(k))
  <2>1. NumberOfElements(k) = BatchExpr(l) * out
    BY <1>5 DEF NumberOfElements, T
  <2>2. Size(Concrete(s)) = Batch(s) * s[2] /\ Size(Concrete(s)) \in Nat
    BY <1>8, MatrixTensor
  <2>3. Batch(s) = Batch(l.x)
    BY <1>8 DEF Batch
  <2>4. BatchExpr(l) * out <= Batch(l.x) * out
    BY <1>3, <1>4, Monotonic DEF Positive
  <2>5. BatchExpr(l) * out <= Size(Concrete(s))
    BY <1>8, <2>2, <2>3, <2>4
  <2> QED
    BY <2>1, <2>2, <2>5 DEF OutputHolds, s
<1>11. Holds(l, "bias", T.OutDim)
  <2>1. Extent(l, "bias") = out
    BY <1>9 DEF Extent, s
  <2> QED
    BY <1>4, <1>5, <2>1 DEF Holds, Positive
<1>12. /\ T.NumRows \in Nat /\ T.InDim \in Nat /\ T.OutDim \in Positive
       /\ T.InRowStride \in Nat /\ T.InColStride \in Nat
       /\ T.WeightRowStride \in Nat /\ T.WeightColStride \in Nat
  BY <1>3, <1>4, <1>5 DEF Positive
<1>13. BuiltFor(k, l)
  BY <1>5, <1>6, <1>7, <1>10, <1>11, <1>12 DEF BuiltFor, T
<1> QED
  BY <1>13 DEF k

(* That of a softmax. *)
LEMMA SoftmaxFits ==
    ASSUME NEW l, l.via = "onnx", l.op = "Softmax", WellFormed(l), SameExtents(l)
    PROVE  BuiltFor(KernelOf(l), l)
<1> DEFINE n == Len(l.x)
           x == X(l)
           v == SizeFactors(l)[Len(SizeFactors(l))]
           k == KernelOf(l)
           T == k.T
<1>1. n >= 2 /\ Tensor(l.x, n) /\ (l.dynamic => l.x[1] = -1)
  BY DEF WellFormed, SameExtents, Binary, Activations
<1>2. n \in Nat /\ l.x \in Seq(Int) /\ l.x[1] \in Positive \cup {-1}
  BY <1>1 DEF Tensor
<1>3. /\ BatchExpr(l) \in Positive /\ Batch(l.x) \in Positive /\ BatchExpr(l) <= Batch(l.x)
  BY <1>1, <1>2, BatchFits
<1>4. /\ k.impl = "Softmax" /\ OutputShape(l) = l.x
      /\ T.NumReductions = BatchExpr(l) /\ T.ReductionSize = v
      /\ T.StrideWithinDim = 1 /\ T.OuterStride = v /\ v \in Positive
      /\ x[1] * v <= Size(x) /\ Size(x) \in Nat
  BY SoftmaxEmitted
<1> HIDE DEF k, T
<1>5. Concrete(OutputShape(l)) = x
  BY <1>4 DEF X
<1> HIDE DEF n, x
<1>6. x[1] = Batch(l.x)
  <2>1. n \in Nat \ {0}
    BY <1>1, <1>2
  <2> QED
    BY <1>1, <2>1, ConcreteIs DEF X, x
<1>7. Size(x) \in Nat /\ x[1] * v <= Size(x)
  BY <1>4
<1> HIDE DEF v
<1>8. Reach(T.NumReductions, T.OuterStride, T.ReductionSize, T.StrideWithinDim) = BatchExpr(l) * v
  BY <1>3, <1>4, DenseReach DEF Positive
<1>9. BatchExpr(l) * v <= Size(x)
  <2>1. BatchExpr(l) * v <= Batch(l.x) * v
    BY <1>3, <1>4, Monotonic DEF Positive
  <2>2. Batch(l.x) * v <= Size(x)
    BY <1>6, <1>7
  <2>3. BatchExpr(l) * v \in Int /\ Batch(l.x) * v \in Int
    BY <1>3, <1>4 DEF Positive
  <2> QED
    BY <1>7, <2>1, <2>2, <2>3
<1>10. Extent(l, "input") = Size(x)
  BY DEF Extent, x
<1>11. /\ Holds(l, "input", BatchExpr(l) * v) /\ OutputHolds(l, BatchExpr(l) * v)
  BY <1>5, <1>7, <1>9, <1>10 DEF Holds, OutputHolds
<1>12. /\ T.NumReductions \in Nat /\ T.ReductionSize \in Nat
       /\ T.OuterStride \in Nat /\ T.StrideWithinDim \in Nat
  BY <1>3, <1>4 DEF Positive
<1>13. BuiltFor(k, l)
  BY <1>4, <1>8, <1>11, <1>12 DEF BuiltFor, T
<1> QED
  BY <1>13 DEF k

(* That of an element-wise operator. *)
LEMMA ElementWiseFits ==
    ASSUME NEW l, l.via = "onnx", l.op \in Binary \cup Activations, WellFormed(l),
           SizeExpr(l) \in Nat, SameExtents(l)
    PROVE  BuiltFor(KernelOf(l), l)
<1> DEFINE k == KernelOf(l)
           T == k.T
<1>1. k.impl = "ElementWise" /\ OutputShape(l) = l.x /\ T.Size = Size(X(l))
  BY ElementWiseEmitted
<1>2. Size(X(l)) \in Nat /\ Concrete(OutputShape(l)) = X(l)
  <2>1. l.x \in Seq(Positive \cup {-1})
    BY DEF WellFormed, Binary, Activations
  <2> QED
    BY <1>1, <2>1, FactorsSize DEF X
<1> HIDE DEF k, T
<1>3. ASSUME NEW j \in DOMAIN Operands(l) PROVE Holds(l, Operands(l)[j], T.Size)
  <2>1. CASE l.op \in Binary
    <3>1. l.w = l.x
      BY <2>1 DEF SameExtents
    <3>2. Operands(l)[j] \in {"A", "B"}
      BY <2>1 DEF Operands
    <3>3. Extent(l, Operands(l)[j]) = Size(X(l))
      BY <3>1, <3>2 DEF Extent, X
    <3> QED
      BY <1>2, <1>1, <3>3 DEF Holds
  <2>2. CASE l.op \notin Binary
    <3>1. Operands(l)[j] = "input"
      BY <2>2 DEF Operands
    <3>2. Extent(l, Operands(l)[j]) = Size(X(l))
      BY <3>1 DEF Extent
    <3> QED
      BY <1>2, <1>1, <3>2 DEF Holds
  <2> QED
    BY <2>1, <2>2
<1>4. OutputHolds(l, T.Size)
  BY <1>2, <1>1 DEF OutputHolds
<1>5. BuiltFor(k, l)
  BY <1>1, <1>3, <1>4 DEF BuiltFor, T
<1> QED
  BY <1>5 DEF k

(* The kernel of a node is built for the node: the batch that is launched  *)
(* is no larger than the input's, and every other extent is the tensors'.  *)
THEOREM KernelFits ==
    ASSUME NEW l \in Layers, ~(l.via = "onnx" /\ Refused(l)), SameExtents(l)
    PROVE  BuiltFor(KernelOf(l), l)
<1>1. CASE l.via # "onnx"
  BY <1>1, BuffersAssumption
<1>2. CASE l.via = "onnx"
  <2>1. WellFormed(l)
    BY <1>2, BuffersAssumption
  <2>2. SizeExpr(l) \in Nat
    BY <1>2, LayersAssumption
  <2>3. CASE l.op = "Conv"
    BY <1>2, <2>1, <2>3, ConvFits
  <2>4. CASE l.op \in {"MaxPool", "AveragePool"}
    BY <1>2, <2>1, <2>4, PoolFits
  <2>5. CASE l.op \in {"GlobalAveragePool", "ReduceMean"}
    BY <1>2, <2>1, <2>5, AdaptiveFits
  <2>6. CASE l.op = "Gemm"
    BY <1>2, <2>1, <2>6, GemmFits
  <2>7. CASE l.op = "Softmax"
    BY <1>2, <2>1, <2>7, SoftmaxFits
  <2>8. CASE l.op \in Binary \cup Activations
    BY <1>2, <2>1, <2>2, <2>8, ElementWiseFits
  <2> QED
    BY <2>1, <2>3, <2>4, <2>5, <2>6, <2>7, <2>8 DEF WellFormed, Nodes
<1> QED
  BY <1>1, <1>2

(* What has been written is what some step of the layer's kernel           *)
(* computes, and that step stays inside the buffers.                       *)
LEMMA WrittenByStep ==
    ASSUME IInv, SameExtents(layer), NEW x \in DOMAIN output
    PROVE  /\ layer \in Layers /\ ~(layer.via = "onnx" /\ Refused(layer))
           /\ \E i \in 0 .. NumberOfElements(KernelOf(layer)) - 1 :
                 LET row == Computes(KernelOf(layer), i, Given(layer), Operands(layer))
                 IN  RowWithin(layer, row) /\ x \in DOMAIN row /\ output[x] = row[x]
<1>1. phase \in {"running", "done"}
  BY DEF IInv
<1>2. Written /\ kernel = KernelOf(layer) /\ layer \in Layers
  BY <1>1 DEF IInv
<1>3. ~(layer.via = "onnx" /\ Refused(layer))
  BY <1>1 DEF IInv
<1>4. PICK i \in Steps : x \in DOMAIN ComputedBy(i) /\ output[x] = ComputedBy(i)[x]
  BY <1>2 DEF Written
<1>5. NumberOfElements(kernel) \in Nat /\ kernel.impl \in Impls
  BY <1>2, <1>3, LayersAssumption
<1>6. BuiltFor(kernel, layer)
  BY <1>2, <1>3, KernelFits
<1>7. i \in 0 .. NumberOfElements(kernel) - 1
  BY DEF Steps
<1>8. RowWithin(layer, Computes(kernel, i, Given(layer), Operands(layer)))
  BY <1>5, <1>6, <1>7, StepWithin
<1> QED
  BY <1>2, <1>3, <1>4, <1>7, <1>8 DEF ComputedBy

(* No thread of any launch reads or writes beyond its buffers, for every   *)
(* layer, extent, work division and order of the threads: an output that   *)
(* has been written is what some step of the kernel computes.              *)
THEOREM LaunchStaysInBounds == Spec => []InBounds
<1>1. IInv => InBounds
  <2> SUFFICES ASSUME IInv, SameExtents(layer), NEW x \in DOMAIN output
               PROVE  /\ x \in Outputs(layer)
                      /\ \A r \in Reads(output[x]) : r[2] \in 0 .. Extent(layer, r[1]) - 1
    BY DEF InBounds
  <2>1. PICK i \in 0 .. NumberOfElements(KernelOf(layer)) - 1 :
            LET row == Computes(KernelOf(layer), i, Given(layer), Operands(layer))
            IN  RowWithin(layer, row) /\ x \in DOMAIN row /\ output[x] = row[x]
    BY WrittenByStep
  <2>2. x \in Outputs(layer) /\ Within(layer, output[x])
    BY <2>1 DEF RowWithin
  <2> QED
    BY <2>2 DEF Within, Fits
<1> QED
  BY <1>1, LaunchInvariant, PTL

(***************************************************************************)
(* The kernel of a node computes what the node means.  An output is the    *)
(* value of the ONNX operator at its coordinates: its reads are the        *)
(* elements of the operator's window, by their offsets.                    *)
(***************************************************************************)
(* The reads of a window of A rows and B columns. *)
WindowCells(base, W, y0, A, x0, B) ==
    {<<<<"input", base + y * W + x>>>> : y \in y0 .. y0 + A - 1, x \in x0 .. x0 + B - 1}

(* They are as many as its cells. *)
LEMMA WindowSize ==
    ASSUME NEW A, A \in Nat \ {0}, NEW B, B \in Nat \ {0}, NEW y0, y0 \in Nat, NEW x0, x0 \in Nat,
           NEW W, W \in Nat, x0 + B <= W, NEW base, base \in Int
    PROVE  Cardinality(WindowCells(base, W, y0, A, x0, B)) = A * B
<1> DEFINE rows == y0 .. y0 + A - 1
           cols == x0 .. x0 + B - 1
           at(y, x) == base + y * W + x
           cells == rows \X cols
           reads == {<<<<"input", at(y, x)>>>> : y \in rows, x \in cols}
           F == [p \in cells |-> <<<<"input", at(p[1], p[2])>>>>]
<1>1. IsFiniteSet(cells) /\ Cardinality(cells) = A * B
  <2>1. IsFiniteSet(rows) /\ Cardinality(rows) = A
    <3>1. y0 \in Int /\ y0 + A - 1 \in Int /\ ~(y0 > y0 + A - 1) /\ (y0 + A - 1) - y0 + 1 = A
      OBVIOUS
    <3> QED
      BY <3>1, FS_Interval
  <2>2. IsFiniteSet(cols) /\ Cardinality(cols) = B
    <3>1. x0 \in Int /\ x0 + B - 1 \in Int /\ ~(x0 > x0 + B - 1) /\ (x0 + B - 1) - x0 + 1 = B
      OBVIOUS
    <3> QED
      BY <3>1, FS_Interval
  <2> HIDE DEF rows, cols
  <2> QED
    BY <2>1, <2>2, FS_Product
<1>2. ASSUME NEW y \in rows, NEW x \in cols, NEW z \in rows, NEW v \in cols, at(y, x) = at(z, v)
      PROVE  y = z /\ x = v
  <2>1. y \in Int /\ z \in Int /\ x \in 0 .. W - 1 /\ v \in 0 .. W - 1
    OBVIOUS
  <2>2. y * W \in Int /\ z * W \in Int
    BY <2>1
  <2>3. y * W + x = z * W + v
    BY <1>2, <2>1, <2>2
  <2>4. y = z
    <3>1. /\ y * W <= y * W + x /\ y * W + x < y * W + W
          /\ z * W <= y * W + x /\ y * W + x < z * W + W /\ y * W + x \in Int
      BY <2>1, <2>2, <2>3
    <3> QED
      BY <2>1, <3>1, SameChunk
  <2> QED
    BY <2>1, <2>2, <2>3, <2>4
<1> HIDE DEF at, rows, cols
<1>3. ExistsBijection(cells, reads)
  <2>1. F \in [cells -> reads]
    OBVIOUS
  <2>2. ASSUME NEW p \in cells, NEW q \in cells, F[p] = F[q] PROVE p = q
    <3>1. at(p[1], p[2]) = at(q[1], q[2])
      BY <2>2
    <3>2. p[1] = q[1] /\ p[2] = q[2]
      BY <1>2, <3>1
    <3> QED
      BY <3>2
  <2>3. ASSUME NEW r \in reads PROVE \E p \in cells : F[p] = r
    <3>1. PICK y \in rows, x \in cols : r = <<<<"input", at(y, x)>>>>
      OBVIOUS
    <3>2. <<y, x>> \in cells /\ F[<<y, x>>] = r
      BY <3>1
    <3> QED
      BY <3>2
  <2> HIDE DEF F, cells, reads
  <2>4. F \in Bijection(cells, reads)
    BY <2>1, <2>2, <2>3 DEF Bijection, Injection, Surjection, IsInjective
  <2> QED
    BY <2>4 DEF ExistsBijection
<1>4. Cardinality(reads) = A * B
  <2> HIDE DEF cells, reads
  <2> QED
    BY <1>1, <1>3, FS_Bijection
<1> QED
  BY <1>4 DEF at, rows, cols, reads, WindowCells

(* The output of an image layer at an offset. *)
LEMMA ImageOutput ==
    ASSUME NEW l, NEW ch, NEW h, NEW w, NEW i,
           /\ l.x[1] \in Positive \cup {-1}
           /\ OutputShape(l) \in Seq(Int) /\ Len(OutputShape(l)) = 4
           /\ OutputShape(l)[1] = l.x[1] /\ OutputShape(l)[2] = ch
           /\ OutputShape(l)[3] = h /\ OutputShape(l)[4] = w
           /\ ch \in Positive /\ h \in Positive /\ w \in Positive
           /\ i \in Outputs(l)
    PROVE  LET o == Decode(i, ch, h, w)
           IN  /\ \E c : /\ Meaning(l, i) = Means(l, c)
                         /\ c[1] = o.n /\ c[2] = o.c /\ c[3] = o.h /\ c[4] = o.w
               /\ o.n \in 0 .. Batch(l.x) - 1 /\ o.c \in 0 .. ch - 1
               /\ o.h \in 0 .. h - 1 /\ o.w \in 0 .. w - 1
<1> DEFINE out == OutputShape(l)
           s == Concrete(out)
           c == CHOOSE e \in Coordinates(s) : At(s, e) = i
           o == Decode(i, ch, h, w)
<1>1. Tensor(out, 4) /\ Batch(out) = Batch(l.x)
  <2>1. \A j \in 2 .. 4 : j = 2 \/ j = 3 \/ j = 4
    OBVIOUS
  <2>2. \A j \in 2 .. 4 : out[j] \in Positive
    BY <2>1
  <2> QED
    BY <2>2 DEF Tensor, Batch
<1>2. /\ Len(s) = 4 /\ s \in Seq(Positive)
      /\ s[1] = Batch(l.x) /\ s[2] = ch /\ s[3] = h /\ s[4] = w /\ Batch(l.x) \in Positive
  <2> DEFINE rank == 4
  <2>1. rank \in Nat \ {0} /\ Tensor(out, rank) /\ rank = 4
    BY <1>1
  <2> HIDE DEF rank, out
  <2>2. /\ Len(s) = rank /\ \A j \in 1 .. rank : s[j] \in Positive
        /\ s[1] = Batch(out) /\ \A j \in 2 .. rank : s[j] = out[j]
    BY <2>1, ConcreteIs
  <2>3. s = [j \in 1 .. 4 |-> s[j]]
    BY <1>1 DEF Concrete, Tensor
  <2> HIDE DEF s
  <2>4. s \in Seq(Positive)
    BY <2>1, <2>2, <2>3
  <2>5. s[2] = out[2] /\ s[3] = out[3] /\ s[4] = out[4]
    BY <2>1, <2>2
  <2> QED
    BY <1>1, <2>1, <2>2, <2>4, <2>5, BatchIs DEF out
<1>3. i \in 0 .. Size(s) - 1
  BY DEF Outputs
<1>4. Meaning(l, i) = Means(l, c)
  BY DEF Meaning
<1> HIDE DEF out
<1>5. /\ c[1] = o.n /\ c[2] = o.c /\ c[3] = o.h /\ c[4] = o.w
      /\ o.n \in 0 .. Batch(l.x) - 1 /\ o.c \in 0 .. ch - 1
      /\ o.h \in 0 .. h - 1 /\ o.w \in 0 .. w - 1
  <2> DEFINE p == Decode(i, s[2], s[3], s[4])
  <2>1. o = p
    BY <1>2
  <2> HIDE DEF s, o
  <2>2. /\ c[1] = p.n /\ c[2] = p.c /\ c[3] = p.h /\ c[4] = p.w
        /\ p.n \in 0 .. s[1] - 1 /\ p.c \in 0 .. s[2] - 1
        /\ p.h \in 0 .. s[3] - 1 /\ p.w \in 0 .. s[4] - 1
    BY <1>2, <1>3, ImageElement
  <2> HIDE DEF c, p
  <2> QED
    BY <1>2, <2>1, <2>2
<1> QED
  BY <1>4, <1>5

(* An input element, by its coordinates and by the kernel's arithmetic.    *)
LEMMA InputAt ==
    ASSUME NEW l, Tensor(l.x, 4), NEW T, T.InChannels = l.x[2], T.InHeight = l.x[3], T.InWidth = l.x[4],
           NEW n, n \in Int, NEW c, c \in Int, NEW h, h \in Int, NEW w, w \in Int
    PROVE  Input(l, <<n, c, h, w>>) = <<"input", InputOffset(T, n, c, h, w)>>
<1> DEFINE s == X(l)
           e == <<n, c, h, w>>
<1>1. /\ Len(s) = 4 /\ s[1] \in Int /\ s[2] = l.x[2] /\ s[3] = l.x[3] /\ s[4] = l.x[4]
      /\ s[2] \in Int /\ s[3] \in Int /\ s[4] \in Int
  <2> DEFINE rank == 4
  <2>1. rank \in Nat \ {0} /\ Tensor(l.x, rank) /\ rank = 4
    OBVIOUS
  <2> HIDE DEF rank
  <2>2. /\ Len(s) = rank /\ \A j \in 1 .. rank : s[j] \in Positive
        /\ \A j \in 2 .. rank : s[j] = l.x[j]
    BY <2>1, ConcreteIs DEF X
  <2> HIDE DEF s
  <2> QED
    BY <2>1, <2>2 DEF Positive
<1>2. e[1] = n /\ e[2] = c /\ e[3] = h /\ e[4] = w
  OBVIOUS
<1> HIDE DEF s, e
<1>3. At(s, e) = e[1] * s[2] * s[3] * s[4] + e[2] * s[3] * s[4] + e[3] * s[4] + e[4]
  BY <1>1, <1>2, At4
<1>4. At(s, e) = InputOffset(T, n, c, h, w)
  BY <1>1, <1>2, <1>3 DEF InputOffset
<1> QED
  BY <1>4 DEF Input, s, e

(* The reads of a convolution. *)
WeightOffset(T, d, c, kh, kw) ==
    d * T.InChannels * T.KernelHeight * T.KernelWidth +
    c * T.KernelHeight * T.KernelWidth + kh * T.KernelWidth + kw

(* The taps of a convolution read the input and the weight at the          *)
(* coordinates the operator multiplies.                                    *)
LEMMA ConvTerms ==
    ASSUME NEW l, Tensor(l.x, 4), Weights(l.w, 4), l.x[2] = l.w[2],
           NEW T, T.InChannels = l.w[2], T.InHeight = l.x[3], T.InWidth = l.x[4],
           T.KernelHeight = l.w[3], T.KernelWidth = l.w[4],
           NEW n, n \in Int, NEW d, d \in Int, NEW ch, ch \in Int,
           NEW h, h[1] \in Int, h[2] \in Int, NEW v, v[1] \in Int, v[2] \in Int
    PROVE  /\ Input(l, <<n, ch, h[2], v[2]>>) = <<"input", InputOffset(T, n, ch, h[2], v[2])>>
           /\ At(l.w, <<d, ch, h[1], v[1]>>) = WeightOffset(T, d, ch, h[1], v[1])
<1>1. Input(l, <<n, ch, h[2], v[2]>>) = <<"input", InputOffset(T, n, ch, h[2], v[2])>>
  <2> DEFINE a == h[2]
             b == v[2]
  <2>1. a \in Int /\ b \in Int
    OBVIOUS
  <2> HIDE DEF a, b
  <2>2. Input(l, <<n, ch, a, b>>) = <<"input", InputOffset(T, n, ch, a, b)>>
    BY <2>1, InputAt
  <2> QED
    BY <2>2 DEF a, b
<1>2. At(l.w, <<d, ch, h[1], v[1]>>) = WeightOffset(T, d, ch, h[1], v[1])
  <2> DEFINE e == <<d, ch, h[1], v[1]>>
             s == l.w
  <2>1. /\ Len(s) = 4 /\ s[1] \in Int /\ s[2] \in Int /\ s[3] \in Int /\ s[4] \in Int
    BY DEF Weights, Tensor, Positive
  <2>2. /\ e[1] = d /\ e[2] = ch /\ e[3] = h[1] /\ e[4] = v[1]
        /\ e[1] \in Int /\ e[2] \in Int /\ e[3] \in Int /\ e[4] \in Int
    OBVIOUS
  <2>3. s[2] = T.InChannels /\ s[3] = T.KernelHeight /\ s[4] = T.KernelWidth
    OBVIOUS
  <2> HIDE DEF e, s
  <2>4. At(s, e) = e[1] * s[2] * s[3] * s[4] + e[2] * s[3] * s[4] + e[3] * s[4] + e[4]
    BY <2>1, <2>2, At4
  <2>5. At(s, e) = d * T.InChannels * T.KernelHeight * T.KernelWidth +
                       ch * T.KernelHeight * T.KernelWidth + h[1] * T.KernelWidth + v[1]
    BY <2>2, <2>3, <2>4, Zenon
  <2> QED
    BY <2>5 DEF e, s, WeightOffset
<1> QED
  BY <1>1, <1>2

(* The cells of a window are taps of the window and cells of the input.    *)
LEMMA CoveredCells ==
    ASSUME NEW out, NEW in, in \in Nat, NEW window, window \in Nat, NEW stride, NEW dilation, NEW pad,
           NEW h \in Covered(out, in, window, stride, dilation, pad)
    PROVE  h[1] \in 0 .. window - 1 /\ h[2] \in 0 .. in - 1 /\ h[1] \in Int /\ h[2] \in Int
BY DEF Covered

(* The taps the loop does not skip are the cells the window covers. *)
LEMMA TapsAre ==
    ASSUME NEW in, in \in Nat, NEW window, window \in Nat, NEW stride, stride \in Nat,
           NEW padding, padding \in Nat, NEW out, out \in Nat
    PROVE  Taps(out, stride, window, padding, in) = Covered(out, in, window, stride, 1, padding)
BY TapsAreCovered

(* Every step of a convolution computes the output of the layer. *)
LEMMA ConvMeaning ==
    ASSUME NEW l, l.via = "onnx", l.op = "Conv", WellFormed(l), Supported(l),
           NEW i \in Outputs(l)
    PROVE  Conv2dValue(KernelOf(l), i) = Meaning(l, i)
<1> DEFINE k == KernelOf(l)
           T == k.T
           h == OutExtent(l.x[3], l.w[3], l.strides[1], l.pads[1])
           w == OutExtent(l.x[4], l.w[4], l.strides[2], l.pads[2])
           o == Decode(i, l.w[1], h, w)
<1>1. /\ Tensor(l.x, 4) /\ Weights(l.w, 4) /\ l.group \in Positive
      /\ l.x[2] = l.group * l.w[2] /\ Windows(l, l.w[3], l.w[4])
  BY DEF WellFormed, Binary, Activations
<1>2. /\ SameExtents(l) /\ l.group = 1 /\ l.bias
      /\ l.dilation = 1
  BY DEF Supported, SameExtents, Binary, Activations
<1>3. /\ l.w[1] \in Positive /\ l.w[2] \in Positive /\ l.w[3] \in Positive /\ l.w[4] \in Positive
      /\ l.x[2] \in Positive /\ l.x[3] \in Positive /\ l.x[4] \in Positive
      /\ l.x[1] \in Positive \cup {-1} /\ l.x[2] = l.w[2]
  BY <1>1, <1>2 DEF Weights, Tensor, Positive
<1>4. /\ l.strides[1] \in Nat /\ l.strides[2] \in Nat /\ l.pads[1] \in Nat /\ l.pads[2] \in Nat
  BY <1>1 DEF Windows, Positive
<1>5. /\ k.impl = "Conv2d" /\ k.operator = Fn(l) /\ T.Bias = TRUE
      /\ T.BatchSize = BatchExpr(l) /\ T.InHeight = l.x[3] /\ T.InWidth = l.x[4]
      /\ T.InChannels = l.w[2] /\ T.OutChannels = l.w[1]
      /\ T.KernelHeight = l.w[3] /\ T.KernelWidth = l.w[4]
      /\ T.StrideHeight = l.strides[1] /\ T.StrideWidth = l.strides[2]
      /\ T.PaddingHeight = l.pads[1] /\ T.PaddingWidth = l.pads[2]
      /\ OutHeight(T) = h /\ OutWidth(T) = w
      /\ OutputShape(l) \in Seq(Int) /\ Len(OutputShape(l)) = 4
      /\ OutputShape(l)[1] = l.x[1] /\ OutputShape(l)[2] = l.w[1]
      /\ OutputShape(l)[3] = h /\ OutputShape(l)[4] = w /\ h \in Positive /\ w \in Positive
  BY <1>2, ConvEmitted
<1> HIDE DEF k, h, w
<1>7. /\ \E c : /\ Meaning(l, i) = Means(l, c)
                /\ c[1] = o.n /\ c[2] = o.c /\ c[3] = o.h /\ c[4] = o.w
      /\ o.n \in 0 .. Batch(l.x) - 1 /\ o.c \in 0 .. l.w[1] - 1
      /\ o.h \in 0 .. h - 1 /\ o.w \in 0 .. w - 1
  <2> DEFINE ch == l.w[1]
  <2>1. ch \in Positive /\ OutputShape(l)[2] = ch
    BY <1>3, <1>5
  <2>2. o = Decode(i, ch, h, w)
    OBVIOUS
  <2> DEFINE p == Decode(i, ch, h, w)
  <2> HIDE DEF ch, o
  <2>3. /\ \E c : /\ Meaning(l, i) = Means(l, c)
                  /\ c[1] = p.n /\ c[2] = p.c /\ c[3] = p.h /\ c[4] = p.w
        /\ p.n \in 0 .. Batch(l.x) - 1 /\ p.c \in 0 .. ch - 1
        /\ p.h \in 0 .. h - 1 /\ p.w \in 0 .. w - 1
    <3>1. /\ l.x[1] \in Positive \cup {-1}
          /\ OutputShape(l) \in Seq(Int) /\ Len(OutputShape(l)) = 4
          /\ OutputShape(l)[1] = l.x[1] /\ OutputShape(l)[2] = ch
          /\ OutputShape(l)[3] = h /\ OutputShape(l)[4] = w
          /\ ch \in Positive /\ h \in Positive /\ w \in Positive
          /\ i \in Outputs(l)
      BY <1>3, <1>5, <2>1
    <3> QED
      BY <3>1, ImageOutput, SMTT(40)
  <2>4. p = o
    BY <2>2
  <2> HIDE DEF p
  <2> QED
    BY <2>3, <2>4 DEF ch
<1>8. PICK c : /\ Meaning(l, i) = Means(l, c)
               /\ c[1] = o.n /\ c[2] = o.c /\ c[3] = o.h /\ c[4] = o.w
  BY <1>7
<1>9. o.n \in Int /\ o.c \in Int /\ o.h \in Nat /\ o.w \in Nat
  <2> HIDE DEF o
  <2>1. Batch(l.x) \in Int /\ h \in Int /\ w \in Int /\ l.w[1] \in Int
    BY <1>3, <1>5, BatchIs DEF Positive
  <2> QED
    BY <1>7, <2>1
<1>10. Decode(i, T.OutChannels, OutHeight(T), OutWidth(T)) = o
  BY <1>5
<1> HIDE DEF T, o
<1> DEFINE rows == Covered(o.h, l.x[3], l.w[3], l.strides[1], l.dilation, l.pads[1])
           cols == Covered(o.w, l.x[4], l.w[4], l.strides[2], l.dilation, l.pads[2])
           chans == 0 .. l.w[2] - 1
<1>11. /\ Taps(o.h, T.StrideHeight, T.KernelHeight, T.PaddingHeight, T.InHeight) = rows
       /\ Taps(o.w, T.StrideWidth, T.KernelWidth, T.PaddingWidth, T.InWidth) = cols
  <2>1. l.x[3] \in Nat /\ l.x[4] \in Nat /\ l.w[3] \in Nat /\ l.w[4] \in Nat
    BY <1>3 DEF Positive
  <2>2. /\ Taps(o.h, l.strides[1], l.w[3], l.pads[1], l.x[3]) =
               Covered(o.h, l.x[3], l.w[3], l.strides[1], 1, l.pads[1])
        /\ Taps(o.w, l.strides[2], l.w[4], l.pads[2], l.x[4]) =
               Covered(o.w, l.x[4], l.w[4], l.strides[2], 1, l.pads[2])
    <3> HIDE DEF rows, cols, chans
    <3>1. /\ l.x[3] \in Nat /\ l.w[3] \in Nat /\ l.strides[1] \in Nat
          /\ l.pads[1] \in Nat /\ o.h \in Nat
      BY <1>4, <1>9, <2>1
    <3>2. /\ l.x[4] \in Nat /\ l.w[4] \in Nat /\ l.strides[2] \in Nat
          /\ l.pads[2] \in Nat /\ o.w \in Nat
      BY <1>4, <1>9, <2>1
    <3>3. Taps(o.h, l.strides[1], l.w[3], l.pads[1], l.x[3]) =
              Covered(o.h, l.x[3], l.w[3], l.strides[1], 1, l.pads[1])
      BY <3>1, TapsAre
    <3>4. \A out \in Nat : Taps(out, l.strides[2], l.w[4], l.pads[2], l.x[4]) =
                               Covered(out, l.x[4], l.w[4], l.strides[2], 1, l.pads[2])
      BY <3>2, TapsAre
    <3>5. Taps(o.w, l.strides[2], l.w[4], l.pads[2], l.x[4]) =
              Covered(o.w, l.x[4], l.w[4], l.strides[2], 1, l.pads[2])
      BY <3>2, <3>4, Zenon
    <3> QED
      BY <3>3, <3>5
  <2> QED
    BY <1>2, <1>5, <2>2 DEF T
<1>12. /\ \A g \in rows : g[1] \in Int /\ g[2] \in Int
       /\ \A v \in cols : v[1] \in Int /\ v[2] \in Int
  <2>1. l.x[3] \in Nat /\ l.x[4] \in Nat /\ l.w[3] \in Nat /\ l.w[4] \in Nat
    BY <1>3 DEF Positive
  <2> QED
    BY <2>1, CoveredCells
<1> HIDE DEF rows, cols
<1> DEFINE weight(ch, kh, kw) ==
               o.c * T.InChannels * T.KernelHeight * T.KernelWidth +
               ch * T.KernelHeight * T.KernelWidth + kh * T.KernelWidth + kw
           computed(ch, g, v) == <<<<"input", InputOffset(T, o.n, ch, g[2], v[2])>>,
                                   <<"weights", weight(ch, g[1], v[1])>>>>
           meant(ch, g, v) == <<Input(l, <<o.n, ch, g[2], v[2]>>),
                                <<"weights", At(l.w, <<o.c, ch, g[1], v[1]>>)>>>>
           terms == {computed(ch, g, v) : ch \in chans, g \in rows, v \in cols}
<1>13. Conv2dValue(k, i) =
          [operator |-> Fn(l), reduce |-> "sum", own |-> <<<<"bias", o.c>>>>, terms |-> terms,
           divisor |-> 1]
  <2>1. T.Bias = TRUE /\ T.InChannels = l.w[2] /\ k.operator = Fn(l)
    BY <1>5 DEF T
  <2>2. Conv2dValue(k, i) =
          Value(k, "sum", IF T.Bias THEN <<<<"bias", o.c>>>> ELSE <<>>,
                {computed(ch, g, v) : ch \in 0 .. T.InChannels - 1, g \in rows, v \in cols}, 1)
    BY <1>10, <1>11 DEF Conv2dValue, T
  <2> DEFINE own == <<<<"bias", o.c>>>>
  <2>3. (IF T.Bias THEN own ELSE <<>>) = own
    BY <2>1, Zenon
  <2> HIDE DEF computed, own
  <2>4. Conv2dValue(k, i) = Value(k, "sum", own, terms, 1)
    BY <2>1, <2>2, <2>3 DEF own
  <2> HIDE DEF terms
  <2> QED
    BY <2>1, <2>4 DEF Value, own
<1>14. \A ch \in chans, g \in rows, v \in cols : computed(ch, g, v) = meant(ch, g, v)
  <2> TAKE ch \in chans, g \in rows, v \in cols
  <2>1. ch \in Int /\ g[1] \in Int /\ g[2] \in Int /\ v[1] \in Int /\ v[2] \in Int
    BY <1>3, <1>12 DEF Positive
  <2>2. /\ T.InChannels = l.w[2] /\ T.InHeight = l.x[3] /\ T.InWidth = l.x[4]
        /\ T.KernelHeight = l.w[3] /\ T.KernelWidth = l.w[4]
    BY <1>5 DEF T
  <2> DEFINE n == o.n
             d == o.c
  <2>3. n \in Int /\ d \in Int
    BY <1>9
  <2> HIDE DEF n, d
  <2>4. /\ Input(l, <<n, ch, g[2], v[2]>>) = <<"input", InputOffset(T, n, ch, g[2], v[2])>>
        /\ At(l.w, <<d, ch, g[1], v[1]>>) = WeightOffset(T, d, ch, g[1], v[1])
    <3>1. Tensor(l.x, 4) /\ Weights(l.w, 4) /\ l.x[2] = l.w[2]
      BY <1>1, <1>3
    <3> QED
      BY <2>1, <2>2, <2>3, <3>1, ConvTerms
  <2> QED
    BY <2>4, Zenon DEF n, d, WeightOffset
<1>15. Means(l, c) =
          [operator |-> Fn(l), reduce |-> "sum", own |-> <<<<"bias", o.c>>>>,
           terms |-> {meant(ch, g, v) : ch \in chans, g \in rows, v \in cols}, divisor |-> 1]
  <2>1. Means(l, c) = ConvMeans(l, c)
    BY DEF Means, Binary
  <2>2. o.c \div (l.w[1] \div l.group) = 0
    <3>1. PICK m \in Nat \ {0} : m = l.w[1]
      BY <1>3 DEF Positive
    <3>2. m \div 1 = m
      OBVIOUS
    <3>3. o.c \in 0 .. m - 1
      BY <1>7, <3>1
    <3>4. o.c \div m = 0
      BY <3>3
    <3> QED
      BY <1>2, <3>1, <3>2, <3>4
  <2> DEFINE from(ch) == (c[2] \div (l.w[1] \div l.group)) * l.w[2] + ch
             own == <<<<"bias", c[2]>>>>
             read(ch, g, v) == <<Input(l, <<c[1], from(ch), g[2], v[2]>>),
                                 <<"weights", At(l.w, <<c[2], ch, g[1], v[1]>>)>>>>
  <2>3. ConvMeans(l, c) =
          Meant(l, "sum", own, {read(ch, g, v) : ch \in chans, g \in rows, v \in cols}, 1)
    BY <1>2, <1>8 DEF ConvMeans, rows, cols
  <2>4. \A ch \in chans : from(ch) = ch
    <3>1. l.w[2] \in Int
      BY <1>3 DEF Positive
    <3>2. \A ch \in chans : 0 * l.w[2] + ch = ch
      BY <3>1
    <3> QED
      BY <1>8, <2>2, <3>2
  <2>5. \A ch \in chans, g \in rows, v \in cols : read(ch, g, v) = meant(ch, g, v)
    <3> HIDE DEF from, chans
    <3> QED
      BY <1>8, <2>4
  <2>6. {read(ch, g, v) : ch \in chans, g \in rows, v \in cols} =
          {meant(ch, g, v) : ch \in chans, g \in rows, v \in cols}
    <3> HIDE DEF read, meant, chans
    <3> QED
      BY <2>5
  <2>7. own = <<<<"bias", o.c>>>>
    BY <1>8
  <2> HIDE DEF read, meant, chans
  <2> DEFINE reads == {read(ch, g, v) : ch \in chans, g \in rows, v \in cols}
             means == {meant(ch, g, v) : ch \in chans, g \in rows, v \in cols}
  <2>8. reads = means
    BY <2>6
  <2>9. ConvMeans(l, c) = Meant(l, "sum", own, reads, 1)
    BY <2>3
  <2> HIDE DEF reads, means, own
  <2>10. Means(l, c) = [operator |-> Fn(l), reduce |-> "sum", own |-> <<<<"bias", o.c>>>>,
                        terms |-> means, divisor |-> 1]
    BY <2>1, <2>7, <2>8, <2>9 DEF Meant
  <2> QED
    BY <2>10 DEF means
<1>16. terms = {meant(ch, g, v) : ch \in chans, g \in rows, v \in cols}
  <2> HIDE DEF computed, meant, chans
  <2> QED
    BY <1>14
<1> HIDE DEF terms, meant
<1> QED
  BY <1>8, <1>13, <1>15, <1>16 DEF k

(* Where the cells of a window fall. *)
Falls(cells) == {g[2] : g \in cells}
IntegerCells(cells) == \A g \in cells : g[2] \in Int

(* The reads of a pool, by the offsets and by the coordinates. *)
WindowRead(T, n, c, hs, ws) == {<<<<"input", InputOffset(T, n, c, h, w)>>>> : h \in hs, w \in ws}

WindowMeant(l, n, c, rows, cols) == {<<Input(l, <<n, c, g[2], v[2]>>)>> : g \in rows, v \in cols}

(* The extents of the input are those of the layer. *)
InputExtents(T, l) ==
    /\ Tensor(l.x, 4)
    /\ T.InChannels = l.x[2] /\ T.InHeight = l.x[3] /\ T.InWidth = l.x[4]

(* The loop over the taps reads the elements of the window. *)
LEMMA WindowReads ==
    ASSUME NEW l, NEW T, InputExtents(T, l), NEW n, n \in Int, NEW c, c \in Int, NEW rows, NEW cols,
           IntegerCells(rows), IntegerCells(cols)
    PROVE  WindowRead(T, n, c, Falls(rows), Falls(cols)) =
               WindowMeant(l, n, c, rows, cols)
<1>1. ASSUME NEW g \in rows, NEW v \in cols
      PROVE  /\ g[2] \in Falls(rows) /\ v[2] \in Falls(cols)
             /\ <<Input(l, <<n, c, g[2], v[2]>>)>> = <<<<"input", InputOffset(T, n, c, g[2], v[2])>>>>
  <2> DEFINE h == g[2]
             w == v[2]
  <2>1. h \in Int /\ w \in Int /\ h \in Falls(rows) /\ w \in Falls(cols)
    BY DEF IntegerCells, Falls
  <2> HIDE DEF h, w
  <2>2. Input(l, <<n, c, h, w>>) = <<"input", InputOffset(T, n, c, h, w)>>
    BY <2>1, InputAt DEF InputExtents
  <2> QED
    BY <2>1, <2>2 DEF h, w
<1>2. ASSUME NEW e \in WindowRead(T, n, c, Falls(rows), Falls(cols))
      PROVE  e \in WindowMeant(l, n, c, rows, cols)
  <2>1. PICK h \in Falls(rows), w \in Falls(cols) : e = <<<<"input", InputOffset(T, n, c, h, w)>>>>
    BY DEF WindowRead
  <2>2. PICK g \in rows : h = g[2]
    BY DEF Falls
  <2>3. PICK v \in cols : w = v[2]
    BY DEF Falls
  <2>4. e = <<Input(l, <<n, c, g[2], v[2]>>)>>
    BY <1>1, <2>1, <2>2, <2>3
  <2> QED
    BY <2>4 DEF WindowMeant
<1>3. ASSUME NEW e \in WindowMeant(l, n, c, rows, cols)
      PROVE  e \in WindowRead(T, n, c, Falls(rows), Falls(cols))
  <2>1. PICK g \in rows, v \in cols : e = <<Input(l, <<n, c, g[2], v[2]>>)>>
    BY DEF WindowMeant
  <2>2. e = <<<<"input", InputOffset(T, n, c, g[2], v[2])>>>>
    BY <1>1, <2>1
  <2>3. g[2] \in Falls(rows) /\ v[2] \in Falls(cols)
    BY <1>1
  <2>4. \E h \in Falls(rows), w \in Falls(cols) : e = <<<<"input", InputOffset(T, n, c, h, w)>>>>
    BY <2>2, <2>3, Zenon
  <2> QED
    BY <2>4 DEF WindowRead
<1> QED
  BY <1>2, <1>3

(* No window reaches beyond the padding. *)
LEMMA WindowEnds ==
    ASSUME NEW in, in \in Int, NEW window, window \in Nat, NEW stride, stride \in Nat \ {0},
           NEW padding, padding \in Int, window <= in + 2 * padding, in + 2 * padding < WordSize,
           NEW out, out \in Nat, out < OutExtent(in, window, stride, padding)
    PROVE  out * stride + window <= in + 2 * padding
<1> DEFINE room == in + 2 * padding - window
           q == room \div stride
<1>1. room \in Int /\ OutExtent(in, window, stride, padding) = q + 1
  <2>1. room \in 0 .. WordSize - 1
    BY WordSizeAssumption
  <2>2. room % WordSize = room
    <3> HIDE DEF room
    <3> QED
      BY <2>1, WordSizeAssumption
  <2> QED
    BY <2>1, <2>2 DEF OutExtent
<1>2. q \in Int /\ room % stride \in 0 .. stride - 1 /\ room = stride * q + (room % stride)
  BY <1>1, DivMod
<1>3. out <= q
  <2> HIDE DEF q
  <2> QED
    BY <1>1, <1>2
<1> HIDE DEF q
<1>4. out * stride <= q * stride /\ out * stride \in Int /\ q * stride \in Int
  BY <1>2, <1>3, Monotonic
<1>5. q * stride = stride * q
  BY <1>2
<1>6. out * stride <= room
  <2> HIDE DEF room
  <2> QED
    BY <1>1, <1>2, <1>4, <1>5
<1> QED
  BY <1>4, <1>6

(* The window of an average pool: the cells of the padded window in the    *)
(* input, and without padding all of them.                                 *)
LEMMA AveragedCells ==
    ASSUME NEW in, in \in Positive, NEW window, window \in Positive,
           NEW stride, stride \in Positive, NEW padding, padding \in Nat, padding <= window,
           NEW other, other = padding, in + padding + other < WordSize, window <= in + 2 * padding,
           NEW out, out \in Nat, out < OutExtent(in, window, stride, padding)
    PROVE  /\ Clamped(out, stride, window, padding, in) =
                  {c[2] : c \in Covered(out, in, window, stride, 1, padding)}
           /\ padding = 0 =>
                  \E first \in Nat : /\ first + window <= in
                                     /\ Clamped(out, stride, window, padding, in) =
                                            first .. first + window - 1
<1>1. /\ in \in Nat /\ in \in Int /\ window \in Nat /\ window \in Int
      /\ stride \in Nat /\ stride \in Nat \ {0} /\ padding \in Int
  BY DEF Positive
<1>2. out * stride + window <= in + 2 * padding /\ out * stride \in Nat
  <2>1. out * stride + window <= in + 2 * padding
    <3>1. in + 2 * padding < WordSize
      BY <1>1, WordSizeAssumption
    <3> QED
      BY <1>1, <3>1, WindowEnds
  <2> QED
    BY <1>1, <2>1
<1>3. out * stride + window < WordSize
  BY <1>1, <1>2, WordSizeAssumption
<1>4. Clamped(out, stride, window, padding, in) =
          {c[2] : c \in Covered(out, in, window, stride, 1, padding)}
  <2>1. /\ in \in Nat /\ window \in Nat \ {0} /\ stride \in Nat \ {0} /\ padding \in Nat
        /\ out \in Nat /\ padding <= window /\ out * stride + window < WordSize
    BY <1>1, <1>3 DEF Positive
  <2> QED
    BY <2>1, ClampedIsCovered, SMTT(60)
<1>5. ASSUME padding = 0
      PROVE  \E first \in Nat : /\ first + window <= in
                                /\ Clamped(out, stride, window, padding, in) =
                                       first .. first + window - 1
  <2> DEFINE s == out * stride
  <2>1. s \in Nat /\ s + window <= in /\ s + window < WordSize
    BY <1>1, <1>2, <1>3, <1>5
  <2>2. Clamped(out, stride, window, padding, in) =
            (IF s - 0 < 0 THEN 0 ELSE s - 0) ..
                (IF (s - 0 + window) % WordSize < in THEN (s - 0 + window) % WordSize ELSE in) - 1
    BY <1>5 DEF Clamped
  <2> HIDE DEF s
  <2>3. s - 0 = s /\ (s + window) % WordSize = s + window
    BY <1>1, <2>1, WordSizeAssumption
  <2>4. Clamped(out, stride, window, padding, in) =
            s .. (IF s + window < in THEN s + window ELSE in) - 1
    BY <2>1, <2>2, <2>3
  <2>5. (IF s + window < in THEN s + window ELSE in) = s + window
    BY <1>1, <2>1
  <2>6. Clamped(out, stride, window, padding, in) = s .. (s + window) - 1
    BY <2>4, <2>5
  <2>7. (s + window) - 1 = s + window - 1
    BY <1>1, <2>1
  <2> QED
    BY <2>1, <2>6, <2>7
<1> QED
  BY <1>4, <1>5

(* Every step of a pool computes the output of the layer. *)
LEMMA PoolMeaning ==
    ASSUME NEW l, l.via = "onnx", l.op \in {"MaxPool", "AveragePool"}, WellFormed(l), Supported(l),
           NEW i \in Outputs(l)
    PROVE  /\ l.op = "MaxPool" => MaxPool2dValue(KernelOf(l), i) = Meaning(l, i)
           /\ l.op = "AveragePool" => AvgPool2dValue(KernelOf(l), i) = Meaning(l, i)
<1> DEFINE k == KernelOf(l)
           T == k.T
           h == OutExtent(l.x[3], l.kernel[1], l.strides[1], l.pads[1])
           w == OutExtent(l.x[4], l.kernel[2], l.strides[2], l.pads[2])
           o == Decode(i, l.x[2], h, w)
<1>1. /\ Tensor(l.x, 4) /\ l.kernel \in Positive \X Positive
      /\ Windows(l, l.kernel[1], l.kernel[2])
  BY DEF WellFormed, Binary, Activations
<1>2. SameExtents(l) /\ SymmetricPads(l) /\ l.dilation = 1
  BY DEF Supported, SameExtents
<1>3. /\ l.kernel[1] \in Positive /\ l.kernel[2] \in Positive
      /\ l.x[2] \in Positive /\ l.x[3] \in Positive /\ l.x[4] \in Positive
      /\ l.x[1] \in Positive \cup {-1}
  <2>1. l.kernel[1] \in Positive /\ l.kernel[2] \in Positive
    BY <1>1
  <2> QED
    BY <1>1, <2>1 DEF Tensor
<1>4. /\ l.strides[1] \in Positive /\ l.strides[2] \in Positive
      /\ l.pads[1] \in Nat /\ l.pads[2] \in Nat
  <2>1. l.strides \in Positive \X Positive /\ l.pads \in Nat \X Nat \X Nat \X Nat
    BY <1>1 DEF Windows
  <2> QED
    BY <2>1
<1>5. /\ k.impl = (IF l.op = "MaxPool" THEN "MaxPool2d" ELSE "AvgPool2d")
      /\ k.operator = Fn(l)
      /\ T.InHeight = l.x[3] /\ T.InWidth = l.x[4] /\ T.InChannels = l.x[2]
      /\ T.KernelHeight = l.kernel[1] /\ T.KernelWidth = l.kernel[2]
      /\ T.StrideHeight = l.strides[1] /\ T.StrideWidth = l.strides[2]
      /\ T.PaddingHeight = l.pads[1] /\ T.PaddingWidth = l.pads[2]
      /\ OutHeight(T) = h /\ OutWidth(T) = w
      /\ OutputShape(l) \in Seq(Int) /\ Len(OutputShape(l)) = 4
      /\ OutputShape(l)[1] = l.x[1] /\ OutputShape(l)[2] = l.x[2]
      /\ OutputShape(l)[3] = h /\ OutputShape(l)[4] = w /\ h \in Positive /\ w \in Positive
  BY <1>2, PoolEmitted
<1>30. l.kernel[1] <= l.x[3] + 2 * l.pads[1] /\ l.kernel[2] <= l.x[4] + 2 * l.pads[2]
  <2>1. SymmetricPads(l) /\ l.dilation = 1
    BY <1>2 DEF SameExtents
  <2> QED
    BY <1>1, <1>3, <2>1, WindowedIs
<1> HIDE DEF k, h, w
<1>6. Decode(i, T.InChannels, OutHeight(T), OutWidth(T)) = o
  BY <1>5
<1>7. /\ \E c : /\ Meaning(l, i) = Means(l, c)
                /\ c[1] = o.n /\ c[2] = o.c /\ c[3] = o.h /\ c[4] = o.w
      /\ o.n \in 0 .. Batch(l.x) - 1 /\ o.c \in 0 .. l.x[2] - 1
      /\ o.h \in 0 .. h - 1 /\ o.w \in 0 .. w - 1
  <2> DEFINE ch == l.x[2]
             p == Decode(i, ch, h, w)
  <2>1. ch \in Positive /\ OutputShape(l)[2] = ch
    BY <1>3, <1>5
  <2>2. p = o
    OBVIOUS
  <2> HIDE DEF ch, o
  <2>3. /\ \E c : /\ Meaning(l, i) = Means(l, c)
                  /\ c[1] = p.n /\ c[2] = p.c /\ c[3] = p.h /\ c[4] = p.w
        /\ p.n \in 0 .. Batch(l.x) - 1 /\ p.c \in 0 .. ch - 1
        /\ p.h \in 0 .. h - 1 /\ p.w \in 0 .. w - 1
    <3>1. /\ l.x[1] \in Positive \cup {-1}
          /\ OutputShape(l) \in Seq(Int) /\ Len(OutputShape(l)) = 4
          /\ OutputShape(l)[1] = l.x[1] /\ OutputShape(l)[2] = ch
          /\ OutputShape(l)[3] = h /\ OutputShape(l)[4] = w
          /\ ch \in Positive /\ h \in Positive /\ w \in Positive
          /\ i \in Outputs(l)
      BY <1>3, <1>5, <2>1
    <3> QED
      BY <3>1, ImageOutput, SMTT(40)
  <2> HIDE DEF p
  <2> QED
    BY <2>2, <2>3 DEF ch
<1> HIDE DEF o, T
<1>8. PICK c : /\ Meaning(l, i) = Means(l, c)
               /\ c[1] = o.n /\ c[2] = o.c /\ c[3] = o.h /\ c[4] = o.w
  BY <1>7
<1>9. o.n \in Int /\ o.c \in Int /\ o.h \in Nat /\ o.h < h /\ o.w \in Nat /\ o.w < w
  <2>1. Batch(l.x) \in Int /\ h \in Int /\ w \in Int /\ l.x[2] \in Int
    BY <1>3, <1>5, BatchIs DEF Positive
  <2> QED
    BY <1>7, <2>1
<1> DEFINE rows == Covered(o.h, l.x[3], l.kernel[1], l.strides[1], l.dilation, l.pads[1])
           cols == Covered(o.w, l.x[4], l.kernel[2], l.strides[2], l.dilation, l.pads[2])
           hs == {g[2] : g \in rows}
           ws == {v[2] : v \in cols}
           computed == {<<<<"input", InputOffset(T, o.n, o.c, y, x)>>>> : y \in hs, x \in ws}
           terms == {<<Input(l, <<o.n, o.c, g[2], v[2]>>)>> : g \in rows, v \in cols}
<1>10. /\ \A g \in rows : g[2] \in Int
       /\ \A v \in cols : v[2] \in Int
  <2>1. l.x[3] \in Nat /\ l.x[4] \in Nat /\ l.kernel[1] \in Nat /\ l.kernel[2] \in Nat
    BY <1>3 DEF Positive
  <2> QED
    BY <2>1, CoveredCells
<1>11. PoolMeans(l, c) = IF l.op = "MaxPool" THEN Meant(l, "max", <<>>, terms, 1)
                         ELSE Meant(l, "sum", <<>>, terms,
                                    IF l.includePad THEN l.kernel[1] * l.kernel[2]
                                    ELSE Cardinality(terms))
  BY <1>8 DEF PoolMeans
<1> HIDE DEF rows, cols, terms, computed, hs, ws
<1>12. Means(l, c) = PoolMeans(l, c)
  <2>1. CASE l.op = "MaxPool"
    BY <2>1 DEF Means, Binary
  <2>2. CASE l.op = "AveragePool"
    BY <2>2 DEF Means, Binary
  <2> QED
    BY <2>1, <2>2
<1>13. computed = terms
  <2> DEFINE n == o.n
             d == o.c
  <2>1. n \in Int /\ d \in Int
    BY <1>9
  <2>2. T.InChannels = l.x[2] /\ T.InHeight = l.x[3] /\ T.InWidth = l.x[4]
    BY <1>5 DEF T
  <2> HIDE DEF n, d
  <2>3. WindowRead(T, n, d, Falls(rows), Falls(cols)) =
            WindowMeant(l, n, d, rows, cols)
    <3>1. InputExtents(T, l) /\ n \in Int /\ d \in Int /\ IntegerCells(rows) /\ IntegerCells(cols)
      BY <1>1, <1>10, <2>1, <2>2 DEF IntegerCells, InputExtents
    <3> QED
      BY <3>1, WindowReads
  <2>4. Falls(rows) = hs /\ Falls(cols) = ws
    BY DEF Falls, hs, ws
  <2>5. WindowRead(T, n, d, hs, ws) = WindowMeant(l, n, d, rows, cols)
    BY <2>3, <2>4
  <2>6. computed = WindowRead(T, n, d, hs, ws) /\ terms = WindowMeant(l, n, d, rows, cols)
    BY DEF n, d, computed, terms, WindowRead, WindowMeant
  <2> QED
    BY <2>5, <2>6
<1>14. ASSUME l.op = "MaxPool" PROVE MaxPool2dValue(k, i) = Meaning(l, i)
  <2>1. /\ Taps(o.h, T.StrideHeight, T.KernelHeight, T.PaddingHeight, T.InHeight) = rows
        /\ Taps(o.w, T.StrideWidth, T.KernelWidth, T.PaddingWidth, T.InWidth) = cols
    <3> HIDE DEF hs, ws, computed, terms
    <3>1. /\ l.x[3] \in Nat /\ l.kernel[1] \in Nat /\ l.strides[1] \in Nat
          /\ l.pads[1] \in Nat /\ o.h \in Nat
      BY <1>3, <1>4, <1>9 DEF Positive
    <3>2. /\ l.x[4] \in Nat /\ l.kernel[2] \in Nat /\ l.strides[2] \in Nat
          /\ l.pads[2] \in Nat /\ o.w \in Nat
      BY <1>3, <1>4, <1>9 DEF Positive
    <3>3. Taps(o.h, l.strides[1], l.kernel[1], l.pads[1], l.x[3]) =
              Covered(o.h, l.x[3], l.kernel[1], l.strides[1], 1, l.pads[1])
      BY <3>1, TapsAre
    <3>4. Taps(o.w, l.strides[2], l.kernel[2], l.pads[2], l.x[4]) =
              Covered(o.w, l.x[4], l.kernel[2], l.strides[2], 1, l.pads[2])
      BY <3>2, TapsAre
    <3> QED
      BY <1>2, <1>5, <3>3, <3>4 DEF T, rows, cols
  <2>2. MaxPool2dValue(k, i) = Pooled(k, "max", o, hs, ws, 1)
    BY <1>6, <2>1 DEF MaxPool2dValue, T, hs, ws
  <2>3. Pooled(k, "max", o, hs, ws, 1) = Value(k, "max", <<>>, computed, 1)
    BY DEF Pooled, T, computed
  <2> HIDE DEF computed, terms
  <2>4. k.operator = Fn(l)
    BY <1>5
  <2>5. Meaning(l, i) = Meant(l, "max", <<>>, terms, 1)
    BY <1>8, <1>11, <1>12, <1>14
  <2> QED
    BY <1>13, <2>2, <2>3, <2>4, <2>5 DEF Value, Meant
<1>15. ASSUME l.op = "AveragePool" PROVE AvgPool2dValue(k, i) = Meaning(l, i)
  <2>1. /\ l.includePad \/ l.pads = <<0, 0, 0, 0>>
        /\ l.pads[1] <= l.kernel[1] /\ l.pads[2] <= l.kernel[2]
    BY <1>15, Zenon DEF Supported
  <2> DEFINE ys == Clamped(o.h, l.strides[1], l.kernel[1], l.pads[1], l.x[3])
             xs == Clamped(o.w, l.strides[2], l.kernel[2], l.pads[2], l.x[4])
  <2>2. /\ ys = hs
        /\ l.pads[1] = 0 => \E first \in Nat : first + l.kernel[1] <= l.x[3] /\
                                               ys = first .. first + l.kernel[1] - 1
    <3> DEFINE in == l.x[3]
               window == l.kernel[1]
               stride == l.strides[1]
               padding == l.pads[1]
               other == l.pads[3]
               out == o.h
    <3>1. /\ in \in Positive /\ window \in Positive /\ stride \in Positive /\ padding \in Nat
          /\ padding <= window /\ other = padding /\ in + padding + other < WordSize
          /\ window <= in + 2 * padding /\ out \in Nat /\ out < OutExtent(in, window, stride, padding)
      BY <1>1, <1>2, <1>3, <1>4, <1>9, <1>30, <2>1 DEF Windows, SymmetricPads, h
    <3>2. hs = {g[2] : g \in Covered(out, in, window, stride, 1, padding)}
      BY <1>2 DEF rows, hs
    <3> HIDE DEF in, window, stride, padding, other, out, hs, ws, computed, terms
    <3>3. /\ Clamped(out, stride, window, padding, in) =
                 {g[2] : g \in Covered(out, in, window, stride, 1, padding)}
          /\ padding = 0 =>
                 \E first \in Nat : /\ first + window <= in
                                    /\ Clamped(out, stride, window, padding, in) =
                                           first .. first + window - 1
      BY <3>1, AveragedCells
    <3> QED
      BY <3>2, <3>3 DEF in, window, stride, padding, other, out
  <2>3. /\ xs = ws
        /\ l.pads[2] = 0 => \E first \in Nat : first + l.kernel[2] <= l.x[4] /\
                                               xs = first .. first + l.kernel[2] - 1
    <3> DEFINE in == l.x[4]
               window == l.kernel[2]
               stride == l.strides[2]
               padding == l.pads[2]
               other == l.pads[4]
               out == o.w
    <3>1. /\ in \in Positive /\ window \in Positive /\ stride \in Positive /\ padding \in Nat
          /\ padding <= window /\ other = padding /\ in + padding + other < WordSize
          /\ window <= in + 2 * padding /\ out \in Nat /\ out < OutExtent(in, window, stride, padding)
      BY <1>1, <1>2, <1>3, <1>4, <1>9, <1>30, <2>1 DEF Windows, SymmetricPads, w
    <3>2. ws = {g[2] : g \in Covered(out, in, window, stride, 1, padding)}
      BY <1>2 DEF cols, ws
    <3> HIDE DEF in, window, stride, padding, other, out, hs, ws, computed, terms
    <3>3. /\ Clamped(out, stride, window, padding, in) =
                 {g[2] : g \in Covered(out, in, window, stride, 1, padding)}
          /\ padding = 0 =>
                 \E first \in Nat : /\ first + window <= in
                                    /\ Clamped(out, stride, window, padding, in) =
                                           first .. first + window - 1
      BY <3>1, AveragedCells
    <3> QED
      BY <3>2, <3>3 DEF in, window, stride, padding, other, out
  <2>4. AvgPool2dValue(k, i) = Pooled(k, "sum", o, ys, xs, l.kernel[1] * l.kernel[2])
    <3> HIDE DEF hs, ws, computed, terms
    <3> QED
      BY <1>5, <1>6 DEF AvgPool2dValue, T
  <2> HIDE DEF ys, xs
  <2>5. Pooled(k, "sum", o, hs, ws, l.kernel[1] * l.kernel[2]) =
            Value(k, "sum", <<>>, computed, l.kernel[1] * l.kernel[2])
    BY DEF Pooled, T, computed
  <2>6. ASSUME ~l.includePad PROVE Cardinality(terms) = l.kernel[1] * l.kernel[2]
    <3>0. l.pads[1] = 0 /\ l.pads[2] = 0
      <4>1. l.pads = <<0, 0, 0, 0>>
        BY <2>1, <2>6, Zenon
      <4> QED
        BY <4>1
    <3>1. PICK first \in Nat : first + l.kernel[1] <= l.x[3] /\
                               hs = first .. first + l.kernel[1] - 1
      BY <2>2, <3>0
    <3>2. PICK second \in Nat : second + l.kernel[2] <= l.x[4] /\
                                ws = second .. second + l.kernel[2] - 1
      BY <2>3, <3>0
    <3> DEFINE A == l.kernel[1]
               B == l.kernel[2]
               W == T.InWidth
               base == o.n * T.InChannels * T.InHeight * T.InWidth + o.c * T.InHeight * T.InWidth
               reads == {<<<<"input", base + y * W + x>>>> :
                            y \in first .. first + A - 1, x \in second .. second + B - 1}
    <3>3. /\ A \in Nat \ {0} /\ B \in Nat \ {0} /\ W \in Nat /\ second + B <= W
          /\ T.InChannels \in Int /\ T.InHeight \in Int
      BY <1>3, <1>5, <3>2 DEF Positive, T
    <3>4. base \in Int
      BY <1>9, <3>3
    <3>5. computed = reads
      <4>1. \A y, x : InputOffset(T, o.n, o.c, y, x) = base + y * W + x
        BY Zenon DEF InputOffset
      <4> HIDE DEF base, W
      <4>2. {<<<<"input", InputOffset(T, o.n, o.c, y, x)>>>> : y \in hs, x \in ws} =
                {<<<<"input", base + y * W + x>>>> : y \in hs, x \in ws}
        BY <4>1
      <4> QED
        BY <3>1, <3>2, <4>2 DEF computed
    <3> HIDE DEF A, B, W, base
    <3>6. Cardinality(reads) = A * B
      <4>1. /\ A \in Nat \ {0} /\ B \in Nat \ {0} /\ first \in Nat /\ second \in Nat
            /\ W \in Nat /\ second + B <= W /\ base \in Int
        BY <3>1, <3>2, <3>3, <3>4
      <4>2. Cardinality(WindowCells(base, W, first, A, second, B)) = A * B
        BY <4>1, WindowSize
      <4> QED
        BY <4>2 DEF WindowCells
    <3> HIDE DEF reads
    <3> QED
      BY <1>13, <3>5, <3>6 DEF A, B
  <2> HIDE DEF computed, terms, hs, ws
  <2>7. k.operator = Fn(l)
    BY <1>5
  <2>8. Meaning(l, i) = Meant(l, "sum", <<>>, terms, l.kernel[1] * l.kernel[2])
    <3>1. l.op # "MaxPool"
      BY <1>15
    <3> QED
      BY <1>8, <1>11, <1>12, <2>6, <3>1
  <2> QED
    BY <1>13, <2>2, <2>3, <2>4, <2>5, <2>7, <2>8 DEF Value, Meant
<1> QED
  BY <1>14, <1>15 DEF k

(* The one window of a pool of one cell is the whole input. *)
LEMMA GlobalWindow ==
    ASSUME NEW in, in \in Positive
    PROVE  /\ AdaptiveStart(0, in, 1) = 0 /\ AdaptiveEnd(0, in, 1) = in
           /\ AdaptiveWindow(0, in, 1) = 0 .. in - 1
           /\ Overlapping(0, in, 1) = 0 .. in - 1
<1>1. PICK m \in Nat \ {0} : m = in
  BY DEF Positive
<1>2. AdaptiveStart(0, m, 1) = 0
  <2>1. 0 * m = 0 /\ 0 \div 1 = 0
    OBVIOUS
  <2> QED
    BY <2>1 DEF AdaptiveStart
<1>3. AdaptiveEnd(0, m, 1) = m
  <2>1. (0 + 1) * m + 1 - 1 = m /\ m \div 1 = m
    OBVIOUS
  <2> QED
    BY <2>1 DEF AdaptiveEnd
<1>4. AdaptiveWindow(0, m, 1) = 0 .. m - 1
  BY <1>2, <1>3 DEF AdaptiveWindow
<1>5. Overlapping(0, m, 1) = 0 .. m - 1
  <2>1. \A y \in 0 .. m - 1 : y * 1 < (0 + 1) * m /\ (y + 1) * 1 > 0 * m
    OBVIOUS
  <2> QED
    BY <2>1 DEF Overlapping
<1> QED
  BY <1>1, <1>2, <1>3, <1>4, <1>5

(* The reads of a window given by its rows and columns. *)
OfIntegers(cells) == cells \subseteq Int

WindowOf(l, n, c, hs, ws) == {<<Input(l, <<n, c, y, v>>)>> : y \in hs, v \in ws}

(* Reading rows and columns by offset is reading their elements. *)
LEMMA WindowOfReads ==
    ASSUME NEW l, NEW T, NEW n, NEW c, NEW hs, NEW ws,
           InputExtents(T, l) /\ n \in Int /\ c \in Int /\ OfIntegers(hs) /\ OfIntegers(ws)
    PROVE  WindowRead(T, n, c, hs, ws) = WindowOf(l, n, c, hs, ws)
<1>1. ASSUME NEW h \in hs, NEW w \in ws
      PROVE  <<Input(l, <<n, c, h, w>>)>> = <<<<"input", InputOffset(T, n, c, h, w)>>>>
  <2>1. h \in Int /\ w \in Int
    BY DEF OfIntegers
  <2>2. Input(l, <<n, c, h, w>>) = <<"input", InputOffset(T, n, c, h, w)>>
    BY <2>1, InputAt DEF InputExtents
  <2> QED
    BY <2>2
<1>2. ASSUME NEW e \in WindowRead(T, n, c, hs, ws) PROVE e \in WindowOf(l, n, c, hs, ws)
  <2>1. PICK h \in hs, w \in ws : e = <<<<"input", InputOffset(T, n, c, h, w)>>>>
    BY DEF WindowRead
  <2>2. e = <<Input(l, <<n, c, h, w>>)>>
    BY <1>1, <2>1
  <2> QED
    BY <2>2 DEF WindowOf
<1>3. ASSUME NEW e \in WindowOf(l, n, c, hs, ws) PROVE e \in WindowRead(T, n, c, hs, ws)
  <2>1. PICK h \in hs, w \in ws : e = <<Input(l, <<n, c, h, w>>)>>
    BY DEF WindowOf
  <2>2. e = <<<<"input", InputOffset(T, n, c, h, w)>>>>
    BY <1>1, <2>1
  <2> QED
    BY <2>2 DEF WindowRead
<1> QED
  BY <1>2, <1>3

(* Every step of a global pool computes the output of the layer. *)
LEMMA AdaptiveMeaning ==
    ASSUME NEW l, l.via = "onnx", l.op \in {"GlobalAveragePool", "ReduceMean"}, WellFormed(l),
           Supported(l), NEW i \in Outputs(l)
    PROVE  AdaptiveAvgPool2dValue(KernelOf(l), i) = Meaning(l, i)
<1> DEFINE k == KernelOf(l)
           T == k.T
           ch == l.x[2]
           o == Decode(i, ch, 1, 1)
           H == l.x[3]
           W == l.x[4]
           hs == 0 .. H - 1
           ws == 0 .. W - 1
<1>1. Tensor(l.x, 4) /\ SameExtents(l) /\ (l.op = "ReduceMean" => l.axes # <<>>)
  BY DEF WellFormed, Supported, SameExtents, Binary, Activations
<1>2. /\ ch \in Positive /\ H \in Positive /\ W \in Positive /\ l.x[1] \in Positive \cup {-1}
  BY <1>1 DEF Tensor
<1>3. /\ k.operator = Fn(l)
      /\ T.InHeight = H /\ T.InWidth = W /\ T.InChannels = ch
      /\ T.OutHeight = 1 /\ T.OutWidth = 1
      /\ OutputShape(l) \in Seq(Int) /\ Len(OutputShape(l)) = 4
      /\ OutputShape(l)[1] = l.x[1] /\ OutputShape(l)[2] = ch
      /\ OutputShape(l)[3] = 1 /\ OutputShape(l)[4] = 1
  BY <1>1, AdaptiveEmitted
<1> HIDE DEF k
<1>4. Decode(i, T.InChannels, T.OutHeight, T.OutWidth) = o
  BY <1>3
<1> HIDE DEF T
<1>5. /\ \E c : /\ Meaning(l, i) = Means(l, c)
                /\ c[1] = o.n /\ c[2] = o.c /\ c[3] = o.h /\ c[4] = o.w
      /\ o.n \in 0 .. Batch(l.x) - 1 /\ o.c \in 0 .. ch - 1
      /\ o.h \in 0 .. 1 - 1 /\ o.w \in 0 .. 1 - 1
  <2> DEFINE one == 1
             p == Decode(i, ch, one, one)
  <2>1. /\ l.x[1] \in Positive \cup {-1}
        /\ OutputShape(l) \in Seq(Int) /\ Len(OutputShape(l)) = 4
        /\ OutputShape(l)[1] = l.x[1] /\ OutputShape(l)[2] = ch
        /\ OutputShape(l)[3] = one /\ OutputShape(l)[4] = one
        /\ ch \in Positive /\ one \in Positive
        /\ i \in Outputs(l)
    BY <1>2, <1>3 DEF Positive
  <2>2. p = o /\ one = 1
    OBVIOUS
  <2> HIDE DEF ch, o, one, H, W, hs, ws
  <2>3. /\ \E c : /\ Meaning(l, i) = Means(l, c)
                  /\ c[1] = p.n /\ c[2] = p.c /\ c[3] = p.h /\ c[4] = p.w
        /\ p.n \in 0 .. Batch(l.x) - 1 /\ p.c \in 0 .. ch - 1
        /\ p.h \in 0 .. one - 1 /\ p.w \in 0 .. one - 1
    BY <2>1, ImageOutput
  <2> HIDE DEF p
  <2> QED
    BY <2>2, <2>3
<1> HIDE DEF o
<1>6. o.h = 0 /\ o.w = 0
  BY <1>5
<1>7. o.n \in Int /\ o.c \in Int
  <2>1. Batch(l.x) \in Int /\ ch \in Int
    BY <1>2, BatchIs DEF Positive
  <2> HIDE DEF ch
  <2> QED
    BY <1>5, <2>1
<1>8. PICK c : /\ Meaning(l, i) = Means(l, c)
               /\ c[1] = o.n /\ c[2] = o.c /\ c[3] = 0 /\ c[4] = 0
  BY <1>5, <1>6
<1> DEFINE n == o.n
           d == o.c
           computed == WindowRead(T, n, d, hs, ws)
<1>9. computed = WindowOf(l, n, d, hs, ws)
  <2>1. InputExtents(T, l) /\ n \in Int /\ d \in Int /\ OfIntegers(hs) /\ OfIntegers(ws)
    BY <1>1, <1>2, <1>3, <1>7 DEF InputExtents, T, Positive, OfIntegers
  <2> HIDE DEF n, d, hs, ws, H, W, ch, computed
  <2>2. WindowRead(T, n, d, hs, ws) = WindowOf(l, n, d, hs, ws)
    BY <2>1, WindowOfReads
  <2> QED
    BY <2>2 DEF computed
<1>10. Cardinality(computed) = H * W
  <2> DEFINE base == n * T.InChannels * T.InHeight * T.InWidth + d * T.InHeight * T.InWidth
  <2>1. H \in Nat \ {0} /\ W \in Nat \ {0} /\ 0 \in Nat /\ W \in Nat /\ 0 + W <= W
    BY <1>2 DEF Positive
  <2>2. base \in Int
    <3>1. T.InChannels \in Int /\ T.InHeight \in Int /\ T.InWidth \in Int
      BY <1>2, <1>3 DEF T, Positive
    <3> QED
      BY <1>7, <3>1
  <2>3. T.InWidth = W
    BY <1>3 DEF T
  <2>4. computed = {<<<<"input", base + y * W + x>>>> : y \in hs, x \in ws}
    <3>1. \A y, x : InputOffset(T, n, d, y, x) = base + y * W + x
      BY <2>3, Zenon DEF InputOffset
    <3> HIDE DEF base, W, hs, ws, n, d
    <3> QED
      BY <3>1 DEF WindowRead
  <2>5. hs = 0 .. 0 + H - 1 /\ ws = 0 .. 0 + W - 1
    BY <2>1
  <2> HIDE DEF base, H, W, hs, ws, computed
  <2>6. computed = WindowCells(base, W, 0, H, 0, W)
    BY <2>4, <2>5 DEF WindowCells
  <2> QED
    BY <2>1, <2>2, <2>6, WindowSize
<1>11. AdaptiveAvgPool2dValue(k, i) = Value(k, "sum", <<>>, computed, H * W)
  <2>1. /\ AdaptiveStart(o.h, T.InHeight, T.OutHeight) = 0
        /\ AdaptiveEnd(o.h, T.InHeight, T.OutHeight) = H
        /\ AdaptiveWindow(o.h, T.InHeight, T.OutHeight) = hs
        /\ AdaptiveStart(o.w, T.InWidth, T.OutWidth) = 0
        /\ AdaptiveEnd(o.w, T.InWidth, T.OutWidth) = W
        /\ AdaptiveWindow(o.w, T.InWidth, T.OutWidth) = ws
    <3>1. /\ T.InHeight = H /\ T.InWidth = W /\ T.OutHeight = 1 /\ T.OutWidth = 1
      BY <1>3 DEF T
    <3>2. /\ AdaptiveStart(0, H, 1) = 0 /\ AdaptiveEnd(0, H, 1) = H /\ AdaptiveWindow(0, H, 1) = hs
      BY <1>2, GlobalWindow
    <3>3. /\ AdaptiveStart(0, W, 1) = 0 /\ AdaptiveEnd(0, W, 1) = W /\ AdaptiveWindow(0, W, 1) = ws
      BY <1>2, GlobalWindow
    <3> HIDE DEF H, W, hs, ws
    <3> QED
      BY <1>6, <3>1, <3>2, <3>3
  <2>2. H - 0 = H /\ W - 0 = W
    BY <1>2 DEF Positive
  <2> HIDE DEF H, W, hs, ws
  <2>3. AdaptiveAvgPool2dValue(k, i) = Pooled(k, "sum", o, hs, ws, H * W)
    BY <1>4, <2>1, <2>2 DEF AdaptiveAvgPool2dValue, T
  <2> QED
    BY <2>3 DEF Pooled, WindowRead, T
<1>12. Meaning(l, i) = Meant(l, "sum", <<>>, computed, H * W)
  <2>1. Means(l, c) = AdaptiveMeans(l, c, <<1, 1>>)
    <3>1. CASE l.op = "GlobalAveragePool"
      BY <3>1 DEF Means, Binary
    <3>2. CASE l.op = "ReduceMean"
      BY <1>1, <3>2 DEF Means, Binary
    <3> QED
      BY <3>1, <3>2
  <2>2. Overlapping(0, l.x[3], 1) = hs /\ Overlapping(0, l.x[4], 1) = ws
    BY <1>2, GlobalWindow
  <2> DEFINE terms == {<<Input(l, <<c[1], c[2], y, v>>)>> :
                          y \in Overlapping(c[3], l.x[3], <<1, 1>>[1]),
                          v \in Overlapping(c[4], l.x[4], <<1, 1>>[2])}
  <2>3. l.op # "AdaptiveMaxPool2d"
    OBVIOUS
  <2> HIDE DEF hs, ws, H, W
  <2>4. terms = WindowOf(l, n, d, hs, ws)
    BY <1>8, <2>2 DEF WindowOf
  <2> HIDE DEF computed
  <2>5. terms = computed
    BY <1>9, <2>4
  <2>6. AdaptiveMeans(l, c, <<1, 1>>) = Meant(l, "sum", <<>>, terms, Cardinality(terms))
    BY <2>3 DEF AdaptiveMeans
  <2> HIDE DEF terms
  <2> QED
    BY <1>8, <1>10, <2>1, <2>5, <2>6
<1> HIDE DEF computed, H, W
<1> QED
  BY <1>3, <1>11, <1>12 DEF Value, Meant, k

(* The output of a matrix layer at an offset. *)
LEMMA MatrixOutput ==
    ASSUME NEW l, NEW v, NEW i,
           l.x[1] \in Positive \cup {-1} /\ v \in Positive /\ i \in Outputs(l)
               /\ OutputShape(l) \in Seq(Int) /\ Len(OutputShape(l)) = 2
               /\ OutputShape(l)[1] = l.x[1] /\ OutputShape(l)[2] = v
    PROVE  /\ \E c : /\ Meaning(l, i) = Means(l, c) /\ c \in [1 .. 2 -> Nat]
                     /\ c[1] = i \div v /\ c[2] = i % v
           /\ i \div v \in Nat /\ i % v \in 0 .. v - 1
<1> DEFINE out == OutputShape(l)
           s == Concrete(out)
           c == CHOOSE e \in Coordinates(s) : At(s, e) = i
<1>1. Tensor(out, 2) /\ Batch(out) = Batch(l.x)
  <2>1. \A j \in 2 .. 2 : out[j] \in Positive
    OBVIOUS
  <2> QED
    BY <2>1 DEF Tensor, Batch
<1>2. /\ Len(s) = 2 /\ s \in Seq(Positive)
      /\ s[1] = Batch(l.x) /\ s[2] = v /\ Batch(l.x) \in Positive
  <2> DEFINE rank == 2
  <2>1. rank \in Nat \ {0} /\ Tensor(out, rank) /\ rank = 2
    BY <1>1
  <2> HIDE DEF rank, out
  <2>2. /\ Len(s) = rank /\ \A j \in 1 .. rank : s[j] \in Positive
        /\ s[1] = Batch(out) /\ \A j \in 2 .. rank : s[j] = out[j]
    BY <2>1, ConcreteIs
  <2>3. s = [j \in 1 .. 2 |-> s[j]]
    BY <1>1 DEF Concrete, Tensor
  <2> HIDE DEF s
  <2>4. s \in Seq(Positive)
    BY <2>1, <2>2, <2>3
  <2>5. s[2] = out[2]
    BY <2>1, <2>2
  <2> QED
    BY <1>1, <2>1, <2>2, <2>4, <2>5, BatchIs DEF out
<1>3. i \in 0 .. Size(s) - 1
  BY DEF Outputs
<1>4. Meaning(l, i) = Means(l, c)
  BY DEF Meaning
<1> HIDE DEF out
<1>5. /\ c \in [1 .. 2 -> Nat] /\ c[1] = i \div v /\ c[2] = i % v
      /\ i \div v \in 0 .. Batch(l.x) - 1 /\ i % v \in 0 .. v - 1
  <2> HIDE DEF s
  <2>1. /\ c \in [1 .. 2 -> Nat] /\ c[1] = i \div s[2] /\ c[2] = i % s[2]
        /\ i \div s[2] \in 0 .. s[1] - 1 /\ i % s[2] \in 0 .. s[2] - 1
    BY <1>2, <1>3, MatrixElement
  <2> HIDE DEF c
  <2> QED
    BY <1>2, <2>1
<1>6. i \div v \in Nat
  BY <1>2, <1>5 DEF Positive
<1> QED
  BY <1>4, <1>5, <1>6

(* An element of an input matrix. *)
LEMMA MatrixInput ==
    ASSUME NEW l, NEW e, Tensor(l.x, 2) /\ e[1] \in Int /\ e[2] \in Int
    PROVE  Input(l, e) = <<"input", e[1] * l.x[2] + e[2]>> /\ X(l)[2] = l.x[2] /\ l.x[2] \in Positive
<1> DEFINE s == X(l)
<1>1. /\ Len(s) = 2 /\ s[1] \in Int /\ s[2] = l.x[2] /\ s[2] \in Int
  <2> DEFINE rank == 2
  <2>1. rank \in Nat \ {0} /\ Tensor(l.x, rank) /\ rank = 2
    OBVIOUS
  <2> HIDE DEF rank
  <2>2. /\ Len(s) = rank /\ \A j \in 1 .. rank : s[j] \in Positive
        /\ \A j \in 2 .. rank : s[j] = l.x[j]
    BY <2>1, ConcreteIs DEF X
  <2> HIDE DEF s
  <2> QED
    BY <2>1, <2>2 DEF Positive
<1>2. l.x[2] \in Positive
  BY DEF Tensor
<1> HIDE DEF s
<1>3. At(s, e) = e[1] * s[2] + e[2]
  BY <1>1, At2
<1> QED
  BY <1>1, <1>2, <1>3 DEF Input, s

(* Every step of a dense layer computes the output of the layer. *)
LEMMA GemmMeaning ==
    ASSUME NEW l, l.via = "onnx", l.op = "Gemm", WellFormed(l), Supported(l), NEW i \in Outputs(l)
    PROVE  LinearValue(KernelOf(l), i, Given(l)) = Meaning(l, i)
<1> DEFINE k == KernelOf(l)
           T == k.T
           in == l.w[2]
           out == l.w[1]
           r == i \div out
           d == i % out
<1>1. Tensor(l.x, 2) /\ Weights(l.w, 2) /\ l.transB /\ l.bias /\ l.x[2] = in
  <2>1. l.transB /\ l.bias /\ ~ l.transA
    BY DEF Supported, SameExtents
  <2>2. Tensor(l.x, 2) /\ Weights(l.w, 2) /\ l.x[2] = (IF l.transB THEN l.w[2] ELSE l.w[1])
    BY <2>1 DEF WellFormed, Binary, Activations
  <2> QED
    BY <2>1, <2>2, Zenon
<1>2. in \in Positive /\ out \in Positive /\ l.x[1] \in Positive \cup {-1}
  BY <1>1 DEF Tensor, Weights, Positive
<1>3. /\ k.operator = Fn(l)
      /\ T.InDim = in /\ T.OutDim = out
      /\ T.InRowStride = in /\ T.InColStride = 1
      /\ T.WeightRowStride = in /\ T.WeightColStride = 1
      /\ OutputShape(l) \in Seq(Int) /\ Len(OutputShape(l)) = 2
      /\ OutputShape(l)[1] = l.x[1] /\ OutputShape(l)[2] = out
  <2>1. (IF l.transB THEN l.w[2] ELSE l.w[1]) = in /\ (IF l.transB THEN l.w[1] ELSE l.w[2]) = out
    BY <1>1, Zenon
  <2>2. SameExtents(l)
    BY DEF Supported
  <2> HIDE DEF in, out
  <2> QED
    BY <2>1, <2>2, GemmEmitted
<1> HIDE DEF k, T
<1>4. /\ \E c : /\ Meaning(l, i) = Means(l, c) /\ c \in [1 .. 2 -> Nat]
                /\ c[1] = r /\ c[2] = d
      /\ r \in Nat /\ d \in 0 .. out - 1
  <2>1. /\ l.x[1] \in Positive \cup {-1} /\ out \in Positive /\ i \in Outputs(l)
        /\ OutputShape(l) \in Seq(Int) /\ Len(OutputShape(l)) = 2
        /\ OutputShape(l)[1] = l.x[1] /\ OutputShape(l)[2] = out
    BY <1>2, <1>3
  <2> HIDE DEF in, out
  <2> QED
    BY <2>1, MatrixOutput
<1>5. r \in Int /\ d \in Int
  BY <1>2, <1>4 DEF Positive
<1> HIDE DEF r, d
<1>6. PICK c : Meaning(l, i) = Means(l, c) /\ c[1] = r /\ c[2] = d
  BY <1>4
<1> DEFINE computed(j) == <<<<"input", r * in + j * 1>>, <<"weights", d * in + j * 1>>>>
           meant(j) == <<Input(l, <<r, j>>), <<"weights", At(l.w, <<d, j>>)>>>>
           terms == {computed(j) : j \in 0 .. in - 1}
<1>7. ASSUME NEW j \in 0 .. in - 1 PROVE computed(j) = meant(j)
  <2>1. j \in Int /\ in \in Int
    BY <1>2 DEF Positive
  <2>2. Input(l, <<r, j>>) = <<"input", r * in + j>>
    <3> DEFINE e == <<r, j>>
    <3>1. e[1] = r /\ e[2] = j /\ e[1] \in Int /\ e[2] \in Int
      BY <1>5, <2>1
    <3> HIDE DEF e
    <3>2. Input(l, e) = <<"input", e[1] * l.x[2] + e[2]>>
      BY <1>1, <3>1, MatrixInput
    <3> QED
      BY <1>1, <3>1, <3>2 DEF e
  <2>3. At(l.w, <<d, j>>) = d * in + j
    <3> DEFINE e == <<d, j>>
               s == l.w
    <3>1. e[1] = d /\ e[2] = j /\ e[1] \in Int /\ e[2] \in Int
      BY <1>5, <2>1
    <3>2. Len(s) = 2 /\ s[1] \in Int /\ s[2] \in Int /\ s[2] = in
      BY <1>1, <1>2 DEF Weights, Tensor, Positive
    <3> HIDE DEF e, s, in
    <3>3. At(s, e) = e[1] * s[2] + e[2]
      BY <3>1, <3>2, At2
    <3> QED
      BY <3>1, <3>2, <3>3 DEF e, s
  <2>4. r * in + j * 1 = r * in + j /\ d * in + j * 1 = d * in + j
    BY <1>5, <2>1
  <2> QED
    BY <2>2, <2>3, <2>4
<1> HIDE DEF in, out
<1>8. LinearValue(k, i, Given(l)) =
          [operator |-> Fn(l), reduce |-> "sum", own |-> <<<<"bias", d>>>>, terms |-> terms,
           divisor |-> 1]
  <2>1. Optional(Given(l), "bias", d) = <<<<"bias", d>>>>
    BY DEF Optional, Given
  <2>2. i \div k.T.OutDim = r /\ i % k.T.OutDim = d
    BY <1>3 DEF r, d, T
  <2>3. LinearValue(k, i, Given(l)) = Value(k, "sum", Optional(Given(l), "bias", d), terms, 1)
    BY <1>3, <2>2 DEF LinearValue, T
  <2> HIDE DEF terms
  <2> QED
    BY <1>3, <2>1, <2>3 DEF Value
<1>9. Means(l, c) =
          [operator |-> Fn(l), reduce |-> "sum", own |-> <<<<"bias", d>>>>,
           terms |-> {meant(j) : j \in 0 .. in - 1}, divisor |-> 1]
  <2>1. Means(l, c) = GemmMeans(l, c)
    BY DEF Means, Binary
  <2> DEFINE weight(j) == IF l.transB THEN At(l.w, <<c[2], j>>) ELSE At(l.w, <<j, c[2]>>)
             own == IF l.bias THEN <<<<"bias", c[2]>>>> ELSE <<>>
             reads == {<<Input(l, <<c[1], j>>), <<"weights", weight(j)>>>> : j \in 0 .. l.x[2] - 1}
             means == {meant(j) : j \in 0 .. in - 1}
  <2>2. GemmMeans(l, c) = Meant(l, "sum", own, reads, 1)
    <3>1. ~ l.transA /\ l.scale = <<1, 1>>
      BY DEF Supported, SameExtents
    <3> DEFINE operand(j) == IF l.transA THEN <<j, c[1]>> ELSE <<c[1], j>>
               inner == IF l.transA THEN X(l)[1] ELSE l.x[2]
               name == IF l.scale = <<1, 1>> THEN "sum" ELSE "scaled sum"
               any == {<<Input(l, operand(j)), <<"weights", weight(j)>>>> : j \in 0 .. inner - 1}
    <3>2. GemmMeans(l, c) = Meant(l, name, own, any, 1)
      BY DEF GemmMeans
    <3>3. name = "sum"
      BY <3>1, Zenon
    <3>4. inner = l.x[2] /\ \A j : operand(j) = <<c[1], j>>
      BY <3>1, Zenon
    <3>5. any = reads
      <4> HIDE DEF operand, inner, weight
      <4> QED
        BY <3>4
    <3> HIDE DEF name, any, own, reads
    <3> QED
      BY <3>2, <3>3, <3>5
  <2>3. own = <<<<"bias", d>>>>
    <3>1. own = <<<<"bias", c[2]>>>>
      BY <1>1, Zenon
    <3> QED
      BY <1>6, <3>1
  <2>4. reads = means
    <3>1. \A j : weight(j) = At(l.w, <<c[2], j>>)
      BY <1>1, Zenon
    <3>2. \A j : weight(j) = At(l.w, <<d, j>>)
      BY <1>6, <3>1
    <3> HIDE DEF weight
    <3> QED
      BY <1>1, <1>6, <3>2
  <2> HIDE DEF own, reads, means
  <2>5. Means(l, c) = [operator |-> Fn(l), reduce |-> "sum", own |-> <<<<"bias", d>>>>,
                       terms |-> means, divisor |-> 1]
    BY <2>1, <2>2, <2>3, <2>4 DEF Meant
  <2> QED
    BY <2>5 DEF means
<1>10. terms = {meant(j) : j \in 0 .. in - 1}
  <2> HIDE DEF computed, meant
  <2> QED
    BY <1>7
<1> HIDE DEF terms, meant
<1> QED
  BY <1>6, <1>8, <1>9, <1>10 DEF k

(* Every step of a softmax computes a row of the layer's outputs. *)
LEMMA SoftmaxMeaning ==
    ASSUME NEW l, l.via = "onnx", l.op = "Softmax", WellFormed(l), Supported(l),
           NEW r \in Nat, NEW x \in DOMAIN SoftmaxRow(KernelOf(l), r), x \in Outputs(l)
    PROVE  SoftmaxRow(KernelOf(l), r)[x] = Meaning(l, x)
<1> DEFINE k == KernelOf(l)
           T == k.T
           v == l.x[2]
           at(j) == r * v + j * 1
           row == {at(j) : j \in 0 .. v - 1}
           reads == {<<<<"input", y>>>> : y \in row}
<1>1. Tensor(l.x, 2) /\ Len(l.x) = 2 /\ l.axis = 2
  BY DEF WellFormed, Supported, Binary, Activations
<1>2. v \in Positive /\ l.x[1] \in Positive \cup {-1} /\ l.x \in Seq(Int)
  BY <1>1 DEF Tensor
<1>3. /\ k.operator = Fn(l) /\ OutputShape(l) = l.x
      /\ T.ReductionSize = v /\ T.StrideWithinDim = 1 /\ T.OuterStride = v
  <2> DEFINE u == SizeFactors(l)[Len(SizeFactors(l))]
  <2>1. /\ k.operator = Fn(l) /\ OutputShape(l) = l.x
        /\ T.ReductionSize = u /\ T.StrideWithinDim = 1 /\ T.OuterStride = u
        /\ Len(l.x) = 2 => u = l.x[2]
    BY SoftmaxEmitted
  <2> HIDE DEF u, k, T
  <2> QED
    BY <1>1, <2>1
<1> HIDE DEF k, T
<1>4. SoftmaxRow(k, r) = [idx \in row |-> Value(k, "softmax", <<<<"input", idx>>>>, reads, 1)]
  <2>1. k.T.OuterStride = v /\ k.T.StrideWithinDim = 1 /\ k.T.ReductionSize = v
    BY <1>3 DEF T
  <2> HIDE DEF v
  <2> QED
    BY <2>1 DEF SoftmaxRow
<1>5. x \in row
  <2>1. x \in DOMAIN SoftmaxRow(k, r)
    BY DEF k
  <2> HIDE DEF row
  <2> QED
    BY <1>4, <2>1
<1> HIDE DEF v
<1>6. PICK j \in 0 .. v - 1 : x = r * v + j
  <2>1. PICK j \in 0 .. v - 1 : x = r * v + j * 1
    BY <1>5
  <2>2. r * v + j * 1 = r * v + j
    BY <1>2, <2>1 DEF Positive
  <2> QED
    BY <2>1, <2>2
<1>7. x \div v = r /\ x % v = j
  <2>1. r \in Int /\ v \in Nat \ {0}
    BY <1>2 DEF Positive
  <2>2. (r * v + j) \div v = r /\ (r * v + j) % v = j
    BY <2>1, Digits
  <2> QED
    BY <1>6, <2>2
<1>8. PICK c : /\ Meaning(l, x) = Means(l, c) /\ c \in [1 .. 2 -> Nat]
               /\ c[1] = r /\ c[2] = j
  <2>1. /\ l.x[1] \in Positive \cup {-1} /\ v \in Positive /\ x \in Outputs(l)
        /\ OutputShape(l) \in Seq(Int) /\ Len(OutputShape(l)) = 2
        /\ OutputShape(l)[1] = l.x[1] /\ OutputShape(l)[2] = v
    BY <1>1, <1>2, <1>3 DEF v
  <2>2. \E c : /\ Meaning(l, x) = Means(l, c) /\ c \in [1 .. 2 -> Nat]
               /\ c[1] = x \div v /\ c[2] = x % v
    BY <2>1, MatrixOutput
  <2> QED
    BY <1>7, <2>2
<1>9. Input(l, c) = <<"input", x>>
  <2>1. c[1] \in Int /\ c[2] \in Int
    BY <1>8
  <2>2. Input(l, c) = <<"input", c[1] * l.x[2] + c[2]>>
    BY <1>1, <2>1, MatrixInput
  <2> QED
    BY <1>6, <1>8, <2>2 DEF v
<1>10. Along(l, c, 2) = reads
  <2>1. X(l)[2] = v /\ c[1] \in Int /\ c[2] \in Int
    <3>1. c[1] \in Int /\ c[2] \in Int
      BY <1>8
    <3>2. X(l)[2] = l.x[2]
      BY <1>1, <3>1, MatrixInput
    <3> QED
      BY <3>1, <3>2 DEF v
  <2>2. ASSUME NEW q \in 0 .. v - 1
        PROVE  Input(l, [c EXCEPT ![2] = q]) = <<"input", at(q)>>
    <3> DEFINE e == [c EXCEPT ![2] = q]
    <3>1. q \in Int /\ v \in Int
      BY <1>2 DEF Positive
    <3>2. e[1] = r /\ e[2] = q /\ e[1] \in Int /\ e[2] \in Int
      BY <1>8, <3>1
    <3> HIDE DEF e
    <3>3. Input(l, e) = <<"input", e[1] * l.x[2] + e[2]>>
      BY <1>1, <3>2, MatrixInput
    <3>4. r * v + q = r * v + q * 1
      BY <3>1
    <3> QED
      BY <3>2, <3>3, <3>4 DEF e, v
  <2> HIDE DEF at
  <2>3. Along(l, c, 2) = {<<Input(l, [c EXCEPT ![2] = q])>> : q \in 0 .. v - 1}
    BY <2>1 DEF Along
  <2>4. {<<Input(l, [c EXCEPT ![2] = q])>> : q \in 0 .. v - 1} = {<<<<"input", at(q)>>>> : q \in 0 .. v - 1}
    BY <2>2
  <2>5. {<<<<"input", at(q)>>>> : q \in 0 .. v - 1} = reads
    OBVIOUS
  <2> QED
    BY <2>3, <2>4, <2>5
<1>11. Meaning(l, x) = Meant(l, "softmax", <<<<"input", x>>>>, reads, 1)
  <2>1. Means(l, c) = SoftmaxMeans(l, c)
    BY DEF Means, Binary
  <2> HIDE DEF reads
  <2> QED
    BY <1>1, <1>8, <1>9, <1>10, <2>1 DEF SoftmaxMeans
<1> HIDE DEF reads, row
<1>12. SoftmaxRow(k, r)[x] = Value(k, "softmax", <<<<"input", x>>>>, reads, 1)
  BY <1>4, <1>5
<1> QED
  BY <1>3, <1>11, <1>12 DEF Value, Meant, k

(* Every step of an element-wise layer computes the output of the layer.   *)
LEMMA ElementWiseMeaning ==
    ASSUME NEW l, l.via = "onnx", l.op \in Binary \cup Activations, WellFormed(l), Supported(l),
           SizeExpr(l) \in Nat, NEW i \in Outputs(l)
    PROVE  ElementWiseValue(KernelOf(l), i, Operands(l)) = Meaning(l, i)
<1> DEFINE k == KernelOf(l)
           s == X(l)
           c == CHOOSE e \in Coordinates(s) : At(s, e) = i
<1>1. /\ l.op = "Clip" => l.clip = <<0, 6>>
      /\ l.op \in Binary => l.w = l.x
  BY DEF Supported, SameExtents
<1>2. l.x \in Seq(Positive \cup {-1})
  BY DEF WellFormed, Binary, Activations
<1>3. k.operator = Fn(l) /\ OutputShape(l) = l.x
  BY <1>1, ElementWiseEmitted
<1>4. s \in Seq(Positive)
  <2>1. PICK m \in Nat : l.x \in [1 .. m -> Positive \cup {-1}]
    BY <1>2
  <2>2. KBatchSize \in Positive
    BY BuffersAssumption
  <2>3. s = [j \in 1 .. m |-> IF l.x[j] = -1 THEN KBatchSize ELSE l.x[j]]
    BY <2>1 DEF X, Concrete
  <2>4. \A j \in 1 .. m : (IF l.x[j] = -1 THEN KBatchSize ELSE l.x[j]) \in Positive
    BY <2>1, <2>2
  <2> QED
    BY <2>1, <2>3, <2>4
<1>5. Concrete(OutputShape(l)) = s
  BY <1>3 DEF X
<1>6. i \in 0 .. Size(s) - 1
  BY <1>5 DEF Outputs
<1>7. c \in Coordinates(s) /\ At(s, c) = i
  <2> HIDE DEF s
  <2> QED
    BY <1>4, <1>6, TensorElement
<1>8. Meaning(l, i) = Means(l, c)
  BY <1>5 DEF Meaning
<1> HIDE DEF k, c
<1>9. CASE l.op \in Binary
  <2>1. Concrete(l.w) = s
    BY <1>1, <1>9 DEF X
  <2>2. c \in [DOMAIN s -> Int] /\ \A j \in DOMAIN c : s[j] \in Positive /\ c[j] \in Nat /\ c[j] < s[j]
    <3>1. PICK n \in Nat : s \in Seq(Positive) /\ Len(s) = n /\ DOMAIN s = 1 .. n /\ \A j \in 1 .. n : s[j] \in Positive
      <4> HIDE DEF s
      <4> QED
        BY <1>4
    <3> HIDE DEF s
    <3>2. c \in [1 .. n -> Nat] /\ \A j \in 1 .. n : c[j] < s[j]
      BY <1>7, <3>1, CoordinatesAre
    <3> QED
      BY <3>1, <3>2
  <2> HIDE DEF s
  <2>3. [j \in DOMAIN c |-> IF s[j] = 1 THEN 0 ELSE c[j]] = c
    <3>1. \A j \in DOMAIN c : (IF s[j] = 1 THEN 0 ELSE c[j]) = c[j]
      BY <2>2 DEF Positive
    <3> QED
      BY <2>2, <3>1
  <2>4. BinaryMeans(l, c) = Meant(l, "map", <<<<"A", i>>, <<"B", i>>>>, {}, 1)
    <3>1. At(X(l), c) = i /\ Concrete(l.w) = s
      BY <1>7, <2>1 DEF s
    <3> QED
      BY <1>7, <2>3, <3>1 DEF BinaryMeans
  <2>5. Means(l, c) = BinaryMeans(l, c)
    BY <1>9 DEF Means, Binary
  <2>6. Operands(l) = <<"A", "B">>
    BY <1>9 DEF Operands
  <2>7. [j \in 1 .. Len(<<"A", "B">>) |-> <<<<"A", "B">>[j], i>>] = <<<<"A", i>>, <<"B", i>>>>
    OBVIOUS
  <2>8. ElementWiseValue(k, i, Operands(l)) = Value(k, "map", <<<<"A", i>>, <<"B", i>>>>, {}, 1)
    BY <2>6, <2>7 DEF ElementWiseValue
  <2> QED
    BY <1>3, <1>8, <2>4, <2>5, <2>8 DEF Value, Meant, k
<1>10. CASE l.op \notin Binary
  <2>1. Means(l, c) = Meant(l, "map", <<Input(l, c)>>, {}, 1)
    BY <1>10 DEF Means, Binary, Activations
  <2>2. Input(l, c) = <<"input", i>>
    BY <1>7 DEF Input
  <2>3. Operands(l) = <<"input">>
    BY <1>10 DEF Operands
  <2>4. [j \in 1 .. Len(<<"input">>) |-> <<<<"input">>[j], i>>] = <<<<"input", i>>>>
    OBVIOUS
  <2>5. ElementWiseValue(k, i, Operands(l)) = Value(k, "map", <<<<"input", i>>>>, {}, 1)
    BY <2>3, <2>4 DEF ElementWiseValue
  <2> QED
    BY <1>3, <1>8, <2>1, <2>2, <2>5 DEF Value, Meant, k
<1> QED
  BY <1>9, <1>10

(* What the kernel of a node writes in a step: a row, or one output. *)
StepMeans(l, i) ==
    LET computed == Computes(KernelOf(l), i, Given(l), Operands(l))
    IN  \A x \in DOMAIN computed : x \in Outputs(l) => computed[x] = Meaning(l, x)

(* Every step of the kernel of a node computes what the node means. *)
LEMMA CompiledSteps ==
    ASSUME NEW l, l.via = "onnx", WellFormed(l), Supported(l), SizeExpr(l) \in Nat, NEW i \in Nat
    PROVE  StepMeans(l, i)
<1> DEFINE k == KernelOf(l)
           computed == Computes(k, i, Given(l), Operands(l))
<1>1. SameExtents(l)
  BY DEF Supported
<1> SUFFICES ASSUME NEW x \in DOMAIN computed, x \in Outputs(l) PROVE computed[x] = Meaning(l, x)
  BY DEF StepMeans
<1>2. CASE l.op = "Conv"
  <2>1. k.impl = "Conv2d"
    BY <1>1, <1>2, ConvEmitted
  <2> HIDE DEF k
  <2>2. computed = [idx \in {i} |-> Conv2dValue(k, i)]
    BY <2>1 DEF Computes
  <2>3. x = i /\ computed[x] = Conv2dValue(k, i)
    BY <2>2
  <2> HIDE DEF computed
  <2>4. x \in Outputs(l) => Conv2dValue(KernelOf(l), x) = Meaning(l, x)
    BY <1>2, ConvMeaning
  <2> QED
    BY <2>3, <2>4 DEF k
<1>3. CASE l.op \in {"MaxPool", "AveragePool"}
  <2>1. k.impl = (IF l.op = "MaxPool" THEN "MaxPool2d" ELSE "AvgPool2d")
    BY <1>1, <1>3, PoolEmitted
  <2> HIDE DEF k
  <2>2. computed = [idx \in {i} |-> IF l.op = "MaxPool" THEN MaxPool2dValue(k, i) ELSE AvgPool2dValue(k, i)]
    <3>1. CASE l.op = "MaxPool"
      <4>1. k.impl = "MaxPool2d"
        BY <2>1, <3>1
      <4> QED
        BY <3>1, <4>1 DEF Computes
    <3>2. CASE l.op # "MaxPool"
      <4>1. k.impl = "AvgPool2d"
        BY <2>1, <3>2
      <4> QED
        BY <3>2, <4>1 DEF Computes
    <3> QED
      BY <3>1, <3>2
  <2>3. x = i /\ computed[x] = (IF l.op = "MaxPool" THEN MaxPool2dValue(k, i) ELSE AvgPool2dValue(k, i))
    BY <2>2
  <2> HIDE DEF computed
  <2>4. /\ l.op = "MaxPool" => MaxPool2dValue(KernelOf(l), x) = Meaning(l, x)
        /\ l.op = "AveragePool" => AvgPool2dValue(KernelOf(l), x) = Meaning(l, x)
    BY <1>3, PoolMeaning
  <2> QED
    BY <1>3, <2>3, <2>4 DEF k
<1>4. CASE l.op \in {"GlobalAveragePool", "ReduceMean"}
  <2>1. k.impl = "AdaptiveAvgPool2d"
    BY <1>1, <1>4, AdaptiveEmitted
  <2> HIDE DEF k
  <2>2. computed = [idx \in {i} |-> AdaptiveAvgPool2dValue(k, i)]
    BY <2>1 DEF Computes
  <2>3. x = i /\ computed[x] = AdaptiveAvgPool2dValue(k, i)
    BY <2>2
  <2> HIDE DEF computed
  <2>4. AdaptiveAvgPool2dValue(KernelOf(l), x) = Meaning(l, x)
    BY <1>4, AdaptiveMeaning
  <2> QED
    BY <2>3, <2>4 DEF k
<1>5. CASE l.op = "Gemm"
  <2>1. k.impl = "Linear"
    BY <1>1, <1>5, GemmEmitted
  <2> HIDE DEF k
  <2>2. computed = [idx \in {i} |-> LinearValue(k, i, Given(l))]
    BY <2>1 DEF Computes
  <2>3. x = i /\ computed[x] = LinearValue(k, i, Given(l))
    BY <2>2
  <2> HIDE DEF computed
  <2>4. LinearValue(KernelOf(l), x, Given(l)) = Meaning(l, x)
    BY <1>5, GemmMeaning
  <2> QED
    BY <2>3, <2>4 DEF k
<1>6. CASE l.op = "Softmax"
  <2>1. k.impl = "Softmax"
    BY <1>6, SoftmaxEmitted
  <2> HIDE DEF k
  <2>2. computed = SoftmaxRow(k, i)
    BY <2>1 DEF Computes
  <2> HIDE DEF computed
  <2>3. x \in DOMAIN SoftmaxRow(KernelOf(l), i)
    BY <2>2 DEF k
  <2>4. SoftmaxRow(KernelOf(l), i)[x] = Meaning(l, x)
    BY <1>6, <2>3, SoftmaxMeaning
  <2> QED
    BY <2>2, <2>4 DEF k
<1>7. CASE l.op \in Binary \cup Activations
  <2>1. k.impl = "ElementWise"
    <3>1. l.op = "Clip" => l.clip = <<0, 6>>
      BY DEF Supported
    <3> QED
      BY <1>7, <3>1, ElementWiseEmitted
  <2> HIDE DEF k
  <2>2. computed = [idx \in {i} |-> ElementWiseValue(k, i, Operands(l))]
    BY <2>1 DEF Computes
  <2>3. x = i /\ computed[x] = ElementWiseValue(k, i, Operands(l))
    BY <2>2
  <2> HIDE DEF computed
  <2>4. ElementWiseValue(KernelOf(l), x, Operands(l)) = Meaning(l, x)
    BY <1>7, ElementWiseMeaning
  <2> QED
    BY <2>3, <2>4 DEF k
<1> HIDE DEF computed
<1> QED
  BY <1>2, <1>3, <1>4, <1>5, <1>6, <1>7 DEF WellFormed, Nodes

(* A caller who names a kernel himself sees to it that each of its steps   *)
(* computes what he means.                                                 *)
CallsMeanTheLayer ==
    \A l \in Layers : l.via # "onnx" /\ Supported(l) =>
        \A i \in 0 .. NumberOfElements(KernelOf(l)) - 1 : StepMeans(l, i)

(* Then every output that has been written is the one the layer means.     *)
LEMMA WrittenMeansTheLayer ==
    ASSUME layer.via = "onnx" \/ CallsMeanTheLayer, IInv, Supported(layer)
    PROVE  \A x \in DOMAIN output : output[x] = Meaning(layer, x)
<1> TAKE x \in DOMAIN output
<1> DEFINE row(i) == Computes(KernelOf(layer), i, Given(layer), Operands(layer))
<1>1. SameExtents(layer)
  BY DEF Supported
<1>2. /\ layer \in Layers /\ ~(layer.via = "onnx" /\ Refused(layer))
      /\ \E i \in 0 .. NumberOfElements(KernelOf(layer)) - 1 :
            RowWithin(layer, row(i)) /\ x \in DOMAIN row(i) /\ output[x] = row(i)[x]
  BY <1>1, WrittenByStep
<1>3. PICK i \in 0 .. NumberOfElements(KernelOf(layer)) - 1 :
          RowWithin(layer, row(i)) /\ x \in DOMAIN row(i) /\ output[x] = row(i)[x]
  BY <1>2
<1>4. StepMeans(layer, i)
  <2>1. CASE layer.via = "onnx"
    <3>1. WellFormed(layer) /\ SizeExpr(layer) \in Nat
      BY <1>2, <2>1, BuffersAssumption, LayersAssumption
    <3>2. i \in Nat
      <4>1. NumberOfElements(KernelOf(layer)) \in Nat
        BY <1>2, LayersAssumption
      <4> QED
        BY <4>1
    <3> QED
      BY <2>1, <3>1, <3>2, CompiledSteps
  <2>2. CASE layer.via # "onnx"
    BY <1>2, <2>2 DEF CallsMeanTheLayer
  <2> QED
    BY <2>1, <2>2
<1>5. x \in Outputs(layer)
  BY <1>3 DEF RowWithin
<1> QED
  BY <1>3, <1>4, <1>5 DEF StepMeans

(* Every output a launch of a compiled layer has written is the value the  *)
(* ONNX operator of its node has there, for every layer of the supported   *)
(* kind, extent, batch, work division and order of the threads: nothing    *)
(* between the parser and the store into the output buffer loses, moves    *)
(* or repeats a term.                                                      *)
THEOREM CompiledOutputsAreTheLayers == Spec => [](layer.via = "onnx" => OutputsAreTheLayers)
<1>1. IInv => (layer.via = "onnx" => OutputsAreTheLayers)
  BY WrittenMeansTheLayer DEF OutputsAreTheLayers
<1> QED
  BY <1>1, LaunchInvariant, PTL

(* The order of the threads and the grid have no say in the values either  *)
(* when a caller names the kernel himself: if each step of that kernel,    *)
(* taken alone, computes what the call means, every output of every        *)
(* launch is the one the layer means.                                      *)
THEOREM OutputsFollowTheCalls ==
    ASSUME CallsMeanTheLayer
    PROVE  Spec => []OutputsAreTheLayers
<1>1. IInv => OutputsAreTheLayers
  BY WrittenMeansTheLayer DEF OutputsAreTheLayers
<1> QED
  BY <1>1, LaunchInvariant, PTL
=============================================================================
