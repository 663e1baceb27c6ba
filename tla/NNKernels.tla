----------------------------- MODULE NNKernels -----------------------------
(***************************************************************************)
(* The neural-network kernels of include/ffx/nn, as functions of their     *)
(* template arguments.  An alias binds its arguments to the parameters of  *)
(* the kernel by position; step i of a kernel's loop computes one output,  *)
(* or one row of outputs.  A value is symbolic: which elements of which    *)
(* buffers it is made of, what the sum is divided by and which functional  *)
(* is applied to it.  Floating-point arithmetic is abstracted; every       *)
(* offset is computed as in the source.                                    *)
(***************************************************************************)
EXTENDS Integers, Sequences

CONSTANT WordSize      \* size_t arithmetic is modulo WordSize
ASSUME WordSizeAssumption == WordSize \in Nat \ {0}

(***************************************************************************)
(* Aliases: arguments bound to parameters.  The last parameters may be     *)
(* left to their defaults.                                                 *)
(***************************************************************************)
Bind(parameters, args, defaults) ==
    LET missing == Len(parameters) - Len(args)
        values == args \o SubSeq(defaults, Len(defaults) - missing + 1, Len(defaults))
    IN  [name \in {parameters[j] : j \in DOMAIN parameters} |->
            values[CHOOSE j \in DOMAIN parameters : parameters[j] = name]]

(* The functional of an alias: that of LeakyReLU takes its slope from the  *)
(* two arguments after the kernel's own.                                   *)
Functional(act, args, arity) ==
    IF act # "LeakyReLU" THEN <<act>>
    ELSE <<act>> \o (IF Len(args) > arity THEN SubSeq(args, arity + 1, arity + 2) ELSE <<1, 100>>)

Kernel(impl, act, args, parameters, defaults) ==
    [impl |-> impl, operator |-> Functional(act, args, Len(parameters)),
     T |-> Bind(parameters, args, defaults)]

Image == <<"BatchSize", "InHeight", "InWidth", "InChannels">>
Window == <<"KernelHeight", "KernelWidth", "StrideHeight", "StrideWidth",
            "PaddingHeight", "PaddingWidth">>

Conv2d(act, args) ==
    Kernel("Conv2d", act, args, Image \o <<"OutChannels">> \o Window \o <<"Bias">>,
           <<1, 1, 0, 0, TRUE>>)

MaxPool2d(act, args) ==
    Kernel("MaxPool2d", act, args, Image \o Window, <<args[5], args[6], 0, 0>>)

AvgPool2d(act, args) ==
    Kernel("AvgPool2d", act, args, Image \o Window, <<1, 1, 0, 0>>)

AdaptiveAvgPool2d(act, args) ==
    Kernel("AdaptiveAvgPool2d", act, args, Image \o <<"OutHeight", "OutWidth">>, <<>>)

AdaptiveMaxPool2d(act, args) ==
    Kernel("AdaptiveMaxPool2d", act, args, Image \o <<"OutHeight", "OutWidth">>, <<>>)

(* ContiguousLinear: rows of the input and of the weights one after the other. *)
Linear(act, args) ==
    [Kernel("Linear", "Identity", <<args[1], args[2], args[3], args[2], 1, args[2], 1>>,
            <<"NumRows", "InDim", "OutDim", "InRowStride", "InColStride",
              "WeightRowStride", "WeightColStride">>, <<>>)
        EXCEPT !.operator = Functional(act, args, 3)]

SoftmaxImpl(args) ==
    Kernel("Softmax", "Identity", args,
           <<"NumReductions", "ReductionSize", "StrideWithinDim", "OuterStride">>,
           <<1, args[2] * (IF Len(args) > 2 THEN args[3] ELSE 1)>>)

(* Softmax1D to Softmax4D: every dimension but the last is one of reductions. *)
SoftmaxND(args) ==
    LET rows[j \in 0 .. Len(args) - 1] == IF j = 0 THEN 1 ELSE args[j] * rows[j - 1]
        size == args[Len(args)]
    IN  SoftmaxImpl(<<rows[Len(args) - 1], size, 1, size>>)

Softmax(args) == SoftmaxImpl(<<args[1], args[2], 1, args[2]>>)

MatMul(args) ==
    Kernel("MatMul", "Identity",
           args \o <<args[2] * args[3], args[3], 1, args[3] * args[4], args[4], 1>>,
           <<"BatchSize", "M", "K", "N", "A_BatchStride", "A_RowStride", "A_ColStride",
             "B_BatchStride", "B_RowStride", "B_ColStride">>, <<>>)

LayerNorm(args) == Kernel("LayerNorm", "Identity", args, <<"NumTokens", "EmbeddingDim">>, <<>>)
RMSNorm(args) == Kernel("RMSNorm", "Identity", args, <<"NumTokens", "EmbeddingDim">>, <<>>)

BatchNorm2d(args) ==
    Kernel("BatchNorm2d", "Identity", args, <<"BatchSize", "Channels", "Height", "Width">>, <<>>)

ElementWise(operator, args) == Kernel("ElementWise", operator, args, <<"Size">>, <<>>)

(***************************************************************************)
(* Values.  A read is <<buffer, offset>>; terms is the set of products     *)
(* that are reduced, own the reads of the output's own elements.           *)
(***************************************************************************)
Value(k, reduce, own, terms, divisor) ==
    [operator |-> k.operator, reduce |-> reduce, own |-> own, terms |-> terms,
     divisor |-> divisor]

Reads(v) ==
    {v.own[j] : j \in DOMAIN v.own} \cup UNION {{p[j] : j \in DOMAIN p} : p \in v.terms}

(* A pointer that may be null. *)
Optional(arguments, buffer, offset) ==
    IF buffer \in arguments THEN <<<<buffer, offset>>>> ELSE <<>>

(***************************************************************************)
(* Two-dimensional windows.                                                *)
(***************************************************************************)
OutExtent(in, kernel, stride, padding) == ((in + 2 * padding - kernel) % WordSize) \div stride + 1

OutHeight(T) ==
    IF "OutHeight" \in DOMAIN T THEN T.OutHeight
    ELSE OutExtent(T.InHeight, T.KernelHeight, T.StrideHeight, T.PaddingHeight)

OutWidth(T) ==
    IF "OutWidth" \in DOMAIN T THEN T.OutWidth
    ELSE OutExtent(T.InWidth, T.KernelWidth, T.StrideWidth, T.PaddingWidth)

(* The output a step of the loop computes. *)
Decode(i, channels, height, width) ==
    [w |-> i % width, h |-> (i \div width) % height,
     c |-> ((i \div width) \div height) % channels,
     n |-> ((i \div width) \div height) \div channels]

InputOffset(T, n, c, h, w) ==
    n * T.InChannels * T.InHeight * T.InWidth + c * T.InHeight * T.InWidth + h * T.InWidth + w

(* For a mutant: only the upper end of the input is not checked. *)
TapsUnchecked(out, stride, kernel, padding, in) ==
    {<<k, (out * stride + k) - padding>> : k \in
        {k \in 0 .. kernel - 1 : (out * stride + k) - padding >= 0}}

(* The taps k of a window that fall inside the input, and where they fall. *)
Taps(out, stride, kernel, padding, in) ==
    {<<k, (out * stride + k) - padding>> : k \in
        {k \in 0 .. kernel - 1 : (out * stride + k) - padding \in 0 .. in - 1}}

(* AvgPool2d: the end of the window is computed in size_t. *)
Clamped(out, stride, kernel, padding, in) ==
    LET start == out * stride - padding
        end == (start + kernel) % WordSize
    IN  (IF start < 0 THEN 0 ELSE start) .. (IF end < in THEN end ELSE in) - 1

(* The adaptive pools: from floor(out * in / size) to ceil((out + 1) * in / size). *)
AdaptiveStart(out, in, size) == (out * in) \div size
AdaptiveEndFloor(out, in, size) == ((out + 1) * in) \div size    \* for a mutant

AdaptiveEnd(out, in, size) == ((out + 1) * in + size - 1) \div size
AdaptiveWindow(out, in, size) == AdaptiveStart(out, in, size) .. AdaptiveEnd(out, in, size) - 1

Conv2dValue(k, i) ==
    LET T == k.T
        o == Decode(i, T.OutChannels, OutHeight(T), OutWidth(T))
        weight(c, kh, kw) ==
            o.c * T.InChannels * T.KernelHeight * T.KernelWidth +
            c * T.KernelHeight * T.KernelWidth + kh * T.KernelWidth + kw
    IN  Value(k, "sum", IF T.Bias THEN <<<<"bias", o.c>>>> ELSE <<>>,
              {<<<<"input", InputOffset(T, o.n, c, h[2], w[2])>>,
                 <<"weights", weight(c, h[1], w[1])>>>> :
                 c \in 0 .. T.InChannels - 1,
                 h \in Taps(o.h, T.StrideHeight, T.KernelHeight, T.PaddingHeight, T.InHeight),
                 w \in Taps(o.w, T.StrideWidth, T.KernelWidth, T.PaddingWidth, T.InWidth)}, 1)

Pooled(k, reduce, o, hs, ws, divisor) ==
    Value(k, reduce, <<>>, {<<<<"input", InputOffset(k.T, o.n, o.c, h, w)>>>> :
                           h \in hs, w \in ws}, divisor)

MaxPool2dValue(k, i) ==
    LET T == k.T
        o == Decode(i, T.InChannels, OutHeight(T), OutWidth(T))
        In(taps) == {t[2] : t \in taps}
    IN  Pooled(k, "max", o, In(Taps(o.h, T.StrideHeight, T.KernelHeight, T.PaddingHeight, T.InHeight)),
                     In(Taps(o.w, T.StrideWidth, T.KernelWidth, T.PaddingWidth, T.InWidth)), 1)

AvgPool2dValue(k, i) ==
    LET T == k.T
        o == Decode(i, T.InChannels, OutHeight(T), OutWidth(T))
    IN  Pooled(k, "sum", o, Clamped(o.h, T.StrideHeight, T.KernelHeight, T.PaddingHeight, T.InHeight),
                     Clamped(o.w, T.StrideWidth, T.KernelWidth, T.PaddingWidth, T.InWidth),
               T.KernelHeight * T.KernelWidth)

AdaptiveAvgPool2dValue(k, i) ==
    LET T == k.T
        o == Decode(i, T.InChannels, T.OutHeight, T.OutWidth)
        size(out, in, n) == AdaptiveEnd(out, in, n) - AdaptiveStart(out, in, n)
    IN  Pooled(k, "sum", o, AdaptiveWindow(o.h, T.InHeight, T.OutHeight),
                     AdaptiveWindow(o.w, T.InWidth, T.OutWidth),
               size(o.h, T.InHeight, T.OutHeight) * size(o.w, T.InWidth, T.OutWidth))

AdaptiveMaxPool2dValue(k, i) ==
    LET T == k.T
        o == Decode(i, T.InChannels, T.OutHeight, T.OutWidth)
    IN  Pooled(k, "max", o, AdaptiveWindow(o.h, T.InHeight, T.OutHeight),
                     AdaptiveWindow(o.w, T.InWidth, T.OutWidth), 1)

(***************************************************************************)
(* Matrices, normalisations and element-wise operators.  given is the set  *)
(* of the pointer arguments that are not null.                             *)
(***************************************************************************)
LinearValue(k, i, given) ==
    LET T == k.T
        r == i \div T.OutDim
        c == i % T.OutDim
    IN  Value(k, "sum", Optional(given, "bias", c),
              {<<<<"input", r * T.InRowStride + j * T.InColStride>>,
                 <<"weights", c * T.WeightRowStride + j * T.WeightColStride>>>> :
                 j \in 0 .. T.InDim - 1}, 1)

MatMulValue(k, i) ==
    LET T == k.T
        slice == T.M * T.N
        b == i \div slice
        m == (i % slice) \div T.N
        n == (i % slice) % T.N
    IN  Value(k, "sum", <<>>,
              {<<<<"A", b * T.A_BatchStride + m * T.A_RowStride + j * T.A_ColStride>>,
                 <<"B", b * T.B_BatchStride + j * T.B_RowStride + n * T.B_ColStride>>>> :
                 j \in 0 .. T.K - 1}, 1)

(* The step of row r writes the whole row: a function from offsets to values. *)
SoftmaxRow(k, r) ==
    LET at(j) == r * k.T.OuterStride + j * k.T.StrideWithinDim
        row == {at(j) : j \in 0 .. k.T.ReductionSize - 1}
    IN  [idx \in row |-> Value(k, "softmax", <<<<"input", idx>>>>, {<<<<"input", x>>>> : x \in row}, 1)]

LayerNormRow(k, t, given) ==
    LET size == k.T.EmbeddingDim
        row == {t * size + d : d \in 0 .. size - 1}
    IN  [idx \in row |->
            Value(k, "layer_norm", <<<<"input", idx>>>> \o Optional(given, "gamma", idx - t * size)
                                         \o Optional(given, "beta", idx - t * size),
                  {<<<<"input", x>>>> : x \in row}, size)]

RMSNormRow(k, t, given) ==
    LET size == k.T.EmbeddingDim
        row == {t * size + d : d \in 0 .. size - 1}
    IN  [idx \in row |->
            Value(k, "rms_norm", <<<<"input", idx>>>> \o Optional(given, "gamma", idx - t * size),
                  {<<<<"input", x>>>> : x \in row}, size)]

BatchNorm2dValue(k, i) ==
    LET channel == (i \div (k.T.Height * k.T.Width)) % k.T.Channels
    IN  Value(k, "batch_norm", <<<<"input", i>>, <<"mean", channel>>, <<"variance", channel>>,
                   <<"gemma", channel>>, <<"beta", channel>>>>, {}, 1)

(* Every argument before the output is an operand. *)
ElementWiseValue(k, i, operands) ==
    Value(k, "map", [j \in 1 .. Len(operands) |-> <<operands[j], i>>], {}, 1)

(***************************************************************************)
(* The loop of a kernel: its number of steps, and what step i writes.      *)
(***************************************************************************)
RowKernels == {"Softmax", "LayerNorm", "RMSNorm"}
Impls == RowKernels \cup {"Conv2d", "MaxPool2d", "AvgPool2d", "AdaptiveAvgPool2d", "AdaptiveMaxPool2d",
                         "Linear", "MatMul", "BatchNorm2d", "ElementWise"}

NumberOfElements(k) ==
    LET T == k.T IN
    CASE k.impl = "Conv2d" -> T.BatchSize * T.OutChannels * OutHeight(T) * OutWidth(T)
      [] k.impl \in {"MaxPool2d", "AvgPool2d", "AdaptiveAvgPool2d", "AdaptiveMaxPool2d"} ->
            T.BatchSize * T.InChannels * OutHeight(T) * OutWidth(T)
      [] k.impl = "Linear" -> T.NumRows * T.OutDim
      [] k.impl = "MatMul" -> T.BatchSize * T.M * T.N
      [] k.impl = "Softmax" -> T.NumReductions
      [] k.impl \in {"LayerNorm", "RMSNorm"} -> T.NumTokens
      [] k.impl = "BatchNorm2d" -> T.BatchSize * T.Channels * T.Height * T.Width
      [] k.impl = "ElementWise" -> T.Size

Computes(k, i, given, operands) ==
    CASE k.impl = "Softmax" -> SoftmaxRow(k, i)
      [] k.impl = "LayerNorm" -> LayerNormRow(k, i, given)
      [] k.impl = "RMSNorm" -> RMSNormRow(k, i, given)
      [] k.impl = "Conv2d" -> [idx \in {i} |-> Conv2dValue(k, i)]
      [] k.impl = "MaxPool2d" -> [idx \in {i} |-> MaxPool2dValue(k, i)]
      [] k.impl = "AvgPool2d" -> [idx \in {i} |-> AvgPool2dValue(k, i)]
      [] k.impl = "AdaptiveAvgPool2d" -> [idx \in {i} |-> AdaptiveAvgPool2dValue(k, i)]
      [] k.impl = "AdaptiveMaxPool2d" -> [idx \in {i} |-> AdaptiveMaxPool2dValue(k, i)]
      [] k.impl = "Linear" -> [idx \in {i} |-> LinearValue(k, i, given)]
      [] k.impl = "MatMul" -> [idx \in {i} |-> MatMulValue(k, i)]
      [] k.impl = "BatchNorm2d" -> [idx \in {i} |-> BatchNorm2dValue(k, i)]
      [] k.impl = "ElementWise" -> [idx \in {i} |-> ElementWiseValue(k, i, operands)]
=============================================================================
