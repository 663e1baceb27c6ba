--------------------------- MODULE LayerSemantics ---------------------------
(***************************************************************************)
(* What a layer means, by the coordinates of its tensors: the ONNX         *)
(* operators the front end accepts and the modules of PyTorch the library  *)
(* has kernels for.  A tensor is its sequence of dimensions, its elements  *)
(* laid out in row-major order; values have the form of NNKernels.         *)
(***************************************************************************)
EXTENDS NNKernels, FiniteSets

CONSTANTS Layers,       \* the layers that are compiled or called directly
          KBatchSize    \* the batch size a dynamic model is built for

(* The attributes of a layer; those an operator does not have are unused.  *)
(* pads are the rows and columns the operator pads with, those of auto_pad *)
(* and the last ones of ceil_mode among them; autoPad says that the pads   *)
(* attribute does not name them.  scale is <<alpha, beta>> of a Gemm.      *)
(* dynamic and folded are not of the layer but of its model: some input    *)
(* has a dynamic batch; shape_folding has run, at -O1 and above.           *)
Layer == [op |-> "Relu", via |-> "onnx", x |-> <<>>, w |-> <<>>, type |-> <<>>,
          act |-> "Identity", slope |-> <<1, 100>>,
          bias |-> TRUE, given |-> {}, transB |-> TRUE, axis |-> 1,
          clip |-> <<0, 6>>, kernel |-> <<1, 1>>, strides |-> <<1, 1>>, pads |-> <<0, 0, 0, 0>>,
          autoPad |-> FALSE, dilation |-> 1, group |-> 1, includePad |-> FALSE, axes |-> <<2, 3>>,
          transA |-> FALSE, scale |-> <<1, 1>>, dynamic |-> FALSE, folded |-> FALSE]

Binary == {"Add", "Sub", "Mul", "Div"}
Activations == {"Relu", "LeakyRelu", "Gelu", "Sigmoid", "Tanh", "Clip"}

(***************************************************************************)
(* Tensors.                                                                *)
(***************************************************************************)
Concrete(shape) == [j \in DOMAIN shape |-> IF shape[j] = -1 THEN KBatchSize ELSE shape[j]]

At(shape, c) ==
    LET at[j \in 0 .. Len(shape)] == IF j = 0 THEN 0 ELSE at[j - 1] * shape[j] + c[j]
    IN  at[Len(shape)]

Size(shape) ==
    LET size[j \in 0 .. Len(shape)] == IF j = 0 THEN 1 ELSE size[j - 1] * shape[j]
    IN  size[Len(shape)]

Coordinates(shape) ==
    LET widest == CHOOSE d \in {shape[j] : j \in DOMAIN shape} :
                    \A j \in DOMAIN shape : shape[j] <= d
    IN  {c \in [DOMAIN shape -> 0 .. widest - 1] : \A j \in DOMAIN shape : c[j] < shape[j]}

X(l) == Concrete(l.x)

(***************************************************************************)
(* The dimensions of the output.                                           *)
(***************************************************************************)
Spatial(in, kernel, stride, dilation, before, after) ==
    (in + before + after - dilation * (kernel - 1) - 1) \div stride + 1

Windowed(l, kh, kw) ==
    <<Spatial(l.x[3], kh, l.strides[1], l.dilation, l.pads[1], l.pads[3]),
      Spatial(l.x[4], kw, l.strides[2], l.dilation, l.pads[2], l.pads[4])>>

OutputShape(l) ==
    CASE l.op = "Conv" -> <<l.x[1], l.w[1]>> \o Windowed(l, l.w[3], l.w[4])
      [] l.op \in {"MaxPool", "AveragePool"} ->
            <<l.x[1], l.x[2]>> \o Windowed(l, l.kernel[1], l.kernel[2])
      [] l.op = "GlobalAveragePool" -> <<l.x[1], l.x[2], 1, 1>>
      [] l.op = "ReduceMean" -> IF l.axes = <<>> THEN <<1, 1, 1, 1>> ELSE <<l.x[1], l.x[2], 1, 1>>
      [] l.op \in {"AdaptiveAvgPool2d", "AdaptiveMaxPool2d"} -> <<l.x[1], l.x[2]>> \o l.kernel
      [] l.op = "Gemm" -> <<IF l.transA THEN l.x[2] ELSE l.x[1], IF l.transB THEN l.w[1] ELSE l.w[2]>>
      [] l.op = "MatMul" -> <<l.x[1], l.x[2], l.w[3]>>
      [] OTHER -> l.x

(***************************************************************************)
(* The elements a window covers along one axis.                            *)
(***************************************************************************)
Covered(out, in, kernel, stride, dilation, pad) ==
    {c \in (0 .. kernel - 1) \X (0 .. in - 1) : c[2] + pad = out * stride + c[1] * dilation}

(* Cells [y, y+1) of in, [out, out+1) of size, overlap once both are scaled alike. *)
Overlapping(out, in, size) == {y \in 0 .. in - 1 : y * size < (out + 1) * in /\ (y + 1) * size > out * in}

(* The function applied to the result: ReLU6 is the clip to [0, 6]. *)
Fn(l) ==
    CASE l.act = "LeakyReLU" -> <<l.act>> \o l.slope
      [] l.op = "Clip" /\ l.clip # <<0, 6>> -> <<"Clip">> \o l.clip
      [] OTHER -> <<l.act>>

Meant(l, reduce, own, terms, divisor) ==
    [operator |-> Fn(l), reduce |-> reduce, own |-> own, terms |-> terms, divisor |-> divisor]

Input(l, c) == <<"input", At(X(l), c)>>

ConvMeans(l, c) ==
    LET kernels == l.w[1] \div l.group           \* output channels of a group
        rows == Covered(c[3], l.x[3], l.w[3], l.strides[1], l.dilation, l.pads[1])
        cols == Covered(c[4], l.x[4], l.w[4], l.strides[2], l.dilation, l.pads[2])
        from(ch) == (c[2] \div kernels) * l.w[2] + ch
    IN  Meant(l, "sum", IF l.bias THEN <<<<"bias", c[2]>>>> ELSE <<>>,
              {<<Input(l, <<c[1], from(ch), h[2], v[2]>>),
                 <<"weights", At(l.w, <<c[2], ch, h[1], v[1]>>)>>>> :
                 ch \in 0 .. l.w[2] - 1, h \in rows, v \in cols}, 1)

PoolMeans(l, c) ==
    LET rows == Covered(c[3], l.x[3], l.kernel[1], l.strides[1], l.dilation, l.pads[1])
        cols == Covered(c[4], l.x[4], l.kernel[2], l.strides[2], l.dilation, l.pads[2])
        terms == {<<Input(l, <<c[1], c[2], h[2], v[2]>>)>> : h \in rows, v \in cols}
    IN  IF l.op = "MaxPool" THEN Meant(l, "max", <<>>, terms, 1)
        ELSE Meant(l, "sum", <<>>, terms,
                   IF l.includePad THEN l.kernel[1] * l.kernel[2] ELSE Cardinality(terms))

AdaptiveMeans(l, c, size) ==
    LET terms == {<<Input(l, <<c[1], c[2], y, v>>)>> :
                    y \in Overlapping(c[3], l.x[3], size[1]), v \in Overlapping(c[4], l.x[4], size[2])}
    IN  IF l.op = "AdaptiveMaxPool2d" THEN Meant(l, "max", <<>>, terms, 1)
        ELSE Meant(l, "sum", <<>>, terms, Cardinality(terms))

(* A sum scaled by alpha and beta is not the plain one. *)
GemmMeans(l, c) ==
    LET weight(j) == IF l.transB THEN At(l.w, <<c[2], j>>) ELSE At(l.w, <<j, c[2]>>)
        operand(j) == IF l.transA THEN <<j, c[1]>> ELSE <<c[1], j>>
        inner == IF l.transA THEN X(l)[1] ELSE l.x[2]
    IN  Meant(l, IF l.scale = <<1, 1>> THEN "sum" ELSE "scaled sum",
              IF l.bias THEN <<<<"bias", c[2]>>>> ELSE <<>>,
              {<<Input(l, operand(j)), <<"weights", weight(j)>>>> : j \in 0 .. inner - 1}, 1)

MatMulMeans(l, c) ==
    Meant(l, "sum", <<>>, {<<<<"A", At(l.x, <<c[1], c[2], j>>)>>, <<"B", At(l.w, <<c[1], j, c[3]>>)>>>> :
                              j \in 0 .. l.x[3] - 1}, 1)

(* The vector of c along an axis. *)
Along(l, c, axis) == {<<Input(l, [c EXCEPT ![axis] = j])>> : j \in 0 .. X(l)[axis] - 1}

SoftmaxMeans(l, c) == Meant(l, "softmax", <<Input(l, c)>>, Along(l, c, l.axis), 1)

NormMeans(l, c) ==
    LET optional(name) == IF name \in l.given THEN <<<<name, c[Len(c)]>>>> ELSE <<>>
    IN  Meant(l, IF l.op = "LayerNorm" THEN "layer_norm" ELSE "rms_norm",
              <<Input(l, c)>> \o optional("gamma") \o
                  (IF l.op = "LayerNorm" THEN optional("beta") ELSE <<>>),
              Along(l, c, Len(c)), X(l)[Len(c)])

BatchNormMeans(l, c) ==
    Meant(l, "batch_norm", <<Input(l, c), <<"mean", c[2]>>, <<"variance", c[2]>>,
                             <<"gemma", c[2]>>, <<"beta", c[2]>>>>, {}, 1)

(* A dimension of 1 of the second operand is broadcast. *)
BinaryMeans(l, c) ==
    LET w == Concrete(l.w) IN
    Meant(l, "map", <<<<"A", At(X(l), c)>>,
                      <<"B", At(w, [j \in DOMAIN c |-> IF w[j] = 1 THEN 0 ELSE c[j]])>>>>, {}, 1)

Means(l, c) ==
    CASE l.op = "Conv" -> ConvMeans(l, c)
      [] l.op \in {"MaxPool", "AveragePool"} -> PoolMeans(l, c)
      [] l.op = "GlobalAveragePool" -> AdaptiveMeans(l, c, <<1, 1>>)
      [] l.op = "ReduceMean" ->
            IF l.axes = <<>>
            THEN Meant(l, "sum", <<>>, {<<Input(l, d)>> : d \in Coordinates(X(l))}, Size(X(l)))
            ELSE AdaptiveMeans(l, c, <<1, 1>>)
      [] l.op \in {"AdaptiveAvgPool2d", "AdaptiveMaxPool2d"} -> AdaptiveMeans(l, c, l.kernel)
      [] l.op = "Gemm" -> GemmMeans(l, c)
      [] l.op = "MatMul" -> MatMulMeans(l, c)
      [] l.op = "Softmax" -> SoftmaxMeans(l, c)
      [] l.op \in {"LayerNorm", "RMSNorm"} -> NormMeans(l, c)
      [] l.op = "BatchNorm2d" -> BatchNormMeans(l, c)
      [] l.op \in Binary -> BinaryMeans(l, c)
      [] OTHER -> Meant(l, "map", <<Input(l, c)>>, {}, 1)

(* Every output of a layer, by its offset. *)
Outputs(l) == 0 .. Size(Concrete(OutputShape(l))) - 1

Meaning(l, i) ==
    LET shape == Concrete(OutputShape(l))
    IN  Means(l, CHOOSE c \in Coordinates(shape) : At(shape, c) = i)
=============================================================================
