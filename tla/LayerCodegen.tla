---------------------------- MODULE LayerCodegen ----------------------------
(***************************************************************************)
(* How one layer of a model becomes a kernel type: the ONNX front end      *)
(* reads the attributes of a node into the fields of an operator, the      *)
(* emitter of the operator writes them between angle brackets, and the     *)
(* C++ compiler binds them to the parameters of the alias by position.     *)
(***************************************************************************)
EXTENDS LayerSemantics

(***************************************************************************)
(* The front end: ONNX node to operator fields.                            *)
(***************************************************************************)
(* The pads attribute, or its default; auto_pad and ceil_mode are not read. *)
PadsRead(l) == IF l.autoPad THEN <<0, 0, 0, 0>> ELSE l.pads

Geometry(l, kernel) ==
    [in_height |-> l.x[3], in_width |-> l.x[4],
     kernel_height |-> kernel[1], kernel_width |-> kernel[2],
     stride_height |-> l.strides[1], stride_width |-> l.strides[2],
     padding_height |-> PadsRead(l)[1], padding_width |-> PadsRead(l)[2]]

ParseConv2d(l) ==
    [out_channels |-> l.w[1], in_channels |-> l.w[2],
     geometry |-> Geometry(l, <<l.w[3], l.w[4]>>)]

ParseMaxPool(l) == [in_channels |-> l.x[2], geometry |-> Geometry(l, l.kernel)]
ParseAveragePool(l) == [in_channels |-> l.x[2], geometry |-> Geometry(l, l.kernel)]

ParseGlobalAvgPool(l) ==
    [in_channels |-> l.x[2], in_height |-> l.x[3], in_width |-> l.x[4],
     out_height |-> 1, out_width |-> 1]

SpatialReduction(l) == l.axes \in {<<2, 3>>, <<-2, -1>>, <<>>}

ParseReduceMean(l) ==
    [in_channels |-> l.x[2], in_height |-> l.x[3], in_width |-> l.x[4],
     out_height |-> 1, out_width |-> 1]

ParseGemm(l) ==
    IF l.transB THEN [out_features |-> l.w[1], in_features |-> l.w[2]]
    ELSE [in_features |-> l.w[1], out_features |-> l.w[2]]

Refused(l) == l.op = "ReduceMean" /\ ~SpatialReduction(l)

(***************************************************************************)
(* The expressions of the generated code.                                  *)
(***************************************************************************)
(* One batch size for the model, decided by its inputs. *)
BatchSize(l) == IF l.dynamic THEN -1 ELSE 1

BatchExprStatic(l) == 1    \* for a mutant: the batch is never dynamic

BatchExpr(l) == IF BatchSize(l) <= 0 THEN KBatchSize ELSE BatchSize(l)

(* All dimensions but the first become one, if they are known. *)
FoldedShape(shape) ==
    IF Len(shape) <= 1 \/ \E j \in 2 .. Len(shape) : shape[j] <= 0 THEN shape
    ELSE <<shape[1], Size(Tail(shape))>>

SizeFactors(l) ==
    LET shape == IF l.folded THEN FoldedShape(OutputShape(l)) ELSE OutputShape(l)
    IN  [j \in DOMAIN shape |-> IF shape[j] = -1 THEN KBatchSize ELSE shape[j]]

SizeExpr(l) == Size(SizeFactors(l))

(***************************************************************************)
(* The emitters: operator fields to kernel type.                           *)
(***************************************************************************)
KernelType(base, act, args) == [base |-> base, act |-> act, args |-> args]

Slope(l) == IF l.act = "LeakyReLU" THEN l.slope ELSE <<>>

ConvArgs(op, batch) ==
    LET g == op.geometry
    IN  <<batch, g.in_height, g.in_width, op.in_channels, op.out_channels,
          g.kernel_height, g.kernel_width, g.stride_height, g.stride_width,
          g.padding_height, g.padding_width>>

EmitConv2d(l) == KernelType("Conv2d", l.act, ConvArgs(ParseConv2d(l), BatchExpr(l)))

EmitFusedConv2d(l) ==
    KernelType("Conv2d", l.act, ConvArgs(ParseConv2d(l), BatchExpr(l)) \o
                                    (IF l.act = "LeakyReLU" THEN <<TRUE>> \o Slope(l) ELSE <<>>))

PoolArgs(op, batch) ==
    LET g == op.geometry
    IN  <<batch, g.in_height, g.in_width, op.in_channels,
          g.kernel_height, g.kernel_width, g.stride_height, g.stride_width,
          g.padding_height, g.padding_width>>

EmitMaxPool2d(l) == KernelType("MaxPool2d", "Identity", PoolArgs(ParseMaxPool(l), BatchExpr(l)))
EmitAvgPool2d(l) == KernelType("AvgPool2d", "Identity", PoolArgs(ParseAveragePool(l), BatchExpr(l)))

EmitAdaptiveAvgPool2d(l) ==
    LET op == IF l.op = "ReduceMean" THEN ParseReduceMean(l) ELSE ParseGlobalAvgPool(l)
    IN  KernelType("AdaptiveAvgPool2d", "Identity",
                   <<BatchExpr(l), op.in_height, op.in_width, op.in_channels,
                     op.out_height, op.out_width>>)

EmitLinear(l) ==
    LET op == ParseGemm(l)
    IN  KernelType("Linear", l.act, <<BatchExpr(l), op.in_features, op.out_features>> \o Slope(l))

(* The reductions are the batch, the vector the last factor of the size. *)
EmitSoftmax(l) ==
    KernelType("Softmax", "Identity", <<BatchExpr(l), SizeFactors(l)[Len(SizeFactors(l))]>>)

(* A Clip is parsed as ReLU6, whatever its bounds. *)
EmitElementWise(l) ==
    KernelType("ElementWise", IF l.op = "Clip" THEN "ReLU6" ELSE l.act, <<SizeExpr(l)>> \o Slope(l))

Emitted(l) ==
    CASE l.op = "Conv" -> IF l.act = "Identity" THEN EmitConv2d(l) ELSE EmitFusedConv2d(l)
      [] l.op = "MaxPool" -> EmitMaxPool2d(l)
      [] l.op = "AveragePool" -> EmitAvgPool2d(l)
      [] l.op \in {"GlobalAveragePool", "ReduceMean"} -> EmitAdaptiveAvgPool2d(l)
      [] l.op = "Gemm" -> EmitLinear(l)
      [] l.op = "Softmax" -> EmitSoftmax(l)
      [] l.op \in Binary \cup Activations -> EmitElementWise(l)

(***************************************************************************)
(* The C++ compiler: kernel type to kernel.                                *)
(***************************************************************************)
Instantiate(type) ==
    CASE type.base = "Conv2d" -> Conv2d(type.act, type.args)
      [] type.base = "MaxPool2d" -> MaxPool2d(type.act, type.args)
      [] type.base = "AvgPool2d" -> AvgPool2d(type.act, type.args)
      [] type.base = "AdaptiveAvgPool2d" -> AdaptiveAvgPool2d(type.act, type.args)
      [] type.base = "AdaptiveMaxPool2d" -> AdaptiveMaxPool2d(type.act, type.args)
      [] type.base = "Linear" -> Linear(type.act, type.args)
      [] type.base = "Softmax" -> Softmax(type.args)
      [] type.base = "SoftmaxImpl" -> SoftmaxImpl(type.args)
      [] type.base = "SoftmaxND" -> SoftmaxND(type.args)
      [] type.base = "MatMul" -> MatMul(type.args)
      [] type.base = "LayerNorm" -> LayerNorm(type.args)
      [] type.base = "RMSNorm" -> RMSNorm(type.args)
      [] type.base = "BatchNorm2d" -> BatchNorm2d(type.args)
      [] type.base = "ElementWise" -> ElementWise(type.act, type.args)

(* A caller of the library writes the kernel type himself. *)
KernelOf(l) == Instantiate(IF l.via = "onnx" THEN Emitted(l) ELSE l.type)
=============================================================================
