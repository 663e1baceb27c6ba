--------------------------- MODULE MCKernelLaunch ---------------------------
(***************************************************************************)
(* Layers for KernelLaunch: each operator of the front end with the        *)
(* attributes its kernel depends on, within and beyond what is supported,  *)
(* and the kernels only callers of the library use.                        *)
(***************************************************************************)
EXTENDS KernelLaunch, TLC

Conv == [Layer EXCEPT !.op = "Conv", !.x = <<1, 2, 3, 2>>, !.w = <<2, 2, 2, 2>>]
Pool == [Layer EXCEPT !.x = <<1, 2, 3, 2>>, !.kernel = <<2, 2>>]
Pads(l, top, left, bottom, right) == [l EXCEPT !.pads = <<top, left, bottom, right>>]

Dynamic(l) == [l EXCEPT !.x[1] = -1, !.dynamic = TRUE]
Fused(l, act) == [l EXCEPT !.act = act, !.folded = TRUE]

Convolutions ==
    {Conv, Dynamic(Conv), [Conv EXCEPT !.x[1] = 2], [Conv EXCEPT !.dynamic = TRUE],
     Fused(Conv, "ReLU"),
     [Fused(Conv, "LeakyReLU") EXCEPT !.slope = <<1, 5>>],
     [Conv EXCEPT !.x = <<1, 1, 4, 3>>, !.w = <<1, 1, 3, 2>>, !.strides = <<2, 2>>,
                  !.pads = <<1, 1, 1, 1>>],
     Pads(Conv, 1, 0, 1, 0),
     Pads([Conv EXCEPT !.x = <<1, 1, 2, 2>>, !.w = <<1, 1, 2, 2>>], 1, 1, 0, 0),
     [Conv EXCEPT !.autoPad = TRUE],
     [Pads([Conv EXCEPT !.x = <<1, 1, 3, 2>>, !.w = <<1, 1, 3, 1>>], 1, 0, 1, 0) EXCEPT !.autoPad = TRUE],
     [Conv EXCEPT !.bias = FALSE], [Conv EXCEPT !.dilation = 2, !.x[4] = 3],
     [Conv EXCEPT !.group = 2, !.w[2] = 1]}

MaxPools ==
    {[Pool EXCEPT !.op = "MaxPool"],
     Dynamic([Pool EXCEPT !.op = "MaxPool", !.strides = <<2, 1>>, !.x = <<1, 1, 4, 2>>]),
     Pads([Pool EXCEPT !.op = "MaxPool", !.x[2] = 1, !.strides = <<2, 2>>], 1, 1, 1, 1),
     Pads([Pool EXCEPT !.op = "MaxPool", !.x[2] = 1, !.strides = <<2, 2>>], 0, 0, 1, 1),
     Pads([Pool EXCEPT !.op = "MaxPool", !.x[2] = 1, !.strides = <<2, 2>>], 0, 0, 1, 0)}   \* ceil_mode

AveragePools ==
    {[Pool EXCEPT !.op = "AveragePool", !.strides = <<1, 2>>],
     Pads([Pool EXCEPT !.op = "AveragePool", !.x[2] = 1, !.strides = <<2, 1>>, !.includePad = TRUE],
          1, 1, 1, 1),
     Pads([Pool EXCEPT !.op = "AveragePool", !.x[2] = 1, !.strides = <<2, 2>>], 1, 1, 1, 1),
     Pads([Pool EXCEPT !.op = "AveragePool", !.x = <<1, 1, 2, 1>>, !.kernel = <<1, 1>>,
                       !.strides = <<2, 4>>, !.includePad = TRUE], 2, 2, 2, 2)}

Reductions ==
    {Dynamic([Layer EXCEPT !.op = "GlobalAveragePool", !.x = <<1, 3, 2, 2>>]),
     [Layer EXCEPT !.op = "ReduceMean", !.x = <<1, 3, 2, 3>>],
     [Layer EXCEPT !.op = "ReduceMean", !.x = <<1, 3, 2, 3>>, !.axes = <<>>],
     [Layer EXCEPT !.op = "ReduceMean", !.x = <<1, 3, 2, 3>>, !.axes = <<1>>]}

Dense ==
    {[Layer EXCEPT !.op = "Gemm", !.x = <<1, 3>>, !.w = <<4, 3>>],
     Dynamic(Fused([Layer EXCEPT !.op = "Gemm", !.x = <<1, 2>>, !.w = <<3, 2>>], "GELU")),
     Dynamic(Fused([Layer EXCEPT !.op = "Gemm", !.x = <<1, 2>>, !.w = <<3, 2>>], "LeakyReLU")),
     [Layer EXCEPT !.op = "Gemm", !.x = <<1, 2>>, !.w = <<4, 1>>, !.transA = TRUE],
     Dynamic([Layer EXCEPT !.op = "Gemm", !.x = <<1, 1>>, !.w = <<4, 2>>, !.transA = TRUE]),
     [Layer EXCEPT !.op = "Gemm", !.x = <<1, 3>>, !.w = <<4, 3>>, !.scale = <<2, 1>>],
     [Layer EXCEPT !.op = "Gemm", !.x = <<1, 3>>, !.w = <<4, 3>>, !.dynamic = TRUE],
     [Layer EXCEPT !.op = "Gemm", !.x = <<1, 3>>, !.w = <<3, 4>>, !.transB = FALSE],
     [Layer EXCEPT !.op = "Gemm", !.x = <<2, 3>>, !.w = <<4, 3>>]}

Others ==
    {Dynamic([Layer EXCEPT !.op = "Softmax", !.x = <<1, 3>>, !.axis = 2]),
     [Layer EXCEPT !.op = "Softmax", !.x = <<1, 4>>, !.axis = 2],
     [Layer EXCEPT !.op = "Softmax", !.x = <<1, 4>>, !.axis = 2, !.folded = TRUE],
     Dynamic([Layer EXCEPT !.op = "Softmax", !.x = <<1, 2, 3>>, !.axis = 3]),
     Dynamic([Layer EXCEPT !.op = "Softmax", !.x = <<1, 2, 3>>, !.axis = 3, !.folded = TRUE]),
     [Layer EXCEPT !.op = "Clip", !.act = "ReLU6", !.x = <<1, 3>>],
     [Layer EXCEPT !.op = "Clip", !.act = "ReLU6", !.x = <<1, 3>>, !.clip = <<0, 1>>],
     [Layer EXCEPT !.op = "Relu", !.act = "ReLU", !.x = <<2, 3>>],
     [Layer EXCEPT !.op = "Relu", !.act = "ReLU", !.x = <<2, 1, 3>>, !.folded = TRUE],
     [Layer EXCEPT !.op = "Relu", !.act = "ReLU", !.x = <<1, 3>>, !.dynamic = TRUE],
     Dynamic([Layer EXCEPT !.op = "LeakyRelu", !.act = "LeakyReLU", !.slope = <<1, 10>>, !.x = <<1, 3>>]),
     [Layer EXCEPT !.op = "Add", !.act = "Add", !.x = <<2, 3>>, !.w = <<2, 3>>],
     [Layer EXCEPT !.op = "Mul", !.act = "Mul", !.x = <<2, 3>>, !.w = <<1, 3>>]}

(* Calls of the library: the kernel type as the caller writes it. *)
Direct(op, x, base, args) ==
    [Layer EXCEPT !.op = op, !.via = "direct", !.x = x,
                  !.type = [base |-> base, act |-> "Identity", args |-> args]]

Images == <<2, 4, 3, 2>>       \* BatchSize, InHeight, InWidth, InChannels

Calls ==
    {[Direct("AdaptiveAvgPool2d", <<2, 2, 4, 3>>, "AdaptiveAvgPool2d", Images \o <<3, 2>>)
        EXCEPT !.kernel = <<3, 2>>],
     [Direct("AdaptiveMaxPool2d", <<2, 2, 4, 3>>, "AdaptiveMaxPool2d", Images \o <<3, 2>>)
        EXCEPT !.kernel = <<3, 2>>],
     [Direct("AdaptiveMaxPool2d", <<1, 1, 2, 3>>, "AdaptiveMaxPool2d", <<1, 2, 3, 1, 3, 5>>)
        EXCEPT !.kernel = <<3, 5>>],
     [Direct("MaxPool", <<2, 2, 4, 3>>, "MaxPool2d", Images \o <<2, 3>>)
        EXCEPT !.kernel = <<2, 3>>, !.strides = <<2, 3>>],
     [Direct("Conv", <<1, 1, 3, 3>>, "Conv2d", <<1, 3, 3, 1, 2, 2, 2, 1, 1, 0, 0, FALSE>>)
        EXCEPT !.w = <<2, 1, 2, 2>>, !.bias = FALSE],
     [Direct("Gemm", <<2, 3>>, "Linear", <<2, 3, 2>>) EXCEPT !.w = <<2, 3>>, !.bias = FALSE],
     [Direct("Gemm", <<2, 3>>, "Linear", <<2, 3, 2>>) EXCEPT !.w = <<2, 3>>, !.given = {"bias"}],
     [Direct("MatMul", <<2, 2, 3>>, "MatMul", <<2, 2, 3, 2>>) EXCEPT !.w = <<2, 3, 2>>],
     [Direct("Softmax", <<2, 2, 3>>, "SoftmaxND", <<2, 2, 3>>) EXCEPT !.axis = 3],
     [Direct("Softmax", <<5>>, "SoftmaxND", <<5>>) EXCEPT !.axis = 1],
     [Direct("Softmax", <<3, 4>>, "SoftmaxImpl", <<4, 3, 4, 1>>) EXCEPT !.axis = 1],
     Direct("LayerNorm", <<3, 4>>, "LayerNorm", <<3, 4>>),
     [Direct("LayerNorm", <<3, 4>>, "LayerNorm", <<3, 4>>) EXCEPT !.given = {"gamma", "beta"}],
     [Direct("RMSNorm", <<3, 4>>, "RMSNorm", <<3, 4>>) EXCEPT !.given = {"gamma"}],
     Direct("BatchNorm2d", <<2, 2, 2, 2>>, "BatchNorm2d", <<2, 2, 2, 2>>)}

(* One row, one channel: every small combination of extents. *)
Row(op, n, base, args) == Direct(op, <<1, 1, 1, n>>, base, args)

AdaptiveSweep ==
    {[Row("AdaptiveAvgPool2d", n, "AdaptiveAvgPool2d", <<1, 1, n, 1, 1, m>>) EXCEPT !.kernel = <<1, m>>] :
        n \in 1 .. 6, m \in 1 .. 5}

WindowSweep ==
    {w \in [in : 1 .. 5, kernel : 1 .. 3, stride : 1 .. 3, pad : 0 .. 2] :
        w.pad <= w.kernel /\ w.in + 2 * w.pad >= w.kernel}

Swept(l, w) ==
    [l EXCEPT !.kernel = <<1, w.kernel>>, !.strides = <<1, w.stride>>, !.pads = <<0, w.pad, 0, w.pad>>,
              !.includePad = TRUE]

PoolSweep ==
    {Swept(Row("AveragePool", w.in, "AvgPool2d",
               <<1, 1, w.in, 1, 1, w.kernel, 1, w.stride, 0, w.pad>>), w) : w \in WindowSweep}

ConvSweep ==
    {[Swept(Row("Conv", w.in, "Conv2d", <<1, 1, w.in, 1, 1, 1, w.kernel, 1, w.stride, 0, w.pad, FALSE>>), w)
        EXCEPT !.w = <<1, 1, 1, w.kernel>>, !.bias = FALSE] : w \in WindowSweep}

MCLayers ==
    Convolutions \cup MaxPools \cup AveragePools \cup Reductions \cup Dense \cup Others \cup
    Calls \cup AdaptiveSweep \cup PoolSweep \cup ConvSweep

(* One thread; more threads than elements; chunks that divide nothing. *)
MCGrids ==
    {[blocks |-> 1, threads |-> 1, elements |-> 2], [blocks |-> 1, threads |-> 2, elements |-> 3],
     [blocks |-> 3, threads |-> 1, elements |-> 1]}
=============================================================================
