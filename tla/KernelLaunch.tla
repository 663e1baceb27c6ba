---------------------------- MODULE KernelLaunch ----------------------------
(***************************************************************************)
(* A layer on an accelerator.  The layer is compiled to a kernel, or a     *)
(* caller of the library names the kernel; the kernel is launched with a   *)
(* work division; every thread of the grid strides over the elements of    *)
(* the kernel's loop and writes what they compute.  A GPU runs one element *)
(* per thread in blocks of threads, a CPU one thread per block with many   *)
(* elements.                                                               *)
(***************************************************************************)
EXTENDS LayerCodegen

CONSTANTS ThreadsPerBlock,    \* kThreadsPerBlock of the generated code
          Grids               \* the work divisions a direct caller tries

ASSUME LaunchAssumption ==
    /\ ThreadsPerBlock \in Nat \ {0}
    /\ Grids \subseteq [blocks : Nat \ {0}, threads : Nat \ {0}, elements : Nat \ {0}]

(* The offsets step r of a row kernel writes. *)
RowOf(k, r) ==
    CASE k.impl = "Softmax" -> DOMAIN SoftmaxRow(k, r)
      [] k.impl = "LayerNorm" -> DOMAIN LayerNormRow(k, r, {})
      [] k.impl = "RMSNorm" -> DOMAIN RMSNormRow(k, r, {})

(* What a caller who chooses the strides of a SoftmaxImpl has to see to,   *)
(* and every alias does: the rows have no offset in common.                *)
RowsApart(k) ==
    k.impl \in RowKernels =>
        /\ \A r \in 0 .. NumberOfElements(k) - 1 : RowOf(k, r) \subseteq Nat
        /\ \A r, q \in 0 .. NumberOfElements(k) - 1 : r # q => RowOf(k, r) \cap RowOf(k, q) = {}

(* The layers have extents: their kernels some elements, their outputs a size. *)
ASSUME LayersAssumption ==
    \A l \in Layers :
        ~(l.via = "onnx" /\ Refused(l)) =>
            /\ NumberOfElements(KernelOf(l)) \in Nat
            /\ RowsApart(KernelOf(l))
            /\ l.via = "direct" \/ SizeExpr(l) \in Nat \ {0}
            /\ KernelOf(l).impl \in Impls

VARIABLES layer,     \* the layer
          phase,     \* "model", "refused", "compiled", "running" or "done"
          kernel,    \* the kernel the layer became
          grid,      \* the work division of the launch
          thread,    \* where each thread is: first of its chunk, and index
          output,    \* the values written, by offset in the output buffer
          writes     \* how often each offset was written

vars == <<layer, phase, kernel, grid, thread, output, writes>>

None == <<>>

(***************************************************************************)
(* Work division.                                                          *)
(***************************************************************************)
DivideDownBy(value, divisor) == value \div divisor    \* for a mutant

DivideUpBy(value, divisor) == (value + divisor - 1) \div divisor

MakeWorkdiv(acc, blocks, size) ==
    IF acc = "gpu" THEN [blocks |-> blocks, threads |-> size, elements |-> 1]
    ELSE [blocks |-> blocks, threads |-> 1, elements |-> size]

Workdivs ==
    IF layer.via = "direct" THEN Grids
    ELSE {MakeWorkdiv(acc, DivideUpBy(SizeExpr(layer), ThreadsPerBlock), ThreadsPerBlock) :
            acc \in {"gpu", "cpu"}}

(***************************************************************************)
(* uniformElements: a thread takes chunks of elements, a whole grid apart. *)
(***************************************************************************)
NumThreads(g) == g.blocks * g.threads

Begin(g) == [t \in 0 .. NumThreads(g) - 1 |-> [first |-> t * g.elements, index |-> t * g.elements]]

AdvanceByChunk(g, at, extent) ==    \* for a mutant: the stride is a chunk, not the grid
    IF at.index + 1 < at.first + g.elements /\ at.index + 1 < extent
    THEN [at EXCEPT !.index = at.index + 1]
    ELSE [first |-> at.first + g.elements, index |-> at.first + g.elements]

Advance(g, at, extent) ==
    IF at.index + 1 < at.first + g.elements /\ at.index + 1 < extent
    THEN [at EXCEPT !.index = at.index + 1]
    ELSE LET next == at.first + NumThreads(g) * g.elements
         IN  [first |-> next, index |-> next]

(***************************************************************************)
(* The arguments of the launch.                                            *)
(***************************************************************************)
Operands(l) == IF l.op \in Binary THEN <<"A", "B">> ELSE <<"input">>

(* The generated code passes the bias buffer whenever it has one. *)
Given(l) == IF l.via = "onnx" THEN {"bias"} ELSE l.given

Init ==
    /\ layer \in Layers
    /\ phase = "model"
    /\ kernel = None
    /\ grid = None
    /\ thread = None
    /\ output = None
    /\ writes = None

(* The compiler and the C++ compiler, or a caller who names the kernel.    *)
Compile ==
    /\ phase = "model"
    /\ IF layer.via = "onnx" /\ Refused(layer)
       THEN phase' = "refused" /\ UNCHANGED kernel
       ELSE phase' = "compiled" /\ kernel' = KernelOf(layer)
    /\ UNCHANGED <<layer, grid, thread, output, writes>>

Exec ==
    /\ phase = "compiled"
    /\ phase' = "running"
    /\ \E g \in Workdivs : grid' = g /\ thread' = Begin(g)
    /\ UNCHANGED <<layer, kernel, output, writes>>

(* One step of the loop of thread t. *)
Element(t) ==
    LET computed == Computes(kernel, thread[t].index, Given(layer), Operands(layer))
    IN  /\ thread[t].index < NumberOfElements(kernel)
        /\ output' = [i \in DOMAIN output \cup DOMAIN computed |->
                        IF i \in DOMAIN computed THEN computed[i] ELSE output[i]]
        /\ writes' = [i \in DOMAIN writes \cup DOMAIN computed |->
                        (IF i \in DOMAIN writes THEN writes[i] ELSE 0) +
                        (IF i \in DOMAIN computed THEN 1 ELSE 0)]
        /\ thread' = [thread EXCEPT ![t] = Advance(grid, thread[t], NumberOfElements(kernel))]
        /\ UNCHANGED <<layer, phase, kernel, grid>>

Running(t) == phase = "running" /\ t \in DOMAIN thread /\ Element(t)

Finish ==
    /\ phase = "running"
    /\ \A t \in DOMAIN thread : thread[t].index >= NumberOfElements(kernel)
    /\ phase' = "done"
    /\ UNCHANGED <<layer, kernel, grid, thread, output, writes>>

Next == Compile \/ Exec \/ (\E t \in DOMAIN thread : Running(t)) \/ Finish

Fairness == WF_vars(Compile) /\ WF_vars(Exec) /\ WF_vars(Finish) /\
            WF_vars(\E t \in DOMAIN thread : Running(t))

Spec == Init /\ [][Next]_vars /\ Fairness

(***************************************************************************)
(* What is supported.                                                      *)
(***************************************************************************)
(* The front end reads two of four pads, no auto_pad, ceil_mode, dilation, *)
(* transA, alpha or beta; it takes a reduction over no axes for one over   *)
(* the last two; the emitters take the second operand to have the shape of *)
(* the first, and every batch to be dynamic if that of one input is.  A    *)
(* layer outside these limits is compiled all the same.                    *)
SymmetricPads(l) == l.pads[1] = l.pads[3] /\ l.pads[2] = l.pads[4]

(* The output buffer and the operands have the extents the kernel counts on. *)
SameExtents(l) ==
    l.via = "onnx" =>
        /\ l.op \in {"Conv", "MaxPool", "AveragePool"} =>
            SymmetricPads(l) /\ l.dilation = 1 /\ (l.autoPad => l.pads = <<0, 0, 0, 0>>)
        /\ l.dynamic /\ l.op \notin Binary \cup Activations => l.x[1] = -1
        /\ l.op = "Gemm" => ~ l.transA
        /\ l.op = "ReduceMean" => l.axes # <<>>
        /\ l.op \in Binary => l.w = l.x

(* The kernel computes the layer: also one image, or a dynamic batch, for  *)
(* kernels that are told the batch size; a bias; weights stored by row of  *)
(* outputs, not scaled; one group; padding counted in an average, and not  *)
(* wider than the window; the softmax of each row of a matrix; the clip of a ReLU6.   *)
Supported(l) ==
    /\ SameExtents(l)
    /\ l.op = "AveragePool" =>
        /\ l.includePad \/ l.pads = <<0, 0, 0, 0>>
        /\ l.pads[1] <= l.kernel[1] /\ l.pads[2] <= l.kernel[2]
    /\ l.via = "onnx" =>
        /\ l.dynamic \/ l.x[1] = 1 \/ l.op \in Binary \cup Activations
        /\ l.op \in {"Conv", "Gemm"} => l.bias
        /\ l.op = "Conv" => l.group = 1
        /\ l.op = "Gemm" => l.transB /\ l.scale = <<1, 1>>
        /\ l.op = "Clip" => l.clip = <<0, 6>>
        /\ l.op = "Softmax" => Len(l.x) = 2 /\ l.axis = 2

(* The elements of the buffer an offset of which is read. *)
Extent(l, buffer) ==
    CASE buffer \in {"input", "A"} -> Size(X(l))
      [] buffer \in {"B", "weights"} -> Size(Concrete(l.w))
      [] buffer = "bias" -> Concrete(OutputShape(l))[2]
      [] buffer \in {"mean", "variance", "gemma"} -> X(l)[2]
      [] buffer = "gamma" -> X(l)[Len(l.x)]
      [] buffer = "beta" -> IF l.op = "BatchNorm2d" THEN X(l)[2] ELSE X(l)[Len(l.x)]

(***************************************************************************)
(* The buffers.  What a kernel is built for: the buffers of its call are   *)
(* at least as long as its extents and strides reach.                      *)
(***************************************************************************)
Positive == Nat \ {0}

Holds(l, buffer, n) == Extent(l, buffer) \in Nat /\ n <= Extent(l, buffer)
OutputHolds(l, n) == Size(Concrete(OutputShape(l))) \in Nat /\ n <= Size(Concrete(OutputShape(l)))

ImageExtents(T) ==
    /\ T.BatchSize \in Nat /\ T.InChannels \in Positive
    /\ T.InHeight \in Positive /\ T.InWidth \in Positive
    /\ OutHeight(T) \in Positive /\ OutWidth(T) \in Positive

ImageSize(T) == T.BatchSize * T.InChannels * T.InHeight * T.InWidth

WeightsSize(T) == T.OutChannels * T.InChannels * T.KernelHeight * T.KernelWidth

(* The offset after the last of n elements, a stride apart, of each of m rows. *)
Reach(m, stride, n, within) == (m - 1) * stride + (n - 1) * within + 1

BuiltFor(k, l) ==
    LET T == k.T IN
    CASE k.impl = "Conv2d" ->
            /\ ImageExtents(T) /\ T.OutChannels \in Positive
            /\ T.KernelHeight \in Nat /\ T.KernelWidth \in Nat
            /\ Holds(l, "input", ImageSize(T)) /\ Holds(l, "weights", WeightsSize(T))
            /\ T.Bias => Holds(l, "bias", T.OutChannels)
            /\ OutputHolds(l, NumberOfElements(k))
      [] k.impl \in {"MaxPool2d", "AvgPool2d"} ->
            /\ ImageExtents(T)
            /\ T.KernelHeight \in Nat /\ T.StrideHeight \in Nat /\ T.PaddingHeight \in Nat
            /\ T.KernelWidth \in Nat /\ T.StrideWidth \in Nat /\ T.PaddingWidth \in Nat
            /\ Holds(l, "input", ImageSize(T))
            /\ OutputHolds(l, NumberOfElements(k))
      [] k.impl \in {"AdaptiveAvgPool2d", "AdaptiveMaxPool2d"} ->
            /\ ImageExtents(T) /\ {"OutHeight", "OutWidth"} \subseteq DOMAIN T
            /\ Holds(l, "input", ImageSize(T))
            /\ OutputHolds(l, NumberOfElements(k))
      [] k.impl = "Linear" ->
            /\ T.NumRows \in Nat /\ T.InDim \in Nat /\ T.OutDim \in Positive
            /\ T.InRowStride \in Nat /\ T.InColStride \in Nat
            /\ T.WeightRowStride \in Nat /\ T.WeightColStride \in Nat
            /\ Holds(l, "input", Reach(T.NumRows, T.InRowStride, T.InDim, T.InColStride))
            /\ Holds(l, "weights", Reach(T.OutDim, T.WeightRowStride, T.InDim, T.WeightColStride))
            /\ "bias" \in Given(l) => Holds(l, "bias", T.OutDim)
            /\ OutputHolds(l, NumberOfElements(k))
      [] k.impl = "MatMul" ->
            /\ T.BatchSize \in Nat /\ T.M \in Positive /\ T.K \in Nat /\ T.N \in Positive
            /\ T.A_BatchStride \in Nat /\ T.A_RowStride \in Nat /\ T.A_ColStride \in Nat
            /\ T.B_BatchStride \in Nat /\ T.B_RowStride \in Nat /\ T.B_ColStride \in Nat
            /\ Holds(l, "A", (T.BatchSize - 1) * T.A_BatchStride +
                                 Reach(T.M, T.A_RowStride, T.K, T.A_ColStride))
            /\ Holds(l, "B", (T.BatchSize - 1) * T.B_BatchStride +
                                 Reach(T.K, T.B_RowStride, T.N, T.B_ColStride))
            /\ OutputHolds(l, NumberOfElements(k))
      [] k.impl = "Softmax" ->
            /\ T.NumReductions \in Nat /\ T.ReductionSize \in Nat
            /\ T.OuterStride \in Nat /\ T.StrideWithinDim \in Nat
            /\ LET reach == Reach(T.NumReductions, T.OuterStride, T.ReductionSize, T.StrideWithinDim)
               IN  Holds(l, "input", reach) /\ OutputHolds(l, reach)
      [] k.impl \in {"LayerNorm", "RMSNorm"} ->
            /\ T.NumTokens \in Nat /\ T.EmbeddingDim \in Nat
            /\ Holds(l, "input", T.NumTokens * T.EmbeddingDim)
            /\ OutputHolds(l, T.NumTokens * T.EmbeddingDim)
            /\ \A b \in {"gamma", "beta"} \cap Given(l) : Holds(l, b, T.EmbeddingDim)
      [] k.impl = "BatchNorm2d" ->
            /\ T.BatchSize \in Nat /\ T.Channels \in Positive
            /\ T.Height \in Nat /\ T.Width \in Nat
            /\ Holds(l, "input", NumberOfElements(k))
            /\ \A b \in {"mean", "variance", "gemma", "beta"} : Holds(l, b, T.Channels)
            /\ OutputHolds(l, NumberOfElements(k))
      [] k.impl = "ElementWise" ->
            /\ \A j \in DOMAIN Operands(l) : Holds(l, Operands(l)[j], T.Size)
            /\ OutputHolds(l, T.Size)

(* What onnx.checker and the shape inference leave of a node: tensors with *)
(* extents, the first a batch that may be dynamic, and operands that match; *)
(* a padded image has extents that a size_t holds.  Images are of rank 4:  *)
(* the converter of Conv unpacks four dimensions, that of MaxPool refuses  *)
(* other kernels, and the width -1 the other pools are given at rank 3 is  *)
(* no argument of a template.  (Averages over three spatial dimensions,    *)
(* compiled as if they were two, are left out.)  An unknown extent in a    *)
(* model without a dynamic input is written kBatchSize too, which is then  *)
(* declared nowhere (model.h.j2:7-10).  An activation is fused only to a   *)
(* convolution, a dense layer or an element-wise operator.                 *)
Tensor(shape, rank) ==
    /\ shape \in Seq(Int) /\ Len(shape) = rank
    /\ shape[1] \in Positive \cup {-1}
    /\ \A j \in 2 .. rank : shape[j] \in Positive

Weights(shape, rank) == Tensor(shape, rank) /\ shape[1] # -1

Windows(l, kh, kw) ==
    /\ l.strides \in Positive \X Positive /\ l.dilation \in Positive
    /\ l.pads \in Nat \X Nat \X Nat \X Nat
    /\ Windowed(l, kh, kw) \in Positive \X Positive
    /\ l.x[3] + l.pads[1] + l.pads[3] < WordSize /\ l.x[4] + l.pads[2] + l.pads[4] < WordSize

Nodes == {"Conv", "MaxPool", "AveragePool", "GlobalAveragePool", "ReduceMean", "Gemm", "Softmax"}
            \cup Binary \cup Activations

WellFormed(l) ==
    /\ l.op \in Nodes /\ l.slope \in Seq(Int) /\ Len(l.slope) = 2
    /\ l.op \in {"Conv", "Gemm"} \cup Binary \cup Activations \/ l.act = "Identity"
    /\ l.op = "Clip" => l.act = "ReLU6"
    /\ (\E j \in DOMAIN l.x : l.x[j] = -1) => l.dynamic
    /\ CASE l.op = "Conv" ->
            /\ Tensor(l.x, 4) /\ Weights(l.w, 4) /\ l.group \in Positive
            /\ l.x[2] = l.group * l.w[2] /\ Windows(l, l.w[3], l.w[4])
         [] l.op \in {"MaxPool", "AveragePool"} ->
            /\ Tensor(l.x, 4) /\ l.kernel \in Positive \X Positive
            /\ Windows(l, l.kernel[1], l.kernel[2])
         [] l.op \in {"GlobalAveragePool", "ReduceMean"} -> Tensor(l.x, 4)
         [] l.op = "Gemm" ->
            /\ Tensor(l.x, 2) /\ Weights(l.w, 2)
            /\ (IF l.transA THEN X(l)[1] ELSE l.x[2]) = (IF l.transB THEN l.w[2] ELSE l.w[1])
         [] l.op = "Softmax" -> Len(l.x) >= 2 /\ Tensor(l.x, Len(l.x))
         [] l.op \in Binary \cup Activations -> l.x \in Seq(Positive \cup {-1})

(* Only a caller of the library chooses extents; for a node of a model the *)
(* compiler has to get them right.                                         *)
ASSUME BuffersAssumption ==
    /\ KBatchSize \in Positive
    /\ \A l \in Layers : IF l.via = "onnx" THEN WellFormed(l) ELSE BuiltFor(KernelOf(l), l)

(***************************************************************************)
(* Properties.                                                             *)
(***************************************************************************)
(* The type invariant: once the kernel runs, every thread stands in a      *)
(* chunk of the grid it was launched with and what it wrote is counted.    *)
TypeOK ==
    /\ layer \in Layers
    /\ phase \in {"model", "refused", "compiled", "running", "done"}
    /\ DOMAIN output = DOMAIN writes
    /\ \A i \in DOMAIN writes : i \in Nat /\ writes[i] \in Nat \ {0}
    /\ phase \in {"running", "done"} =>
        /\ grid \in [blocks : Nat \ {0}, threads : Nat \ {0}, elements : Nat \ {0}]
        /\ DOMAIN thread = 0 .. NumThreads(grid) - 1
        /\ \A t \in DOMAIN thread :
            /\ thread[t] \in [first : Nat, index : Nat]
            /\ thread[t].index \in thread[t].first .. thread[t].first + grid.elements - 1
    /\ phase \notin {"running", "done"} => writes = <<>>

(* No thread reads or writes beyond the buffers the generated code, or the *)
(* caller, allocated from the shapes of the tensors, as long as the kernel *)
(* is built for these shapes.                                              *)
InBounds ==
    SameExtents(layer) =>
        \A i \in DOMAIN output :
            /\ i \in Outputs(layer)
            /\ \A r \in Reads(output[i]) : r[2] \in 0 .. Extent(layer, r[1]) - 1

(* Whatever the backend, the grid and the order in which the threads run,  *)
(* every output that has been written is the one the layer means.          *)
OutputsAreTheLayers ==
    Supported(layer) => \A i \in DOMAIN output : output[i] = Meaning(layer, i)

(* The threads share the work and never an output: none is written twice,  *)
(* by two threads or by one.                                               *)
WrittenOnce == \A i \in DOMAIN writes : writes[i] = 1

(* A launch finishes on every grid, no thread strides on for ever, and     *)
(* then every output of the layer is there; or the layer was refused.      *)
LaunchFinishes ==
    <>(\/ phase = "refused"
       \/ phase = "done" /\ (Supported(layer) => DOMAIN output = Outputs(layer)))
=============================================================================
