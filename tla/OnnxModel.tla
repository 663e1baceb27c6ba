----------------------------- MODULE OnnxModel ------------------------------
(***************************************************************************)
(* ONNX models as the compiler reads them, and what they compute: the      *)
(* reference the compiler is compared with.  Tensors are named; a model is *)
(* a list of nodes in the order in which they can be evaluated.            *)
(***************************************************************************)
EXTENDS FfxIR

(* The attributes of a node are those that its kernel implements (pooling  *)
(* over two dimensions, a spatial ReduceMean, a Gemm with transB, a Clip to *)
(* [0, 6]), or others, which a converter refuses or ignores.                *)
OnnxNode(name, op_type, input, output) ==
    [name |-> name, op_type |-> op_type, attributes |-> "implemented",
     input |-> input, output |-> output]

OnnxNodes ==
    [name : Name, op_type : STRING, attributes : STRING,
     input : Seq(Name), output : Seq(Name)]

OnnxModels ==
    [input : Seq(Name), initializer : SUBSET Name,
     node : Seq(OnnxNodes), output : Seq(Name)]

(* Operators that have one operand.  Silu and AdaptiveAvgPool have no       *)
(* schema in ONNX: those who export them give them one, too.                *)
UnaryOps ==
    {"Softmax", "Relu", "LeakyRelu", "Sigmoid", "Tanh", "Silu", "Gelu", "HardSwish",
     "MaxPool", "AveragePool", "GlobalAveragePool", "AdaptiveAvgPool"}

(* What onnx.checker.check_model has checked when the front end starts:     *)
(* every tensor is defined once, and before it is read, and operators have  *)
(* the operands of their schema.                                            *)
Defined(m, k) ==
    {m.input[i] : i \in DOMAIN m.input} \cup m.initializer
    \cup UNION {{m.node[i].output[o] : o \in DOMAIN m.node[i].output} :
                    i \in 1 .. k - 1}

CheckedModel(m) ==
    /\ \A i, j \in DOMAIN m.input : m.input[i] = m.input[j] => i = j
    /\ \A k \in DOMAIN m.node :
         /\ m.node[k].output # <<>>
         /\ \A i \in DOMAIN m.node[k].input :
                m.node[k].input[i] \in Defined(m, k)
         /\ \A o \in DOMAIN m.node[k].output :
                m.node[k].output[o] \notin Defined(m, k)
         /\ m.node[k].op_type \in ElementWiseOps => Len(m.node[k].input) = 2
         /\ m.node[k].op_type \in UnaryOps => Len(m.node[k].input) = 1
    /\ \A o \in DOMAIN m.output :
           m.output[o] \in Defined(m, Len(m.node) + 1)

(* Operators that leave the data of their first operand as it is.           *)
Reshaping == {"Flatten", "Reshape", "Squeeze", "Unsqueeze", "Identity"}

(* Operators whose other operands only configure them.                      *)
Configured == {"Clip", "ReduceMean"}

(* The function an operator computes: the mean over both spatial axes, and  *)
(* adaptive pooling to one cell, are the global average.                    *)
Function(op_type) ==
    IF op_type \in {"ReduceMean", "AdaptiveAvgPool"} THEN "GlobalAveragePool" ELSE op_type

(* The value of every tensor, as a term over the inputs and initializers.   *)
(* A second output, as the indices of a MaxPool, is something else.         *)
Tensor(name) == <<"tensor", name>>

Extra(name) == <<"extra", name>>

Apply(function, attributes, args) == <<function, attributes, args>>

OnnxValues(m) ==
    LET Tensors == Defined(m, Len(m.node) + 1)
        Operands(n) == IF n.op_type \in Configured THEN 1 .. 1 ELSE DOMAIN n.input
        Result(n, t, value) ==
            IF n.op_type \in Reshaping
            THEN value[n.input[1]]
            ELSE IF t # n.output[1]
            THEN Extra(t)
            ELSE Apply(Function(n.op_type), n.attributes,
                       [i \in Operands(n) |-> value[n.input[i]]])
        values[k \in 0 .. Len(m.node)] ==
            [t \in Tensors |->
                IF k = 0 THEN Tensor(t)
                ELSE IF \E o \in DOMAIN m.node[k].output : m.node[k].output[o] = t
                THEN Result(m.node[k], t, values[k - 1])
                ELSE values[k - 1][t]]
    IN  values[Len(m.node)]
=============================================================================
