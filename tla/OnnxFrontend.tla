---------------------------- MODULE OnnxFrontend ----------------------------
(***************************************************************************)
(* The ONNX front end (frontend/onnx/parser.py, ops.py, graph_context.py): *)
(* it walks once through the inputs, the nodes and the outputs of a model  *)
(* and lists IR nodes.  value_map says which name an ONNX tensor goes by   *)
(* in the IR.                                                              *)
(***************************************************************************)
EXTENDS OnnxModel

CONSTANT Models     \* the models that may be compiled

VARIABLES
    model,      \* context.graph, context.initializers
    value_map,  \* context.value_map
    phase,      \* the loop the front end is in
    position,   \* of the node the traversal looks at next
    nodes       \* nodes_ir

vars == <<model, value_map, phase, position, nodes>>

(* The registry of converters: the IR operator each ONNX operator becomes.  *)
Converted ==
    [Softmax |-> "Softmax", Mul |-> "Mul", Div |-> "Div", Add |-> "Add",
     Sub |-> "Sub", Relu |-> "ReLU", Clip |-> "ReLU6",
     LeakyRelu |-> "LeakyReLU", Sigmoid |-> "Sigmoid", Tanh |-> "Tanh",
     Silu |-> "SiLU", Gelu |-> "GELU", HardSwish |-> "Hardswish",
     Identity |-> "Identity", Gemm |-> "Linear", Conv |-> "Conv2d",
     BatchNormalization |-> "BatchNorm2d", LayerNormalization |-> "LayerNorm",
     MaxPool |-> "MaxPool2d", AveragePool |-> "AvgPool2d",
     GlobalAveragePool |-> "AdaptiveAvgPool2d",
     AdaptiveAvgPool |-> "AdaptiveAvgPool2d",
     ReduceMean |-> "AdaptiveAvgPool2d",
     Flatten |-> "Flatten", Reshape |-> "Flatten"]

PassThroughOps ==
    {"Shape", "Gather", "Unsqueeze", "Squeeze", "Concat", "Slice", "Cast",
     "ConstantOfShape", "Range"}

NoNodeOps == PassThroughOps \cup {"CustomOperator"}

(* Converters that take their second and third operand as parameters, those *)
(* that insist on the second, and those that check the attributes.          *)
ParameterOps == {"Gemm", "Conv", "BatchNormalization", "LayerNormalization"}
WeightOps    == {"Gemm", "Conv"}
PickyOps     == {"Conv", "MaxPool", "ReduceMean"}

(* get_initializer_array: the i-th operand, if it is an initializer.        *)
Initializer(n, i) ==
    IF i \in DOMAIN n.input /\ n.input[i] \in model.initializer
    THEN n.input[i]
    ELSE None

(* A mutant: the ONNX name of the operator is kept.                         *)
ConvertKeepsName(n) == Op(n.op_type)

Convert(n) ==
    IF n.op_type \in ParameterOps
    THEN [Op(Converted[n.op_type]) EXCEPT !.weight = Initializer(n, 2),
                                          !.bias = Initializer(n, 3)]
    ELSE Op(Converted[n.op_type])

Refused(n) ==
    \/ n.op_type \notin DOMAIN Converted \cup NoNodeOps
    \/ n.op_type \in WeightOps /\ Initializer(n, 2) = None
    \/ n.op_type \in PickyOps /\ n.attributes = "refused"

NodeName(n) == Lower(IF n.name # <<>> THEN n.name ELSE n.output[1])

Outputs(n) == {n.output[o] : o \in DOMAIN n.output}

(* value_map with all outputs of n going by a name.                         *)
Mapped(n, name) ==
    [t \in DOMAIN value_map \cup Outputs(n) |->
        IF t \in Outputs(n) THEN name ELSE value_map[t]]

(* The operands that value_map knows, and the names they go by.             *)
KnownOperands(n) == {i \in DOMAIN n.input : n.input[i] \in DOMAIN value_map}

(* A mutant: all operands become inputs, the parameters too.                *)
ResolvedUnfiltered(n, map) ==
    [i \in DOMAIN n.input |->
        IF n.input[i] \in DOMAIN map THEN map[n.input[i]] ELSE n.input[i]]

(* A mutant: operands that no node of the IR has the name of are dropped.   *)
ResolvedListed(n, map) ==
    LET name == [i \in DOMAIN n.input |-> map[n.input[i]]]
    IN  SubList(name, {i \in DOMAIN n.input :
            n.input[i] \in DOMAIN map /\ \E j \in DOMAIN nodes : nodes[j].name = name[i]})

ResolvedInputs(n, map) ==
    SubList([i \in DOMAIN n.input |-> map[n.input[i]]],
            {i \in DOMAIN n.input : n.input[i] \in DOMAIN map})

ResolveInputName(t) == IF t \in DOMAIN value_map THEN value_map[t] ELSE t

-----------------------------------------------------------------------------

InputNode(i) ==
    Node(Lower(model.input[i]), [Op("Input") EXCEPT !.index = i - 1], <<>>)

MapInputs ==
    /\ phase = "map_inputs"
    /\ LET real == {i \in DOMAIN model.input : model.input[i] \notin model.initializer}
       IN  /\ nodes' = SubList([i \in DOMAIN model.input |-> InputNode(i)], real)
           /\ value_map' = [t \in {model.input[i] : i \in real} |-> t]
    /\ phase' = "traverse"
    /\ position' = 1
    /\ UNCHANGED model

Traversing == phase = "traverse" /\ position <= Len(model.node)

Current == model.node[position]

(* No converter, no weight, or attributes the converter does not take: the  *)
(* exception ends the compilation.                                          *)
Refuse ==
    /\ Traversing
    /\ Refused(Current)
    /\ phase' = "failed"
    /\ UNCHANGED <<model, value_map, position, nodes>>

(* A structural operator is no node of the IR: its outputs go by the name   *)
(* of its first operand that has one.  A custom operator leaves nothing.    *)
PassThrough ==
    /\ Traversing
    /\ ~ Refused(Current)
    /\ Current.op_type \in NoNodeOps
    /\ value_map' =
         IF Current.op_type = "CustomOperator" \/ KnownOperands(Current) = {}
         THEN value_map
         ELSE LET first == CHOOSE i \in KnownOperands(Current) :
                             \A k \in KnownOperands(Current) : i <= k
              IN  Mapped(Current, value_map[Current.input[first]])
    /\ position' = position + 1
    /\ UNCHANGED <<model, phase, nodes>>

ParseNode ==
    /\ Traversing
    /\ ~ Refused(Current)
    /\ Current.op_type \notin NoNodeOps
    /\ value_map' = Mapped(Current, NodeName(Current))
    /\ nodes' = Append(nodes, Node(NodeName(Current), Convert(Current),
                                   ResolvedInputs(Current, value_map')))
    /\ position' = position + 1
    /\ UNCHANGED <<model, phase>>

OutputNode(o) ==
    Node(Lower(model.output[o]), [Op("Output") EXCEPT !.index = o - 1],
         <<ResolveInputName(model.output[o])>>)

MapOutputs ==
    /\ phase = "traverse"
    /\ position > Len(model.node)
    /\ nodes' = nodes \o [o \in DOMAIN model.output |-> OutputNode(o)]
    /\ phase' = "optimize"
    /\ UNCHANGED <<model, value_map, position>>

Init ==
    /\ model \in Models
    /\ value_map = <<>>
    /\ phase = "map_inputs"
    /\ position = 1
    /\ nodes = <<>>

Next == MapInputs \/ Refuse \/ PassThrough \/ ParseNode \/ MapOutputs
=============================================================================
