----------------------------- MODULE FfxCompiler ----------------------------
(***************************************************************************)
(* The compiler from end to end (compiler.py): the front end lists IR      *)
(* nodes, the middle end rewrites the list at -O1 and above, the back end  *)
(* turns it into a program.  The program is then read as C++ and run, and  *)
(* compared with the values of the ONNX model.                             *)
(***************************************************************************)
EXTENDS OnnxModel

CONSTANTS
    Models,      \* the models that may be compiled
    Levels,      \* the optimization levels that may be asked for
    Identifier, Digit, IndexWord, ALIGNMENT, Size(_)    \* see FfxBackend

ASSUME ModelsAssumption ==
    /\ Models \subseteq OnnxModels
    /\ \A m \in Models : CheckedModel(m)

ASSUME LevelsAssumption == Levels \subseteq Nat

ASSUME IdentifierAssumption ==
    /\ Identifier \in [Word -> Seq(Word)]
    /\ Digit \subseteq Word

(* Indices are written apart, and begin with a digit; the lower-case name   *)
(* of an activation is an identifier as it is, and not the word "input".    *)
ASSUME WordAssumption ==
    /\ \A m \in Models :
           \A i, j \in (0 .. Len(m.input) - 1) \cup (0 .. Len(m.output) - 1) :
               /\ IndexWord[i] \in Digit
               /\ IndexWord[i] = IndexWord[j] => i = j
    /\ \A a \in ActivationOps :
           /\ Identifier[LowerWord[a]] = <<LowerWord[a]>>
           /\ LowerWord[a] \notin Digit \cup {"input"}

ASSUME SizeAssumption ==
    /\ ALIGNMENT \in Nat \ {0}
    /\ \A m \in Models : \A t \in m.initializer : Size(t) \in Nat \ {0}

VARIABLES
    phase, model, level, nodes, position,
    value_map,                      \* front end
    nodes_to_remove, fused_count,   \* middle end
    calls, bytes_buffer, metadata   \* back end

frontVars == <<model, value_map>>
fuseVars  == <<nodes_to_remove, fused_count>>
backVars  == <<calls, bytes_buffer, metadata>>
vars == <<phase, level, nodes, position, frontVars, fuseVars, backVars>>

Frontend == INSTANCE OnnxFrontend
Fusion   == INSTANCE KernelFusion WITH Graphs <- {}
Backend  == INSTANCE FfxBackend

Parse == Frontend!Next /\ UNCHANGED <<level, fuseVars, backVars>>

(* The passes enabled at the level, in their order: kernel fusion is the    *)
(* only one that changes the graph.                                         *)
Optimize ==
    /\ phase = "optimize"
    /\ phase' = IF level = 0 THEN "optimized" ELSE "kernel_fusion"
    /\ position' = 1
    /\ UNCHANGED <<level, nodes, frontVars, fuseVars, backVars>>

Fuse == Fusion!Next /\ UNCHANGED <<level, frontVars, backVars>>

StartCodegen ==
    /\ phase = "optimized"
    /\ phase' = "codegen"
    /\ position' = 1
    /\ UNCHANGED <<level, nodes, frontVars, fuseVars, backVars>>

Generate == Backend!Next /\ UNCHANGED <<level, frontVars, fuseVars>>

Init ==
    /\ Frontend!Init
    /\ level \in Levels
    /\ nodes_to_remove = {}
    /\ fused_count = 0
    /\ calls = <<>>
    /\ bytes_buffer = <<>> /\ metadata = <<>>

Next == Parse \/ Optimize \/ Fuse \/ StartCodegen \/ Generate

Spec == Init /\ [][Next]_vars

-----------------------------------------------------------------------------
(* The generated program                                                    *)

(* The function each kernel of the library computes.                        *)
KernelFunction ==
    [Linear |-> "Gemm", Conv2d |-> "Conv", Softmax |-> "Softmax",
     MaxPool2d |-> "MaxPool", AvgPool2d |-> "AveragePool",
     AdaptiveAvgPool2d |-> "GlobalAveragePool",
     Mul |-> "Mul", Div |-> "Div", Add |-> "Add", Sub |-> "Sub",
     ReLU |-> "Relu", ReLU6 |-> "Clip", GELU |-> "Gelu", LeakyReLU |-> "LeakyRelu",
     Sigmoid |-> "Sigmoid", SiLU |-> "Silu", Hardswish |-> "HardSwish",
     Tanh |-> "Tanh"]

(* The kernels there are, and the buffers they read.                        *)
KernelExists(kernel) ==
    /\ kernel[1] \in DOMAIN KernelFunction
    /\ \/ kernel[2] = None
       \/ /\ kernel[1] \in {"Linear", "Conv2d"}
          /\ kernel[2] \in DOMAIN KernelFunction

Arity(kernel) == IF kernel[1] \in ElementWiseOps THEN 2 ELSE 1

Members == {calls[k].var : k \in DOMAIN calls}

Declared(buffer) ==
    IF buffer.kind = "param" THEN buffer.var \in Backend!InputVars
                             ELSE buffer.var \in Members

Parent(j) == Backend!CppVar(nodes[j].inputs[1])

(* The C++ compiler accepts model.h: no name is declared twice, every name  *)
(* used is declared, and the kernels exist and are given what they take.    *)
ProgramCompiles ==
    /\ calls # <<>>
    /\ \A k, l \in DOMAIN calls : calls[k].var = calls[l].var => k = l
    /\ \A i, j \in Backend!Outputs :
           Backend!IOVar("output", i) = Backend!IOVar("output", j) => i = j
    /\ \A k \in DOMAIN calls :
         /\ KernelExists(calls[k].kernel)
         /\ Len(calls[k].input_bufs) = Arity(calls[k].kernel)
         /\ \A i \in DOMAIN calls[k].input_bufs : Declared(calls[k].input_bufs[i])
    /\ \A m \in DOMAIN metadata : \E k \in DOMAIN calls :
           calls[k].var = metadata[m].node /\ calls[k].call_type = "parameterised"
    /\ \A j \in Backend!Outputs : Parent(j) \in Members

(* What a parameter buffer holds once the model is constructed: what the    *)
(* last copy into it found in the blob.                                     *)
Parameter(var, param) ==
    LET copied == {m \in DOMAIN metadata : metadata[m].node = var
                                         /\ metadata[m].param = param}
    IN  IF copied = {} THEN <<"uninitialized">>
        ELSE LET entry == metadata[CHOOSE m \in copied : \A l \in copied : l <= m]
                 found == {t \in model.initializer :
                              /\ entry.offset + entry.size <= Len(bytes_buffer)
                              /\ SubSeq(bytes_buffer, entry.offset + 1, entry.offset + entry.size)
                                     = Backend!Data(t)}
             IN  IF found = {} THEN <<"garbage">> ELSE Tensor(CHOOSE t \in found : TRUE)

(* What each member's buffer holds after the first k calls.                 *)
Memory ==
    LET parameters ==
            [var \in Members |-> <<Parameter(var, "weight"), Parameter(var, "bias")>>]
        InputTensor(var) ==
            LET j == CHOOSE i \in Backend!Inputs : Backend!IOVar("input", i) = var
            IN  Tensor(model.input[nodes[j].op.index + 1])
        Read(memory, buffer) ==
            IF buffer.kind = "param" THEN InputTensor(buffer.var) ELSE memory[buffer.var]
        Result(memory, call) ==
            LET bufs == [i \in DOMAIN call.input_bufs |-> Read(memory, call.input_bufs[i])]
                params == IF call.call_type = "parameterised" THEN parameters[call.var]
                          ELSE <<>>
                layer == Apply(KernelFunction[call.kernel[1]], "implemented", bufs \o params)
            IN  IF call.kernel[2] = None THEN layer
                ELSE Apply(KernelFunction[call.kernel[2]], "implemented", <<layer>>)
        memory[k \in 0 .. Len(calls)] ==
            [var \in Members |->
                IF k = 0 THEN <<"uninitialized">>
                ELSE IF calls[k].var = var THEN Result(memory[k - 1], calls[k])
                ELSE memory[k - 1][var]]
    IN  memory[Len(calls)]

ProgramComputesModel ==
    /\ \A o \in DOMAIN model.output : \E j \in Backend!Outputs : nodes[j].op.index = o - 1
    /\ \A j \in Backend!Outputs :
           Memory[Parent(j)] = OnnxValues(model)[model.output[nodes[j].op.index + 1]]

-----------------------------------------------------------------------------
(* The models the compiler is right about                                   *)

NodesOf(op_types) == {k \in DOMAIN model.node : model.node[k].op_type \in op_types}

Listed == DOMAIN model.node \ NodesOf(Frontend!NoNodeOps)

RealInputs == {i \in DOMAIN model.input : model.input[i] \notin model.initializer}

(* parser.py:25 names an input in lower case, parser.py:27 refers to it as  *)
(* it is written.                                                           *)
LowerCaseInputs == \A i \in RealInputs : Lower(model.input[i]) = model.input[i]

(* Nothing makes names unique, nor the identifiers they become; -O1 removes *)
(* nodes by name, an output with it, and adds words to names.               *)
Distinct(names) == \A i, j \in DOMAIN names : names[i] = names[j] => i = j

Unextended(names) ==
    \A i, j \in DOMAIN names : \A w \in Word : names[i] # Append(names[j], w)

IRNames ==
    LET name == [k \in DOMAIN model.node |-> Frontend!NodeName(model.node[k])]
    IN  SubList(model.input, RealInputs) \o SubList(name, Listed)
        \o IF level = 0 THEN <<>>
           ELSE [o \in DOMAIN model.output |-> Lower(model.output[o])]

InputIdentifiers ==
    {IF Cardinality(RealInputs) > 1 THEN <<"input", IndexWord[i - 1]>> ELSE <<"input">> :
        i \in RealInputs}

ClearNames ==
    LET sanitized == [k \in DOMAIN IRNames |->
                         Backend!SanitizeVariableName(IRNames[k])]
    IN  /\ Distinct(IRNames) /\ Distinct(sanitized)
        /\ level > 0 => Unextended(IRNames) /\ Unextended(sanitized)
        /\ \A k \in DOMAIN sanitized :
               sanitized[k] \in InputIdentifiers => k <= Cardinality(RealInputs)

(* A layer without a bias reads a buffer that nothing fills; batch norms    *)
(* and layer norms are not generated right; a fused addition has no kernel; *)
(* none of the kernels has a second output.                                 *)
KernelsExist ==
    /\ NodesOf({"BatchNormalization", "LayerNormalization", "Identity", "CustomOperator"}) = {}
    /\ \A k \in DOMAIN model.node :
         /\ model.node[k].attributes = "implemented"
         /\ model.node[k].op_type \in DOMAIN Frontend!Converted \cup Frontend!PassThroughOps
    /\ \A k \in NodesOf(Frontend!WeightOps) :
         /\ Len(model.node[k].input) = 3
         /\ \A i \in {2, 3} : model.node[k].input[i] \in model.initializer
    /\ \A k \in Listed : Len(model.node[k].output) = 1
    /\ (level > 0 /\ NodesOf({"Add"}) # {}) =>
         \A k \in Listed : Frontend!Converted[model.node[k].op_type] \notin ActivationOps

(* Structural operators come out as their first operand: those that compute *)
(* something else than its data may only describe shapes.  A computed       *)
(* operand that is an initializer is dropped, and a kernel without operands *)
(* reads the first input.                                                   *)
ShapeOps == Frontend!PassThroughOps \ Reshaping

ShapeTensors == UNION {Frontend!Outputs(model.node[k]) : k \in NodesOf(ShapeOps)}

IsData(n, i) == i = 1 \/ n.op_type \in ElementWiseOps

OperandsFlow ==
    /\ \A k \in DOMAIN model.node : model.node[k].input # <<>>
    /\ \A k \in DOMAIN model.node : \A i \in DOMAIN model.node[k].input :
           LET n == model.node[k]
               t == n.input[i]
           IN  /\ IsData(n, i) => t \notin model.initializer
               /\ IsData(n, i) /\ n.op_type \notin ShapeOps => t \notin ShapeTensors
               /\ ~ IsData(n, i) /\ k \in Listed /\ n.op_type # "Reshape" =>
                      t \in model.initializer

(* There is an output; each is copied from the buffer of a kernel; and      *)
(* outputs are only numbered when there are several inputs.                 *)
OutputsComputed ==
    /\ \A o \in DOMAIN model.output :
         /\ model.output[o] \notin ShapeTensors \cup model.initializer
         /\ OnnxValues(model)[model.output[o]][1] # "tensor"
    /\ model.output # <<>>
    /\ Len(model.output) = 1 \/ Cardinality(RealInputs) > 1

SupportedModel ==
    LowerCaseInputs /\ ClearNames /\ KernelsExist /\ OperandsFlow /\ OutputsComputed

-----------------------------------------------------------------------------
(* Properties                                                               *)

TypeOK ==
    /\ phase \in {"map_inputs", "traverse", "optimize", "kernel_fusion",
                  "optimized", "codegen", "pack_model_data", "done", "failed"}
    /\ CheckedModel(model)
    /\ level \in Levels
    /\ nodes \in Seq(Nodes)

(* The front end hands the middle end what kernel fusion relies on: nodes   *)
(* behind the nodes they read, activations with one operand.                *)
FusionGetsWhatItNeeds ==
    phase = "optimize" /\ SupportedModel =>
        /\ Fusion!InOrder(nodes)
        /\ Fusion!Unfused(nodes)
        /\ level > 0 => Fusion!NamesDistinct(nodes) /\ Fusion!NamesUnextended(nodes)

(* No supported model is refused, by any of the stages.                     *)
SupportedIsCompiled == phase = "failed" => ~ SupportedModel

(* At every level, the program of a supported model is accepted by the C++  *)
(* compiler: what the front end dropped or renamed, the middle end renamed  *)
(* and the back end aliased and sanitized still fits together.              *)
GeneratedCodeCompiles == phase = "done" /\ SupportedModel => ProgramCompiles

(* At every level, running the program leaves in each output what the ONNX  *)
(* model says, from the inputs and the stored parameters.                   *)
GeneratedCodeComputes ==
    phase = "done" /\ SupportedModel /\ ProgramCompiles => ProgramComputesModel

(* No stage refuses an input whose name has an upper-case letter, which     *)
(* parser.py:25-27 leaves dangling, or an output that no kernel computes.   *)
(* They never go unseen all the same: the C++ compiler rejects the program, *)
(* or it computes what the model says.                                      *)
DanglingIsCaught ==
    phase = "done" /\ ClearNames /\ KernelsExist /\ OperandsFlow
    /\ ~ (LowerCaseInputs /\ OutputsComputed) /\ ProgramCompiles => ProgramComputesModel

(* graph_context.py:22: "onnx tensor name -> IR value name".                *)
ValueMapNamesNodes ==
    phase = "optimize" =>
        \A t \in DOMAIN value_map : \E j \in DOMAIN nodes : nodes[j].name = value_map[t]

(* main.py:49: -O1 is "reserved for future passes (currently same as -O0)". *)
LevelOneIsLevelZero == phase = "optimized" => fused_count = 0
=============================================================================
