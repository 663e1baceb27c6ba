----------------------------- MODULE FfxBackend -----------------------------
(***************************************************************************)
(* Code generation for the ffx runtime (backend/ffx_runtime): nodes become *)
(* members of a C++ class, with one buffer each, and calls of kernels in   *)
(* the order of the list.  Names become identifiers; a transform node has  *)
(* no buffer of its own, its name is an alias.                             *)
(*                                                                         *)
(* An identifier is the sequence of words that "_" joins.  A buffer of the *)
(* generated program is a parameter of infer, device_<var>, or belongs to  *)
(* a member, device_<var>_output_.                                         *)
(***************************************************************************)
EXTENDS FfxIR, SequencesExt

CONSTANTS
    Identifier,  \* each word, split where C++ does not allow a character
    Digit,       \* words that begin with a digit
    IndexWord,   \* the word for each index
    ALIGNMENT,   \* of parameters in the blob
    Size(_)      \* of the data of a tensor, in the same unit

VARIABLES
    phase,
    nodes,       \* graph.nodes
    position,    \* of the node the loop looks at next
    calls,       \* nodes_ctx, the kernels of the program in order
    bytes_buffer, \* the blob of the parameters
    metadata     \* bytes_buffer_metadata: which parameter is copied from where

vars == <<phase, nodes, position, calls, bytes_buffer, metadata>>

Inputs  == {j \in DOMAIN nodes : nodes[j].op.type = "Input"}
Outputs == {j \in DOMAIN nodes : nodes[j].op.type = "Output"}

(* A mutant: transform nodes are to be computed, too.                       *)
ComputeTransforms == {j \in DOMAIN nodes : nodes[j].op.type \notin IOOps}

Compute == {j \in DOMAIN nodes : nodes[j].op.type \notin IOOps \cup TransformOps}

SanitizeVariableName(name) ==
    LET sanitized == FlattenSeq([k \in DOMAIN name |-> Identifier[name[k]]])
    IN  IF sanitized # <<>> /\ Head(sanitized) \in Digit
        THEN <<"var">> \o sanitized
        ELSE sanitized

(* Inputs are numbered when there are several; outputs too, by how many     *)
(* inputs there are.                                                        *)
IOVar(prefix, j) ==
    IF Cardinality(Inputs) > 1
    THEN <<prefix, IndexWord[nodes[j].op.index]>>
    ELSE <<prefix>>

InputVars == {IOVar("input", j) : j \in Inputs}

LastNamed(S, name) ==
    CHOOSE j \in S : /\ nodes[j].name = name
                     /\ \A i \in S : nodes[i].name = name => i <= j

IsNamed(S, name) == \E j \in S : nodes[j].name = name

Aliases == {j \in DOMAIN nodes : nodes[j].op.type \in TransformOps}

AliasOf(name) ==
    LET j == LastNamed(Aliases, name)
    IN  IF nodes[j].inputs = <<>> THEN <<>> ELSE nodes[j].inputs[1]

(* A mutant: an alias of an alias is not followed.                          *)
ParentNodeId(name) == IF IsNamed(Aliases, name) THEN AliasOf(name) ELSE name

(* get_physical_node_id: follow the aliases, once each.                     *)
PhysicalNodeId(name) ==
    LET followed[n \in 0 .. Cardinality(Aliases)] ==
            IF n = 0 THEN name
            ELSE IF IsNamed(Aliases, followed[n - 1]) THEN AliasOf(followed[n - 1])
            ELSE followed[n - 1]
        Stops(n) == \/ ~ IsNamed(Aliases, followed[n])
                    \/ \E m \in 0 .. n - 1 : followed[m] = followed[n]
    IN  followed[CHOOSE n \in 0 .. Cardinality(Aliases) :
                     Stops(n) /\ \A m \in 0 .. n - 1 : ~ Stops(m)]

(* ir_to_cpp_variable, where a later entry replaces an earlier one.         *)
CppVar(name) ==
    LET id == PhysicalNodeId(name)
    IN  IF ~ IsNamed(Compute, id) /\ IsNamed(Inputs, id)
        THEN IOVar("input", LastNamed(Inputs, id))
        ELSE SanitizeVariableName(id)

Param(var)  == [kind |-> "param", var |-> var]
Member(var) == [kind |-> "member", var |-> var]

BufferAccessor(name) ==
    LET var == CppVar(name)
    IN  IF IsNamed(Inputs, PhysicalNodeId(name)) \/ var \in InputVars
        THEN Param(var)
        ELSE Member(var)

FirstInput == CHOOSE j \in Inputs : \A i \in Inputs : j <= i

ResolveInputBuffers(node) ==
    LET names == IF node.inputs = <<>> /\ Inputs # {}
                 THEN <<nodes[FirstInput].name>>
                 ELSE node.inputs
    IN  [k \in DOMAIN names |-> BufferAccessor(names[k])]

(* The operators that have an emitter, and the emitters that read what      *)
(* their operator does not have.                                            *)
EmittedOps ==
    (ActivationOps \ {"Identity"}) \cup ElementWiseOps \cup PoolingOps
    \cup {"Linear", "Conv2d", "BatchNorm2d", "Softmax"}

BrokenEmitter(op) == op.type = "BatchNorm2d" /\ op.activation # None

CallType(op) ==
    IF op.type \in {"Linear", "Conv2d"} THEN "parameterised"
    ELSE IF op.type = "BatchNorm2d" THEN "batch_norm"
    ELSE IF op.activation # None THEN "elementwise_binary"
    ELSE "element_wise"

Call(node) ==
    [var |-> CppVar(node.name), kernel |-> <<node.op.type, node.op.activation>>,
     call_type |-> CallType(node.op), input_bufs |-> ResolveInputBuffers(node)]

(* The blob: cell after cell of the parameters' data, each parameter        *)
(* aligned.  One without data has no entry.                                 *)
AlignBuffer(buffer) ==
    buffer \o [i \in 1 .. (- Len(buffer)) % ALIGNMENT |-> <<>>]

Data(tensor) == [i \in 1 .. Size(tensor) |-> <<tensor, i>>]

Entry(node, param, offset, data) ==
    [node |-> CppVar(node.name), param |-> param, offset |-> offset, size |-> Size(data)]

(* A mutant: the offset is taken before the buffer is aligned.              *)
PackUnaligned(packed, node, param, data) ==
    IF data = None \/ Size(data) = 0 THEN packed
    ELSE [buffer |-> AlignBuffer(packed.buffer) \o Data(data),
          metadata |-> Append(packed.metadata, Entry(node, param, Len(packed.buffer), data))]

PackData(packed, node, param, data) ==
    IF data = None \/ Size(data) = 0 THEN packed
    ELSE LET buffer == AlignBuffer(packed.buffer)
         IN  [buffer |-> buffer \o Data(data),
              metadata |-> Append(packed.metadata, Entry(node, param, Len(buffer), data))]

(* The mean and variance of a batch norm are left out: the member           *)
(* initializers of one are not valid C++ (codegen_ops.py:133 gives them no  *)
(* size).                                                                   *)
PackParameters(packed, node) ==
    IF node.op.type \notin TrainableOps THEN packed
    ELSE PackData(PackData(packed, node, "weight", node.op.weight), node, "bias", node.op.bias)

-----------------------------------------------------------------------------

Generating == phase = "codegen" /\ position <= Len(nodes)

SkipNode ==
    /\ Generating
    /\ position \notin Compute
    /\ position' = position + 1
    /\ UNCHANGED <<phase, nodes, calls, bytes_buffer, metadata>>

EmitNode ==
    /\ Generating
    /\ position \in Compute
    /\ nodes[position].op.type \in EmittedOps
    /\ ~ BrokenEmitter(nodes[position].op)
    /\ calls' = Append(calls, Call(nodes[position]))
    /\ position' = position + 1
    /\ UNCHANGED <<phase, nodes, bytes_buffer, metadata>>

(* No emitter, or one that fails: the exception ends the compilation.       *)
EmitFails ==
    /\ Generating
    /\ position \in Compute
    /\ nodes[position].op.type \notin EmittedOps \/ BrokenEmitter(nodes[position].op)
    /\ phase' = "failed"
    /\ UNCHANGED <<position, nodes, calls, bytes_buffer, metadata>>

StartPacking ==
    /\ phase = "codegen"
    /\ position > Len(nodes)
    /\ phase' = "pack_model_data"
    /\ position' = 1
    /\ UNCHANGED <<nodes, calls, bytes_buffer, metadata>>

PackNode ==
    /\ phase = "pack_model_data"
    /\ position <= Len(nodes)
    /\ \E packed \in {PackParameters([buffer |-> bytes_buffer, metadata |-> metadata],
                                     nodes[position])} :
        /\ bytes_buffer' = packed.buffer
        /\ metadata' = packed.metadata
    /\ position' = position + 1
    /\ UNCHANGED <<phase, nodes, calls>>

Render ==
    /\ phase = "pack_model_data"
    /\ position > Len(nodes)
    /\ bytes_buffer' = AlignBuffer(bytes_buffer)
    /\ phase' = "done"
    /\ UNCHANGED <<position, nodes, calls, metadata>>

Next == SkipNode \/ EmitNode \/ EmitFails \/ StartPacking \/ PackNode \/ Render
=============================================================================
