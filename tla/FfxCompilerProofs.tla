------------------------- MODULE FfxCompilerProofs --------------------------
(***************************************************************************)
(* Proofs about FfxCompiler, for models of any size: the stages fit        *)
(* together.  What the front end lists is what kernel fusion relies on, so *)
(* that the theorems of KernelFusionProofs hold inside the compiler, and   *)
(* no stage refuses a supported model.                                     *)
(*                                                                         *)
(* The front end forgets: a tensor that value_map does not know is dropped *)
(* without an error.  The invariant says what it must know at each point   *)
(* of the walk, every tensor defined so far but the initializers and the   *)
(* results of shape computations, and that what it knows are names of      *)
(* nodes listed before.                                                    *)
(*                                                                         *)
(* And what comes out compiles (GeneratedCodeAlwaysCompiles).  CInv says   *)
(* of the list, at every stage, what the back end relies on without a      *)
(* check: identifiers are apart, what a node reads is listed before it,    *)
(* aliases end at a kernel or an input, and those of an output at a        *)
(* kernel.                                                                 *)
(*                                                                         *)
(* And it computes what the model does (GeneratedCodeAlwaysComputes).      *)
(* VInv says that the nodes can be given values, each computed from those  *)
(* of the nodes it reads, that agree with the ONNX graph: on what          *)
(* value_map knows while the list grows, on the outputs from then on.      *)
(* Fusion changes the values of the layers it rewrites and of no other     *)
(* node.  Of the program it says which calls were emitted and where in the *)
(* blob each parameter is.                                                 *)
(***************************************************************************)
EXTENDS FfxCompiler, FiniteSetTheorems, SequenceTheorems, TLAPS

(* The graphs kernel fusion may be given.                                   *)
FusionGraphs ==
    {g \in Seq(Nodes) : /\ Fusion!NamesDistinct(g) /\ Fusion!NamesUnextended(g)
                        /\ Fusion!InOrder(g) /\ Fusion!Unfused(g)}

Pass == INSTANCE KernelFusionProofs WITH Graphs <- FusionGraphs

Typed ==
    /\ phase \in {"map_inputs", "traverse", "optimize", "kernel_fusion",
                  "optimized", "codegen", "pack_model_data", "done", "failed"}
    /\ model \in Models
    /\ level \in Levels
    /\ nodes \in Seq(Nodes)
    /\ position \in Nat \ {0}
    /\ \A t \in DOMAIN value_map : value_map[t] \in Name

-----------------------------------------------------------------------------
(* What the instances share                                                 *)

(* The front end, the pass and this module select from lists alike.         *)
LEMMA PassSubList ==
    ASSUME NEW K, NEW s
    PROVE  Pass!SubList(s, K) = SubList(s, K)
<1>1. Pass!Cardinality(K) = Cardinality(K)
    BY DEF Pass!Cardinality, Cardinality
<1>2. \A j : Pass!Rank(K, j) = Rank(K, j)
    BY DEF Pass!Rank, Rank, Pass!Cardinality, Cardinality
<1>3. \A r : Pass!AtRank(K, r) = AtRank(K, r)
    BY <1>2 DEF Pass!AtRank, AtRank
<1> QED
    BY <1>1, <1>3 DEF Pass!SubList, SubList

LEMMA FrontendSubList ==
    ASSUME NEW K, NEW s
    PROVE  Frontend!SubList(s, K) = SubList(s, K)
<1>1. Frontend!Cardinality(K) = Cardinality(K)
    BY DEF Frontend!Cardinality, Cardinality
<1>2. \A j : Frontend!Rank(K, j) = Rank(K, j)
    BY DEF Frontend!Rank, Rank, Frontend!Cardinality, Cardinality
<1>3. \A r : Frontend!AtRank(K, r) = AtRank(K, r)
    BY <1>2 DEF Frontend!AtRank, AtRank
<1> QED
    BY <1>1, <1>3 DEF Frontend!SubList, SubList

LEMMA FusionSubList ==
    ASSUME NEW K, NEW s
    PROVE  Fusion!SubList(s, K) = SubList(s, K)
<1>1. Fusion!Cardinality(K) = Cardinality(K)
    BY DEF Fusion!Cardinality, Cardinality
<1>2. \A j : Fusion!Rank(K, j) = Rank(K, j)
    BY DEF Fusion!Rank, Rank, Fusion!Cardinality, Cardinality
<1>3. \A r : Fusion!AtRank(K, r) = AtRank(K, r)
    BY <1>2 DEF Fusion!AtRank, AtRank
<1> QED
    BY <1>1, <1>3 DEF Fusion!SubList, SubList

(* What the instance of the proofs about the pass assumes.                  *)
LEMMA PassAssumptions ==
    /\ LowerWord \in [Word -> Word] /\ Pass!ActivationOps \subseteq Word
    /\ None \notin Pass!ActivationOps \cup Pass!Name
    /\ \A g \in FusionGraphs :
         /\ g \in Seq(Pass!Nodes)
         /\ Pass!NamesDistinct(g) /\ Pass!NamesUnextended(g)
         /\ Pass!InOrder(g) /\ Pass!Unfused(g)
<1>1. Pass!ActivationOps = ActivationOps /\ Pass!Name = Name
    BY DEF Pass!ActivationOps, ActivationOps, Pass!Name, Name
<1>2. Pass!Nodes = Nodes
    BY <1>1 DEF Pass!Nodes, Nodes, Pass!Ops, Ops, Pass!OpTypes, OpTypes, Pass!IOOps, IOOps,
        Pass!TransformOps, TransformOps, Pass!ElementWiseOps, ElementWiseOps,
        Pass!TrainableOps, TrainableOps, Pass!PoolingOps, PoolingOps
<1>3. ASSUME NEW g \in FusionGraphs
      PROVE  /\ g \in Seq(Pass!Nodes)
             /\ Pass!NamesDistinct(g) /\ Pass!NamesUnextended(g)
             /\ Pass!InOrder(g) /\ Pass!Unfused(g)
    BY <1>1, <1>2 DEF FusionGraphs, Fusion!NamesDistinct, Pass!NamesDistinct,
        Fusion!NamesUnextended, Pass!NamesUnextended, Fusion!InOrder, Pass!InOrder,
        Fusion!Unfused, Pass!Unfused, Fusion!ActivationOps, ActivationOps,
        Fusion!Op, Pass!Op
<1> QED
    BY <1>1, <1>3, NameAssumption, NoneAssumption

LEMMA Ranks ==
    ASSUME NEW n \in Nat, NEW K \in SUBSET (1 .. n)
    PROVE  /\ Cardinality(K) \in Nat
           /\ \A r \in 1 .. Cardinality(K) : AtRank(K, r) \in K
           /\ \A r, t \in 1 .. Cardinality(K) :
                 /\ AtRank(K, r) < AtRank(K, t) => r < t
                 /\ AtRank(K, r) = AtRank(K, t) => r = t
           /\ \A j \in K : Rank(K, j) \in 1 .. Cardinality(K) /\ AtRank(K, Rank(K, j)) = j
<1>1. Pass!Cardinality(K) = Cardinality(K)
    BY DEF Pass!Cardinality, Cardinality
<1>2. \A j : Pass!Rank(K, j) = Rank(K, j)
    BY DEF Pass!Rank, Rank, Pass!Cardinality, Cardinality
<1>3. \A r : Pass!AtRank(K, r) = AtRank(K, r)
    BY <1>2 DEF Pass!AtRank, AtRank
<1>4. /\ Pass!Cardinality(K) \in Nat
      /\ \A r \in 1 .. Pass!Cardinality(K) : Pass!AtRank(K, r) \in K
      /\ \A r, t \in 1 .. Pass!Cardinality(K) :
            /\ Pass!AtRank(K, r) < Pass!AtRank(K, t) => r < t
            /\ Pass!AtRank(K, r) = Pass!AtRank(K, t) => r = t
    BY Pass!SubListInOrder, PassAssumptions
<1>5. ASSUME NEW j \in K
      PROVE  /\ Pass!Rank(K, j) \in 1 .. Pass!Cardinality(K)
             /\ Pass!AtRank(K, Pass!Rank(K, j)) = j
    BY Pass!RanksReach, PassAssumptions
<1> QED
    BY <1>1, <1>2, <1>3, <1>4, <1>5

(* A set of positions has a first one.                                      *)
LEMMA FirstPosition ==
    ASSUME NEW n \in Nat, NEW K \in SUBSET (1 .. n), K # {}
    PROVE  \E i \in K : \A k \in K : i <= k
<1>1. /\ Cardinality(K) \in Nat
      /\ \A r \in 1 .. Cardinality(K) : AtRank(K, r) \in K
      /\ \A r, t \in 1 .. Cardinality(K) : AtRank(K, r) < AtRank(K, t) => r < t
      /\ \A j \in K : Rank(K, j) \in 1 .. Cardinality(K) /\ AtRank(K, Rank(K, j)) = j
    BY Ranks
<1>2. 1 \in 1 .. Cardinality(K)
    <2>1. PICK j \in K : TRUE
        OBVIOUS
    <2>2. PICK r \in 1 .. Cardinality(K) : AtRank(K, r) = j
        BY <1>1
    <2> QED
        BY <1>1, <2>2
<1>3. AtRank(K, 1) \in K
    BY <1>1, <1>2
<1>4. ASSUME NEW k \in K PROVE AtRank(K, 1) <= k
    <2>1. PICK r \in 1 .. Cardinality(K) : AtRank(K, r) = k
        BY <1>1
    <2>2. ~ AtRank(K, r) < AtRank(K, 1)
        BY <1>1, <1>2
    <2>3. AtRank(K, 1) \in 1 .. n /\ k \in 1 .. n
        BY <1>3, Zenon
    <2> QED
        BY <2>1, <2>2, <2>3
<1> QED
    BY <1>3, <1>4

(* A selection from typed elements is a list of them.                       *)
LEMMA SubListTyped ==
    ASSUME NEW s, NEW n \in Nat, NEW K \in SUBSET (1 .. n), NEW S,
           \A j \in K : s[j] \in S
    PROVE  SubList(s, K) \in Seq(S)
<1>1. /\ Cardinality(K) \in Nat
      /\ \A r \in 1 .. Cardinality(K) : s[AtRank(K, r)] \in S
    BY Ranks
<1>2. SubList(s, K) = [r \in 1 .. Cardinality(K) |-> s[AtRank(K, r)]]
    BY DEF SubList
<1> QED
    BY <1>1, <1>2, IsASeq

LEMMA Joined ==
    ASSUME NEW S, NEW a \in Seq(S), NEW b \in Seq(S)
    PROVE  /\ a \o b \in Seq(S) /\ Len(a \o b) = Len(a) + Len(b)
           /\ \A r \in 1 .. Len(a) : (a \o b)[r] = a[r]
           /\ \A r \in 1 .. Len(b) : (a \o b)[Len(a) + r] = b[r]
    OBVIOUS

LEMMA PassStarts == Pass!Init => Pass!IInv
    BY Pass!InitIInv, PassAssumptions

LEMMA PassKeeps == Pass!IInv /\ [Pass!Next]_(Pass!vars) => Pass!IInv'
    BY Pass!FusionKeepsIInv, PassAssumptions

LEMMA PassResolves == Pass!IInv => Pass!ReferencesResolve
    BY Pass!InvariantResolves, PassAssumptions

LEMMA PassCounts == Pass!IInv => Pass!RemovesWhatItFused
    BY Pass!InvariantCounts, PassAssumptions

LEMMA PassSuffices == Pass!IInv => Pass!NothingLeftToFuse
    BY Pass!InvariantSuffices, PassAssumptions

LEMMA PassRewriteTyped ==
    ASSUME nodes \in Seq(Pass!Nodes),
           NEW p \in DOMAIN nodes, NEW c \in DOMAIN nodes, Pass!Fuses(p, c)
    PROVE  /\ Pass!Rewrite(p, c) \in Seq(Pass!Nodes)
           /\ DOMAIN Pass!Rewrite(p, c) = DOMAIN nodes
           /\ \A j \in DOMAIN nodes : Pass!Rewrite(p, c)[j].op.type = nodes[j].op.type
    BY Pass!RewriteTyped, PassAssumptions

-----------------------------------------------------------------------------
(* Types                                                                    *)

LEMMA ModelTyped ==
    ASSUME NEW m \in Models
    PROVE  /\ m.input \in Seq(Name) /\ m.initializer \subseteq Name
           /\ m.node \in Seq(OnnxNodes) /\ m.output \in Seq(Name)
           /\ CheckedModel(m)
    BY ModelsAssumption DEF OnnxModels

LEMMA LowerTyped ==
    ASSUME NEW name \in Name
    PROVE  Lower(name) \in Name /\ Frontend!Lower(name) = Lower(name)
<1>1. Lower(name) = [k \in 1 .. Len(name) |-> LowerWord[name[k]]] /\ Len(name) \in Nat
    BY DEF Lower, Name
<1>2. \A k \in 1 .. Len(name) : LowerWord[name[k]] \in Word
    BY NameAssumption DEF Name
<1>3. Lower(name) \in Seq(Word)
    BY <1>1, <1>2, IsASeq
<1> QED
    BY <1>3 DEF Name, Lower, Frontend!Lower

(* The registry of converters gives operators of the taxonomy, element-wise *)
(* operators their own name.                                                *)
LEMMA ConvertedTypes ==
    ASSUME NEW t \in DOMAIN Frontend!Converted
    PROVE  /\ Frontend!Converted[t] \in OpTypes
           /\ Frontend!Converted[t] \notin IOOps
           /\ Frontend!Converted[t] \in ActivationOps =>
                t \notin ElementWiseOps /\ t # "Reshape"
           /\ t \notin {"BatchNormalization", "LayerNormalization", "Identity"} =>
                Frontend!Converted[t] \in Backend!EmittedOps \cup TransformOps
           /\ t # "BatchNormalization" => Frontend!Converted[t] # "BatchNorm2d"
           /\ t \notin Frontend!NoNodeOps
    BY DEF Frontend!Converted, OpTypes, IOOps, TransformOps, ActivationOps, ElementWiseOps,
        TrainableOps, PoolingOps, Backend!EmittedOps, Backend!ActivationOps,
        Backend!ElementWiseOps, Backend!PoolingOps, Frontend!NoNodeOps, Frontend!PassThroughOps

LEMMA InputNodeTyped ==
    ASSUME model \in Models, NEW i \in DOMAIN model.input
    PROVE  /\ Frontend!InputNode(i) \in Nodes
           /\ Frontend!InputNode(i).name = Lower(model.input[i])
           /\ Frontend!InputNode(i).inputs = <<>>
           /\ Frontend!InputNode(i).op.type = "Input"
           /\ Frontend!InputNode(i).op.activation = None
<1>1. model.input[i] \in Name /\ i - 1 \in Nat
    BY ModelTyped
<1>2. /\ Frontend!InputNode(i).name = Frontend!Lower(model.input[i])
      /\ Frontend!InputNode(i) =
           [name |-> Lower(model.input[i]), inputs |-> <<>>,
            op |-> [type |-> "Input", activation |-> None, index |-> i - 1,
                    weight |-> None, bias |-> None]]
    BY <1>1, LowerTyped DEF Frontend!InputNode, Frontend!Node, Frontend!Op
<1>3. Lower(model.input[i]) \in Name /\ <<>> \in Seq(Name) /\ "Input" \in OpTypes
    BY <1>1, LowerTyped DEF OpTypes, IOOps
<1> QED
    BY <1>1, <1>2, <1>3 DEF Nodes, Ops

LEMMA OutputNodeTyped ==
    ASSUME Typed, NEW o \in DOMAIN model.output
    PROVE  /\ Frontend!OutputNode(o) \in Nodes
           /\ Frontend!OutputNode(o).name = Lower(model.output[o])
           /\ Frontend!OutputNode(o).inputs = <<Frontend!ResolveInputName(model.output[o])>>
           /\ Frontend!OutputNode(o).op.type = "Output"
           /\ Frontend!OutputNode(o).op.activation = None
<1> DEFINE parent == Frontend!ResolveInputName(model.output[o])
<1>1. model.output[o] \in Name /\ o - 1 \in Nat
    BY ModelTyped DEF Typed
<1>2. parent \in Name
    BY <1>1 DEF Typed, Frontend!ResolveInputName
<1>3. Frontend!OutputNode(o) =
           [name |-> Lower(model.output[o]), inputs |-> <<parent>>,
            op |-> [type |-> "Output", activation |-> None, index |-> o - 1,
                    weight |-> None, bias |-> None]]
    BY <1>1, LowerTyped DEF Frontend!OutputNode, Frontend!Node, Frontend!Op
<1> HIDE DEF parent
<1>4. Lower(model.output[o]) \in Name /\ <<parent>> \in Seq(Name) /\ "Output" \in OpTypes
    BY <1>1, <1>2, LowerTyped DEF OpTypes, IOOps
<1> QED
    BY <1>1, <1>3, <1>4 DEF Nodes, Ops, parent

(* The node the walk is at, its operands and results.                       *)
LEMMA CurrentTyped ==
    ASSUME Typed, Frontend!Traversing
    PROVE  /\ position \in DOMAIN model.node
           /\ Frontend!Current = model.node[position]
           /\ Frontend!Current \in OnnxNodes
           /\ Frontend!Current.output # <<>>
           /\ Frontend!NodeName(Frontend!Current) \in Name
<1>1. model.node \in Seq(OnnxNodes) /\ CheckedModel(model) /\ position \in DOMAIN model.node
    BY ModelTyped DEF Typed, Frontend!Traversing
<1>2. Frontend!Current = model.node[position] /\ Frontend!Current \in OnnxNodes
    BY <1>1 DEF Frontend!Current
<1>3. Frontend!Current.output # <<>>
    BY <1>1, <1>2 DEF CheckedModel
<1>4. Frontend!Current.name \in Name /\ Frontend!Current.output[1] \in Name
    BY <1>2, <1>3 DEF OnnxNodes
<1>5. Frontend!NodeName(Frontend!Current) \in Name
    BY <1>4, LowerTyped DEF Frontend!NodeName
<1> QED
    BY <1>1, <1>2, <1>3, <1>5

LEMMA ConvertTyped ==
    ASSUME model \in Models, NEW n \in OnnxNodes, n.op_type \in DOMAIN Frontend!Converted
    PROVE  /\ Frontend!Convert(n) \in Ops
           /\ Frontend!Convert(n).type = Frontend!Converted[n.op_type]
           /\ Frontend!Convert(n).activation = None
<1>1. Frontend!Converted[n.op_type] \in OpTypes
    BY ConvertedTypes
<1>2. \A i : Frontend!Initializer(n, i) \in {None} \cup Name
    BY ModelTyped DEF Frontend!Initializer, OnnxNodes
<1>3. \/ Frontend!Convert(n) =
           [type |-> Frontend!Converted[n.op_type], activation |-> None, index |-> 0,
            weight |-> Frontend!Initializer(n, 2), bias |-> Frontend!Initializer(n, 3)]
      \/ Frontend!Convert(n) =
           [type |-> Frontend!Converted[n.op_type], activation |-> None, index |-> 0,
            weight |-> None, bias |-> None]
    BY DEF Frontend!Convert, Frontend!Op
<1>4. CASE Frontend!Convert(n) =
           [type |-> Frontend!Converted[n.op_type], activation |-> None, index |-> 0,
            weight |-> Frontend!Initializer(n, 2), bias |-> Frontend!Initializer(n, 3)]
    BY <1>1, <1>2, <1>4 DEF Ops
<1>5. CASE Frontend!Convert(n) =
           [type |-> Frontend!Converted[n.op_type], activation |-> None, index |-> 0,
            weight |-> None, bias |-> None]
    BY <1>1, <1>5 DEF Ops
<1> QED
    BY <1>3, <1>4, <1>5

(* An activation is converted to its type and nothing else.                 *)
LEMMA ConvertedActivation ==
    ASSUME NEW n, n.op_type \in DOMAIN Frontend!Converted,
           Frontend!Converted[n.op_type] \in ActivationOps
    PROVE  Frontend!Convert(n) = Fusion!Op(Frontend!Converted[n.op_type])
<1>1. n.op_type \notin Frontend!ParameterOps
    BY DEF Frontend!ParameterOps, Frontend!Converted, ActivationOps
<1> QED
    BY <1>1 DEF Frontend!Convert, Frontend!Op, Fusion!Op

(* The inputs of a node are names that value_map gives to its operands.     *)
LEMMA ResolvedTyped ==
    ASSUME NEW n \in OnnxNodes, NEW map, \A t \in DOMAIN map : map[t] \in Name
    PROVE  LET K == {i \in DOMAIN n.input : n.input[i] \in DOMAIN map}
           IN  /\ Frontend!ResolvedInputs(n, map) \in Seq(Name)
               /\ DOMAIN Frontend!ResolvedInputs(n, map) = 1 .. Cardinality(K)
               /\ Len(Frontend!ResolvedInputs(n, map)) = Cardinality(K)
               /\ \A r \in 1 .. Cardinality(K) : \E i \in K :
                      Frontend!ResolvedInputs(n, map)[r] = map[n.input[i]]
<1> DEFINE K == {i \in DOMAIN n.input : n.input[i] \in DOMAIN map}
           s == [i \in DOMAIN n.input |-> map[n.input[i]]]
<1>1. Frontend!ResolvedInputs(n, map) = SubList(s, K)
    BY FrontendSubList DEF Frontend!ResolvedInputs
<1>2. Len(n.input) \in Nat /\ K \in SUBSET (1 .. Len(n.input))
    BY DEF OnnxNodes
<1>3. \A i \in K : s[i] = map[n.input[i]] /\ s[i] \in Name
    OBVIOUS
<1> HIDE DEF K, s
<1>4. SubList(s, K) \in Seq(Name)
    BY <1>2, <1>3, SubListTyped
<1>5. /\ Cardinality(K) \in Nat
      /\ DOMAIN SubList(s, K) = 1 .. Cardinality(K)
      /\ \A r \in 1 .. Cardinality(K) :
            AtRank(K, r) \in K /\ SubList(s, K)[r] = s[AtRank(K, r)]
    BY <1>2, Ranks DEF SubList
<1>6. Len(SubList(s, K)) = Cardinality(K)
    BY <1>4, <1>5, LenProperties
<1> QED
    BY <1>1, <1>3, <1>4, <1>5, <1>6 DEF K

-----------------------------------------------------------------------------
(* What the steps do                                                        *)

ListedInputs == [i \in DOMAIN model.input |-> Frontend!InputNode(i)]

LEMMA MapInputsEffect ==
    ASSUME Typed, Frontend!MapInputs
    PROVE  /\ phase = "map_inputs" /\ phase' = "traverse" /\ position' = 1
           /\ model' = model
           /\ nodes' = SubList(ListedInputs, RealInputs)
           /\ nodes' \in Seq(Nodes)
           /\ DOMAIN value_map' = {model.input[i] : i \in RealInputs}
           /\ \A t \in DOMAIN value_map' : value_map'[t] = t /\ t \in Name
<1>1. /\ phase = "map_inputs" /\ phase' = "traverse" /\ position' = 1
      /\ model' = model
      /\ value_map' = [t \in {model.input[i] : i \in RealInputs} |-> t]
    BY DEF Frontend!MapInputs, RealInputs
<1>2. nodes' = SubList(ListedInputs, RealInputs)
    BY FrontendSubList DEF Frontend!MapInputs, RealInputs, ListedInputs
<1>3. model.input \in Seq(Name) /\ model \in Models
    BY ModelTyped DEF Typed
<1>4. Len(model.input) \in Nat /\ RealInputs \in SUBSET (1 .. Len(model.input))
    BY <1>3 DEF RealInputs
<1>5. \A i \in RealInputs : ListedInputs[i] \in Nodes
    BY <1>3, InputNodeTyped DEF RealInputs, ListedInputs
<1>6. SubList(ListedInputs, RealInputs) \in Seq(Nodes)
    BY <1>4, <1>5, SubListTyped
<1>7. \A i \in RealInputs : model.input[i] \in Name
    BY <1>3 DEF RealInputs
<1> QED
    BY <1>1, <1>2, <1>6, <1>7

(* What value_map becomes when all outputs of a node go by one name.        *)
LEMMA MappedEffect ==
    ASSUME NEW n, NEW name
    PROVE  /\ DOMAIN Frontend!Mapped(n, name) = DOMAIN value_map \cup Frontend!Outputs(n)
           /\ \A t \in DOMAIN value_map \cup Frontend!Outputs(n) :
                Frontend!Mapped(n, name)[t] =
                    IF t \in Frontend!Outputs(n) THEN name ELSE value_map[t]
    BY DEF Frontend!Mapped

LEMMA ParseNodeEffect ==
    ASSUME Typed, Frontend!ParseNode
    PROVE  LET n == Frontend!Current
               new == nodes'[Len(nodes) + 1]
           IN  /\ phase = "traverse" /\ phase' = phase
               /\ model' = model /\ position' = position + 1
               /\ n.op_type \in DOMAIN Frontend!Converted
               /\ DOMAIN value_map' = DOMAIN value_map \cup Frontend!Outputs(n)
               /\ \A t \in DOMAIN value_map' : value_map'[t] =
                    IF t \in Frontend!Outputs(n) THEN Frontend!NodeName(n) ELSE value_map[t]
               /\ \A t \in DOMAIN value_map' : value_map'[t] \in Name
               /\ nodes' = Append(nodes, new) /\ nodes' \in Seq(Nodes)
               /\ new.name = Frontend!NodeName(n)
               /\ new.op.type = Frontend!Converted[n.op_type]
               /\ new.op.activation = None
               /\ new.inputs = Frontend!ResolvedInputs(n, value_map')
<1> DEFINE n == Frontend!Current
           op == Frontend!Convert(n)
           inputs == Frontend!ResolvedInputs(n, value_map')
           node == [name |-> Frontend!NodeName(n), op |-> op, inputs |-> inputs]
<1>1. /\ phase = "traverse" /\ phase' = phase
      /\ model' = model /\ position' = position + 1
      /\ Frontend!Traversing /\ ~ Frontend!Refused(n) /\ n.op_type \notin Frontend!NoNodeOps
      /\ value_map' = Frontend!Mapped(n, Frontend!NodeName(n))
      /\ nodes' = Append(nodes, node)
    BY DEF Frontend!ParseNode, Frontend!Traversing, Frontend!Node
<1>2. n.op_type \in DOMAIN Frontend!Converted
    BY <1>1 DEF Frontend!Refused
<1>3. n \in OnnxNodes /\ Frontend!NodeName(n) \in Name /\ model \in Models
    BY <1>1, CurrentTyped DEF Typed
<1>4. /\ DOMAIN value_map' = DOMAIN value_map \cup Frontend!Outputs(n)
      /\ \A t \in DOMAIN value_map' : value_map'[t] =
            IF t \in Frontend!Outputs(n) THEN Frontend!NodeName(n) ELSE value_map[t]
    <2> HIDE DEF n
    <2>1. value_map' = Frontend!Mapped(n, Frontend!NodeName(n))
        BY <1>1
    <2> QED
        BY <2>1, MappedEffect
<1>5. \A t \in DOMAIN value_map' : value_map'[t] \in Name
    BY <1>3, <1>4 DEF Typed
<1>6. op \in Ops /\ op.type = Frontend!Converted[n.op_type] /\ op.activation = None
    BY <1>2, <1>3, ConvertTyped
<1>7. inputs \in Seq(Name)
    <2> HIDE DEF n
    <2> QED
        BY <1>3, <1>5, ResolvedTyped
<1> HIDE DEF n, op, inputs
<1>8. node \in Nodes
    BY <1>3, <1>6, <1>7 DEF Nodes
<1> HIDE DEF node
<1>9. nodes \in Seq(Nodes)
    BY DEF Typed
<1>10. nodes' \in Seq(Nodes) /\ nodes'[Len(nodes) + 1] = node
    BY <1>1, <1>8, <1>9, AppendProperties
<1>11. /\ node.name = Frontend!NodeName(n) /\ node.op = op /\ node.inputs = inputs
    BY DEF node
<1> QED
    BY <1>1, <1>2, <1>4, <1>5, <1>6, <1>10, <1>11 DEF n, inputs

(* The last node is as its converter gives it.                              *)
LEMMA ParsedOperator ==
    ASSUME Typed, Frontend!ParseNode
    PROVE  nodes'[Len(nodes) + 1].op = Frontend!Convert(Frontend!Current)
<1> DEFINE node == [name |-> Frontend!NodeName(Frontend!Current),
                    op |-> Frontend!Convert(Frontend!Current),
                    inputs |-> Frontend!ResolvedInputs(Frontend!Current, value_map')]
<1>1. nodes' = Append(nodes, node)
    BY DEF Frontend!ParseNode, Frontend!Node
<1>2. node.op = Frontend!Convert(Frontend!Current)
    OBVIOUS
<1>3. nodes \in Seq(Nodes)
    BY DEF Typed
<1> HIDE DEF node
<1>4. nodes'[Len(nodes) + 1] = node
    BY <1>1, <1>3
<1> QED
    BY <1>2, <1>4

(* A structural operator: its results go by the name of its first operand   *)
(* that has one.                                                            *)
LEMMA PassThroughEffect ==
    ASSUME Typed, Frontend!PassThrough
    PROVE  LET n == Frontend!Current
           IN  /\ phase = "traverse" /\ phase' = phase
               /\ model' = model /\ position' = position + 1 /\ nodes' = nodes
               /\ n.op_type \in Frontend!NoNodeOps
               /\ \/ /\ n.op_type = "CustomOperator" \/ Frontend!KnownOperands(n) = {}
                     /\ value_map' = value_map
                  \/ \E i \in Frontend!KnownOperands(n) :
                       /\ DOMAIN value_map' = DOMAIN value_map \cup Frontend!Outputs(n)
                       /\ \A t \in DOMAIN value_map' : value_map'[t] =
                            IF t \in Frontend!Outputs(n) THEN value_map[n.input[i]]
                                                         ELSE value_map[t]
               /\ \A t \in DOMAIN value_map' : value_map'[t] \in Name
<1> DEFINE n == Frontend!Current
           known == Frontend!KnownOperands(n)
           first == CHOOSE i \in known : \A k \in known : i <= k
<1>1. /\ phase = "traverse" /\ phase' = phase
      /\ model' = model /\ position' = position + 1 /\ nodes' = nodes
      /\ Frontend!Traversing /\ n.op_type \in Frontend!NoNodeOps
      /\ value_map' = IF n.op_type = "CustomOperator" \/ known = {} THEN value_map
                      ELSE Frontend!Mapped(n, value_map[n.input[first]])
    BY DEF Frontend!PassThrough, Frontend!Traversing
<1>2. n \in OnnxNodes
    BY <1>1, CurrentTyped
<1> HIDE DEF n
<1>3. Len(n.input) \in Nat /\ known \in SUBSET (1 .. Len(n.input)) /\ \A i \in known : n.input[i] \in DOMAIN value_map
    BY <1>2 DEF Frontend!KnownOperands, OnnxNodes
<1>4. CASE n.op_type = "CustomOperator" \/ known = {}
    BY <1>1, <1>4 DEF Typed, n
<1>5. CASE ~ (n.op_type = "CustomOperator" \/ known = {})
    <2>1. \E i \in known : \A k \in known : i <= k
        BY <1>3, <1>5, FirstPosition
    <2>2. first \in known
        BY <2>1
    <2> HIDE DEF known, first
    <2>3. value_map' = Frontend!Mapped(n, value_map[n.input[first]])
        BY <1>1, <1>5
    <2>4. /\ DOMAIN value_map' = DOMAIN value_map \cup Frontend!Outputs(n)
          /\ \A t \in DOMAIN value_map' : value_map'[t] =
                IF t \in Frontend!Outputs(n) THEN value_map[n.input[first]] ELSE value_map[t]
        BY <2>3, MappedEffect
    <2>5. \A t \in DOMAIN value_map' : value_map'[t] \in Name
        BY <1>3, <2>2, <2>4 DEF Typed
    <2> QED
        BY <1>1, <2>2, <2>4, <2>5 DEF n, known
<1> QED
    BY <1>4, <1>5

ListedOutputs == [o \in DOMAIN model.output |-> Frontend!OutputNode(o)]

LEMMA MapOutputsEffect ==
    ASSUME Typed, Frontend!MapOutputs
    PROVE  /\ phase = "traverse" /\ phase' = "optimize"
           /\ position > Len(model.node) /\ position' = position
           /\ model' = model /\ value_map' = value_map
           /\ nodes' = nodes \o ListedOutputs
           /\ ListedOutputs \in Seq(Nodes) /\ nodes' \in Seq(Nodes)
<1>1. /\ phase = "traverse" /\ phase' = "optimize"
      /\ position > Len(model.node) /\ position' = position
      /\ model' = model /\ value_map' = value_map
      /\ nodes' = nodes \o ListedOutputs
    BY DEF Frontend!MapOutputs, ListedOutputs
<1>2. model.output \in Seq(Name)
    BY ModelTyped DEF Typed
<1>3. DOMAIN model.output = 1 .. Len(model.output) /\ Len(model.output) \in Nat
    BY <1>2
<1>4. \A o \in 1 .. Len(model.output) : Frontend!OutputNode(o) \in Nodes
    BY <1>3, OutputNodeTyped
<1>5. ListedOutputs = [o \in 1 .. Len(model.output) |-> Frontend!OutputNode(o)]
    BY <1>3 DEF ListedOutputs
<1>6. ListedOutputs \in Seq(Nodes)
    BY <1>3, <1>4, <1>5, IsASeq
<1> QED
    BY <1>1, <1>6, ConcatProperties DEF Typed

(* The steps of the pass in the compiler are the steps the proofs about the *)
(* pass are about.                                                          *)
LEMMA FusionIsPass == Fusion!Next => Pass!Next
<1>1. \A p, c : Fusion!Fuses(p, c) <=> Pass!Fuses(p, c)
    BY DEF Fusion!Fuses, Pass!Fuses, Fusion!Consumers, Pass!Consumers,
        Fusion!Refers, Pass!Refers, Fusion!ActivationOps, Pass!ActivationOps,
        Fusion!IsFusable, Pass!IsFusable, Fusion!FusableOps, Pass!FusableOps
<1>2. \A p, c : Fusion!Rewrite(p, c) = Pass!Rewrite(p, c)
    BY DEF Fusion!Rewrite, Pass!Rewrite, Fusion!Rewired, Pass!Rewired,
        Fusion!FusedNode, Pass!FusedNode, Fusion!NewProducerName, Pass!NewProducerName
<1>3. Fusion!Fuse => Pass!Fuse
    BY <1>1, <1>2, Zenon DEF Fusion!Fuse, Pass!Fuse
<1>4. Fusion!Skip => Pass!Skip
    BY <1>1, Zenon DEF Fusion!Skip, Pass!Skip
<1>5. Fusion!SubList(nodes, Fusion!Kept) = Pass!SubList(nodes, Pass!Kept)
    BY FusionSubList, PassSubList DEF Fusion!Kept, Pass!Kept
<1>6. Fusion!RemoveFused => Pass!RemoveFused
    BY <1>5, Zenon DEF Fusion!RemoveFused, Pass!RemoveFused
<1> QED
    BY <1>3, <1>4, <1>6 DEF Fusion!Next, Pass!Next

(* The pass keeps the list well-formed and brings no new types of operators.*)
LEMMA FuseEffect ==
    ASSUME Typed, Pass!Next
    PROVE  /\ phase = "kernel_fusion" /\ phase' \in {"kernel_fusion", "optimized"}
           /\ position' \in Nat \ {0}
           /\ nodes' \in Seq(Nodes)
           /\ \A j \in DOMAIN nodes' : \E i \in DOMAIN nodes :
                nodes'[j].op.type = nodes[i].op.type
<1>1. Pass!Nodes = Nodes
    BY DEF Pass!Nodes, Nodes, Pass!Name, Name, Pass!Ops, Ops, Pass!OpTypes, OpTypes,
        Pass!IOOps, IOOps, Pass!TransformOps, TransformOps, Pass!ActivationOps, ActivationOps,
        Pass!ElementWiseOps, ElementWiseOps, Pass!TrainableOps, TrainableOps,
        Pass!PoolingOps, PoolingOps
<1>2. nodes \in Seq(Nodes) /\ position \in Nat \ {0}
    BY DEF Typed
<1>3. DOMAIN nodes = 1 .. Len(nodes) /\ Len(nodes) \in Nat
    BY <1>2
<1>4. CASE Pass!Fuse
    <2>1. /\ phase = "kernel_fusion" /\ phase' = phase /\ position' = position + 1
          /\ position <= Len(nodes)
        BY <1>4 DEF Pass!Fuse
    <2>2. PICK c \in DOMAIN nodes : Pass!Fuses(position, c) /\ nodes' = Pass!Rewrite(position, c)
        BY <1>4 DEF Pass!Fuse
    <2>3. position \in DOMAIN nodes
        BY <1>2, <1>3, <2>1
    <2>4. /\ nodes' \in Seq(Nodes) /\ DOMAIN nodes' = DOMAIN nodes
          /\ \A j \in DOMAIN nodes : nodes'[j].op.type = nodes[j].op.type
        BY <1>1, <1>2, <2>2, <2>3, PassRewriteTyped
    <2> QED
        BY <1>2, <2>1, <2>4
<1>5. CASE Pass!Skip
    BY <1>2, <1>5 DEF Pass!Skip
<1>6. CASE Pass!RemoveFused
    <2> DEFINE K == Pass!Kept
    <2>1. /\ phase = "kernel_fusion" /\ phase' = "optimized" /\ position' = position
          /\ nodes' = SubList(nodes, K)
        BY <1>6, PassSubList DEF Pass!RemoveFused
    <2>2. K \in SUBSET (1 .. Len(nodes))
        BY <1>3 DEF Pass!Kept
    <2> HIDE DEF K
    <2>3. \A j \in K : j \in DOMAIN nodes /\ nodes[j] \in Nodes
        BY <1>2, <1>3, <2>2
    <2>4. nodes' \in Seq(Nodes)
        BY <1>3, <2>1, <2>2, <2>3, SubListTyped
    <2>5. /\ DOMAIN SubList(nodes, K) = 1 .. Cardinality(K)
          /\ \A r \in 1 .. Cardinality(K) :
                AtRank(K, r) \in K /\ SubList(nodes, K)[r] = nodes[AtRank(K, r)]
        BY <1>3, <2>2, Ranks DEF SubList
    <2> QED
        BY <1>2, <2>1, <2>3, <2>4, <2>5
<1> QED
    BY <1>4, <1>5, <1>6 DEF Pass!Next

(* The back end reads the list only, and fails at operators it cannot emit. *)
LEMMA GenerateEffect ==
    ASSUME Typed, Backend!Next
    PROVE  /\ phase \in {"codegen", "pack_model_data"}
           /\ phase' \in {"codegen", "pack_model_data", "done", "failed"}
           /\ position' \in Nat \ {0} /\ nodes' = nodes
           /\ phase' = "failed" => \E j \in DOMAIN nodes :
                /\ nodes[j].op.type \notin IOOps \cup TransformOps
                /\ \/ nodes[j].op.type \notin Backend!EmittedOps
                   \/ nodes[j].op.type = "BatchNorm2d"
<1>1. position \in Nat \ {0}
    BY DEF Typed
<1>2. CASE Backend!SkipNode
    BY <1>1, <1>2 DEF Backend!SkipNode, Backend!Generating
<1>3. CASE Backend!EmitNode
    BY <1>1, <1>3 DEF Backend!EmitNode, Backend!Generating
<1>4. CASE Backend!EmitFails
    <2>1. /\ phase = "codegen" /\ phase' = "failed" /\ position' = position /\ nodes' = nodes
          /\ position \in Backend!Compute
          /\ \/ nodes[position].op.type \notin Backend!EmittedOps
             \/ Backend!BrokenEmitter(nodes[position].op)
        BY <1>4 DEF Backend!EmitFails, Backend!Generating
    <2> QED
        BY <1>1, <2>1 DEF Backend!Compute, Backend!BrokenEmitter, Backend!IOOps, IOOps,
            Backend!TransformOps, TransformOps
<1>5. CASE Backend!StartPacking
    BY <1>5 DEF Backend!StartPacking
<1>6. CASE Backend!PackNode
    BY <1>1, <1>6 DEF Backend!PackNode
<1>7. CASE Backend!Render
    BY <1>1, <1>7 DEF Backend!Render
<1> QED
    BY <1>2, <1>3, <1>4, <1>5, <1>6, <1>7 DEF Backend!Next

LEMMA TypedKept == Typed /\ [Next]_vars => Typed'
<1> SUFFICES ASSUME Typed, [Next]_vars PROVE Typed'
    OBVIOUS
<1>1. CASE Parse
    <2>1. level' = level
        BY <1>1 DEF Parse
    <2>2. CASE Frontend!MapInputs
        BY <2>1, <2>2, MapInputsEffect DEF Typed
    <2>3. CASE Frontend!Refuse
        BY <2>1, <2>3 DEF Typed, Frontend!Refuse
    <2>4. CASE Frontend!PassThrough
        BY <2>1, <2>4, PassThroughEffect DEF Typed
    <2>5. CASE Frontend!ParseNode
        BY <2>1, <2>5, ParseNodeEffect DEF Typed
    <2>6. CASE Frontend!MapOutputs
        BY <2>1, <2>6, MapOutputsEffect DEF Typed
    <2> QED
        BY <1>1, <2>2, <2>3, <2>4, <2>5, <2>6 DEF Parse, Frontend!Next
<1>2. CASE Optimize
    BY <1>2 DEF Optimize, Typed, frontVars
<1>3. CASE Fuse
    <2>1. level' = level /\ model' = model /\ value_map' = value_map
        BY <1>3 DEF Fuse, frontVars
    <2>2. Pass!Next
        BY <1>3, FusionIsPass DEF Fuse
    <2> QED
        BY <2>1, <2>2, FuseEffect DEF Typed
<1>4. CASE StartCodegen
    BY <1>4 DEF StartCodegen, Typed, frontVars
<1>5. CASE Generate
    <2>1. level' = level /\ model' = model /\ value_map' = value_map /\ Backend!Next
        BY <1>5 DEF Generate, frontVars
    <2> QED
        BY <2>1, GenerateEffect DEF Typed
<1>6. CASE UNCHANGED vars
    BY <1>6 DEF vars, frontVars, Typed
<1> QED
    BY <1>1, <1>2, <1>3, <1>4, <1>5, <1>6 DEF Next

LEMMA TypedStarts == Init => Typed
<1> SUFFICES ASSUME Init PROVE Typed
    OBVIOUS
<1>1. /\ model \in Models /\ value_map = <<>> /\ phase = "map_inputs" /\ position = 1
      /\ nodes = <<>> /\ level \in Levels
    BY DEF Init, Frontend!Init
<1>2. DOMAIN value_map = {}
    BY <1>1
<1> QED
    BY <1>1, <1>2 DEF Typed

-----------------------------------------------------------------------------
(* What is known of a supported model                                       *)

LEMMA SupportedNodes ==
    ASSUME SupportedModel, NEW k \in DOMAIN model.node
    PROVE  LET n == model.node[k]
           IN  /\ n.op_type \in DOMAIN Frontend!Converted \cup Frontend!PassThroughOps
               /\ n.op_type \notin {"CustomOperator", "BatchNormalization",
                                    "LayerNormalization", "Identity"}
               /\ n.attributes = "implemented"
               /\ n.op_type \in Frontend!WeightOps =>
                    Len(n.input) = 3 /\ n.input[2] \in model.initializer
               /\ n.input # <<>>
<1>1. /\ NodesOf({"BatchNormalization", "LayerNormalization", "Identity", "CustomOperator"}) = {}
      /\ model.node[k].attributes = "implemented"
      /\ model.node[k].op_type \in DOMAIN Frontend!Converted \cup Frontend!PassThroughOps
      /\ k \in NodesOf(Frontend!WeightOps) =>
            /\ Len(model.node[k].input) = 3
            /\ model.node[k].input[2] \in model.initializer
    BY DEF SupportedModel, KernelsExist
<1>2. model.node[k].input # <<>>
    BY DEF SupportedModel, OperandsFlow
<1> QED
    BY <1>1, <1>2 DEF NodesOf

(* Data flows through operands that value_map must know; the others are     *)
(* parameters.                                                              *)
LEMMA SupportedOperands ==
    ASSUME SupportedModel, model \in Models, NEW k \in DOMAIN model.node
    PROVE  LET n == model.node[k]
           IN  /\ 1 \in DOMAIN n.input /\ n.input[1] \notin model.initializer
               /\ n.op_type \notin ShapeOps => n.input[1] \notin ShapeTensors
               /\ \A i \in DOMAIN n.input :
                    (/\ i # 1 /\ n.op_type \notin ElementWiseOps
                     /\ n.op_type \notin Frontend!NoNodeOps /\ n.op_type # "Reshape")
                    => n.input[i] \in model.initializer
<1> DEFINE n == model.node[k]
<1>1. n \in OnnxNodes /\ n.input # <<>>
    BY ModelTyped, SupportedNodes
<1>2. 1 \in DOMAIN n.input
    BY <1>1 DEF OnnxNodes
<1>3. \A i \in DOMAIN n.input :
        /\ IsData(n, i) => n.input[i] \notin model.initializer
        /\ IsData(n, i) /\ n.op_type \notin ShapeOps => n.input[i] \notin ShapeTensors
        /\ ~ IsData(n, i) /\ k \in Listed /\ n.op_type # "Reshape" =>
               n.input[i] \in model.initializer
    BY DEF SupportedModel, OperandsFlow
<1>4. n.op_type \notin Frontend!NoNodeOps => k \in Listed
    BY DEF Listed, NodesOf
<1> HIDE DEF n
<1>5. IsData(n, 1) /\ \A i : i # 1 /\ n.op_type \notin ElementWiseOps => ~ IsData(n, i)
    BY DEF IsData
<1>6. n.input[1] \notin model.initializer /\ (n.op_type \notin ShapeOps => n.input[1] \notin ShapeTensors)
    BY <1>2, <1>3, <1>5
<1>7. ASSUME NEW i \in DOMAIN n.input, i # 1, n.op_type \notin ElementWiseOps,
             n.op_type \notin Frontend!NoNodeOps, n.op_type # "Reshape"
      PROVE  n.input[i] \in model.initializer
    <2>1. ~ IsData(n, i) /\ k \in Listed
        BY <1>4, <1>7 DEF IsData
    <2> QED
        BY <1>3, <1>7, <2>1
<1> QED
    BY <1>2, <1>6, <1>7 DEF n

(* The names in the IR: of an input, of a node that is listed, of an output.*)
InputNames  == {model.input[i] : i \in RealInputs}
NodeNames   == {Frontend!NodeName(model.node[k]) : k \in Listed}
OutputNames == {Lower(model.output[o]) : o \in DOMAIN model.output}

(* With -O1 they are apart, and none is another one with a word added.      *)
LEMMA NamesClear ==
    ASSUME SupportedModel, model \in Models, level \in Levels, level > 0
    PROVE  /\ \A i \in RealInputs : \A k \in Listed :
                 model.input[i] # Frontend!NodeName(model.node[k])
           /\ \A i \in RealInputs : \A o \in DOMAIN model.output :
                 model.input[i] # Lower(model.output[o])
           /\ \A k \in Listed : \A o \in DOMAIN model.output :
                 Frontend!NodeName(model.node[k]) # Lower(model.output[o])
           /\ \A k, l \in Listed : k # l =>
                 Frontend!NodeName(model.node[k]) # Frontend!NodeName(model.node[l])
           /\ \A o, p \in DOMAIN model.output : o # p =>
                 Lower(model.output[o]) # Lower(model.output[p])
           /\ \A a, b \in InputNames \cup NodeNames \cup OutputNames :
                 \A w \in Word : a # Append(b, w)
<1> DEFINE name == [k \in DOMAIN model.node |-> Frontend!NodeName(model.node[k])]
           s1 == SubList(model.input, RealInputs)
           s2 == SubList(name, Listed)
           s3 == [o \in DOMAIN model.output |-> Lower(model.output[o])]
           c1 == Cardinality(RealInputs)
           c2 == Cardinality(Listed)
           c3 == Len(model.output)
<1>1. /\ model.input \in Seq(Name) /\ model.node \in Seq(OnnxNodes)
      /\ model.output \in Seq(Name) /\ CheckedModel(model)
    BY ModelTyped
<1>2. /\ Len(model.input) \in Nat /\ RealInputs \in SUBSET (1 .. Len(model.input))
      /\ Len(model.node) \in Nat /\ Listed \in SUBSET (1 .. Len(model.node))
      /\ DOMAIN model.output = 1 .. c3 /\ c3 \in Nat
    BY <1>1 DEF RealInputs, Listed
<1>3. IRNames = s1 \o s2 \o s3
    <2>1. level # 0
        BY LevelsAssumption
    <2> QED
        BY <2>1 DEF IRNames
<1>4. /\ c1 \in Nat /\ DOMAIN s1 = 1 .. c1
      /\ \A j \in RealInputs : \E r \in 1 .. c1 : s1[r] = model.input[j]
    <2> DEFINE K == RealInputs
               n == Len(model.input)
    <2>0. n \in Nat /\ K \in SUBSET (1 .. n)
        BY <1>2
    <2> HIDE DEF K, n
    <2>1. /\ Cardinality(K) \in Nat
          /\ DOMAIN SubList(model.input, K) = 1 .. Cardinality(K)
          /\ \A r \in 1 .. Cardinality(K) : SubList(model.input, K)[r] = model.input[AtRank(K, r)]
          /\ \A j \in K : Rank(K, j) \in 1 .. Cardinality(K) /\ AtRank(K, Rank(K, j)) = j
        BY <2>0, Ranks DEF SubList
    <2> QED
        BY <2>1 DEF K
<1>5. /\ c2 \in Nat /\ DOMAIN s2 = 1 .. c2
      /\ \A r \in 1 .. c2 : AtRank(Listed, r) \in Listed
      /\ \A r \in 1 .. c2 : s2[r] = Frontend!NodeName(model.node[AtRank(Listed, r)])
      /\ \A k \in Listed : \E r \in 1 .. c2 : AtRank(Listed, r) = k
    <2> DEFINE K == Listed
               n == Len(model.node)
    <2>0. n \in Nat /\ K \in SUBSET (1 .. n)
        BY <1>2
    <2> HIDE DEF name, K, n
    <2>1. /\ Cardinality(K) \in Nat
          /\ DOMAIN SubList(name, K) = 1 .. Cardinality(K)
          /\ \A r \in 1 .. Cardinality(K) :
                AtRank(K, r) \in K /\ SubList(name, K)[r] = name[AtRank(K, r)]
          /\ \A j \in K : Rank(K, j) \in 1 .. Cardinality(K) /\ AtRank(K, Rank(K, j)) = j
        BY <2>0, Ranks DEF SubList
    <2>2. \A k \in K : name[k] = Frontend!NodeName(model.node[k])
        BY DEF name, K, Listed
    <2> QED
        BY <2>1, <2>2 DEF K
<1>6. s1 \in Seq(Name) /\ s2 \in Seq(Name) /\ s3 \in Seq(Name)
    <2>1. \A j \in RealInputs : model.input[j] \in Name
        BY <1>1 DEF RealInputs
    <2>2. s1 \in Seq(Name)
        BY <1>2, <2>1, SubListTyped
    <2>3. ASSUME NEW k \in Listed PROVE name[k] \in Name
        <3>1. k \in DOMAIN model.node /\ model.node[k] \in OnnxNodes
            BY <1>1 DEF Listed
        <3>2. model.node[k].output # <<>>
            BY <1>1, <3>1 DEF CheckedModel
        <3>3. model.node[k].name \in Name /\ model.node[k].output[1] \in Name
            BY <3>1, <3>2 DEF OnnxNodes
        <3> QED
            BY <3>1, <3>3, LowerTyped DEF Frontend!NodeName
    <2>4. s2 \in Seq(Name)
        <3> HIDE DEF name
        <3> QED
            BY <1>2, <2>3, SubListTyped
    <2>5. \A o \in 1 .. c3 : Lower(model.output[o]) \in Name
        BY <1>1, <1>2, LowerTyped
    <2>6. s3 \in Seq(Name)
        BY <1>2, <2>5, IsASeq
    <2> QED
        BY <2>2, <2>4, <2>6
<1>7. Len(s1) = c1 /\ Len(s2) = c2 /\ Len(s3) = c3 /\ \A o \in 1 .. c3 : s3[o] = Lower(model.output[o])
    <2>1. DOMAIN s3 = 1 .. c3 /\ \A o \in 1 .. c3 : s3[o] = Lower(model.output[o])
        BY <1>2
    <2> HIDE DEF s1, s2, s3
    <2> QED
        BY <1>2, <1>4, <1>5, <1>6, <2>1, LenProperties
<1> HIDE DEF s1, s2, s3, c1, c2, c3, name
<1>8. /\ DOMAIN IRNames = 1 .. (c1 + c2 + c3)
      /\ \A r \in 1 .. c1 : IRNames[r] = s1[r]
      /\ \A r \in 1 .. c2 : IRNames[c1 + r] = s2[r]
      /\ \A r \in 1 .. c3 : IRNames[c1 + c2 + r] = s3[r]
    <2> DEFINE s12 == s1 \o s2
    <2>1. /\ s12 \in Seq(Name) /\ Len(s12) = Len(s1) + Len(s2)
          /\ \A r \in 1 .. Len(s1) : s12[r] = s1[r]
          /\ \A r \in 1 .. Len(s2) : s12[Len(s1) + r] = s2[r]
        BY <1>6, Joined
    <2> HIDE DEF s12
    <2>2. IRNames = s12 \o s3
        BY <1>3 DEF s12
    <2>3. /\ IRNames \in Seq(Name) /\ Len(IRNames) = Len(s12) + Len(s3)
          /\ \A r \in 1 .. Len(s12) : IRNames[r] = s12[r]
          /\ \A r \in 1 .. Len(s3) : IRNames[Len(s12) + r] = s3[r]
        <3>1. s12 \in Seq(Name) /\ s3 \in Seq(Name)
            BY <1>6, <2>1
        <3> QED
            BY <2>2, <3>1, Joined
    <2>4. DOMAIN IRNames = 1 .. (c1 + c2 + c3)
        BY <1>7, <2>1, <2>3, LenProperties
    <2>5. ASSUME NEW r \in 1 .. c1 PROVE IRNames[r] = s1[r]
        <3>1. r \in 1 .. Len(s12) /\ r \in 1 .. Len(s1)
            BY <1>4, <1>5, <1>7, <2>1
        <3> QED
            BY <2>1, <2>3, <3>1
    <2>6. ASSUME NEW r \in 1 .. c2 PROVE IRNames[c1 + r] = s2[r]
        <3>1. c1 + r \in 1 .. Len(s12) /\ r \in 1 .. Len(s2)
            BY <1>4, <1>5, <1>7, <2>1
        <3> QED
            BY <1>7, <2>1, <2>3, <3>1
    <2>7. \A r \in 1 .. c3 : IRNames[c1 + c2 + r] = s3[r]
        BY <1>7, <2>1, <2>3
    <2> QED
        BY <2>4, <2>5, <2>6, <2>7
<1>9. /\ \A i, j \in DOMAIN IRNames : IRNames[i] = IRNames[j] => i = j
      /\ \A i, j \in DOMAIN IRNames : \A w \in Word : IRNames[i] # Append(IRNames[j], w)
    BY DEF SupportedModel, ClearNames, Distinct, Unextended
(* Where each name stands in IRNames. *)
<1>10. \A i \in RealInputs : \E r \in 1 .. c1 : IRNames[r] = model.input[i]
    BY <1>4, <1>8
<1>11. \A k \in Listed : \E r \in 1 .. c2 :
          AtRank(Listed, r) = k /\ IRNames[c1 + r] = Frontend!NodeName(model.node[k])
    BY <1>5, <1>8
<1>12. \A o \in DOMAIN model.output : o \in 1 .. c3 /\ IRNames[c1 + c2 + o] = Lower(model.output[o])
    BY <1>2, <1>7, <1>8
<1>13. ASSUME NEW i \in RealInputs, NEW k \in Listed
       PROVE  model.input[i] # Frontend!NodeName(model.node[k])
    <2>1. PICK r \in 1 .. c1 : IRNames[r] = model.input[i]
        BY <1>10
    <2>2. PICK q \in 1 .. c2 : IRNames[c1 + q] = Frontend!NodeName(model.node[k])
        BY <1>11
    <2>3. r \in DOMAIN IRNames /\ c1 + q \in DOMAIN IRNames /\ r # c1 + q
        BY <1>2, <1>4, <1>5, <1>8, <2>1, <2>2
    <2> QED
        BY <1>9, <2>1, <2>2, <2>3
<1>14. ASSUME NEW i \in RealInputs, NEW o \in DOMAIN model.output
       PROVE  model.input[i] # Lower(model.output[o])
    <2>1. PICK r \in 1 .. c1 : IRNames[r] = model.input[i]
        BY <1>10
    <2>2. IRNames[c1 + c2 + o] = Lower(model.output[o]) /\ o \in 1 .. c3
        BY <1>12
    <2>3. r \in DOMAIN IRNames /\ c1 + c2 + o \in DOMAIN IRNames /\ r # c1 + c2 + o
        BY <1>2, <1>4, <1>5, <1>8, <2>1, <2>2
    <2> QED
        BY <1>9, <2>1, <2>2, <2>3
<1>15. ASSUME NEW k \in Listed, NEW o \in DOMAIN model.output
       PROVE  Frontend!NodeName(model.node[k]) # Lower(model.output[o])
    <2>1. PICK q \in 1 .. c2 : IRNames[c1 + q] = Frontend!NodeName(model.node[k])
        BY <1>11
    <2>2. IRNames[c1 + c2 + o] = Lower(model.output[o]) /\ o \in 1 .. c3
        BY <1>12
    <2>3. c1 + q \in DOMAIN IRNames /\ c1 + c2 + o \in DOMAIN IRNames /\ c1 + q # c1 + c2 + o
        BY <1>2, <1>4, <1>5, <1>8, <2>1, <2>2
    <2> QED
        BY <1>9, <2>1, <2>2, <2>3
<1>16. ASSUME NEW k \in Listed, NEW l \in Listed, k # l
       PROVE  Frontend!NodeName(model.node[k]) # Frontend!NodeName(model.node[l])
    <2>1. PICK q \in 1 .. c2 : /\ AtRank(Listed, q) = k
                               /\ IRNames[c1 + q] = Frontend!NodeName(model.node[k])
        BY <1>11
    <2>2. PICK r \in 1 .. c2 : /\ AtRank(Listed, r) = l
                               /\ IRNames[c1 + r] = Frontend!NodeName(model.node[l])
        BY <1>11
    <2>3. q # r
        BY <1>16, <2>1, <2>2
    <2>4. c1 + q \in DOMAIN IRNames /\ c1 + r \in DOMAIN IRNames /\ c1 + q # c1 + r
        BY <1>2, <1>4, <1>5, <1>8, <2>1, <2>2, <2>3
    <2> QED
        BY <1>9, <2>1, <2>2, <2>4
<1>17. ASSUME NEW o \in DOMAIN model.output, NEW p \in DOMAIN model.output, o # p
       PROVE  Lower(model.output[o]) # Lower(model.output[p])
    <2>1. /\ IRNames[c1 + c2 + o] = Lower(model.output[o]) /\ o \in 1 .. c3
          /\ IRNames[c1 + c2 + p] = Lower(model.output[p]) /\ p \in 1 .. c3
        BY <1>12
    <2>2. /\ c1 + c2 + o \in DOMAIN IRNames /\ c1 + c2 + p \in DOMAIN IRNames
          /\ c1 + c2 + o # c1 + c2 + p
        BY <1>2, <1>4, <1>5, <1>8, <1>17, <2>1
    <2> QED
        BY <1>9, <2>1, <2>2
<1>18. \A a \in InputNames \cup NodeNames \cup OutputNames :
          \E x \in DOMAIN IRNames : IRNames[x] = a
    <2>1. ASSUME NEW i \in RealInputs PROVE \E x \in DOMAIN IRNames : IRNames[x] = model.input[i]
        <3>1. PICK r \in 1 .. c1 : IRNames[r] = model.input[i]
            BY <1>10
        <3>2. r \in DOMAIN IRNames
            BY <1>2, <1>4, <1>5, <1>8
        <3> QED
            BY <3>1, <3>2
    <2>2. ASSUME NEW k \in Listed
          PROVE  \E x \in DOMAIN IRNames : IRNames[x] = Frontend!NodeName(model.node[k])
        <3>1. PICK q \in 1 .. c2 : IRNames[c1 + q] = Frontend!NodeName(model.node[k])
            BY <1>11
        <3>2. c1 + q \in DOMAIN IRNames
            BY <1>2, <1>4, <1>5, <1>8
        <3> QED
            BY <3>1, <3>2
    <2>3. ASSUME NEW o \in DOMAIN model.output
          PROVE  \E x \in DOMAIN IRNames : IRNames[x] = Lower(model.output[o])
        <3>1. IRNames[c1 + c2 + o] = Lower(model.output[o]) /\ o \in 1 .. c3
            BY <1>12
        <3>2. c1 + c2 + o \in DOMAIN IRNames
            BY <1>2, <1>4, <1>5, <1>8, <3>1
        <3> QED
            BY <3>1, <3>2
    <2> QED
        BY <2>1, <2>2, <2>3 DEF InputNames, NodeNames, OutputNames
<1>19. \A a, b \in InputNames \cup NodeNames \cup OutputNames : \A w \in Word : a # Append(b, w)
    <2> TAKE a, b \in InputNames \cup NodeNames \cup OutputNames
    <2> TAKE w \in Word
    <2>1. PICK x \in DOMAIN IRNames : IRNames[x] = a
        BY <1>18
    <2>2. PICK y \in DOMAIN IRNames : IRNames[y] = b
        BY <1>18
    <2> QED
        BY <1>9, <2>1, <2>2
<1> QED
    BY <1>13, <1>14, <1>15, <1>16, <1>17, <1>19

-----------------------------------------------------------------------------
(* The invariant                                                            *)

(* What value_map knows are names of listed nodes, and what it does not     *)
(* know are initializers and shapes.                                        *)
MapsToNodes ==
    \A t \in DOMAIN value_map :
        /\ t \notin model.initializer
        /\ \E j \in DOMAIN nodes : nodes[j].name = value_map[t]

NothingForgotten ==
    \A t \in Defined(model, position) :
        t \in model.initializer \cup ShapeTensors \cup DOMAIN value_map

NamesSoFar ==
    \A j \in DOMAIN nodes :
        \/ nodes[j].name \in InputNames
        \/ \E k \in Listed : k < position /\ nodes[j].name = Frontend!NodeName(model.node[k])

Walked ==
    /\ position <= Len(model.node) + 1
    /\ MapsToNodes /\ NothingForgotten /\ NamesSoFar
    /\ Fusion!InOrder(nodes) /\ Fusion!Unfused(nodes)
    /\ level > 0 => Fusion!NamesDistinct(nodes)

ReadyForFusion ==
    /\ Fusion!InOrder(nodes) /\ Fusion!Unfused(nodes)
    /\ level > 0 => Fusion!NamesDistinct(nodes) /\ Fusion!NamesUnextended(nodes)

Emitted == (IOOps \cup TransformOps \cup Backend!EmittedOps) \ {"BatchNorm2d"}

Emittable == \A j \in DOMAIN nodes : nodes[j].op.type \in Emitted

IInv ==
    /\ Typed
    /\ phase \in {"map_inputs", "traverse", "optimize"} =>
         nodes_to_remove = {} /\ fused_count = 0
    /\ phase = "map_inputs" => nodes = <<>>
    /\ SupportedModel =>
         /\ phase = "traverse" => Walked
         /\ phase = "optimize" => ReadyForFusion
         /\ phase \in {"kernel_fusion", "optimized"} /\ level > 0 => Pass!IInv
         /\ Emittable
         /\ phase # "failed"

(* The model stays the same, and with it what is said about it.             *)
LEMMA ModelSame ==
    ASSUME model' = model
    PROVE  /\ RealInputs' = RealInputs /\ Listed' = Listed
           /\ ShapeTensors' = ShapeTensors /\ InputNames' = InputNames
    BY DEF RealInputs, Listed, NodesOf, ShapeTensors, InputNames

LEMMA SupportedSame ==
    ASSUME model' = model, level' = level
    PROVE  SupportedModel' <=> SupportedModel
    BY DEF SupportedModel, LowerCaseInputs, ClearNames, KernelsExist, OperandsFlow,
        OutputsComputed, InputIdentifiers, RealInputs, IRNames, NodesOf, Listed,
        ShapeTensors, IsData, Distinct, Unextended

(* A list with one node more: the earlier nodes stay, and it reads them.    *)
LEMMA OneMore ==
    ASSUME NEW g \in Seq(Nodes), NEW new \in Nodes
    PROVE  /\ DOMAIN Append(g, new) = 1 .. (Len(g) + 1)
           /\ DOMAIN g = 1 .. Len(g) /\ Len(g) \in Nat
           /\ Append(g, new)[Len(g) + 1] = new
           /\ \A j \in DOMAIN g : Append(g, new)[j] = g[j]
    OBVIOUS

-----------------------------------------------------------------------------
(* The walk of the front end                                                *)

LEMMA MapInputsWalks ==
    ASSUME Typed, SupportedModel, Frontend!MapInputs
    PROVE  Walked' /\ Emittable'
<1> DEFINE K == RealInputs
           c == Cardinality(K)
           n == Len(model.input)
<1>1. /\ model \in Models /\ model.input \in Seq(Name) /\ model.node \in Seq(OnnxNodes)
      /\ CheckedModel(model)
    BY ModelTyped DEF Typed
<1>2. /\ position' = 1 /\ model' = model
      /\ nodes' = SubList(ListedInputs, K)
      /\ DOMAIN value_map' = {model.input[i] : i \in K}
      /\ \A t \in DOMAIN value_map' : value_map'[t] = t
    BY MapInputsEffect
<1>3. n \in Nat /\ K \in SUBSET (1 .. n) /\ DOMAIN model.input = 1 .. n
    BY <1>1 DEF RealInputs
<1>4. \A i \in K : /\ ListedInputs[i].name = model.input[i]
                   /\ ListedInputs[i].inputs = <<>>
                   /\ ListedInputs[i].op.type = "Input"
                   /\ ListedInputs[i].op.activation = None
    BY <1>1, InputNodeTyped DEF RealInputs, ListedInputs, SupportedModel, LowerCaseInputs
<1>5. \A i \in K : model.input[i] \notin model.initializer
    BY DEF RealInputs
<1>6. \A i \in 1 .. n : model.input[i] \in model.initializer \/ i \in K
    BY <1>3 DEF RealInputs
<1> HIDE DEF K, n
<1>7. /\ c \in Nat
      /\ \A r \in 1 .. c : AtRank(K, r) \in K
      /\ \A r, t \in 1 .. c : AtRank(K, r) = AtRank(K, t) => r = t
      /\ \A j \in K : Rank(K, j) \in 1 .. c /\ AtRank(K, Rank(K, j)) = j
    BY <1>3, Ranks
<1>8. DOMAIN nodes' = 1 .. c /\ \A r \in 1 .. c : nodes'[r] = ListedInputs[AtRank(K, r)]
    BY <1>2 DEF SubList
<1>9. MapsToNodes'
    <2> SUFFICES ASSUME NEW i \in K
                 PROVE  /\ model.input[i] \notin model'.initializer
                        /\ \E j \in DOMAIN nodes' : nodes'[j].name = model.input[i]
        BY <1>2 DEF MapsToNodes
    <2>1. Rank(K, i) \in DOMAIN nodes' /\ nodes'[Rank(K, i)].name = model.input[i]
        BY <1>4, <1>7, <1>8
    <2> QED
        BY <1>2, <1>5, <2>1
<1>10. NothingForgotten'
    <2>1. Defined(model, 1) = {model.input[i] : i \in DOMAIN model.input} \cup model.initializer
        BY DEF Defined
    <2> SUFFICES ASSUME NEW t \in Defined(model, 1)
                 PROVE  t \in model.initializer \cup DOMAIN value_map'
        BY <1>2 DEF NothingForgotten
    <2> QED
        BY <1>2, <1>3, <1>6, <2>1
<1>11. NamesSoFar'
    BY <1>2, <1>4, <1>7, <1>8, ModelSame DEF NamesSoFar, InputNames, K
<1>12. Fusion!InOrder(nodes)' /\ Fusion!Unfused(nodes)'
    <2>1. \A r \in DOMAIN nodes' : /\ nodes'[r].inputs = <<>>
                                   /\ nodes'[r].op.type = "Input"
                                   /\ nodes'[r].op.activation = None
        BY <1>4, <1>7, <1>8
    <2>2. "Input" \notin Fusion!ActivationOps /\ DOMAIN <<>> = {}
        BY DEF Fusion!ActivationOps
    <2> QED
        BY <2>1, <2>2 DEF Fusion!InOrder, Fusion!Unfused
<1>13. Fusion!NamesDistinct(nodes)'
    <2> SUFFICES ASSUME NEW r \in 1 .. c, NEW q \in 1 .. c, nodes'[r].name = nodes'[q].name
                 PROVE  r = q
        BY <1>8 DEF Fusion!NamesDistinct
    <2>1. model.input[AtRank(K, r)] = model.input[AtRank(K, q)]
        BY <1>4, <1>7, <1>8
    <2>2. AtRank(K, r) \in DOMAIN model.input /\ AtRank(K, q) \in DOMAIN model.input
        BY <1>3, <1>7
    <2>3. AtRank(K, r) = AtRank(K, q)
        BY <1>1, <2>1, <2>2 DEF CheckedModel
    <2> QED
        BY <1>7, <2>3
<1>14. Emittable'
    BY <1>4, <1>7, <1>8 DEF Emittable, Emitted, IOOps
<1>15. position' <= Len(model'.node) + 1
    BY <1>1, <1>2
<1> QED
    BY <1>9, <1>10, <1>11, <1>12, <1>13, <1>14, <1>15 DEF Walked

(* What the next node of the model defines.                                 *)
LEMMA DefinedGrows ==
    ASSUME Typed, Frontend!Traversing
    PROVE  /\ Defined(model, position + 1)
                = Defined(model, position) \cup Frontend!Outputs(Frontend!Current)
           /\ \A i \in DOMAIN Frontend!Current.input :
                Frontend!Current.input[i] \in Defined(model, position)
           /\ \A t \in Frontend!Outputs(Frontend!Current) : t \notin Defined(model, position)
           /\ model.initializer \subseteq Defined(model, position)
<1>1. position \in DOMAIN model.node /\ Frontend!Current = model.node[position]
    BY CurrentTyped
<1>2. CheckedModel(model)
    BY ModelTyped DEF Typed
<1>3. position \in Nat \ {0}
    BY DEF Typed
<1>4. 1 .. (position + 1) - 1 = (1 .. position - 1) \cup {position}
    BY <1>3
<1>5. Defined(model, position + 1)
          = Defined(model, position) \cup Frontend!Outputs(Frontend!Current)
    BY <1>1, <1>4 DEF Defined, Frontend!Outputs
<1>6. \A i \in DOMAIN Frontend!Current.input :
          Frontend!Current.input[i] \in Defined(model, position)
    BY <1>1, <1>2 DEF CheckedModel
<1>7. \A t \in Frontend!Outputs(Frontend!Current) : t \notin Defined(model, position)
    BY <1>1, <1>2 DEF CheckedModel, Frontend!Outputs
<1>8. model.initializer \subseteq Defined(model, position)
    BY DEF Defined
<1> QED
    BY <1>5, <1>6, <1>7, <1>8

LEMMA ParseNodeWalks ==
    ASSUME Typed, SupportedModel, Walked, Emittable, Frontend!ParseNode, level' = level
    PROVE  Walked' /\ Emittable'
<1> DEFINE n == Frontend!Current
           len == Len(nodes)
           new == nodes'[len + 1]
           K == {i \in DOMAIN n.input : n.input[i] \in DOMAIN value_map'}
<1>1. /\ phase' = phase /\ model' = model /\ position' = position + 1
      /\ n.op_type \in DOMAIN Frontend!Converted
      /\ DOMAIN value_map' = DOMAIN value_map \cup Frontend!Outputs(n)
      /\ \A t \in DOMAIN value_map' : value_map'[t] =
            IF t \in Frontend!Outputs(n) THEN Frontend!NodeName(n) ELSE value_map[t]
      /\ \A t \in DOMAIN value_map' : value_map'[t] \in Name
      /\ nodes' = Append(nodes, new) /\ nodes' \in Seq(Nodes)
      /\ new.name = Frontend!NodeName(n)
      /\ new.op.type = Frontend!Converted[n.op_type]
      /\ new.op.activation = None
      /\ new.inputs = Frontend!ResolvedInputs(n, value_map')
    BY ParseNodeEffect
<1>2. Frontend!Traversing
    BY DEF Frontend!ParseNode
<1>3. /\ position \in DOMAIN model.node /\ n = model.node[position] /\ n \in OnnxNodes
      /\ position \in Nat /\ model \in Models /\ level \in Levels /\ nodes \in Seq(Nodes)
    BY <1>2, CurrentTyped DEF Typed
<1>4. /\ Defined(model, position + 1) = Defined(model, position) \cup Frontend!Outputs(n)
      /\ \A i \in DOMAIN n.input : n.input[i] \in Defined(model, position)
      /\ \A t \in Frontend!Outputs(n) : t \notin Defined(model, position)
      /\ model.initializer \subseteq Defined(model, position)
    BY <1>2, DefinedGrows
<1>5. n.op_type \notin Frontend!NoNodeOps /\ n.op_type \notin ShapeOps
    BY <1>1, ConvertedTypes DEF ShapeOps, Frontend!NoNodeOps
<1>6. position \in Listed
    BY <1>3, <1>5 DEF Listed, NodesOf
<1>7. /\ 1 \in DOMAIN n.input /\ n.input[1] \notin model.initializer
      /\ n.input[1] \notin ShapeTensors
      /\ n.op_type \notin ElementWiseOps /\ n.op_type # "Reshape" =>
            \A i \in DOMAIN n.input : i # 1 => n.input[i] \in model.initializer
    BY <1>3, <1>5, SupportedOperands
<1>8. n.op_type \notin {"CustomOperator", "BatchNormalization", "LayerNormalization", "Identity"}
    BY <1>3, SupportedNodes
<1> HIDE DEF n
<1>9. /\ len \in Nat /\ DOMAIN nodes = 1 .. len /\ DOMAIN nodes' = 1 .. (len + 1)
      /\ \A j \in 1 .. len : nodes'[j] = nodes[j]
    <2> HIDE DEF new
    <2>1. /\ DOMAIN Append(nodes, new) = 1 .. (len + 1) /\ DOMAIN nodes = 1 .. len
          /\ len \in Nat /\ \A j \in 1 .. len : Append(nodes, new)[j] = nodes[j]
        BY <1>3
    <2> QED
        BY <1>1, <2>1
<1> HIDE DEF len, new
<1>10. new = nodes'[len + 1] /\ len + 1 \in DOMAIN nodes'
    BY <1>9 DEF new
<1>11. \A j \in DOMAIN nodes' : j = len + 1 \/ (j \in DOMAIN nodes /\ nodes'[j] = nodes[j])
    BY <1>9
<1>12. /\ MapsToNodes /\ NothingForgotten /\ NamesSoFar
       /\ Fusion!InOrder(nodes) /\ Fusion!Unfused(nodes)
       /\ level > 0 => Fusion!NamesDistinct(nodes)
    BY DEF Walked
<1>13. MapsToNodes'
    <2> SUFFICES ASSUME NEW t \in DOMAIN value_map'
                 PROVE  /\ t \notin model.initializer
                        /\ \E j \in DOMAIN nodes' : nodes'[j].name = value_map'[t]
        BY <1>1 DEF MapsToNodes
    <2>1. CASE t \in Frontend!Outputs(n)
        BY <1>1, <1>4, <1>10, <2>1
    <2>2. CASE t \notin Frontend!Outputs(n)
        <3>1. t \in DOMAIN value_map /\ value_map'[t] = value_map[t]
            BY <1>1, <2>2
        <3>2. t \notin model.initializer
            BY <1>12, <3>1 DEF MapsToNodes
        <3>3. PICK j \in DOMAIN nodes : nodes[j].name = value_map[t]
            BY <1>12, <3>1 DEF MapsToNodes
        <3>4. j \in DOMAIN nodes' /\ nodes'[j] = nodes[j]
            BY <1>9, <3>3
        <3> QED
            BY <3>1, <3>2, <3>3, <3>4
    <2> QED
        BY <2>1, <2>2
<1>14. NothingForgotten'
    BY <1>1, <1>4, <1>12, ModelSame DEF NothingForgotten
<1>15. NamesSoFar'
    <2> SUFFICES ASSUME NEW j \in DOMAIN nodes'
                 PROVE  \/ nodes'[j].name \in InputNames
                        \/ \E k \in Listed : /\ k < position + 1
                                             /\ nodes'[j].name = Frontend!NodeName(model.node[k])
        BY <1>1, ModelSame DEF NamesSoFar
    <2>1. CASE j = len + 1
        BY <1>1, <1>3, <1>6, <1>10, <2>1
    <2>2. CASE j \in DOMAIN nodes /\ nodes'[j] = nodes[j]
        <3>1. CASE nodes[j].name \in InputNames
            BY <2>2, <3>1
        <3>2. CASE \E k \in Listed : k < position /\ nodes[j].name = Frontend!NodeName(model.node[k])
            <4>1. PICK k \in Listed : k < position /\ nodes[j].name = Frontend!NodeName(model.node[k])
                BY <3>2
            <4>2. k \in Nat
                BY <1>3, ModelTyped DEF Listed
            <4>3. k < position + 1
                BY <1>3, <4>1, <4>2
            <4> QED
                BY <2>2, <4>1, <4>3
        <3> QED
            BY <1>12, <2>2, <3>1, <3>2 DEF NamesSoFar
    <2> QED
        BY <1>11, <2>1, <2>2
(* The new node reads nodes that are listed already. *)
<1>16. /\ DOMAIN new.inputs = 1 .. Cardinality(K) /\ Len(new.inputs) = Cardinality(K)
       /\ \A r \in DOMAIN new.inputs : \E i \in K : new.inputs[r] = value_map'[n.input[i]]
    <2>1. new.inputs = Frontend!ResolvedInputs(n, value_map')
        BY <1>1
    <2>2. n \in OnnxNodes /\ \A t \in DOMAIN value_map' : value_map'[t] \in Name
        BY <1>1, <1>3
    <2> DEFINE resolved == Frontend!ResolvedInputs(n, value_map')
    <2>3. /\ DOMAIN resolved = 1 .. Cardinality(K) /\ Len(resolved) = Cardinality(K)
          /\ \A r \in 1 .. Cardinality(K) : \E i \in K : resolved[r] = value_map'[n.input[i]]
        BY <2>2, ResolvedTyped
    <2> HIDE DEF K, resolved
    <2>4. new.inputs = resolved
        BY <2>1 DEF resolved
    <2> QED
        BY <2>3, <2>4
<1>17. \A i \in K : /\ n.input[i] \in DOMAIN value_map
                    /\ value_map'[n.input[i]] = value_map[n.input[i]]
    BY <1>1, <1>4
<1>18. \A r \in DOMAIN new.inputs : \E j \in 1 .. len : nodes[j].name = new.inputs[r]
    <2> TAKE r \in DOMAIN new.inputs
    <2>1. PICK i \in K : new.inputs[r] = value_map'[n.input[i]]
        BY <1>16
    <2>2. \E j \in DOMAIN nodes : nodes[j].name = value_map[n.input[i]]
        BY <1>12, <1>17 DEF MapsToNodes
    <2> QED
        BY <1>9, <1>17, <2>1, <2>2
<1>19. Fusion!InOrder(nodes)'
    <2> SUFFICES ASSUME NEW j \in DOMAIN nodes', NEW r \in DOMAIN nodes'[j].inputs
                 PROVE  \E i \in 1 .. j - 1 : nodes'[i].name = nodes'[j].inputs[r]
        BY DEF Fusion!InOrder
    <2>1. CASE j = len + 1
        <3>1. PICK i \in 1 .. len : nodes[i].name = nodes'[j].inputs[r]
            BY <1>10, <1>18, <2>1
        <3>2. i \in 1 .. j - 1 /\ nodes'[i] = nodes[i]
            BY <1>9, <2>1
        <3> QED
            BY <3>1, <3>2
    <2>2. CASE j \in DOMAIN nodes /\ nodes'[j] = nodes[j]
        <3>1. PICK i \in 1 .. j - 1 : nodes[i].name = nodes'[j].inputs[r]
            BY <1>12, <2>2 DEF Fusion!InOrder
        <3>2. nodes'[i] = nodes[i]
            BY <1>9, <2>2
        <3> QED
            BY <3>1, <3>2
    <2> QED
        BY <1>11, <2>1, <2>2
<1>20. Fusion!ActivationOps = ActivationOps
    BY DEF Fusion!ActivationOps, ActivationOps
<1>21. new.op.type \in ActivationOps => Len(new.inputs) = 1 /\ new.op = Fusion!Op(new.op.type)
    <2> SUFFICES ASSUME new.op.type \in ActivationOps
                 PROVE  K = {1} /\ new.op = Fusion!Op(new.op.type)
        BY <1>16, FS_Singleton
    <2>1. n.op_type \notin ElementWiseOps /\ n.op_type # "Reshape"
        BY <1>1, ConvertedTypes
    <2>2. 1 \in K
        BY <1>1, <1>4, <1>7, <1>12 DEF NothingForgotten
    <2>3. ASSUME NEW i \in DOMAIN n.input, i # 1 PROVE i \notin K
        <3>1. n.input[i] \in model.initializer
            BY <1>7, <2>1, <2>3
        <3> QED
            BY <1>12, <1>17, <3>1 DEF MapsToNodes
    <2>4. new.op = Fusion!Op(new.op.type)
        <3>1. new.op = Frontend!Convert(n)
            BY ParsedOperator DEF new, n, len
        <3> QED
            BY <1>1, <3>1, ConvertedActivation
    <2> QED
        BY <2>2, <2>3, <2>4
<1>22. Fusion!Unfused(nodes)'
    <2> SUFFICES ASSUME NEW j \in DOMAIN nodes'
                 PROVE  /\ nodes'[j].op.activation = None
                        /\ nodes'[j].op.type \in Fusion!ActivationOps =>
                             /\ nodes'[j].op = Fusion!Op(nodes'[j].op.type)
                             /\ Len(nodes'[j].inputs) = 1
        BY DEF Fusion!Unfused
    <2>1. CASE j = len + 1
        BY <1>1, <1>10, <1>20, <1>21, <2>1
    <2>2. CASE j \in DOMAIN nodes /\ nodes'[j] = nodes[j]
        BY <1>12, <2>2 DEF Fusion!Unfused
    <2> QED
        BY <1>11, <2>1, <2>2
<1>23. ASSUME level > 0 PROVE Fusion!NamesDistinct(nodes)'
    <2>1. ASSUME NEW j \in DOMAIN nodes PROVE nodes[j].name # new.name
        <3>1. CASE nodes[j].name \in InputNames
            <4>1. PICK i \in RealInputs : nodes[j].name = model.input[i]
                BY <3>1 DEF InputNames
            <4>2. model.input[i] # Frontend!NodeName(model.node[position])
                BY <1>3, <1>6, <1>23, NamesClear
            <4> QED
                BY <1>1, <1>3, <4>1, <4>2
        <3>2. CASE \E k \in Listed : k < position /\ nodes[j].name = Frontend!NodeName(model.node[k])
            <4>1. PICK k \in Listed : k < position /\ nodes[j].name = Frontend!NodeName(model.node[k])
                BY <3>2
            <4>2. k # position
                BY <1>3, <4>1
            <4>3. Frontend!NodeName(model.node[k]) # Frontend!NodeName(model.node[position])
                BY <1>3, <1>6, <1>23, <4>2, NamesClear
            <4> QED
                BY <1>1, <1>3, <4>1, <4>3
        <3> QED
            BY <1>12, <3>1, <3>2 DEF NamesSoFar
    <2> SUFFICES ASSUME NEW i \in DOMAIN nodes', NEW j \in DOMAIN nodes',
                        nodes'[i].name = nodes'[j].name
                 PROVE  i = j
        BY DEF Fusion!NamesDistinct
    <2>2. CASE i \in DOMAIN nodes /\ j \in DOMAIN nodes
        <3>1. nodes'[i] = nodes[i] /\ nodes'[j] = nodes[j]
            BY <1>9, <2>2
        <3> QED
            BY <1>12, <1>23, <2>2, <3>1 DEF Fusion!NamesDistinct
    <2> QED
        BY <1>10, <1>11, <2>1, <2>2
<1>24. Emittable'
    <2>1. new.op.type \in Emitted
        BY <1>1, <1>8, ConvertedTypes DEF Emitted
    <2> QED
        BY <1>10, <1>11, <2>1 DEF Emittable
<1>25. position' <= Len(model'.node) + 1
    BY <1>1, <1>2, <1>3, ModelTyped DEF Frontend!Traversing
<1> QED
    BY <1>12, <1>13, <1>14, <1>15, <1>19, <1>22, <1>23, <1>24, <1>25 DEF Walked

LEMMA PassThroughWalks ==
    ASSUME Typed, SupportedModel, Walked, Emittable, Frontend!PassThrough, level' = level
    PROVE  Walked' /\ Emittable'
<1> DEFINE n == Frontend!Current
<1>1. /\ model' = model /\ position' = position + 1 /\ nodes' = nodes
      /\ n.op_type \in Frontend!NoNodeOps
      /\ \/ /\ n.op_type = "CustomOperator" \/ Frontend!KnownOperands(n) = {}
            /\ value_map' = value_map
         \/ \E i \in Frontend!KnownOperands(n) :
              /\ DOMAIN value_map' = DOMAIN value_map \cup Frontend!Outputs(n)
              /\ \A t \in DOMAIN value_map' : value_map'[t] =
                   IF t \in Frontend!Outputs(n) THEN value_map[n.input[i]]
                                                ELSE value_map[t]
    BY PassThroughEffect
<1>2. Frontend!Traversing
    BY DEF Frontend!PassThrough
<1>3. /\ position \in DOMAIN model.node /\ n = model.node[position]
      /\ position \in Nat /\ model \in Models
    BY <1>2, CurrentTyped DEF Typed
<1>4. /\ Defined(model, position + 1) = Defined(model, position) \cup Frontend!Outputs(n)
      /\ \A i \in DOMAIN n.input : n.input[i] \in Defined(model, position)
      /\ \A t \in Frontend!Outputs(n) : t \notin Defined(model, position)
      /\ model.initializer \subseteq Defined(model, position)
    BY <1>2, DefinedGrows
<1>5. /\ 1 \in DOMAIN n.input /\ n.input[1] \notin model.initializer
      /\ n.op_type \notin ShapeOps => n.input[1] \notin ShapeTensors
    BY <1>3, SupportedOperands
<1>6. n.op_type # "CustomOperator"
    BY <1>3, SupportedNodes
<1>7. n.op_type \in ShapeOps => Frontend!Outputs(n) \subseteq ShapeTensors
    BY <1>3 DEF ShapeTensors, NodesOf
<1>8. \A i \in Frontend!KnownOperands(n) : n.input[i] \in DOMAIN value_map
    BY DEF Frontend!KnownOperands
<1>9. 1 \in DOMAIN n.input /\ n.input[1] \in DOMAIN value_map => 1 \in Frontend!KnownOperands(n)
    BY DEF Frontend!KnownOperands
<1> HIDE DEF n
<1>10. MapsToNodes /\ NothingForgotten /\ NamesSoFar
    BY DEF Walked
<1>11. DOMAIN value_map \subseteq DOMAIN value_map'
    BY <1>1
<1>12. Frontend!Outputs(n) \subseteq ShapeTensors \cup DOMAIN value_map'
    <2>1. CASE Frontend!KnownOperands(n) = {}
        BY <1>4, <1>5, <1>7, <1>9, <1>10, <2>1 DEF NothingForgotten
    <2>2. CASE Frontend!KnownOperands(n) # {}
        BY <1>1, <1>6, <2>2
    <2> QED
        BY <2>1, <2>2
<1>13. MapsToNodes'
    <2> SUFFICES ASSUME NEW t \in DOMAIN value_map'
                 PROVE  /\ t \notin model.initializer
                        /\ \E j \in DOMAIN nodes : nodes[j].name = value_map'[t]
        BY <1>1 DEF MapsToNodes
    <2>1. CASE value_map' = value_map
        BY <1>10, <2>1 DEF MapsToNodes
    <2>2. CASE value_map' # value_map
        <3>1. PICK i \in Frontend!KnownOperands(n) :
                  /\ DOMAIN value_map' = DOMAIN value_map \cup Frontend!Outputs(n)
                  /\ \A u \in DOMAIN value_map' : value_map'[u] =
                       IF u \in Frontend!Outputs(n) THEN value_map[n.input[i]]
                                                    ELSE value_map[u]
            BY <1>1, <2>2
        <3>2. CASE t \in Frontend!Outputs(n)
            BY <1>4, <1>8, <1>10, <3>1, <3>2 DEF MapsToNodes
        <3>3. CASE t \notin Frontend!Outputs(n)
            BY <1>10, <3>1, <3>3 DEF MapsToNodes
        <3> QED
            BY <3>2, <3>3
    <2> QED
        BY <2>1, <2>2
<1>14. NothingForgotten'
    <2> SUFFICES ASSUME NEW t \in Defined(model, position + 1)
                 PROVE  t \in model.initializer \cup ShapeTensors \cup DOMAIN value_map'
        BY <1>1, ModelSame DEF NothingForgotten
    <2> QED
        BY <1>4, <1>10, <1>11, <1>12 DEF NothingForgotten
<1>15. NamesSoFar'
    <2> SUFFICES ASSUME NEW j \in DOMAIN nodes
                 PROVE  \/ nodes[j].name \in InputNames
                        \/ \E k \in Listed : /\ k < position + 1
                                             /\ nodes[j].name = Frontend!NodeName(model.node[k])
        BY <1>1, ModelSame DEF NamesSoFar
    <2>1. \A k \in Listed : k < position => k < position + 1
        BY <1>3, ModelTyped DEF Listed
    <2> QED
        BY <1>10, <2>1 DEF NamesSoFar
<1>16. Emittable' /\ Fusion!InOrder(nodes)' /\ Fusion!Unfused(nodes)'
       /\ (level > 0 => Fusion!NamesDistinct(nodes))'
    BY <1>1 DEF Walked, Emittable
<1>17. position' <= Len(model'.node) + 1
    BY <1>1, <1>2, <1>3, ModelTyped DEF Frontend!Traversing
<1> QED
    BY <1>13, <1>14, <1>15, <1>16, <1>17 DEF Walked

(* No converter refuses a node of a supported model.                        *)
LEMMA RefuseNever ==
    ASSUME Typed, SupportedModel, Frontend!Refuse
    PROVE  FALSE
<1> DEFINE n == Frontend!Current
<1>1. Frontend!Traversing /\ Frontend!Refused(n)
    BY DEF Frontend!Refuse
<1>2. /\ position \in DOMAIN model.node /\ n = model.node[position] /\ n \in OnnxNodes
      /\ model \in Models
    BY <1>1, CurrentTyped DEF Typed
<1>3. /\ n.op_type \in DOMAIN Frontend!Converted \cup Frontend!PassThroughOps
      /\ n.attributes = "implemented"
      /\ n.op_type \in Frontend!WeightOps =>
           Len(n.input) = 3 /\ n.input[2] \in model.initializer
    BY <1>2, SupportedNodes
<1> HIDE DEF n
<1>4. n.op_type \in Frontend!WeightOps => Frontend!Initializer(n, 2) # None
    <2> SUFFICES ASSUME n.op_type \in Frontend!WeightOps
                 PROVE  Frontend!Initializer(n, 2) # None
        OBVIOUS
    <2>1. 2 \in DOMAIN n.input /\ n.input[2] \in model.initializer
        BY <1>2, <1>3 DEF OnnxNodes
    <2>2. n.input[2] # None
        BY <1>2, <2>1, ModelTyped, NoneAssumption
    <2> QED
        BY <2>1, <2>2 DEF Frontend!Initializer
<1> QED
    BY <1>1, <1>3, <1>4 DEF Frontend!Refused, Frontend!NoNodeOps

(* Behind the last node the outputs are listed, each reading a listed node. *)
LEMMA MapOutputsReady ==
    ASSUME Typed, SupportedModel, Walked, Emittable, Frontend!MapOutputs, level' = level
    PROVE  ReadyForFusion' /\ Emittable'
<1> DEFINE len == Len(nodes)
           outs == Len(model.output)
           Named(o) == Lower(model.output[o])
<1>1. /\ position > Len(model.node) /\ position' = position
      /\ model' = model /\ value_map' = value_map
      /\ nodes' = nodes \o ListedOutputs
      /\ ListedOutputs \in Seq(Nodes) /\ nodes' \in Seq(Nodes)
    BY MapOutputsEffect
<1>2. /\ model \in Models /\ level \in Levels /\ nodes \in Seq(Nodes) /\ position \in Nat
      /\ model.output \in Seq(Name) /\ model.node \in Seq(OnnxNodes) /\ CheckedModel(model)
    BY ModelTyped DEF Typed
<1>3. /\ MapsToNodes /\ NothingForgotten /\ NamesSoFar /\ position <= Len(model.node) + 1
      /\ Fusion!InOrder(nodes) /\ Fusion!Unfused(nodes)
      /\ level > 0 => Fusion!NamesDistinct(nodes)
    BY DEF Walked
<1>4. position = Len(model.node) + 1
    BY <1>1, <1>2, <1>3
<1>5. len \in Nat /\ DOMAIN nodes = 1 .. len /\ outs \in Nat /\ DOMAIN model.output = 1 .. outs
    BY <1>2
<1>6. Len(ListedOutputs) = outs /\ \A o \in 1 .. outs : ListedOutputs[o] = Frontend!OutputNode(o)
    <2>1. DOMAIN ListedOutputs = 1 .. outs
        BY <1>5 DEF ListedOutputs
    <2> QED
        BY <1>1, <1>5, <2>1, LenProperties DEF ListedOutputs
<1>7. /\ DOMAIN nodes' = 1 .. (len + outs)
      /\ \A j \in 1 .. len : nodes'[j] = nodes[j]
      /\ \A o \in 1 .. outs : nodes'[len + o] = Frontend!OutputNode(o)
    <2> HIDE DEF len, outs
    <2>1. /\ nodes' \in Seq(Nodes) /\ Len(nodes') = Len(nodes) + Len(ListedOutputs)
          /\ \A j \in 1 .. Len(nodes) : nodes'[j] = nodes[j]
          /\ \A o \in 1 .. Len(ListedOutputs) : nodes'[Len(nodes) + o] = ListedOutputs[o]
        BY <1>1, <1>2, Joined
    <2> QED
        BY <1>6, <2>1, LenProperties DEF len
<1>8. \A o \in 1 .. outs :
        /\ nodes'[len + o].name = Named(o)
        /\ nodes'[len + o].inputs = <<Frontend!ResolveInputName(model.output[o])>>
        /\ nodes'[len + o].op.type = "Output"
        /\ nodes'[len + o].op.activation = None
    BY <1>5, <1>7, OutputNodeTyped
<1>9. \A o \in 1 .. outs : \E j \in 1 .. len :
          nodes[j].name = Frontend!ResolveInputName(model.output[o])
    <2> TAKE o \in 1 .. outs
    <2>1. model.output[o] \in Defined(model, position)
        BY <1>2, <1>4, <1>5 DEF CheckedModel
    <2>2. model.output[o] \notin ShapeTensors \cup model.initializer
        BY <1>5 DEF SupportedModel, OutputsComputed
    <2>3. model.output[o] \in DOMAIN value_map
        BY <1>3, <2>1, <2>2 DEF NothingForgotten
    <2> QED
        BY <1>3, <1>5, <2>3 DEF MapsToNodes, Frontend!ResolveInputName
<1>10. \A j \in DOMAIN nodes : nodes[j].name \in InputNames \cup NodeNames
    BY <1>3 DEF NamesSoFar, NodeNames
<1>11. \A o \in 1 .. outs : Named(o) \in OutputNames
    BY <1>5 DEF OutputNames
<1> HIDE DEF len, outs, Named
<1>12. \A j \in DOMAIN nodes' : \/ j \in 1 .. len /\ j \in DOMAIN nodes /\ nodes'[j] = nodes[j]
                                \/ \E o \in 1 .. outs : j = len + o
    <2> TAKE j \in DOMAIN nodes'
    <2>1. CASE j \in 1 .. len
        BY <1>5, <1>7, <2>1
    <2>2. CASE j \notin 1 .. len
        <3>1. j - len \in 1 .. outs /\ j = len + (j - len)
            BY <1>5, <1>7, <2>2
        <3> QED
            BY <3>1
    <2> QED
        BY <2>1, <2>2
<1>13. Fusion!InOrder(nodes)'
    <2> SUFFICES ASSUME NEW j \in DOMAIN nodes', NEW r \in DOMAIN nodes'[j].inputs
                 PROVE  \E i \in 1 .. j - 1 : nodes'[i].name = nodes'[j].inputs[r]
        BY DEF Fusion!InOrder
    <2>1. CASE j \in 1 .. len /\ j \in DOMAIN nodes /\ nodes'[j] = nodes[j]
        <3>1. PICK i \in 1 .. j - 1 : nodes[i].name = nodes'[j].inputs[r]
            BY <1>3, <2>1 DEF Fusion!InOrder
        <3>2. nodes'[i] = nodes[i]
            BY <1>5, <1>7, <2>1
        <3> QED
            BY <3>1, <3>2
    <2>2. CASE \E o \in 1 .. outs : j = len + o
        <3>1. PICK o \in 1 .. outs : j = len + o
            BY <2>2
        <3>2. nodes'[j].inputs = <<Frontend!ResolveInputName(model.output[o])>>
            BY <1>8, <3>1
        <3>3. nodes'[j].inputs[r] = Frontend!ResolveInputName(model.output[o])
            BY <3>2
        <3>4. PICK i \in 1 .. len : nodes[i].name = Frontend!ResolveInputName(model.output[o])
            BY <1>9
        <3>5. i \in 1 .. j - 1 /\ nodes'[i] = nodes[i]
            BY <1>5, <1>7, <3>1
        <3> QED
            BY <3>3, <3>4, <3>5
    <2> QED
        BY <1>12, <2>1, <2>2
<1>14. Fusion!Unfused(nodes)'
    <2> SUFFICES ASSUME NEW j \in DOMAIN nodes'
                 PROVE  /\ nodes'[j].op.activation = None
                        /\ nodes'[j].op.type \in Fusion!ActivationOps =>
                             /\ nodes'[j].op = Fusion!Op(nodes'[j].op.type)
                             /\ Len(nodes'[j].inputs) = 1
        BY DEF Fusion!Unfused
    <2>1. "Output" \notin Fusion!ActivationOps
        BY DEF Fusion!ActivationOps
    <2> QED
        BY <1>3, <1>8, <1>12, <2>1 DEF Fusion!Unfused
<1>15. Emittable'
    <2>1. "Output" \in Emitted
        BY DEF Emitted, IOOps
    <2> QED
        BY <1>8, <1>12, <2>1 DEF Emittable
<1>16. ASSUME level > 0 PROVE Fusion!NamesDistinct(nodes)'
    <2>1. ASSUME NEW j \in DOMAIN nodes, NEW o \in 1 .. outs PROVE nodes[j].name # Named(o)
        <3>1. o \in DOMAIN model.output
            BY <1>5
        <3>2. \A i \in RealInputs : model.input[i] # Named(o)
            BY <1>2, <1>16, <3>1, NamesClear DEF Named
        <3>3. \A k \in Listed : Frontend!NodeName(model.node[k]) # Named(o)
            BY <1>2, <1>16, <3>1, NamesClear DEF Named
        <3> QED
            BY <1>10, <3>2, <3>3 DEF InputNames, NodeNames
    <2>2. ASSUME NEW o \in 1 .. outs, NEW p \in 1 .. outs, Named(o) = Named(p) PROVE o = p
        BY <1>2, <1>5, <1>16, <2>2, NamesClear DEF Named
    <2> SUFFICES ASSUME NEW i \in DOMAIN nodes', NEW j \in DOMAIN nodes',
                        nodes'[i].name = nodes'[j].name
                 PROVE  i = j
        BY DEF Fusion!NamesDistinct
    <2>3. CASE i \in DOMAIN nodes /\ nodes'[i] = nodes[i] /\ j \in DOMAIN nodes /\ nodes'[j] = nodes[j]
        BY <1>3, <1>16, <2>3 DEF Fusion!NamesDistinct
    <2>4. CASE /\ i \in DOMAIN nodes /\ nodes'[i] = nodes[i]
               /\ \E o \in 1 .. outs : j = len + o
        BY <1>8, <2>1, <2>4
    <2>5. CASE /\ j \in DOMAIN nodes /\ nodes'[j] = nodes[j]
               /\ \E o \in 1 .. outs : i = len + o
        BY <1>8, <2>1, <2>5
    <2>6. CASE (\E o \in 1 .. outs : i = len + o) /\ (\E o \in 1 .. outs : j = len + o)
        BY <1>8, <2>2, <2>6
    <2> QED
        BY <1>12, <2>3, <2>4, <2>5, <2>6
<1>17. ASSUME level > 0 PROVE Fusion!NamesUnextended(nodes)'
    <2>1. \A j \in DOMAIN nodes' : nodes'[j].name \in InputNames \cup NodeNames \cup OutputNames
        BY <1>8, <1>10, <1>11, <1>12
    <2>2. \A a, b \in InputNames \cup NodeNames \cup OutputNames : \A w \in Word : a # Append(b, w)
        BY <1>2, <1>17, NamesClear
    <2> QED
        BY <2>1, <2>2 DEF Fusion!NamesUnextended
<1> QED
    BY <1>13, <1>14, <1>15, <1>16, <1>17 DEF ReadyForFusion

-----------------------------------------------------------------------------
(* The stages fit together                                                  *)

LEMMA InitIInv == Init => IInv
<1> SUFFICES ASSUME Init PROVE IInv
    OBVIOUS
<1>1. /\ phase = "map_inputs" /\ nodes = <<>> /\ nodes_to_remove = {} /\ fused_count = 0
    BY DEF Init, Frontend!Init
<1>2. Emittable
    <2>1. DOMAIN nodes = {}
        BY <1>1
    <2> QED
        BY <2>1 DEF Emittable
<1> QED
    BY <1>1, <1>2, TypedStarts DEF IInv

(* The conjunct of the invariant about supported models.                    *)
Fitting ==
    /\ phase = "traverse" => Walked
    /\ phase = "optimize" => ReadyForFusion
    /\ phase \in {"kernel_fusion", "optimized"} /\ level > 0 => Pass!IInv
    /\ Emittable
    /\ phase # "failed"

(* With -O1 the pass starts on a list it may be given.                      *)
LEMMA OptimizeFits ==
    ASSUME Typed, ReadyForFusion, Emittable, Optimize,
           nodes_to_remove = {}, fused_count = 0
    PROVE  Fitting'
<1>1. /\ phase' = IF level = 0 THEN "optimized" ELSE "kernel_fusion"
      /\ position' = 1 /\ level' = level /\ nodes' = nodes
      /\ nodes_to_remove' = {} /\ fused_count' = 0
    BY DEF Optimize, fuseVars
<1>2. Emittable'
    BY <1>1 DEF Emittable
<1>3. ASSUME level > 0 PROVE Pass!IInv'
    <2>1. phase' = "kernel_fusion"
        BY <1>1, <1>3
    <2>2. nodes \in FusionGraphs
        BY <1>3 DEF ReadyForFusion, FusionGraphs, Typed
    <2>3. Pass!Init'
        BY <1>1, <2>1, <2>2 DEF Pass!Init
    <2>4. (Pass!Init => Pass!IInv)'
        BY PassStarts, PTL
    <2> QED
        BY <2>3, <2>4
<1> QED
    BY <1>1, <1>2, <1>3 DEF Fitting

LEMMA FuseFits ==
    ASSUME Typed, Fitting, Fuse
    PROVE  Fitting'
<1>1. Fusion!Next /\ level' = level
    BY DEF Fuse
<1>2. Pass!Next
    BY <1>1, FusionIsPass
<1>3. /\ phase = "kernel_fusion" /\ phase' \in {"kernel_fusion", "optimized"}
      /\ \A j \in DOMAIN nodes' : \E i \in DOMAIN nodes :
            nodes'[j].op.type = nodes[i].op.type
    BY <1>2, FuseEffect
<1>4. level > 0 => Pass!IInv'
    BY <1>2, <1>3, PassKeeps DEF Fitting
<1>5. Emittable'
    BY <1>3 DEF Fitting, Emittable
<1> QED
    BY <1>1, <1>3, <1>4, <1>5 DEF Fitting

LEMMA GenerateFits ==
    ASSUME Typed, Fitting, Generate
    PROVE  Fitting'
<1>1. /\ Backend!Next /\ level' = level
    BY DEF Generate
<1>2. /\ phase' \in {"codegen", "pack_model_data", "done", "failed"}
      /\ nodes' = nodes
      /\ phase' = "failed" => \E j \in DOMAIN nodes :
           /\ nodes[j].op.type \notin IOOps \cup TransformOps
           /\ \/ nodes[j].op.type \notin Backend!EmittedOps
              \/ nodes[j].op.type = "BatchNorm2d"
    BY <1>1, GenerateEffect
<1>3. Emittable
    BY DEF Fitting
<1>4. phase' # "failed"
    BY <1>2, <1>3 DEF Emittable, Emitted
<1> QED
    BY <1>2, <1>3, <1>4 DEF Fitting, Emittable

LEMMA ParseFits ==
    ASSUME IInv, SupportedModel, Parse
    PROVE  Fitting'
<1>1. Typed /\ Fitting /\ level' = level /\ Frontend!Next
    BY DEF IInv, Fitting, Parse
<1>2. Emittable
    BY <1>1 DEF Fitting
<1>3. CASE Frontend!MapInputs
    <2>1. phase' = "traverse" /\ Walked' /\ Emittable'
        BY <1>1, <1>3, MapInputsEffect, MapInputsWalks
    <2> QED
        BY <2>1 DEF Fitting
<1>4. CASE Frontend!Refuse
    BY <1>1, <1>4, RefuseNever
<1>5. CASE Frontend!PassThrough
    <2>1. phase = "traverse" /\ phase' = "traverse"
        BY <1>1, <1>5, PassThroughEffect
    <2>2. Walked' /\ Emittable'
        BY <1>1, <1>2, <1>5, <2>1, PassThroughWalks DEF Fitting
    <2> QED
        BY <2>1, <2>2 DEF Fitting
<1>6. CASE Frontend!ParseNode
    <2>1. phase = "traverse" /\ phase' = "traverse"
        BY <1>1, <1>6, ParseNodeEffect
    <2>2. Walked' /\ Emittable'
        BY <1>1, <1>2, <1>6, <2>1, ParseNodeWalks DEF Fitting
    <2> QED
        BY <2>1, <2>2 DEF Fitting
<1>7. CASE Frontend!MapOutputs
    <2>1. phase = "traverse" /\ phase' = "optimize"
        BY <1>1, <1>7, MapOutputsEffect
    <2>2. ReadyForFusion' /\ Emittable'
        BY <1>1, <1>2, <1>7, <2>1, MapOutputsReady DEF Fitting
    <2> QED
        BY <2>1, <2>2 DEF Fitting
<1> QED
    BY <1>1, <1>3, <1>4, <1>5, <1>6, <1>7 DEF Frontend!Next

(* Every step keeps the invariant.                                          *)
LEMMA NextIInv == IInv /\ [Next]_vars => IInv'
<1> SUFFICES ASSUME IInv, [Next]_vars PROVE IInv'
    OBVIOUS
<1>1. Typed' /\ Typed
    BY TypedKept DEF IInv
<1>2. /\ model' = model /\ level' = level
      /\ phase' \in {"map_inputs", "traverse", "optimize"} =>
           nodes_to_remove' = {} /\ fused_count' = 0
      /\ phase' = "map_inputs" => nodes' = <<>>
    <2>1. CASE Parse
        <3>1. /\ level' = level /\ nodes_to_remove' = nodes_to_remove
              /\ fused_count' = fused_count /\ Frontend!Next
            BY <2>1 DEF Parse, fuseVars
        <3>2. /\ model' = model /\ phase \in {"map_inputs", "traverse"}
              /\ phase' # "map_inputs"
            BY <3>1 DEF Frontend!Next, Frontend!MapInputs, Frontend!Refuse, Frontend!Traversing,
                Frontend!PassThrough, Frontend!ParseNode, Frontend!MapOutputs
        <3> QED
            BY <3>1, <3>2 DEF IInv
    <2>2. CASE Optimize
        BY <2>2 DEF Optimize, frontVars
    <2>3. CASE Fuse
        <3>1. model' = model /\ level' = level /\ Pass!Next
            BY <2>3, FusionIsPass DEF Fuse, frontVars
        <3> QED
            BY <1>1, <3>1, FuseEffect
    <2>4. CASE StartCodegen
        BY <2>4 DEF StartCodegen, frontVars
    <2>5. CASE Generate
        <3>1. model' = model /\ level' = level /\ Backend!Next
            BY <2>5 DEF Generate, frontVars
        <3> QED
            BY <1>1, <3>1, GenerateEffect
    <2>6. CASE UNCHANGED vars
        BY <2>6 DEF vars, frontVars, fuseVars, IInv
    <2> QED
        BY <2>1, <2>2, <2>3, <2>4, <2>5, <2>6 DEF Next
<1>3. ASSUME SupportedModel PROVE Fitting'
    <2>0. Fitting
        BY <1>3 DEF IInv, Fitting
    <2>1. CASE Parse
        BY <1>3, <2>1, ParseFits
    <2>2. CASE Optimize
        <3>1. phase = "optimize"
            BY <2>2 DEF Optimize
        <3>2. ReadyForFusion /\ Emittable /\ nodes_to_remove = {} /\ fused_count = 0
            BY <2>0, <3>1 DEF Fitting, IInv
        <3> QED
            BY <1>1, <2>2, <3>2, OptimizeFits
    <2>3. CASE Fuse
        BY <1>1, <2>0, <2>3, FuseFits
    <2>4. CASE StartCodegen
        BY <2>0, <2>4 DEF StartCodegen, Fitting, Emittable
    <2>5. CASE Generate
        BY <1>1, <2>0, <2>5, GenerateFits
    <2>6. CASE UNCHANGED vars
        <3>1. /\ phase' = phase /\ level' = level /\ nodes' = nodes /\ model' = model
              /\ value_map' = value_map /\ position' = position
              /\ UNCHANGED Pass!vars
            BY <2>6 DEF vars, frontVars, fuseVars, Pass!vars
        <3>2. Pass!IInv => Pass!IInv'
            BY <3>1, PassKeeps
        <3>3. Walked => Walked'
            BY <3>1, ModelSame DEF Walked, MapsToNodes, NothingForgotten, NamesSoFar
        <3>4. ReadyForFusion => ReadyForFusion'
            BY <3>1 DEF ReadyForFusion
        <3> QED
            BY <2>0, <3>1, <3>2, <3>3, <3>4 DEF Fitting, Emittable
    <2> QED
        BY <2>1, <2>2, <2>3, <2>4, <2>5, <2>6 DEF Next
<1>4. SupportedModel' <=> SupportedModel
    BY <1>2, SupportedSame
<1> QED
    BY <1>1, <1>2, <1>3, <1>4 DEF IInv, Fitting

LEMMA Invariant == Spec => []IInv
<1> QED
    BY InitIInv, NextIInv, PTL DEF Spec

-----------------------------------------------------------------------------
-----------------------------------------------------------------------------
(* Identifiers                                                              *)

(* The words of the first names in a list, joined.                          *)
Joins(f, s, n) == f = [i \in 1 .. n |-> IF i = 1 THEN s[i] ELSE f[i - 1] \o s[i]]

LEMMA JoinsExist ==
    ASSUME NEW s, NEW n \in Nat
    PROVE  \E f : Joins(f, s, n)
<1> DEFINE bad == {m \in 1 .. n + 1 : ~ \E f : Joins(f, s, m - 1)}
<1> SUFFICES ASSUME bad # {} PROVE FALSE
    <2>1. n + 1 \in 1 .. n + 1 /\ (n + 1) - 1 = n
        OBVIOUS
    <2> QED
        BY <2>1
<1>1. PICK m \in bad : \A o \in bad : m <= o
    <2> HIDE DEF bad
    <2>1. bad \in SUBSET (1 .. n + 1) /\ n + 1 \in Nat
        BY DEF bad
    <2> QED
        BY <2>1, FirstPosition
<1>2. m # 1
    <2>1. Joins([i \in 1 .. 0 |-> s], s, 0)
        BY DEF Joins
    <2> QED
        BY <2>1
<1>3. m - 1 \in 1 .. n + 1 /\ m - 1 \notin bad
    BY <1>1, <1>2
<1>4. PICK f : Joins(f, s, m - 2)
    <2>1. \E f : Joins(f, s, (m - 1) - 1)
        BY <1>3
    <2>2. (m - 1) - 1 = m - 2
        BY <1>1
    <2> QED
        BY <2>1, <2>2
<1> DEFINE l == m - 1
           g == [i \in 1 .. l |-> IF i = l THEN (IF i = 1 THEN s[i] ELSE f[i - 1] \o s[i])
                                           ELSE f[i]]
<1>5. Joins(g, s, l)
    <2>1. \A i \in 1 .. m - 2 : f[i] = IF i = 1 THEN s[i] ELSE f[i - 1] \o s[i]
        BY <1>4 DEF Joins
    <2>2. l \in Nat /\ 1 <= l /\ l - 1 = m - 2
        BY <1>3
    <2> HIDE DEF l
    <2>3. ASSUME NEW i \in 1 .. l PROVE g[i] = IF i = 1 THEN s[i] ELSE g[i - 1] \o s[i]
        <3>1. i # 1 => i - 1 \in 1 .. l /\ i - 1 # l /\ g[i - 1] = f[i - 1]
            BY <2>2
        <3>2. CASE i = l
            <4>1. g[i] = IF i = 1 THEN s[i] ELSE f[i - 1] \o s[i]
                BY <3>2
            <4> HIDE DEF g
            <4> QED
                BY <3>1, <4>1
        <3>3. CASE i # l
            <4>1. g[i] = f[i] /\ i \in 1 .. m - 2
                BY <2>2, <3>3
            <4> HIDE DEF g
            <4> QED
                BY <2>1, <3>1, <4>1
        <3> QED
            BY <3>2, <3>3
    <2>4. g = [i \in 1 .. l |-> g[i]]
        OBVIOUS
    <2> HIDE DEF g
    <2>5. g = [i \in 1 .. l |-> IF i = 1 THEN s[i] ELSE g[i - 1] \o s[i]]
        BY <2>3, <2>4
    <2> QED
        BY <2>5 DEF Joins
<1> QED
    BY <1>1, <1>5

(* They depend on these names only.                                         *)
LEMMA JoinsAgree ==
    ASSUME NEW s, NEW t, NEW n \in Nat, NEW m \in Nat, n <= m,
           \A i \in 1 .. n : s[i] = t[i],
           NEW f, Joins(f, s, n), NEW g, Joins(g, t, m)
    PROVE  \A i \in 1 .. n : f[i] = g[i]
<1> DEFINE bad == {i \in 1 .. n : f[i] # g[i]}
<1> SUFFICES ASSUME bad # {} PROVE FALSE
    OBVIOUS
<1>1. PICK i \in bad : \A o \in bad : i <= o
    <2> HIDE DEF bad
    <2>1. bad \in SUBSET (1 .. n)
        BY DEF bad
    <2> QED
        BY <2>1, FirstPosition
<1>2. /\ f[i] = IF i = 1 THEN s[i] ELSE f[i - 1] \o s[i]
      /\ g[i] = IF i = 1 THEN t[i] ELSE g[i - 1] \o t[i]
      /\ s[i] = t[i]
    <2>1. i \in 1 .. n /\ i \in 1 .. m
        BY <1>1
    <2> QED
        BY <2>1 DEF Joins
<1>3. i # 1 => i - 1 \in 1 .. n /\ i - 1 \notin bad
    BY <1>1
<1> QED
    BY <1>1, <1>2, <1>3

LEMMA JoinsTyped ==
    ASSUME NEW s, NEW n \in Nat, \A i \in 1 .. n : s[i] \in Seq(Word),
           NEW f, Joins(f, s, n)
    PROVE  \A i \in 1 .. n : f[i] \in Seq(Word)
<1> DEFINE bad == {i \in 1 .. n : f[i] \notin Seq(Word)}
<1> SUFFICES ASSUME bad # {} PROVE FALSE
    OBVIOUS
<1>1. PICK i \in bad : \A o \in bad : i <= o
    <2> HIDE DEF bad
    <2>1. bad \in SUBSET (1 .. n)
        BY DEF bad
    <2> QED
        BY <2>1, FirstPosition
<1>2. f[i] = IF i = 1 THEN s[i] ELSE f[i - 1] \o s[i]
    BY <1>1 DEF Joins
<1>3. i # 1 => f[i - 1] \in Seq(Word)
    <2>1. i # 1 => i - 1 \in 1 .. n /\ i - 1 \notin bad
        BY <1>1
    <2> QED
        BY <2>1
<1>4. s[i] \in Seq(Word)
    BY <1>1
<1>5. f[i] \in Seq(Word)
    BY <1>2, <1>3, <1>4
<1> QED
    BY <1>1, <1>5

(* An identifier before it is kept from beginning with a digit.             *)
Parts(name) == [k \in DOMAIN name |-> Identifier[name[k]]]

Flat(name) ==
    IF Len(Parts(name)) = 0 THEN Parts(name)
    ELSE (CHOOSE f : Joins(f, Parts(name), Len(Parts(name))))[Len(Parts(name))]

LEMMA SanitizedFlat ==
    ASSUME NEW name
    PROVE  Backend!SanitizeVariableName(name) =
             IF Flat(name) # <<>> /\ Head(Flat(name)) \in Digit
             THEN <<"var">> \o Flat(name) ELSE Flat(name)
    BY DEF Backend!SanitizeVariableName, Backend!FlattenSeq, Flat, Parts, Joins

LEMMA PartsTyped ==
    ASSUME NEW name \in Name
    PROVE  /\ Parts(name) \in Seq(Seq(Word)) /\ Len(Parts(name)) = Len(name)
           /\ Len(name) \in Nat
           /\ \A i \in 1 .. Len(name) : Parts(name)[i] = Identifier[name[i]]
                                        /\ Parts(name)[i] \in Seq(Word)
<1>1. name \in Seq(Word) /\ Len(name) \in Nat /\ DOMAIN name = 1 .. Len(name)
    BY DEF Name
<1>2. \A i \in 1 .. Len(name) : Identifier[name[i]] \in Seq(Word)
    BY <1>1, IdentifierAssumption
<1>3. Parts(name) = [i \in 1 .. Len(name) |-> Identifier[name[i]]]
    BY <1>1 DEF Parts
<1>4. Parts(name) \in Seq(Seq(Word))
    BY <1>1, <1>2, <1>3, IsASeq
<1>5. Len(Parts(name)) = Len(name)
    BY <1>1, <1>3, <1>4, LenProperties
<1> QED
    BY <1>1, <1>2, <1>3, <1>4, <1>5

LEMMA FlatIs ==
    ASSUME NEW name \in Name
    PROVE  /\ Len(name) = 0 => Flat(name) = <<>>
           /\ Len(name) # 0 => \E f : Joins(f, Parts(name), Len(name)) /\ Flat(name) = f[Len(name)]
           /\ Flat(name) \in Name
<1>1. /\ Parts(name) \in Seq(Seq(Word)) /\ Len(Parts(name)) = Len(name)
      /\ Len(name) \in Nat
      /\ \A i \in 1 .. Len(name) : Parts(name)[i] \in Seq(Word)
    BY PartsTyped
<1>2. CASE Len(name) = 0
    <2>1. Parts(name) = <<>>
        BY <1>1, <1>2, EmptySeq
    <2> QED
        BY <1>1, <1>2, <2>1 DEF Flat, Name
<1>3. CASE Len(name) # 0
    <2> DEFINE f == CHOOSE f : Joins(f, Parts(name), Len(name))
    <2>1. Joins(f, Parts(name), Len(name))
        BY <1>1, JoinsExist
    <2>2. Flat(name) = f[Len(name)]
        BY <1>1, <1>3 DEF Flat
    <2> HIDE DEF f
    <2>3. f[Len(name)] \in Seq(Word)
        <3>1. \A i \in 1 .. Len(name) : f[i] \in Seq(Word)
            BY <1>1, <2>1, JoinsTyped
        <3> QED
            BY <1>1, <1>3, <3>1
    <2> QED
        BY <1>3, <2>1, <2>2, <2>3 DEF Name
<1> QED
    BY <1>2, <1>3

LEMMA FlatAppends ==
    ASSUME NEW name \in Name, NEW w \in Word, Identifier[w] = <<w>>
    PROVE  Append(name, w) \in Name /\ Flat(Append(name, w)) = Append(Flat(name), w)
<1> DEFINE more == Append(name, w)
           n == Len(name)
<1>1. /\ more \in Name /\ n \in Nat /\ Len(more) = n + 1
      /\ \A i \in 1 .. n : more[i] = name[i]
      /\ more[n + 1] = w
    BY DEF Name
<1> HIDE DEF more
<1>2. /\ \A i \in 1 .. n : Parts(name)[i] = Parts(more)[i]
      /\ Parts(more)[n + 1] = <<w>>
    <2>1. \A i \in 1 .. n : Parts(name)[i] = Identifier[name[i]]
        BY PartsTyped
    <2>2. \A i \in 1 .. n + 1 : Parts(more)[i] = Identifier[more[i]]
        BY <1>1, PartsTyped
    <2> QED
        BY <1>1, <2>1, <2>2
<1>3. Flat(name) \in Seq(Word) /\ <<w>> \in Seq(Word)
    BY FlatIs DEF Name
<1>4. Append(Flat(name), w) = Flat(name) \o <<w>>
    BY <1>3
<1>5. PICK g : Joins(g, Parts(more), n + 1) /\ Flat(more) = g[n + 1]
    BY <1>1, FlatIs
<1>6. g[n + 1] = IF n + 1 = 1 THEN <<w>> ELSE g[n] \o <<w>>
    <2>1. n + 1 \in 1 .. n + 1 /\ (n + 1) - 1 = n
        BY <1>1
    <2>2. g[n + 1] = IF n + 1 = 1 THEN Parts(more)[n + 1] ELSE g[(n + 1) - 1] \o Parts(more)[n + 1]
        BY <1>5, <2>1 DEF Joins
    <2> QED
        BY <1>2, <2>1, <2>2
<1>7. CASE n = 0
    <2>1. Flat(name) = <<>>
        BY <1>7, FlatIs
    <2>2. <<>> \o <<w>> = <<w>>
        OBVIOUS
    <2> QED
        BY <1>1, <1>4, <1>5, <1>6, <1>7, <2>1, <2>2 DEF more
<1>8. CASE n # 0
    <2>1. PICK f : Joins(f, Parts(name), n) /\ Flat(name) = f[n]
        BY <1>8, FlatIs
    <2>2. n <= n + 1 /\ n + 1 \in Nat /\ n \in 1 .. n /\ n + 1 # 1
        BY <1>1, <1>8
    <2>3. f[n] = g[n]
        <3>1. \A i \in 1 .. n : f[i] = g[i]
            <4> DEFINE s == Parts(name)
                       t == Parts(more)
                       m == n + 1
            <4>1. /\ n \in Nat /\ m \in Nat /\ n <= m /\ \A i \in 1 .. n : s[i] = t[i]
                  /\ Joins(f, s, n) /\ Joins(g, t, m)
                BY <1>1, <1>2, <1>5, <2>1, <2>2
            <4> HIDE DEF s, t, m, n
            <4> QED
                BY <4>1, JoinsAgree
        <3> QED
            BY <2>2, <3>1
    <2> QED
        BY <1>1, <1>4, <1>5, <1>6, <2>1, <2>2, <2>3 DEF more
<1> QED
    BY <1>7, <1>8

(* A word that is an identifier is appended as it is.                       *)
LEMMA IdentifierAppends ==
    ASSUME NEW name \in Name, NEW w \in Word, Identifier[w] = <<w>>, w \notin Digit
    PROVE  /\ Backend!SanitizeVariableName(name) \in Seq(Word \cup {"var"})
           /\ Backend!SanitizeVariableName(Append(name, w)) =
                Append(Backend!SanitizeVariableName(name), w)
<1> DEFINE a == Flat(name)
           b == Flat(Append(name, w))
<1>1. a \in Seq(Word) /\ b = Append(a, w)
    BY FlatIs, FlatAppends DEF Name
<1>2. /\ Backend!SanitizeVariableName(name) =
            IF a # <<>> /\ Head(a) \in Digit THEN <<"var">> \o a ELSE a
      /\ Backend!SanitizeVariableName(Append(name, w)) =
            IF b # <<>> /\ Head(b) \in Digit THEN <<"var">> \o b ELSE b
    BY SanitizedFlat
<1> HIDE DEF a, b
<1> DEFINE v == "var"
           W == Word \cup {v}
<1>3. a \in Seq(W) /\ w \in W /\ v \in W
    BY <1>1
<1> HIDE DEF W, v
<1>4. a \o <<w>> = b /\ b # <<>> /\ <<v>> \in Seq(W) /\ <<w>> \in Seq(W)
    BY <1>1, <1>3
<1>5. CASE a = <<>>
    <2>1. b = <<w>>
        BY <1>1, <1>5
    <2>2. Head(b) = w
        BY <2>1
    <2> QED
        BY <1>2, <1>3, <1>1, <1>5, <2>2 DEF W, v
<1>6. CASE a # <<>>
    <2>1. Head(b) = Head(a)
        BY <1>3, <1>4, <1>6
    <2>2. (<<v>> \o a) \o <<w>> = <<v>> \o b
        <3> DEFINE x == <<v>>
                   y == <<w>>
        <3>1. x \in Seq(W) /\ a \in Seq(W) /\ y \in Seq(W)
            BY <1>3, <1>4
        <3> HIDE DEF x, y
        <3>2. x \o a \o y = x \o (a \o y)
            BY <3>1, ConcatAssociative
        <3> QED
            BY <1>4, <3>2 DEF x, y
    <2>3. <<v>> \o a \in Seq(W) /\ Append(<<v>> \o a, w) = (<<v>> \o a) \o <<w>>
        BY <1>3, <1>4
    <2> QED
        BY <1>1, <1>2, <1>3, <1>4, <1>6, <2>1, <2>2, <2>3 DEF W, v
<1> QED
    BY <1>5, <1>6

-----------------------------------------------------------------------------
(* The invariant of the list, from the first node to the program            *)

(* What a node is called in the program; output nodes are called nothing.   *)
Sanitized(j) == Backend!SanitizeVariableName(nodes[j].name)

Body == {j \in DOMAIN nodes : nodes[j].op.type # "Output"}

(* Fusion marks activations as removed before it removes them.              *)
Staying == {j \in DOMAIN nodes : phase = "kernel_fusion" => nodes[j].name \notin nodes_to_remove}

KernelOps == DOMAIN KernelFunction

(* Every node has a kernel and what it takes, or is an alias or an input or *)
(* an output; only layers are fused with an activation.                     *)
WellOperated ==
    \A j \in DOMAIN nodes :
        /\ nodes[j].op.type \in IOOps \cup TransformOps \cup KernelOps
        /\ nodes[j].op.type \in KernelOps =>
             Len(nodes[j].inputs) = IF nodes[j].op.type \in ElementWiseOps THEN 2 ELSE 1
        /\ nodes[j].op.type # "Input" => 1 \in DOMAIN nodes[j].inputs
        /\ \/ nodes[j].op.activation = None
           \/ /\ nodes[j].op.type \in {"Linear", "Conv2d"}
              /\ nodes[j].op.activation \in KernelOps
        /\ nodes[j].op.weight \in {None} \cup model.initializer
        /\ nodes[j].op.bias \in {None} \cup model.initializer

(* -O1 would fuse an addition, and there is no kernel of that name.         *)
AdditionsStandAlone ==
    level > 0 => \A i, j \in DOMAIN nodes :
        nodes[i].op.type = "Add" => nodes[j].op.type \notin ActivationOps

IdentifiersApart ==
    \A i, j \in Body : Sanitized(i) = Sanitized(j) => i = j

(* A fused layer is called as no other node: names can still be extended.   *)
IdentifiersUnextended ==
    level > 0 => \A i, j \in Body : nodes[i].op.activation = None =>
        \A w \in Word : Sanitized(j) # Append(Sanitized(i), w)

(* What a node reads is listed before it, and stays.                        *)
Connected ==
    \A j \in Staying : \A k \in DOMAIN nodes[j].inputs :
        \E i \in Staying \cap Body : i < j /\ nodes[i].name = nodes[j].inputs[k]

Kernels == {j \in Staying : nodes[j].op.type \in KernelOps}
Transforms == {j \in Staying : nodes[j].op.type \in TransformOps}

(* The transforms in G end, one alias after the other, at kernels.          *)
Reads(j, S) == \E i \in S : nodes[i].name = nodes[j].inputs[1]

Grounds(G) == \A j \in G : Reads(j, G \cup Kernels)

(* So each output is copied from the buffer of a kernel, never from an      *)
(* input.                                                                   *)
OutputsGrounded ==
    \E G \in SUBSET Transforms :
        Grounds(G) /\ \A j \in Backend!Outputs : Reads(j, G \cup Kernels)

OutputsNumbered ==
    /\ Backend!Outputs # {}
    /\ \A i \in Backend!Outputs : nodes[i].op.index \in 0 .. Len(model.output) - 1
    /\ \A i, j \in Backend!Outputs : nodes[i].op.index = nodes[j].op.index => i = j
    /\ \/ \A i, j \in Backend!Outputs : i = j
       \/ \E i, j \in Backend!Inputs : i # j

(* While the list grows: so is every tensor that is computed.               *)
ValuesGrounded ==
    \E G \in SUBSET Transforms :
        /\ Grounds(G)
        /\ \A t \in DOMAIN value_map :
             t \notin ShapeTensors /\ OnnxValues(model)[t][1] # "tensor" =>
                \E i \in G \cup Kernels : nodes[i].name = value_map[t]

(* The walk lists inputs and what the converters give.                      *)
ListedSoFar ==
    /\ \A j \in DOMAIN nodes :
         \/ nodes[j].op.type = "Input"
         \/ \E k \in Listed : nodes[j].op.type = Frontend!Converted[model.node[k].op_type]
    /\ Backend!Outputs = {}
    /\ Cardinality(RealInputs) > 1 => \E i, j \in Backend!Inputs : i # j

(* The nodes before it have their calls.                                    *)
Reached == IF phase = "codegen" THEN position ELSE Len(nodes) + 1

(* A call as its node requires it: it reads inputs and buffers of nodes     *)
(* that are computed.                                                       *)
CallOf(call, j) ==
    /\ call.var = Sanitized(j)
    /\ call.kernel = <<nodes[j].op.type, nodes[j].op.activation>>
    /\ call.call_type = Backend!CallType(nodes[j].op)
    /\ Len(call.input_bufs) = IF nodes[j].op.type \in ElementWiseOps THEN 2 ELSE 1
    /\ \A i \in DOMAIN call.input_bufs :
         \/ call.input_bufs[i].kind = "param" /\ call.input_bufs[i].var \in Backend!InputVars
         \/ /\ call.input_bufs[i].kind = "member"
            /\ \E h \in Backend!Compute : call.input_bufs[i].var = Sanitized(h)

(* calls and metadata are lists, of what we need not say.                   *)
IsList(s) == s \in Seq({s[k] : k \in DOMAIN s})

(* One call for each kernel.                                                *)
Called ==
    /\ IsList(calls)
    /\ \A k \in DOMAIN calls : \E j \in Backend!Compute : j < Reached /\ CallOf(calls[k], j)
    /\ \A j \in Backend!Compute : j < Reached => \E k \in DOMAIN calls : CallOf(calls[k], j)
    /\ \A k, l \in DOMAIN calls : calls[k].var = calls[l].var => k = l

(* Parameters are copied into layers.                                       *)
Stored ==
    IsList(metadata) /\ \A m \in DOMAIN metadata : \E j \in DOMAIN nodes :
        nodes[j].op.type \in TrainableOps /\ metadata[m].node = Sanitized(j)

(* What holds of the list and of the program of a supported model.         *)
Built ==
    /\ WellOperated /\ AdditionsStandAlone /\ IdentifiersApart
    /\ phase = "traverse" => ListedSoFar /\ ValuesGrounded
    /\ phase \in {"optimize", "kernel_fusion"} => IdentifiersUnextended
    /\ phase \notin {"map_inputs", "traverse"} => Connected /\ OutputsGrounded /\ OutputsNumbered
    /\ IF phase \in {"codegen", "pack_model_data", "done"} THEN Called /\ Stored
       ELSE calls = <<>> /\ metadata = <<>>

(* The invariant, beside IInv.                                              *)
CInv ==
    /\ phase = "kernel_fusion" => level > 0
    /\ SupportedModel => Built
-----------------------------------------------------------------------------
(* Aliases                                                                  *)

LEMMA LeastNumber ==
    ASSUME NEW B \in SUBSET Nat, B # {}
    PROVE  \E n \in B : \A m \in B : n <= m
<1>1. PICK b \in B : TRUE
    OBVIOUS
<1> DEFINE K == {k \in 1 .. b + 1 : k - 1 \in B}
<1>2. b \in Nat /\ b + 1 \in K
    BY <1>1
<1>3. PICK i \in K : \A k \in K : i <= k
    <2>0. K \in SUBSET (1 .. b + 1)
        OBVIOUS
    <2>1. b + 1 \in Nat /\ K \in SUBSET (1 .. b + 1) /\ K # {}
        <3> HIDE DEF K
        <3> QED
            BY <1>2, <2>0
    <2> HIDE DEF K
    <2> QED
        BY <2>1, FirstPosition
<1>4. ASSUME NEW m \in B PROVE i - 1 <= m
    <2>1. CASE m <= b
        <3>1. m + 1 \in K
            BY <1>2, <2>1
        <3> QED
            BY <1>3, <3>1
    <2>2. CASE ~ m <= b
        BY <1>2, <1>3, <2>2
    <2> QED
        BY <2>1, <2>2
<1> QED
    BY <1>3, <1>4

(* The names an alias leads to, one after the other.                        *)
Followed(name) == IF Backend!IsNamed(Backend!Aliases, name) THEN Backend!AliasOf(name) ELSE name

Follows(f, name, n) ==
    f = [m \in 0 .. n |-> IF m = 0 THEN name ELSE Followed(f[m - 1])]

LEMMA FollowsExist ==
    ASSUME NEW name, NEW n \in Nat
    PROVE  \E f : Follows(f, name, n)
<1> DEFINE bad == {m \in Nat : ~ \E f : Follows(f, name, m)}
<1> SUFFICES ASSUME bad # {} PROVE FALSE
    OBVIOUS
<1>1. PICK m \in bad : \A o \in bad : m <= o
    <2> HIDE DEF bad
    <2>1. bad \in SUBSET Nat
        BY DEF bad
    <2> QED
        BY <2>1, LeastNumber
<1>2. m # 0
    <2>1. Follows([i \in 0 .. 0 |-> name], name, 0)
        BY DEF Follows
    <2> QED
        BY <2>1
<1>3. m \in Nat /\ m - 1 \in Nat /\ m - 1 \notin bad
    BY <1>1, <1>2
<1>4. PICK f : Follows(f, name, m - 1)
    BY <1>3
<1> DEFINE g == [i \in 0 .. m |-> IF i = m THEN Followed(f[m - 1]) ELSE f[i]]
<1>5. Follows(g, name, m)
    <2>1. \A i \in 0 .. m - 1 : f[i] = IF i = 0 THEN name ELSE Followed(f[i - 1])
        BY <1>4 DEF Follows
    <2>2. ASSUME NEW i \in 0 .. m PROVE g[i] = IF i = 0 THEN name ELSE Followed(g[i - 1])
        <3>1. i # 0 => i - 1 \in 0 .. m /\ i - 1 # m /\ g[i - 1] = f[i - 1]
            BY <1>3
        <3>2. CASE i = m
            <4>1. g[i] = Followed(f[m - 1])
                BY <3>2
            <4> HIDE DEF g
            <4> QED
                BY <1>2, <3>1, <3>2, <4>1
        <3>3. CASE i # m
            <4>1. g[i] = f[i] /\ i \in 0 .. m - 1
                BY <1>3, <3>3
            <4> HIDE DEF g
            <4> QED
                BY <2>1, <3>1, <4>1
        <3> QED
            BY <3>2, <3>3
    <2>3. g = [i \in 0 .. m |-> g[i]]
        OBVIOUS
    <2> HIDE DEF g
    <2>4. g = [i \in 0 .. m |-> IF i = 0 THEN name ELSE Followed(g[i - 1])]
        BY <2>2, <2>3
    <2> QED
        BY <2>4 DEF Follows
<1> QED
    BY <1>1, <1>5

Stops(f, n) == \/ ~ Backend!IsNamed(Backend!Aliases, f[n])
               \/ \E m \in 0 .. n - 1 : f[m] = f[n]

LEMMA PhysicalIs ==
    ASSUME NEW name, Backend!Cardinality(Backend!Aliases) \in Nat
    PROVE  LET n == Backend!Cardinality(Backend!Aliases)
           IN  \E f : /\ Follows(f, name, n)
                      /\ Backend!PhysicalNodeId(name) =
                           f[CHOOSE k \in 0 .. n : Stops(f, k) /\ \A m \in 0 .. k - 1 : ~ Stops(f, m)]
<1> DEFINE n == Backend!Cardinality(Backend!Aliases)
           f == CHOOSE f : Follows(f, name, n)
<1>1. Follows(f, name, n)
    <2> HIDE DEF n
    <2> QED
        BY FollowsExist DEF n
<1>2. Backend!PhysicalNodeId(name) =
         f[CHOOSE k \in 0 .. n : Stops(f, k) /\ \A m \in 0 .. k - 1 : ~ Stops(f, m)]
    BY DEF Backend!PhysicalNodeId, Follows, Stops, Followed
<1> QED
    BY <1>1, <1>2

LEMMA AliasesFinite ==
    ASSUME nodes \in Seq(Nodes)
    PROVE  /\ IsFiniteSet(Backend!Aliases) /\ Cardinality(Backend!Aliases) \in Nat
           /\ Backend!Cardinality(Backend!Aliases) = Cardinality(Backend!Aliases)
           /\ Backend!Aliases \in SUBSET (1 .. Len(nodes)) /\ Backend!Aliases \subseteq Body
           /\ Len(nodes) \in Nat
<1>1. DOMAIN nodes = 1 .. Len(nodes) /\ Len(nodes) \in Nat
    OBVIOUS
<1>2. Backend!Aliases \in SUBSET (1 .. Len(nodes)) /\ Backend!Aliases \subseteq Body
    BY <1>1 DEF Backend!Aliases, Body, Backend!TransformOps
<1>3. IsFiniteSet(1 .. Len(nodes))
    BY <1>1, FS_Interval
<1>4. IsFiniteSet(Backend!Aliases)
    BY <1>2, <1>3, FS_Subset
<1>5. Cardinality(Backend!Aliases) \in Nat
    BY <1>4, FS_CardinalityType
<1> QED
    BY <1>1, <1>2, <1>4, <1>5 DEF Backend!Cardinality, Cardinality

(* Names are apart when identifiers are.                                    *)
LEMMA BodyNamesApart ==
    ASSUME IdentifiersApart, NEW i \in Body, NEW j \in Body, nodes[i].name = nodes[j].name
    PROVE  i = j
    BY DEF IdentifiersApart, Sanitized

LEMMA AliasIs ==
    ASSUME nodes \in Seq(Nodes), IdentifiersApart, NEW j \in Body
    PROVE  /\ Backend!IsNamed(Backend!Aliases, nodes[j].name) <=> j \in Backend!Aliases
           /\ j \in Backend!Aliases /\ nodes[j].inputs # <<>> =>
                Followed(nodes[j].name) = nodes[j].inputs[1]
           /\ j \notin Backend!Aliases => Followed(nodes[j].name) = nodes[j].name
<1> DEFINE S == Backend!Aliases
           name == nodes[j].name
<1>1. S \subseteq Body /\ S \in SUBSET (1 .. Len(nodes))
    BY AliasesFinite
<1>2. \A i \in S : nodes[i].name = name => i = j
    BY <1>1, BodyNamesApart
<1>3. Backend!IsNamed(S, name) <=> j \in S
    BY <1>2 DEF Backend!IsNamed
<1>4. ASSUME j \in S, nodes[j].inputs # <<>>
      PROVE  Followed(name) = nodes[j].inputs[1]
    <2>1. Backend!LastNamed(S, name) = j
        <3>1. j \in S /\ nodes[j].name = name /\ \A i \in S : nodes[i].name = name => i <= j
            BY <1>1, <1>2, <1>4
        <3>2. \A k \in S : nodes[k].name = name => k = j
            BY <1>2
        <3> HIDE DEF S, name
        <3> QED
            BY <3>1, <3>2 DEF Backend!LastNamed
    <2>2. Backend!AliasOf(name) = nodes[j].inputs[1]
        <3> HIDE DEF name
        <3> QED
            BY <1>4, <2>1 DEF Backend!AliasOf
    <2> HIDE DEF S, name
    <2> QED
        BY <1>3, <1>4, <2>2 DEF Followed, S
<1>5. j \notin S => Followed(name) = name
    <2> HIDE DEF name
    <2> QED
        BY <1>3 DEF Followed
<1> QED
    BY <1>3, <1>4, <1>5

(* From a set of nodes that the aliases in it do not lead out of, aliases   *)
(* lead to another node: each refers to a node before it.                   *)
LEMMA AliasesEnd ==
    ASSUME nodes \in Seq(Nodes), IdentifiersApart, NEW K, K \subseteq Body,
           \A j \in K : j \in Backend!Aliases =>
               /\ nodes[j].inputs # <<>>
               /\ \E i \in K : i < j /\ nodes[i].name = nodes[j].inputs[1],
           NEW j \in K
    PROVE  \E i \in K : /\ i \notin Backend!Aliases
                        /\ Backend!PhysicalNodeId(nodes[j].name) = nodes[i].name
<1> DEFINE A == Backend!Aliases
           N == Cardinality(A)
<1>1. /\ IsFiniteSet(A) /\ N \in Nat /\ Backend!Cardinality(A) = N
      /\ K \subseteq 1 .. Len(nodes) /\ Len(nodes) \in Nat
    BY AliasesFinite DEF Body
<1>2. PICK f : /\ Follows(f, nodes[j].name, N)
               /\ Backend!PhysicalNodeId(nodes[j].name) =
                    f[CHOOSE k \in 0 .. N : Stops(f, k) /\ \A m \in 0 .. k - 1 : ~ Stops(f, m)]
    <2> HIDE DEF A, N
    <2>1. Backend!Cardinality(Backend!Aliases) \in Nat /\ Backend!Cardinality(Backend!Aliases) = N
        BY <1>1 DEF A
    <2> QED
        BY <2>1, PhysicalIs
<1>3. f[0] = nodes[j].name /\ \A n \in 0 .. N : n # 0 => f[n] = Followed(f[n - 1])
    <2> HIDE DEF N
    <2> QED
        BY <1>1, <1>2 DEF Follows
<1>4. \A i, k \in K : nodes[i].name = nodes[k].name => i = k
    BY BodyNamesApart
<1>5. \A i \in K : Backend!IsNamed(A, nodes[i].name) <=> i \in A
    BY AliasIs
<1>6. ASSUME NEW i \in K
      PROVE  \E k \in K : /\ nodes[k].name = Followed(nodes[i].name)
                          /\ i \in A => k < i
                          /\ i \notin A => k = i
    <2>1. CASE i \in A
        BY <2>1, AliasIs
    <2>2. CASE i \notin A
        BY <2>2, AliasIs
    <2> QED
        BY <2>1, <2>2
<1> DEFINE at(n) == CHOOSE i \in K : nodes[i].name = f[n]
           Ends(n) == \A m \in 0 .. n - 1 : at(m) \in A => at(n) < at(m)
           Good(n) == (\E i \in K : nodes[i].name = f[n]) /\ Ends(n)
<1>7. \A n \in 0 .. N : (\E i \in K : nodes[i].name = f[n]) => at(n) \in K /\ nodes[at(n)].name = f[n]
    OBVIOUS
<1> HIDE DEF at, A, N
<1>8. \A n \in 0 .. N : Good(n)
    <2> DEFINE bad == {n \in 0 .. N : ~ Good(n)}
    <2> SUFFICES ASSUME bad # {} PROVE FALSE
        OBVIOUS
    <2>1. PICK n \in bad : \A o \in bad : n <= o
        <3> HIDE DEF Good
        <3>1. bad \in SUBSET Nat
            BY <1>1
        <3> HIDE DEF bad
        <3> QED
            BY <3>1, LeastNumber
    <2>2. n # 0
        BY <1>1, <1>3, <2>1
    <2>3. n \in 1 .. N /\ n - 1 \in 0 .. N /\ Good(n - 1)
        <3> HIDE DEF Good
        <3> QED
            BY <1>1, <2>1, <2>2
    <2> DEFINE i == at(n - 1)
    <2>4. i \in K /\ nodes[i].name = f[n - 1]
        BY <1>7, <2>3
    <2> HIDE DEF i
    <2>5. PICK k \in K : /\ nodes[k].name = Followed(nodes[i].name)
                         /\ i \in A => k < i
                         /\ i \notin A => k = i
        BY <1>6, <2>4
    <2>6. nodes[k].name = f[n]
        BY <1>1, <1>3, <2>3, <2>4, <2>5
    <2>7. at(n) = k
        <3>1. at(n) \in K /\ nodes[at(n)].name = f[n]
            BY <1>1, <1>7, <2>3, <2>5, <2>6
        <3> QED
            BY <1>4, <2>5, <2>6, <3>1
    <2>8. Ends(n)
        <3> SUFFICES ASSUME NEW m \in 0 .. n - 1, at(m) \in A PROVE k < at(m)
            BY <2>7
        <3>0. i \in Nat /\ k \in Nat
            BY <1>1, <2>4, <2>5
        <3>1. CASE m = n - 1
            BY <2>5, <3>1 DEF i
        <3>2. CASE m # n - 1
            <4>1. m \in 0 .. (n - 1) - 1
                BY <1>1, <2>3, <3>2
            <4>2. i < at(m)
                BY <2>3, <4>1 DEF i
            <4>3. at(m) \in Nat
                BY <1>1, <4>1 DEF A, Backend!Aliases
            <4> QED
                BY <2>5, <3>0, <4>2, <4>3
        <3> QED
            BY <3>1, <3>2
    <2>9. Good(n)
        BY <2>5, <2>6, <2>8
    <2> HIDE DEF Good
    <2> QED
        BY <2>1, <2>9
<1>9. \A n \in 0 .. N : at(n) \in K /\ nodes[at(n)].name = f[n] /\ Ends(n)
    BY <1>7, <1>8
<1> HIDE DEF Good
(* One of the names is not an alias. *)
<1>10. \E n \in 0 .. N : at(n) \notin A
    <2> SUFFICES ASSUME \A n \in 0 .. N : at(n) \in A PROVE FALSE
        OBVIOUS
    <2> DEFINE g == [n \in 0 .. N |-> at(n)]
    <2>1. g \in [0 .. N -> A]
        OBVIOUS
    <2>2. IsFiniteSet(0 .. N) /\ Cardinality(0 .. N) = N + 1
        BY <1>1, FS_Interval
    <2>3. PICK x \in 0 .. N, y \in 0 .. N : x # y /\ g[x] = g[y]
        <3> DEFINE S == 0 .. N
        <3>1. Cardinality(A) = N
            BY DEF N
        <3>2. Cardinality(A) < Cardinality(S)
            BY <1>1, <2>2, <3>1
        <3>3. IsFiniteSet(S) /\ IsFiniteSet(A) /\ g \in [S -> A]
            BY <1>1, <2>1, <2>2
        <3> HIDE DEF g, S
        <3>4. \E x, y \in S : x # y /\ g[x] = g[y]
            BY <3>2, <3>3, FS_PigeonHole
        <3> QED
            BY <3>4 DEF S
    <2>4. at(x) = at(y) /\ at(x) \in Nat
        <3>1. g[x] = at(x) /\ g[y] = at(y)
            OBVIOUS
        <3>2. at(x) = at(y)
            <4> HIDE DEF g
            <4> QED
                BY <2>3, <3>1
        <3>3. at(x) \in K
            BY <1>9
        <3>4. \A i \in K : i \in Nat
            BY <1>1
        <3> HIDE DEF g
        <3> QED
            BY <3>2, <3>3, <3>4
    <2>5. x \in 0 .. y - 1 \/ y \in 0 .. x - 1
        BY <1>1, <2>3
    <2> QED
        BY <1>9, <2>4, <2>5
<1>11. \A n \in 0 .. N : Stops(f, n) => at(n) \notin A
    <2> SUFFICES ASSUME NEW n \in 0 .. N, Stops(f, n), at(n) \in A PROVE FALSE
        OBVIOUS
    <2>1. Backend!IsNamed(A, f[n])
        BY <1>5, <1>9
    <2>2. PICK m \in 0 .. n - 1 : f[m] = f[n]
        BY <2>1 DEF Stops, A
    <2>3. m \in 0 .. N
        BY <1>1, <2>2
    <2>4. at(m) = at(n)
        BY <1>4, <1>9, <2>2, <2>3
    <2>5. at(n) < at(m) /\ at(n) \in Nat
        BY <1>1, <1>9, <2>2, <2>4
    <2> QED
        BY <2>4, <2>5
<1> DEFINE First(k) == Stops(f, k) /\ \A m \in 0 .. k - 1 : ~ Stops(f, m)
<1>12. \E k \in 0 .. N : First(k)
    <2> DEFINE B == {n \in 0 .. N : Stops(f, n)}
    <2>1. B \in SUBSET Nat /\ B # {}
        <3>1. PICK n \in 0 .. N : at(n) \notin A
            BY <1>10
        <3>2. Stops(f, n)
            BY <1>5, <1>9, <3>1 DEF Stops, A
        <3> QED
            BY <1>1, <3>2
    <2>2. PICK k \in B : \A m \in B : k <= m
        <3> HIDE DEF B
        <3> QED
            BY <2>1, LeastNumber
    <2>3. \A m \in 0 .. k - 1 : ~ Stops(f, m)
        BY <1>1, <2>2
    <2> QED
        BY <2>2, <2>3
<1>13. PICK k \in 0 .. N : First(k) /\ Backend!PhysicalNodeId(nodes[j].name) = f[k]
    BY <1>2, <1>12
<1> QED
    BY <1>9, <1>11, <1>13 DEF A

LEMMA BackendSets ==
    /\ Backend!IOOps = IOOps /\ Backend!TransformOps = TransformOps
    /\ Backend!ActivationOps = ActivationOps /\ Backend!ElementWiseOps = ElementWiseOps
    /\ Backend!TrainableOps = TrainableOps
    BY DEF Backend!IOOps, IOOps, Backend!TransformOps, TransformOps, Backend!ActivationOps,
        ActivationOps, Backend!ElementWiseOps, ElementWiseOps, Backend!TrainableOps, TrainableOps

LEMMA KernelOpsAre ==
    /\ KernelOps = {"Linear", "Conv2d", "Softmax", "MaxPool2d", "AvgPool2d", "AdaptiveAvgPool2d",
                    "ReLU", "ReLU6", "GELU", "LeakyReLU", "Sigmoid", "SiLU", "Hardswish", "Tanh"}
                   \cup ElementWiseOps
    /\ KernelOps \cap (IOOps \cup TransformOps) = {}
    /\ KernelOps \cap TrainableOps = {"Linear", "Conv2d"}
    /\ (IOOps \cup TransformOps) \cap TrainableOps = {}
    /\ ElementWiseOps \subseteq KernelOps
    BY DEF KernelOps, KernelFunction, IOOps, TransformOps, TrainableOps, ElementWiseOps

(* The nodes that become calls.                                             *)
LEMMA ComputeIs ==
    ASSUME WellOperated
    PROVE  /\ \A j \in DOMAIN nodes : j \in Backend!Compute <=> nodes[j].op.type \in KernelOps
           /\ Backend!Compute \subseteq Body
           /\ Backend!Compute \cap Backend!Aliases = {}
           /\ \A j \in Body : \/ j \in Backend!Compute \/ j \in Backend!Aliases
                              \/ j \in Backend!Inputs
           /\ Backend!Inputs \subseteq Body /\ Backend!Inputs \cap Backend!Compute = {}
<1>1. \A j \in DOMAIN nodes :
        /\ j \in Backend!Compute <=> nodes[j].op.type \notin IOOps \cup TransformOps
        /\ j \in Backend!Aliases <=> nodes[j].op.type \in TransformOps
        /\ j \in Backend!Inputs <=> nodes[j].op.type = "Input"
        /\ nodes[j].op.type \in IOOps \cup TransformOps \cup KernelOps
    BY BackendSets DEF Backend!Compute, Backend!Aliases, Backend!Inputs, WellOperated
<1>2. /\ Backend!Compute \subseteq DOMAIN nodes /\ Backend!Inputs \subseteq DOMAIN nodes
      /\ Backend!Aliases \subseteq DOMAIN nodes
    BY DEF Backend!Compute, Backend!Inputs, Backend!Aliases
<1>3. "Output" \in IOOps /\ "Input" \in IOOps /\ \A t \in IOOps : t = "Input" \/ t = "Output"
    BY DEF IOOps
<1> QED
    BY <1>1, <1>2, <1>3, KernelOpsAre DEF Body

(* What a node reads is, behind the aliases, an input or computed.          *)
LEMMA ReadsResolve ==
    ASSUME nodes \in Seq(Nodes), WellOperated, IdentifiersApart, Connected,
           phase # "kernel_fusion",
           NEW j \in DOMAIN nodes, NEW k \in DOMAIN nodes[j].inputs
    PROVE  \E i \in Backend!Compute \cup Backend!Inputs :
              Backend!PhysicalNodeId(nodes[j].inputs[k]) = nodes[i].name
<1>1. \A h \in DOMAIN nodes : \A l \in DOMAIN nodes[h].inputs :
        \E i \in Body : i < h /\ nodes[i].name = nodes[h].inputs[l]
    BY DEF Connected, Staying
<1>2. PICK i \in Body : nodes[i].name = nodes[j].inputs[k]
    BY <1>1
<1>3. \A h \in Body : h \in Backend!Aliases =>
        /\ nodes[h].inputs # <<>>
        /\ \E g \in Body : g < h /\ nodes[g].name = nodes[h].inputs[1]
    <2> TAKE h \in Body
    <2> HAVE h \in Backend!Aliases
    <2>1. h \in DOMAIN nodes /\ nodes[h].op.type \in TransformOps
        BY BackendSets DEF Backend!Aliases
    <2>2. nodes[h].op.type # "Input"
        BY <2>1 DEF TransformOps
    <2>3. 1 \in DOMAIN nodes[h].inputs
        BY <2>1, <2>2 DEF WellOperated
    <2>4. nodes[h].inputs # <<>>
        BY <2>3
    <2> QED
        BY <1>1, <2>1, <2>3, <2>4
<1>4. \E h \in Body : /\ h \notin Backend!Aliases
                      /\ Backend!PhysicalNodeId(nodes[i].name) = nodes[h].name
    <2> DEFINE K == Body
    <2>1. /\ K \subseteq Body /\ i \in K
          /\ \A h \in K : h \in Backend!Aliases =>
               /\ nodes[h].inputs # <<>>
               /\ \E g \in K : g < h /\ nodes[g].name = nodes[h].inputs[1]
        BY <1>3
    <2> HIDE DEF K
    <2>2. \E h \in K : /\ h \notin Backend!Aliases
                       /\ Backend!PhysicalNodeId(nodes[i].name) = nodes[h].name
        BY <2>1, AliasesEnd
    <2> QED
        BY <2>2 DEF K
<1> QED
    BY <1>2, <1>4, ComputeIs

(* A call is known by the identifier of its node.                           *)
LEMMA VarOf ==
    ASSUME nodes \in Seq(Nodes), WellOperated, IdentifiersApart, NEW j \in Backend!Compute
    PROVE  /\ Backend!PhysicalNodeId(nodes[j].name) = nodes[j].name
           /\ Backend!CppVar(nodes[j].name) = Sanitized(j)
<1>1. j \in Body /\ j \notin Backend!Aliases
    BY ComputeIs
<1>2. Backend!PhysicalNodeId(nodes[j].name) = nodes[j].name
    <2> DEFINE K == {j}
    <2>1. /\ K \subseteq Body /\ j \in K
          /\ \A h \in K : h \in Backend!Aliases =>
               /\ nodes[h].inputs # <<>>
               /\ \E g \in K : g < h /\ nodes[g].name = nodes[h].inputs[1]
        BY <1>1
    <2>2. \A h \in K : h = j
        OBVIOUS
    <2> HIDE DEF K
    <2>3. \E h \in K : /\ h \notin Backend!Aliases
                       /\ Backend!PhysicalNodeId(nodes[j].name) = nodes[h].name
        BY <2>1, AliasesEnd
    <2> QED
        BY <2>2, <2>3
<1>3. Backend!IsNamed(Backend!Compute, nodes[j].name)
    BY DEF Backend!IsNamed
<1> QED
    BY <1>2, <1>3 DEF Backend!CppVar, Sanitized

(* What stands for a name that leads to a node that is computed, and to an  *)
(* input.                                                                   *)
LEMMA ComputedVar ==
    ASSUME WellOperated, IdentifiersApart, NEW name, NEW i \in Backend!Compute,
           Backend!PhysicalNodeId(name) = nodes[i].name
    PROVE  Backend!CppVar(name) = Sanitized(i)
<1>1. Backend!IsNamed(Backend!Compute, nodes[i].name)
    BY DEF Backend!IsNamed
<1> QED
    BY <1>1 DEF Backend!CppVar, Sanitized

LEMMA InputVar ==
    ASSUME nodes \in Seq(Nodes), WellOperated, IdentifiersApart, NEW name,
           NEW i \in Backend!Inputs, Backend!PhysicalNodeId(name) = nodes[i].name
    PROVE  /\ Backend!CppVar(name) = Backend!IOVar("input", i)
           /\ Backend!BufferAccessor(name) = Backend!Param(Backend!IOVar("input", i))
<1> DEFINE id == nodes[i].name
           in == "input"
<1>1. Backend!Inputs \subseteq Body /\ Backend!Compute \subseteq Body
      /\ Backend!Inputs \cap Backend!Compute = {}
    BY ComputeIs
<1>2. \A h \in Body : nodes[h].name = id => h = i
    BY <1>1, BodyNamesApart
<1>3. ~ Backend!IsNamed(Backend!Compute, id) /\ Backend!IsNamed(Backend!Inputs, id)
    BY <1>1, <1>2 DEF Backend!IsNamed
<1>4. Backend!LastNamed(Backend!Inputs, id) = i
    <2>1. \A k \in Backend!Inputs : nodes[k].name = id => k = i
        BY <1>1, <1>2
    <2>2. i <= i
        BY DEF Backend!Inputs
    <2> QED
        BY <2>1, <2>2 DEF Backend!LastNamed
<1>5. Backend!PhysicalNodeId(name) = id
    OBVIOUS
<1> HIDE DEF id, in
<1>6. Backend!CppVar(name) = Backend!IOVar(in, i)
    BY <1>3, <1>4, <1>5 DEF Backend!CppVar, in
<1> QED
    BY <1>3, <1>5, <1>6 DEF Backend!BufferAccessor, in

(* Every buffer a call reads is one of an input or of a computed node.      *)
LEMMA ReadDeclared ==
    ASSUME nodes \in Seq(Nodes), WellOperated, IdentifiersApart, Connected,
           phase # "kernel_fusion",
           NEW j \in DOMAIN nodes, NEW k \in DOMAIN nodes[j].inputs
    PROVE  LET b == Backend!BufferAccessor(nodes[j].inputs[k])
           IN  \/ b.kind = "param" /\ b.var \in Backend!InputVars
               \/ b.kind = "member" /\ \E h \in Backend!Compute : b.var = Sanitized(h)
<1> DEFINE name == nodes[j].inputs[k]
<1>1. PICK i \in Backend!Compute \cup Backend!Inputs :
          Backend!PhysicalNodeId(name) = nodes[i].name
    BY ReadsResolve
<1> HIDE DEF name
<1>2. CASE i \in Backend!Inputs
    <2>1. Backend!BufferAccessor(name) = Backend!Param(Backend!IOVar("input", i))
        BY <1>1, <1>2, InputVar
    <2>2. Backend!IOVar("input", i) \in Backend!InputVars
        BY <1>2 DEF Backend!InputVars
    <2> QED
        BY <2>1, <2>2 DEF Backend!Param, name
<1>3. CASE i \in Backend!Compute
    <2> DEFINE var == Sanitized(i)
    <2>1. Backend!CppVar(name) = var
        BY <1>1, <1>3, ComputedVar
    <2>2. ~ Backend!IsNamed(Backend!Inputs, Backend!PhysicalNodeId(name))
        <3>1. Backend!Inputs \subseteq Body /\ Backend!Compute \subseteq Body
              /\ Backend!Inputs \cap Backend!Compute = {}
            BY ComputeIs
        <3>2. \A h \in Body : nodes[h].name = nodes[i].name => h = i
            BY <1>3, <3>1, BodyNamesApart
        <3> QED
            BY <1>1, <1>3, <3>1, <3>2 DEF Backend!IsNamed
    <2>3. \E h \in Backend!Compute : var = Sanitized(h)
        BY <1>3
    <2> HIDE DEF var
    <2>4. Backend!BufferAccessor(name) =
            IF var \in Backend!InputVars THEN Backend!Param(var) ELSE Backend!Member(var)
        BY <2>1, <2>2 DEF Backend!BufferAccessor
    <2> QED
        BY <2>3, <2>4 DEF Backend!Param, Backend!Member, name
<1> QED
    BY <1>1, <1>2, <1>3

(* What an output is copied from is the buffer of a kernel.                 *)
LEMMA OutputParent ==
    ASSUME nodes \in Seq(Nodes), WellOperated, IdentifiersApart, Connected, OutputsGrounded,
           phase # "kernel_fusion", NEW j \in Backend!Outputs
    PROVE  \E i \in Backend!Compute : Parent(j) = Sanitized(i)
<1>1. PICK G \in SUBSET Transforms :
          Grounds(G) /\ \A o \in Backend!Outputs : Reads(o, G \cup Kernels)
    BY DEF OutputsGrounded
<1> DEFINE K == G \cup Kernels
<1>2. /\ \A i \in G : i \in DOMAIN nodes /\ nodes[i].op.type \in TransformOps
      /\ \A i \in Kernels : i \in DOMAIN nodes /\ nodes[i].op.type \in KernelOps
    BY DEF Transforms, Kernels, Staying
<1>3. /\ K \subseteq Body
      /\ \A i \in K : i \in Backend!Aliases => i \in G
      /\ \A i \in K : i \notin Backend!Aliases => i \in Backend!Compute
    <2>1. "Output" \notin TransformOps /\ "Output" \notin KernelOps
        BY KernelOpsAre DEF TransformOps, IOOps
    <2>2. K \subseteq Body
        BY <1>2, <2>1 DEF Body
    <2>3. ASSUME NEW i \in Kernels PROVE i \notin Backend!Aliases /\ i \in Backend!Compute
        BY <1>2, ComputeIs
    <2>4. ASSUME NEW i \in G PROVE i \in Backend!Aliases
        BY <1>2, BackendSets DEF Backend!Aliases
    <2> QED
        BY <2>2, <2>3, <2>4
<1>4. \A h \in K : h \in Backend!Aliases =>
        /\ nodes[h].inputs # <<>>
        /\ \E g \in K : g < h /\ nodes[g].name = nodes[h].inputs[1]
    <2> TAKE h \in K
    <2> HAVE h \in Backend!Aliases
    <2>1. h \in G /\ h \in DOMAIN nodes /\ nodes[h].op.type \in TransformOps
        BY <1>2, <1>3
    <2>2. nodes[h].op.type # "Input"
        BY <2>1 DEF TransformOps
    <2>3. 1 \in DOMAIN nodes[h].inputs
        BY <2>1, <2>2 DEF WellOperated
    <2>4. PICK f \in Body : f < h /\ nodes[f].name = nodes[h].inputs[1]
        BY <2>1, <2>3 DEF Connected, Staying
    <2>5. PICK g \in K : nodes[g].name = nodes[h].inputs[1]
        BY <1>1, <2>1 DEF Grounds, Reads
    <2>6. f = g
        BY <1>3, <2>4, <2>5, BodyNamesApart
    <2> QED
        BY <2>3, <2>4, <2>5, <2>6
<1>5. PICK g \in K : nodes[g].name = nodes[j].inputs[1]
    BY <1>1 DEF Reads
<1>6. PICK i \in K : /\ i \notin Backend!Aliases
                     /\ Backend!PhysicalNodeId(nodes[g].name) = nodes[i].name
    <2> HIDE DEF K
    <2> QED
        BY <1>3, <1>4, AliasesEnd
<1>7. i \in Backend!Compute /\ Backend!PhysicalNodeId(nodes[j].inputs[1]) = nodes[i].name
    BY <1>3, <1>5, <1>6
<1>8. Backend!CppVar(nodes[j].inputs[1]) = Sanitized(i)
    <2> DEFINE name == nodes[j].inputs[1]
    <2>1. Backend!PhysicalNodeId(name) = nodes[i].name
        BY <1>7
    <2> HIDE DEF name
    <2>2. Backend!CppVar(name) = Sanitized(i)
        BY <1>7, <2>1, ComputedVar
    <2> QED
        BY <2>2 DEF name
<1> QED
    BY <1>7, <1>8 DEF Parent

(* The buffers a kernel is given are those of the operands of its node.     *)
LEMMA BuffersOf ==
    ASSUME nodes \in Seq(Nodes), WellOperated, NEW j \in Backend!Compute
    PROVE  LET bufs == Backend!Call(nodes[j]).input_bufs
           IN  /\ Len(bufs) = IF nodes[j].op.type \in ElementWiseOps THEN 2 ELSE 1
               /\ DOMAIN bufs = DOMAIN nodes[j].inputs
               /\ \A i \in DOMAIN bufs : bufs[i] = Backend!BufferAccessor(nodes[j].inputs[i])
<1> DEFINE node == nodes[j]
           inputs == node.inputs
           bufs == [i \in DOMAIN inputs |-> Backend!BufferAccessor(inputs[i])]
           S == {Backend!BufferAccessor(inputs[i]) : i \in DOMAIN inputs}
<1>1. j \in DOMAIN nodes /\ node.op.type \in KernelOps
    BY ComputeIs DEF Body
<1>2. node \in Nodes /\ inputs \in Seq(Name)
    <2>1. node \in Nodes
        BY <1>1
    <2> QED
        BY <2>1 DEF Nodes
<1>3. Len(inputs) = IF node.op.type \in ElementWiseOps THEN 2 ELSE 1
    BY <1>1 DEF WellOperated
<1>4. inputs # <<>>
    BY <1>2, <1>3
<1>5. Backend!Call(node).input_bufs = bufs
    <2> HIDE DEF node
    <2> QED
        BY <1>4 DEF Backend!Call, Backend!ResolveInputBuffers
<1>6. Len(bufs) = Len(inputs)
    <2>1. DOMAIN inputs = 1 .. Len(inputs) /\ Len(inputs) \in Nat
        BY <1>2
    <2>2. \A i \in 1 .. Len(inputs) : Backend!BufferAccessor(inputs[i]) \in S
        BY <2>1
    <2>3. bufs = [i \in 1 .. Len(inputs) |-> Backend!BufferAccessor(inputs[i])]
        BY <2>1
    <2> HIDE DEF S, inputs, bufs
    <2>4. bufs \in Seq(S)
        BY <2>1, <2>2, <2>3, IsASeq
    <2>5. DOMAIN bufs = 1 .. Len(inputs)
        BY <2>3
    <2> QED
        BY <2>1, <2>4, <2>5, LenProperties
<1>7. DOMAIN bufs = DOMAIN inputs /\ \A i \in DOMAIN inputs : bufs[i] = Backend!BufferAccessor(inputs[i])
    OBVIOUS
<1> HIDE DEF bufs
<1> QED
    BY <1>3, <1>5, <1>6, <1>7

(* Its kernel exists.                                                       *)
LEMMA KernelOf ==
    ASSUME WellOperated, NEW j \in Backend!Compute
    PROVE  LET kernel == <<nodes[j].op.type, nodes[j].op.activation>>
           IN  /\ KernelExists(kernel)
               /\ Arity(kernel) = IF nodes[j].op.type \in ElementWiseOps THEN 2 ELSE 1
<1> DEFINE kernel == <<nodes[j].op.type, nodes[j].op.activation>>
<1>1. j \in DOMAIN nodes /\ nodes[j].op.type \in KernelOps
    BY ComputeIs DEF Body
<1>2. \/ nodes[j].op.activation = None
      \/ /\ nodes[j].op.type \in {"Linear", "Conv2d"}
         /\ nodes[j].op.activation \in KernelOps
    BY <1>1 DEF WellOperated
<1>3. kernel[1] = nodes[j].op.type /\ kernel[2] = nodes[j].op.activation
    OBVIOUS
<1> HIDE DEF kernel
<1>4. KernelExists(kernel) /\ Arity(kernel) = IF nodes[j].op.type \in ElementWiseOps THEN 2 ELSE 1
    BY <1>1, <1>2, <1>3 DEF KernelExists, Arity, KernelOps
<1> QED
    BY <1>4 DEF kernel

(* Outputs are numbered when there are several.                             *)
LEMMA OutputVarsApart ==
    ASSUME nodes \in Seq(Nodes), model \in Models, OutputsNumbered,
           NEW i \in Backend!Outputs, NEW j \in Backend!Outputs,
           Backend!IOVar("output", i) = Backend!IOVar("output", j)
    PROVE  i = j
<1>1. CASE \A k, l \in Backend!Outputs : k = l
    BY <1>1
<1>2. CASE \E k, l \in Backend!Inputs : k # l
    <2> DEFINE S == Backend!Inputs
    <2>1. IsFiniteSet(S)
        <3>1. Len(nodes) \in Nat /\ S \subseteq 1 .. Len(nodes)
            BY DEF Backend!Inputs
        <3>2. IsFiniteSet(1 .. Len(nodes))
            BY <3>1, FS_Interval
        <3> HIDE DEF S
        <3> QED
            BY <3>1, <3>2, FS_Subset
    <2>2. PICK k \in S, l \in S : k # l
        BY <1>2
    <2>3. Cardinality(S) > 1
        <3> DEFINE T == {k, l}
        <3>1. T \subseteq S
            BY <2>2
        <3>2. Cardinality(T) = 2
            <4> DEFINE one == {l}
            <4>1. Cardinality(one) = 1 /\ IsFiniteSet(one)
                BY FS_Singleton
            <4>2. T = one \cup {k} /\ k \notin one
                BY <2>2
            <4> HIDE DEF one, T
            <4>3. Cardinality(one \cup {k}) = Cardinality(one) + 1
                BY <4>1, <4>2, FS_AddElement
            <4> QED
                BY <4>1, <4>2, <4>3
        <3> HIDE DEF T, S
        <3>3. Cardinality(T) <= Cardinality(S) /\ Cardinality(S) \in Nat
            BY <2>1, <3>1, FS_Subset, FS_CardinalityType
        <3> QED
            BY <3>2, <3>3
    <2>4. Backend!Cardinality(Backend!Inputs) > 1
        BY <2>3 DEF Backend!Cardinality, Cardinality
    <2>5. IndexWord[nodes[i].op.index] = IndexWord[nodes[j].op.index]
        <3> DEFINE out == "output"
        <3>1. \A h : Backend!IOVar(out, h) = <<out, IndexWord[nodes[h].op.index]>>
            BY <2>4 DEF Backend!IOVar
        <3>2. Backend!IOVar(out, i) = Backend!IOVar(out, j)
            OBVIOUS
        <3> HIDE DEF out
        <3> QED
            BY <3>1, <3>2
    <2>6. nodes[i].op.index = nodes[j].op.index
        BY <2>5, WordAssumption DEF OutputsNumbered
    <2> QED
        BY <2>6 DEF OutputsNumbered
<1> QED
    BY <1>1, <1>2 DEF OutputsNumbered

(* What a node becomes.                                                     *)
LEMMA CallIs ==
    ASSUME nodes \in Seq(Nodes), WellOperated, IdentifiersApart, Connected,
           phase # "kernel_fusion", NEW j \in Backend!Compute
    PROVE  CallOf(Backend!Call(nodes[j]), j)
<1>1. j \in DOMAIN nodes
    BY DEF Backend!Compute
<1>2. /\ Backend!Call(nodes[j]).var = Sanitized(j)
      /\ Backend!Call(nodes[j]).kernel = <<nodes[j].op.type, nodes[j].op.activation>>
      /\ Backend!Call(nodes[j]).call_type = Backend!CallType(nodes[j].op)
    BY VarOf DEF Backend!Call
<1> DEFINE bufs == Backend!Call(nodes[j]).input_bufs
<1>3. /\ Len(bufs) = IF nodes[j].op.type \in ElementWiseOps THEN 2 ELSE 1
      /\ DOMAIN bufs = DOMAIN nodes[j].inputs
      /\ \A i \in DOMAIN bufs : bufs[i] = Backend!BufferAccessor(nodes[j].inputs[i])
    BY BuffersOf
<1>4. ASSUME NEW i \in DOMAIN nodes[j].inputs
      PROVE  LET b == Backend!BufferAccessor(nodes[j].inputs[i])
             IN  \/ b.kind = "param" /\ b.var \in Backend!InputVars
                 \/ b.kind = "member" /\ \E h \in Backend!Compute : b.var = Sanitized(h)
    BY <1>1, ReadDeclared
<1> HIDE DEF bufs
<1>5. \A i \in DOMAIN bufs :
         \/ bufs[i].kind = "param" /\ bufs[i].var \in Backend!InputVars
         \/ bufs[i].kind = "member" /\ \E h \in Backend!Compute : bufs[i].var = Sanitized(h)
    BY <1>3, <1>4
<1> QED
    BY <1>2, <1>3, <1>5 DEF CallOf, bufs

(* A list in which every node to be computed has been called is a program.  *)
LEMMA CalledCompiles ==
    ASSUME nodes \in Seq(Nodes), model \in Models, phase = "done",
           WellOperated, IdentifiersApart, Connected, OutputsGrounded, OutputsNumbered,
           Called, Stored
    PROVE  ProgramCompiles
<1>1. DOMAIN nodes = 1 .. Len(nodes) /\ Len(nodes) \in Nat /\ phase # "kernel_fusion"
    OBVIOUS
<1>2. \A j \in Backend!Compute : \E k \in DOMAIN calls : CallOf(calls[k], j)
    <2>1. \A j \in Backend!Compute : j < Reached
        BY <1>1 DEF Reached, Backend!Compute
    <2> QED
        BY <2>1 DEF Called
<1>3. \A j \in Backend!Compute : Sanitized(j) \in Members
    BY <1>2 DEF Members, CallOf
<1>4. calls # <<>>
    <2>1. PICK j \in Backend!Outputs : TRUE
        BY DEF OutputsNumbered
    <2>2. PICK i \in Backend!Compute : Parent(j) = Sanitized(i)
        BY <1>1, OutputParent
    <2> QED
        BY <1>2, <2>2
<1>5. \A i, j \in Backend!Outputs :
         Backend!IOVar("output", i) = Backend!IOVar("output", j) => i = j
    BY OutputVarsApart
<1>6. ASSUME NEW k \in DOMAIN calls
      PROVE  /\ KernelExists(calls[k].kernel)
             /\ Len(calls[k].input_bufs) = Arity(calls[k].kernel)
             /\ \A i \in DOMAIN calls[k].input_bufs : Declared(calls[k].input_bufs[i])
    <2>1. PICK j \in Backend!Compute : CallOf(calls[k], j)
        BY DEF Called
    <2> DEFINE kernel == <<nodes[j].op.type, nodes[j].op.activation>>
               bufs == calls[k].input_bufs
    <2>2. /\ KernelExists(kernel)
          /\ Arity(kernel) = IF nodes[j].op.type \in ElementWiseOps THEN 2 ELSE 1
        BY KernelOf
    <2>3. /\ calls[k].kernel = kernel
          /\ Len(bufs) = IF nodes[j].op.type \in ElementWiseOps THEN 2 ELSE 1
          /\ \A i \in DOMAIN bufs :
               \/ bufs[i].kind = "param" /\ bufs[i].var \in Backend!InputVars
               \/ bufs[i].kind = "member" /\ \E h \in Backend!Compute : bufs[i].var = Sanitized(h)
        BY <2>1 DEF CallOf
    <2> HIDE DEF kernel, bufs
    <2>4. \A i \in DOMAIN bufs : Declared(bufs[i])
        BY <1>3, <2>3 DEF Declared
    <2> QED
        BY <2>2, <2>3, <2>4 DEF bufs
<1>7. ASSUME NEW m \in DOMAIN metadata
      PROVE  \E k \in DOMAIN calls :
                calls[k].var = metadata[m].node /\ calls[k].call_type = "parameterised"
    <2>1. PICK j \in DOMAIN nodes :
              nodes[j].op.type \in TrainableOps /\ metadata[m].node = Sanitized(j)
        BY DEF Stored
    <2>2. nodes[j].op.type \in {"Linear", "Conv2d"}
        BY <2>1, KernelOpsAre DEF WellOperated
    <2>3. j \in Backend!Compute
        BY <2>2, ComputeIs, KernelOpsAre
    <2>4. Backend!CallType(nodes[j].op) = "parameterised"
        BY <2>2 DEF Backend!CallType
    <2> QED
        BY <1>2, <2>1, <2>3, <2>4 DEF CallOf
<1>8. \A j \in Backend!Outputs : Parent(j) \in Members
    BY <1>1, <1>3, OutputParent
<1> QED
    BY <1>4, <1>5, <1>6, <1>7, <1>8 DEF ProgramCompiles, Called

(* A step that leaves the list, and which nodes stay in it.                 *)
LEMMA GraphSame ==
    ASSUME nodes' = nodes, model' = model, level' = level, Staying' = Staying
    PROVE  /\ (WellOperated => WellOperated') /\ (AdditionsStandAlone => AdditionsStandAlone')
           /\ (IdentifiersApart => IdentifiersApart')
           /\ (IdentifiersUnextended => IdentifiersUnextended')
           /\ (Connected => Connected') /\ (OutputsGrounded => OutputsGrounded')
           /\ (OutputsNumbered => OutputsNumbered')
<1>1. /\ Body' = Body /\ Backend!Outputs' = Backend!Outputs /\ Backend!Inputs' = Backend!Inputs
      /\ Kernels' = Kernels /\ Transforms' = Transforms
    BY DEF Body, Backend!Outputs, Backend!Inputs, Kernels, Transforms
<1>2. WellOperated => WellOperated'
    BY DEF WellOperated
<1>3. AdditionsStandAlone => AdditionsStandAlone'
    BY DEF AdditionsStandAlone
<1>4. IdentifiersApart => IdentifiersApart'
    BY <1>1 DEF IdentifiersApart, Sanitized
<1>5. IdentifiersUnextended => IdentifiersUnextended'
    BY <1>1 DEF IdentifiersUnextended, Sanitized
<1>6. Connected => Connected'
    BY <1>1 DEF Connected
<1>7. OutputsGrounded => OutputsGrounded'
    BY <1>1 DEF OutputsGrounded, Grounds, Reads
<1>8. OutputsNumbered => OutputsNumbered'
    BY <1>1 DEF OutputsNumbered
<1> QED
    BY <1>2, <1>3, <1>4, <1>5, <1>6, <1>7, <1>8

LEMMA CallsSame ==
    ASSUME nodes' = nodes
    PROVE  /\ Backend!Compute' = Backend!Compute /\ Backend!InputVars' = Backend!InputVars
           /\ \A j : Sanitized(j)' = Sanitized(j)
    BY DEF Backend!Compute, Backend!InputVars, Backend!Inputs, Backend!IOVar, Sanitized

LEMMA ListAppends ==
    ASSUME NEW s, IsList(s), NEW e
    PROVE  /\ IsList(Append(s, e)) /\ Len(s) \in Nat /\ DOMAIN s = 1 .. Len(s)
           /\ DOMAIN Append(s, e) = 1 .. Len(s) + 1
           /\ \A i \in 1 .. Len(s) : Append(s, e)[i] = s[i]
           /\ Append(s, e)[Len(s) + 1] = e
<1> DEFINE S == {s[k] : k \in DOMAIN s}
           t == Append(s, e)
           T == {t[k] : k \in DOMAIN t}
<1>1. s \in Seq(S)
    BY DEF IsList
<1>2. s \in Seq(S \cup {e})
    <2>1. Len(s) \in Nat /\ s = [i \in 1 .. Len(s) |-> s[i]] /\ \A i \in 1 .. Len(s) : s[i] \in S
        <3> HIDE DEF S
        <3> QED
            BY <1>1
    <2> HIDE DEF S
    <2>2. \A i \in 1 .. Len(s) : s[i] \in S \cup {e}
        BY <2>1
    <2> QED
        BY <2>1, <2>2, IsASeq
<1>3. /\ Len(s) \in Nat /\ DOMAIN s = 1 .. Len(s) /\ DOMAIN t = 1 .. Len(s) + 1
      /\ \A i \in 1 .. Len(s) : t[i] = s[i]
      /\ t[Len(s) + 1] = e
      /\ t = [i \in 1 .. Len(s) + 1 |-> t[i]]
    <2> DEFINE U == S \cup {e}
    <2>1. s \in Seq(U) /\ e \in U
        BY <1>2
    <2> HIDE DEF U, S, T, t
    <2>2. Append(s, e) \in Seq(U) /\ Len(Append(s, e)) = Len(s) + 1
        BY <2>1
    <2>3. t \in Seq(U) /\ Len(t) = Len(s) + 1
        BY <2>2 DEF t
    <2>4. /\ Len(s) \in Nat /\ DOMAIN s = 1 .. Len(s) /\ DOMAIN t = 1 .. Len(s) + 1
          /\ t = [i \in 1 .. Len(s) + 1 |-> t[i]]
        BY <2>1, <2>3
    <2>5. /\ \A i \in 1 .. Len(s) : Append(s, e)[i] = s[i]
          /\ Append(s, e)[Len(s) + 1] = e
        BY <2>1
    <2> QED
        BY <2>4, <2>5 DEF t
<1> HIDE DEF t
<1>4. \A i \in 1 .. Len(s) + 1 : t[i] \in T
    BY <1>3
<1> HIDE DEF T
<1>5. t \in Seq(T)
    BY <1>3, <1>4, IsASeq
<1> QED
    BY <1>3, <1>5 DEF IsList, t, T

LEMMA NoList == IsList(<<>>)
    BY DEF IsList

-----------------------------------------------------------------------------
(* The back end                                                             *)

(* The graph the back end works on.                                         *)
Fit ==
    /\ nodes \in Seq(Nodes) /\ position \in Nat \ {0} /\ phase # "kernel_fusion"
    /\ WellOperated /\ IdentifiersApart /\ Connected

LEMMA EmitNodeCalls ==
    ASSUME Fit, Called, phase = "codegen", Backend!EmitNode
    PROVE  Called'
<1>1. /\ position \in Backend!Compute /\ position' = position + 1
      /\ phase' = "codegen" /\ nodes' = nodes
      /\ calls' = Append(calls, Backend!Call(nodes[position]))
      /\ position \in Nat
    BY DEF Backend!EmitNode, Backend!Generating, Fit
<1> DEFINE new == Backend!Call(nodes[position])
           n == Len(calls)
<1>2. CallOf(new, position)
    BY <1>1, CallIs DEF Fit
<1>3. /\ Backend!Compute' = Backend!Compute /\ Backend!InputVars' = Backend!InputVars
      /\ \A j : Sanitized(j)' = Sanitized(j)
    BY <1>1, CallsSame
<1>4. Reached = position /\ Reached' = position + 1
    BY <1>1 DEF Reached
<1> HIDE DEF new
<1>5. /\ IsList(calls') /\ n \in Nat /\ DOMAIN calls = 1 .. n
      /\ DOMAIN calls' = 1 .. n + 1
      /\ \A i \in 1 .. n : calls'[i] = calls[i]
      /\ calls'[n + 1] = new
    <2>1. IsList(calls) /\ calls' = Append(calls, new)
        BY <1>1 DEF Called, new
    <2> QED
        BY <2>1, ListAppends
<1>6. Backend!Compute \subseteq Nat
    BY DEF Backend!Compute, Fit
<1>7. ASSUME NEW k \in DOMAIN calls'
      PROVE  \E j \in Backend!Compute : j < position + 1 /\ CallOf(calls'[k], j)
    <2>1. CASE k \in 1 .. n
        <3>1. PICK j \in Backend!Compute : j < position /\ CallOf(calls[k], j)
            BY <1>4, <1>5, <2>1 DEF Called
        <3> QED
            BY <1>1, <1>5, <1>6, <2>1, <3>1
    <2>2. CASE k = n + 1
        BY <1>1, <1>2, <1>5, <2>2
    <2> QED
        BY <1>5, <2>1, <2>2
<1>8. ASSUME NEW j \in Backend!Compute, j < position + 1
      PROVE  \E k \in DOMAIN calls' : CallOf(calls'[k], j)
    <2>1. CASE j = position
        BY <1>2, <1>5, <2>1
    <2>2. CASE j # position
        <3>1. j < position
            BY <1>1, <1>6, <1>8, <2>2
        <3>2. PICK k \in DOMAIN calls : CallOf(calls[k], j)
            BY <1>4, <3>1 DEF Called
        <3> QED
            BY <1>5, <3>2
    <2> QED
        BY <2>1, <2>2
<1>9. ASSUME NEW k \in 1 .. n PROVE calls[k].var # new.var
    <2>1. PICK j \in Backend!Compute : j < position /\ CallOf(calls[k], j)
        BY <1>4, <1>5 DEF Called
    <2>2. j \in Body /\ position \in Body /\ j # position
        BY <1>1, <1>6, <2>1, ComputeIs DEF Fit
    <2>3. Sanitized(j) # Sanitized(position)
        BY <2>2 DEF Fit, IdentifiersApart
    <2> QED
        BY <1>2, <2>1, <2>3 DEF CallOf
<1>10. ASSUME NEW k \in DOMAIN calls', NEW l \in DOMAIN calls', calls'[k].var = calls'[l].var
       PROVE  k = l
    <2>1. CASE k \in 1 .. n /\ l \in 1 .. n
        BY <1>5, <1>10, <2>1 DEF Called
    <2>2. CASE k = n + 1 /\ l \in 1 .. n
        BY <1>5, <1>9, <1>10, <2>2
    <2>3. CASE k \in 1 .. n /\ l = n + 1
        BY <1>5, <1>9, <1>10, <2>3
    <2>4. k \in 1 .. n \/ k = n + 1
        BY <1>5
    <2>5. l \in 1 .. n \/ l = n + 1
        BY <1>5
    <2> QED
        BY <2>1, <2>2, <2>3, <2>4, <2>5
<1> HIDE DEF n
<1>11. (\A k \in DOMAIN calls : \E j \in Backend!Compute : j < Reached /\ CallOf(calls[k], j))'
    BY <1>1, <1>3, <1>4, <1>7 DEF CallOf
<1>12. (\A j \in Backend!Compute : j < Reached => \E k \in DOMAIN calls : CallOf(calls[k], j))'
    <2> SUFFICES ASSUME NEW j \in Backend!Compute', j < Reached'
                 PROVE  \E k \in DOMAIN calls' : (CallOf(calls[k], j))'
        OBVIOUS
    <2>1. PICK k \in DOMAIN calls' : CallOf(calls'[k], j)
        BY <1>3, <1>4, <1>8
    <2>2. (CallOf(calls[k], j))'
        BY <1>1, <1>3, <2>1 DEF CallOf
    <2> QED
        BY <2>2
<1> QED
    BY <1>5, <1>10, <1>11, <1>12 DEF Called

(* The steps that call nothing.                                             *)
LEMMA OtherStepsCall ==
    ASSUME Called, nodes' = nodes, calls' = calls,
           \A j \in Backend!Compute : j < Reached' <=> j < Reached
    PROVE  Called'
<1>1. /\ Backend!Compute' = Backend!Compute /\ Backend!InputVars' = Backend!InputVars
      /\ \A j : Sanitized(j)' = Sanitized(j)
    BY CallsSame
<1>2. (\A k \in DOMAIN calls : \E j \in Backend!Compute : j < Reached /\ CallOf(calls[k], j))'
    BY <1>1 DEF Called, CallOf
<1>3. (\A j \in Backend!Compute : j < Reached => \E k \in DOMAIN calls : CallOf(calls[k], j))'
    BY <1>1 DEF Called, CallOf
<1> QED
    BY <1>2, <1>3 DEF Called

LEMMA PackDataStores ==
    ASSUME NEW packed, NEW node, NEW param, NEW data
    PROVE  LET after == Backend!PackData(packed, node, param, data).metadata
           IN  \/ after = packed.metadata
               \/ \E e : after = Append(packed.metadata, e) /\ e.node = Backend!CppVar(node.name)
<1> DEFINE e == Backend!Entry(node, param, Len(Backend!AlignBuffer(packed.buffer)), data)
<1>1. e.node = Backend!CppVar(node.name)
    BY DEF Backend!Entry
<1>2. \/ Backend!PackData(packed, node, param, data) = packed
      \/ Backend!PackData(packed, node, param, data).metadata = Append(packed.metadata, e)
    BY DEF Backend!PackData
<1> HIDE DEF e
<1> QED
    BY <1>1, <1>2

(* An entry more, of a node with parameters.                                *)
StoredIn(list) ==
    IsList(list) /\ \A m \in DOMAIN list : \E j \in DOMAIN nodes :
        nodes[j].op.type \in TrainableOps /\ list[m].node = Sanitized(j)

LEMMA EntryStored ==
    ASSUME NEW list, StoredIn(list), NEW after, NEW j \in DOMAIN nodes,
           nodes[j].op.type \in TrainableOps,
           \/ after = list
           \/ \E e : after = Append(list, e) /\ e.node = Sanitized(j)
    PROVE  StoredIn(after)
<1>1. CASE after = list
    BY <1>1
<1>2. CASE \E e : after = Append(list, e) /\ e.node = Sanitized(j)
    <2>1. PICK e : after = Append(list, e) /\ e.node = Sanitized(j)
        BY <1>2
    <2>2. /\ IsList(after) /\ Len(list) \in Nat /\ DOMAIN list = 1 .. Len(list)
          /\ DOMAIN after = 1 .. Len(list) + 1
          /\ \A i \in 1 .. Len(list) : after[i] = list[i]
          /\ after[Len(list) + 1] = e
        BY <2>1, ListAppends DEF StoredIn
    <2>3. ASSUME NEW m \in DOMAIN after
          PROVE  \E i \in DOMAIN nodes :
                    nodes[i].op.type \in TrainableOps /\ after[m].node = Sanitized(i)
        <3>1. CASE m \in DOMAIN list
            BY <2>2, <3>1 DEF StoredIn
        <3>2. CASE m = Len(list) + 1
            BY <2>1, <2>2, <3>2
        <3> QED
            BY <2>2, <3>1, <3>2
    <2> QED
        BY <2>2, <2>3 DEF StoredIn
<1> QED
    BY <1>1, <1>2

LEMMA PackNodeStores ==
    ASSUME Fit, Stored, Backend!PackNode
    PROVE  Stored'
<1>1. /\ nodes' = nodes /\ position \in DOMAIN nodes
      /\ metadata' = Backend!PackParameters([buffer |-> bytes_buffer, metadata |-> metadata],
                                            nodes[position]).metadata
    BY DEF Backend!PackNode, Fit
<1> DEFINE node == nodes[position]
           before == [buffer |-> bytes_buffer, metadata |-> metadata]
           between == Backend!PackData(before, node, "weight", node.op.weight)
           after == Backend!PackData(between, node, "bias", node.op.bias)
<1>2. StoredIn(metadata)
    BY DEF Stored, StoredIn
<1>3. StoredIn(metadata')
    <2>1. CASE node.op.type \notin TrainableOps
        <3>1. Backend!PackParameters(before, node) = before
            BY <2>1, BackendSets DEF Backend!PackParameters
        <3> QED
            BY <1>1, <1>2, <3>1
    <2>2. CASE node.op.type \in TrainableOps
        <3>1. Backend!PackParameters(before, node) = after
            BY <2>2, BackendSets DEF Backend!PackParameters
        <3>2. Backend!CppVar(node.name) = Sanitized(position)
            <4>1. position \in Backend!Compute
                BY <1>1, <2>2, ComputeIs, KernelOpsAre DEF Fit, WellOperated
            <4> QED
                BY <4>1, VarOf DEF Fit
        <3>3. \/ between.metadata = before.metadata
              \/ \E e : between.metadata = Append(before.metadata, e)
                        /\ e.node = Backend!CppVar(node.name)
            <4> HIDE DEF node, before
            <4> QED
                BY PackDataStores
        <3>4. \/ after.metadata = between.metadata
              \/ \E e : after.metadata = Append(between.metadata, e)
                        /\ e.node = Backend!CppVar(node.name)
            <4> HIDE DEF node, between
            <4> QED
                BY PackDataStores
        <3>5. before.metadata = metadata /\ metadata' = after.metadata
            BY <1>1, <3>1
        <3>6. node.op.type \in TrainableOps /\ node = nodes[position]
            BY <2>2
        <3> HIDE DEF node, before, between, after
        <3>7. StoredIn(between.metadata)
            BY <1>1, <1>2, <3>2, <3>3, <3>5, <3>6, EntryStored
        <3>8. StoredIn(after.metadata)
            BY <1>1, <3>2, <3>4, <3>6, <3>7, EntryStored
        <3> QED
            BY <3>5, <3>8
    <2> QED
        BY <2>1, <2>2
<1> QED
    BY <1>1, <1>3, CallsSame DEF Stored, StoredIn

LEMMA OtherStepsStore ==
    ASSUME Stored, nodes' = nodes, metadata' = metadata
    PROVE  Stored'
    BY CallsSame DEF Stored

(* Every step of the back end adds the call of its node, or its parameters. *)
LEMMA GenerateCalls ==
    ASSUME Fit, phase \in {"codegen", "pack_model_data", "done"}, Called, Stored, Generate
    PROVE  /\ phase' \in {"codegen", "pack_model_data", "done", "failed"} /\ nodes' = nodes
           /\ phase' # "failed" => Called' /\ Stored'
<1>1. Backend!Next
    BY DEF Generate
<1>2. Backend!Compute \subseteq DOMAIN nodes /\ DOMAIN nodes = 1 .. Len(nodes) /\ Len(nodes) \in Nat
    BY DEF Backend!Compute, Fit
<1>3. CASE Backend!EmitNode
    BY <1>3, EmitNodeCalls, OtherStepsStore DEF Backend!EmitNode, Backend!Generating
<1>4. CASE Backend!SkipNode
    <2>1. /\ phase = "codegen" /\ phase' = phase /\ position' = position + 1
          /\ nodes' = nodes /\ calls' = calls /\ metadata' = metadata
          /\ position \notin Backend!Compute
        BY <1>4 DEF Backend!SkipNode, Backend!Generating
    <2>2. Reached = position /\ Reached' = position + 1
        BY <2>1 DEF Reached
    <2>3. \A j \in Backend!Compute : j < Reached' <=> j < Reached
        BY <1>2, <2>1, <2>2 DEF Fit
    <2> QED
        BY <2>1, <2>3, OtherStepsCall, OtherStepsStore
<1>5. CASE Backend!EmitFails
    BY <1>5 DEF Backend!EmitFails
<1>6. CASE Backend!StartPacking
    <2>1. /\ phase = "codegen" /\ phase' = "pack_model_data" /\ position > Len(nodes)
          /\ nodes' = nodes /\ calls' = calls /\ metadata' = metadata
        BY <1>6 DEF Backend!StartPacking
    <2>2. Reached = position /\ Reached' = Len(nodes) + 1
        BY <2>1 DEF Reached
    <2>3. \A j \in Backend!Compute : j < Reached' <=> j < Reached
        BY <1>2, <2>1, <2>2 DEF Fit
    <2> QED
        BY <2>1, <2>3, OtherStepsCall, OtherStepsStore
<1>7. CASE Backend!PackNode
    <2>1. /\ phase = "pack_model_data" /\ phase' = phase
          /\ nodes' = nodes /\ calls' = calls
        BY <1>7 DEF Backend!PackNode
    <2>2. Reached' = Reached
        BY <2>1 DEF Reached
    <2> QED
        BY <1>7, <2>1, <2>2, OtherStepsCall, PackNodeStores
<1>8. CASE Backend!Render
    <2>1. /\ phase = "pack_model_data" /\ phase' = "done"
          /\ nodes' = nodes /\ calls' = calls /\ metadata' = metadata
        BY <1>8 DEF Backend!Render
    <2>2. Reached' = Reached
        BY <2>1 DEF Reached
    <2> QED
        BY <2>1, <2>2, OtherStepsCall, OtherStepsStore
<1> QED
    BY <1>1, <1>3, <1>4, <1>5, <1>6, <1>7, <1>8 DEF Backend!Next

-----------------------------------------------------------------------------
(* Kernel fusion                                                            *)

(* What a step of the pass does to the list when it fuses c into p.         *)
NewName(p, c) == Append(nodes[p].name, LowerWord[nodes[c].op.type])

FusedInto(p, c) ==
    /\ p \in Staying /\ c \in Staying /\ p # c
    /\ nodes[p].op.activation = None
    /\ nodes[p].op.type \in {"Add", "Conv2d", "Linear", "BatchNorm2d"}
    /\ nodes[c].op.type \in ActivationOps
    /\ DOMAIN nodes' = DOMAIN nodes
    /\ \A j \in DOMAIN nodes :
         /\ nodes'[j].name = IF j = p THEN NewName(p, c) ELSE nodes[j].name
         /\ nodes'[j].op.type = nodes[j].op.type
         /\ nodes'[j].op.activation = IF j = p THEN nodes[c].op.type ELSE nodes[j].op.activation
         /\ nodes'[j].op.index = nodes[j].op.index
         /\ nodes'[j].op.weight = nodes[j].op.weight
         /\ nodes'[j].op.bias = nodes[j].op.bias
         /\ DOMAIN nodes'[j].inputs = DOMAIN nodes[j].inputs
         /\ Len(nodes'[j].inputs) = Len(nodes[j].inputs)
         /\ \A k \in DOMAIN nodes[j].inputs :
              nodes'[j].inputs[k] = IF j # c /\ nodes[j].inputs[k] = nodes[c].name
                                    THEN NewName(p, c) ELSE nodes[j].inputs[k]
    /\ Staying' = Staying \ {c}
    /\ \A j \in DOMAIN nodes : \A k \in DOMAIN nodes[j].inputs :
         nodes[j].inputs[k] = nodes[p].name => j = c
    /\ \A k \in DOMAIN nodes[c].inputs : nodes[c].inputs[k] = nodes[p].name

LEMMA PassEffect ==
    ASSUME Pass!TypeOK, Pass!Running, NEW c \in DOMAIN nodes, Pass!FusesIn(c)
    PROVE  /\ position \in DOMAIN nodes
           /\ DOMAIN nodes' = DOMAIN nodes
           /\ \A j \in DOMAIN nodes :
                /\ nodes'[j].name = IF j = position THEN Pass!NewProducerName(position, c)
                                                    ELSE nodes[j].name
                /\ nodes'[j].op.type = nodes[j].op.type
                /\ nodes'[j].op.activation =
                      IF j = position THEN nodes[c].op.type ELSE nodes[j].op.activation
                /\ DOMAIN nodes'[j].inputs = DOMAIN nodes[j].inputs
                /\ Len(nodes'[j].inputs) = Len(nodes[j].inputs)
                /\ \A k \in DOMAIN nodes[j].inputs :
                     nodes'[j].inputs[k] =
                        IF j # c /\ nodes[j].inputs[k] = nodes[c].name
                        THEN Pass!NewProducerName(position, c) ELSE nodes[j].inputs[k]
           /\ Pass!Kept' = Pass!Kept \ {c}
    BY Pass!FusionEffect, PassAssumptions

LEMMA PassPair ==
    ASSUME Pass!TypeOK, Pass!Running,
           NEW p \in DOMAIN nodes, NEW c \in DOMAIN nodes, Pass!Fuses(p, c)
    PROVE  /\ p \in Pass!Kept /\ c \in Pass!Kept /\ p # c
           /\ nodes[p].op.activation = None
           /\ nodes[c].op.type \in Pass!ActivationOps
           /\ \A j \in DOMAIN nodes : \A k \in DOMAIN nodes[j].inputs :
                  nodes[j].inputs[k] = nodes[p].name => j = c
           /\ \A k \in DOMAIN nodes[c].inputs : nodes[c].inputs[k] = nodes[p].name
    BY Pass!FusedPair, PassAssumptions

(* The parameters and the index of an operator stay with it.                *)
LEMMA RewriteParameters ==
    ASSUME nodes \in Seq(Nodes), NEW p \in DOMAIN nodes, NEW c, NEW j \in DOMAIN nodes
    PROVE  /\ Pass!Rewrite(p, c)[j].op.index = nodes[j].op.index
           /\ Pass!Rewrite(p, c)[j].op.weight = nodes[j].op.weight
           /\ Pass!Rewrite(p, c)[j].op.bias = nodes[j].op.bias
<1> DEFINE fused == Pass!FusedNode(p, c)
           renamed == [nodes EXCEPT ![p] = fused]
           names == {nodes[p].name, nodes[c].name}
           after == IF renamed[j].name \in names THEN renamed[j]
                    ELSE Pass!Rewired(renamed[j], names, Pass!NewProducerName(p, c))
<1>1. nodes[p] \in Nodes /\ nodes[j] \in Nodes
    OBVIOUS
<1>2. Pass!Rewrite(p, c)[j] = after
    BY DEF Pass!Rewrite
<1>3. /\ fused \in [name : {fused.name}, op : {fused.op}, inputs : {fused.inputs}]
      /\ fused.op.index = nodes[p].op.index /\ fused.op.weight = nodes[p].op.weight
      /\ fused.op.bias = nodes[p].op.bias
    BY <1>1 DEF Pass!FusedNode, Nodes, Ops
<1>4. renamed[j] = IF j = p THEN fused ELSE nodes[j]
    <2> HIDE DEF fused
    <2> QED
        OBVIOUS
<1>5. \A node, new : node \in [name : {node.name}, op : {node.op}, inputs : {node.inputs}] =>
          Pass!Rewired(node, names, new).op = node.op
    BY DEF Pass!Rewired
<1>6. nodes[j] \in [name : {nodes[j].name}, op : {nodes[j].op}, inputs : {nodes[j].inputs}]
    BY <1>1 DEF Nodes
<1> HIDE DEF fused, names, renamed
<1>7. after.op = IF j = p THEN fused.op ELSE nodes[j].op
    BY <1>3, <1>4, <1>5, <1>6
<1> HIDE DEF after
<1> QED
    BY <1>2, <1>3, <1>7

LEMMA FuseIs ==
    ASSUME Pass!TypeOK, Pass!Running, nodes \in Seq(Nodes), Pass!Fuse
    PROVE  \E c \in DOMAIN nodes : FusedInto(position, c)
<1>1. PICK c \in DOMAIN nodes : Pass!FusesIn(c)
    BY DEF Pass!Fuse, Pass!FusesIn
<1>2. phase = "kernel_fusion" /\ phase' = phase
      /\ Pass!Fuses(position, c) /\ nodes' = Pass!Rewrite(position, c)
    BY <1>1 DEF Pass!FusesIn
<1>3. position \in DOMAIN nodes
    BY <1>1, PassEffect
<1>4. Pass!Kept = Staying /\ Pass!Kept' = Staying'
    BY <1>2 DEF Pass!Kept, Staying
<1>5. Pass!NewProducerName(position, c) = NewName(position, c)
    BY DEF Pass!NewProducerName, NewName
<1>6. Pass!ActivationOps = ActivationOps
    BY DEF Pass!ActivationOps, ActivationOps
<1>7. nodes[position].op.type \in {"Add", "Conv2d", "Linear", "BatchNorm2d"}
    BY <1>2 DEF Pass!Fuses, Pass!IsFusable, Pass!FusableOps
<1>8. \A j \in DOMAIN nodes : /\ nodes'[j].op.index = nodes[j].op.index
                              /\ nodes'[j].op.weight = nodes[j].op.weight
                              /\ nodes'[j].op.bias = nodes[j].op.bias
    BY <1>2, <1>3, RewriteParameters
<1>9. /\ position \in Staying /\ c \in Staying /\ position # c
      /\ nodes[position].op.activation = None
      /\ nodes[c].op.type \in ActivationOps
      /\ \A j \in DOMAIN nodes : \A k \in DOMAIN nodes[j].inputs :
             nodes[j].inputs[k] = nodes[position].name => j = c
      /\ \A k \in DOMAIN nodes[c].inputs : nodes[c].inputs[k] = nodes[position].name
    BY <1>2, <1>3, <1>4, <1>6, PassPair
<1>10. /\ DOMAIN nodes' = DOMAIN nodes
       /\ \A j \in DOMAIN nodes :
            /\ nodes'[j].name = IF j = position THEN NewName(position, c) ELSE nodes[j].name
            /\ nodes'[j].op.type = nodes[j].op.type
            /\ nodes'[j].op.activation =
                  IF j = position THEN nodes[c].op.type ELSE nodes[j].op.activation
            /\ DOMAIN nodes'[j].inputs = DOMAIN nodes[j].inputs
            /\ Len(nodes'[j].inputs) = Len(nodes[j].inputs)
            /\ \A k \in DOMAIN nodes[j].inputs :
                 nodes'[j].inputs[k] = IF j # c /\ nodes[j].inputs[k] = nodes[c].name
                                       THEN NewName(position, c) ELSE nodes[j].inputs[k]
       /\ Staying' = Staying \ {c}
    BY <1>1, <1>4, <1>5, PassEffect
<1> QED
    BY <1>7, <1>8, <1>9, <1>10, Zenon DEF FusedInto

(* What a producer may be that is fused.                                    *)
LEMMA FusedOperators ==
    ASSUME WellOperated, AdditionsStandAlone, level > 0,
           NEW p \in DOMAIN nodes, NEW c \in DOMAIN nodes, FusedInto(p, c)
    PROVE  /\ nodes[p].op.type \in {"Linear", "Conv2d"}
           /\ nodes[c].op.type \in KernelOps
<1>1. nodes[p].op.type \in {"Add", "Conv2d", "Linear", "BatchNorm2d"}
      /\ nodes[c].op.type \in ActivationOps
    BY DEF FusedInto
<1>2. nodes[p].op.type # "Add"
    BY <1>1 DEF AdditionsStandAlone
<1>3. nodes[p].op.type # "BatchNorm2d"
    BY KernelOpsAre DEF WellOperated, IOOps, TransformOps, ElementWiseOps
<1>4. \A t \in ActivationOps : t \notin IOOps \cup TransformOps
    BY DEF ActivationOps, IOOps, TransformOps
<1> QED
    BY <1>1, <1>2, <1>3, <1>4 DEF WellOperated

LEMMA FuseOperates ==
    ASSUME WellOperated, AdditionsStandAlone, level > 0, level' = level, model' = model,
           NEW p \in DOMAIN nodes, NEW c \in DOMAIN nodes, FusedInto(p, c)
    PROVE  WellOperated' /\ AdditionsStandAlone'
<1>1. /\ DOMAIN nodes' = DOMAIN nodes
      /\ \A j \in DOMAIN nodes :
           /\ nodes'[j].op.type = nodes[j].op.type
           /\ nodes'[j].op.activation = IF j = p THEN nodes[c].op.type ELSE nodes[j].op.activation
           /\ nodes'[j].op.weight = nodes[j].op.weight
           /\ nodes'[j].op.bias = nodes[j].op.bias
           /\ DOMAIN nodes'[j].inputs = DOMAIN nodes[j].inputs
           /\ Len(nodes'[j].inputs) = Len(nodes[j].inputs)
    BY DEF FusedInto
<1>2. nodes[p].op.type \in {"Linear", "Conv2d"} /\ nodes[c].op.type \in KernelOps
    BY FusedOperators
<1>3. AdditionsStandAlone'
    BY <1>1 DEF AdditionsStandAlone
<1>4. ASSUME NEW j \in DOMAIN nodes
      PROVE  \/ nodes'[j].op.activation = None
             \/ /\ nodes'[j].op.type \in {"Linear", "Conv2d"}
                /\ nodes'[j].op.activation \in KernelOps
    BY <1>1, <1>2 DEF WellOperated
<1>5. KernelOps' = KernelOps
    BY DEF KernelOps
<1>6. WellOperated'
    BY <1>1, <1>4, <1>5 DEF WellOperated
<1> QED
    BY <1>3, <1>6

(* The fused node takes an identifier that no node has.                     *)
LEMMA FuseIdentifies ==
    ASSUME nodes \in Seq(Nodes), IdentifiersApart, IdentifiersUnextended,
           level > 0, level' = level,
           NEW p \in DOMAIN nodes, NEW c \in DOMAIN nodes, FusedInto(p, c)
    PROVE  IdentifiersApart' /\ IdentifiersUnextended'
<1> DEFINE w == LowerWord[nodes[c].op.type]
<1>1. /\ DOMAIN nodes' = DOMAIN nodes
      /\ \A j \in DOMAIN nodes :
           /\ nodes'[j].name = IF j = p THEN Append(nodes[p].name, w) ELSE nodes[j].name
           /\ nodes'[j].op.type = nodes[j].op.type
           /\ nodes'[j].op.activation = IF j = p THEN nodes[c].op.type ELSE nodes[j].op.activation
      /\ nodes[p].op.activation = None
      /\ nodes[c].op.type \in ActivationOps
      /\ nodes[p].op.type \in {"Add", "Conv2d", "Linear", "BatchNorm2d"}
    BY DEF FusedInto, NewName
<1>2. w \in Word /\ Identifier[w] = <<w>> /\ w \notin Digit
    BY <1>1, WordAssumption, NameAssumption
<1>3. \A j \in DOMAIN nodes : nodes[j].name \in Name
    <2>1. \A j \in DOMAIN nodes : nodes[j] \in Nodes
        OBVIOUS
    <2> QED
        BY <2>1 DEF Nodes
<1>4. Body' = Body /\ p \in Body /\ Body \subseteq DOMAIN nodes
    BY <1>1 DEF Body
<1> HIDE DEF w
<1>5. \A j \in DOMAIN nodes : Sanitized(j) \in Seq(Word \cup {"var"})
    BY <1>2, <1>3, IdentifierAppends DEF Sanitized
<1>6. \A j \in DOMAIN nodes : Sanitized(j)' = IF j = p THEN Append(Sanitized(p), w) ELSE Sanitized(j)
    <2>1. Backend!SanitizeVariableName(Append(nodes[p].name, w)) =
             Append(Backend!SanitizeVariableName(nodes[p].name), w)
        BY <1>2, <1>3, IdentifierAppends
    <2> QED
        BY <1>1, <2>1 DEF Sanitized
<1>7. \A j \in Body : j # p => Sanitized(j) # Append(Sanitized(p), w)
    BY <1>1, <1>2, <1>4 DEF IdentifiersUnextended
<1>8. IdentifiersApart'
    <2> SUFFICES ASSUME NEW i \in Body, NEW j \in Body, Sanitized(i)' = Sanitized(j)'
                 PROVE  i = j
        BY <1>4 DEF IdentifiersApart
    <2>1. CASE i # p /\ j # p
        BY <1>4, <1>6, <2>1 DEF IdentifiersApart
    <2>2. CASE i = p /\ j # p
        BY <1>4, <1>6, <1>7, <2>2
    <2>3. CASE i # p /\ j = p
        BY <1>4, <1>6, <1>7, <2>3
    <2> QED
        BY <2>1, <2>2, <2>3
<1>9. IdentifiersUnextended'
    <2> SUFFICES ASSUME NEW i \in Body, NEW j \in Body, nodes'[i].op.activation = None,
                        NEW v \in Word
                 PROVE  Sanitized(j)' # Append(Sanitized(i)', v)
        BY <1>4 DEF IdentifiersUnextended
    <2>1. nodes[c].op.type # None
        BY <1>1, NoneAssumption
    <2>2. i # p /\ nodes[i].op.activation = None /\ i \in DOMAIN nodes
        BY <1>1, <1>4, <2>1
    <2>3. Sanitized(i)' = Sanitized(i)
        BY <1>6, <2>2
    <2>4. CASE j # p
        <3>1. Sanitized(j)' = Sanitized(j)
            BY <1>4, <1>6, <2>4
        <3> QED
            BY <2>2, <2>3, <3>1 DEF IdentifiersUnextended
    <2>5. CASE j = p
        <3>1. Sanitized(j)' = Append(Sanitized(p), w)
            BY <1>4, <1>6, <2>5
        <3>2. Sanitized(p) # Sanitized(i)
            BY <1>4, <2>2 DEF IdentifiersApart
        <3>3. Sanitized(p) \in Seq(Word \cup {"var"}) /\ Sanitized(i) \in Seq(Word \cup {"var"})
            BY <1>4, <1>5, <2>2
        <3> DEFINE W == Word \cup {"var"}
                   a == Sanitized(p)
                   b == Sanitized(i)
        <3>4. a \in Seq(W) /\ b \in Seq(W) /\ a # b /\ w \in W /\ v \in W
            BY <1>2, <3>2, <3>3
        <3> HIDE DEF W, a, b
        <3>5. Append(a, w) # Append(b, v)
            <4> SUFFICES ASSUME Append(a, w) = Append(b, v) PROVE a = b
                BY <3>4
            <4>1. Len(a) = Len(b)
                BY <3>4, AppendProperties
            <4>2. \A i_1 \in 1 .. Len(a) : a[i_1] = b[i_1]
                BY <3>4, <4>1, AppendProperties
            <4> QED
                BY <3>4, <4>1, <4>2, SeqEqual
        <3> QED
            BY <2>3, <3>1, <3>5 DEF a, b
    <2> QED
        BY <2>4, <2>5
<1> QED
    BY <1>8, <1>9

(* Who read the activation reads the fused node, which is behind neither.   *)
LEMMA FuseConnects ==
    ASSUME nodes \in Seq(Nodes), WellOperated, Connected,
           \A i, j \in DOMAIN nodes : nodes[i].name = nodes[j].name => i = j,
           NEW p \in DOMAIN nodes, NEW c \in DOMAIN nodes, FusedInto(p, c)
    PROVE  Connected'
<1>1. /\ DOMAIN nodes' = DOMAIN nodes
      /\ \A j \in DOMAIN nodes :
           /\ nodes'[j].name = IF j = p THEN NewName(p, c) ELSE nodes[j].name
           /\ nodes'[j].op.type = nodes[j].op.type
           /\ DOMAIN nodes'[j].inputs = DOMAIN nodes[j].inputs
           /\ \A k \in DOMAIN nodes[j].inputs :
                nodes'[j].inputs[k] = IF j # c /\ nodes[j].inputs[k] = nodes[c].name
                                      THEN NewName(p, c) ELSE nodes[j].inputs[k]
      /\ Staying' = Staying \ {c}
      /\ \A j \in DOMAIN nodes : \A k \in DOMAIN nodes[j].inputs :
           nodes[j].inputs[k] = nodes[p].name => j = c
      /\ \A k \in DOMAIN nodes[c].inputs : nodes[c].inputs[k] = nodes[p].name
      /\ p \in Staying /\ c \in Staying /\ p # c
      /\ nodes[p].op.type \in {"Add", "Conv2d", "Linear", "BatchNorm2d"}
      /\ nodes[c].op.type \in ActivationOps
    BY DEF FusedInto
<1>2. Body' = Body /\ Body \subseteq DOMAIN nodes /\ Staying \subseteq DOMAIN nodes
      /\ DOMAIN nodes \subseteq Nat /\ p \in Body
    BY <1>1 DEF Body, Staying
<1>3. p < c
    <2>1. 1 \in DOMAIN nodes[c].inputs
        <3>1. nodes[c].op.type # "Input"
            BY <1>1 DEF ActivationOps
        <3> QED
            BY <3>1 DEF WellOperated
    <2>2. nodes[c].inputs[1] = nodes[p].name
        BY <1>1, <2>1
    <2>3. PICK i \in Staying \cap Body : i < c /\ nodes[i].name = nodes[c].inputs[1]
        BY <1>1, <2>1 DEF Connected
    <2>4. i = p
        BY <1>2, <2>2, <2>3
    <2> QED
        BY <2>3, <2>4
<1> SUFFICES ASSUME NEW j \in Staying', NEW k \in DOMAIN nodes'[j].inputs
             PROVE  \E i \in Staying' \cap Body : i < j /\ nodes'[i].name = nodes'[j].inputs[k]
    BY <1>2 DEF Connected
<1>4. j \in Staying /\ j # c /\ j \in DOMAIN nodes /\ k \in DOMAIN nodes[j].inputs
    BY <1>1, <1>2
<1>5. PICK i \in Staying \cap Body : i < j /\ nodes[i].name = nodes[j].inputs[k]
    BY <1>4 DEF Connected
<1>6. i \in DOMAIN nodes /\ i # p
    BY <1>1, <1>2, <1>4, <1>5
<1>7. CASE i = c
    <2>1. nodes'[j].inputs[k] = NewName(p, c) /\ nodes'[p].name = NewName(p, c)
        BY <1>1, <1>4, <1>5, <1>7
    <2>2. p < j
        BY <1>2, <1>3, <1>4, <1>5, <1>7
    <2> QED
        BY <1>1, <1>2, <2>1, <2>2
<1>8. CASE i # c
    <2>1. nodes[j].inputs[k] # nodes[c].name
        BY <1>5, <1>6, <1>8
    <2>2. nodes'[j].inputs[k] = nodes[j].inputs[k] /\ nodes'[i].name = nodes[i].name
        BY <1>1, <1>4, <1>6, <2>1
    <2> QED
        BY <1>1, <1>5, <1>8, <2>2
<1> QED
    BY <1>7, <1>8

LEMMA FuseGrounds ==
    ASSUME nodes \in Seq(Nodes), WellOperated, AdditionsStandAlone, level > 0, OutputsGrounded,
           \A i, j \in DOMAIN nodes : nodes[i].name = nodes[j].name => i = j,
           NEW p \in DOMAIN nodes, NEW c \in DOMAIN nodes, FusedInto(p, c)
    PROVE  OutputsGrounded'
<1>1. /\ DOMAIN nodes' = DOMAIN nodes
      /\ \A j \in DOMAIN nodes :
           /\ nodes'[j].name = IF j = p THEN NewName(p, c) ELSE nodes[j].name
           /\ nodes'[j].op.type = nodes[j].op.type
           /\ \A k \in DOMAIN nodes[j].inputs :
                nodes'[j].inputs[k] = IF j # c /\ nodes[j].inputs[k] = nodes[c].name
                                      THEN NewName(p, c) ELSE nodes[j].inputs[k]
      /\ Staying' = Staying \ {c}
      /\ \A j \in DOMAIN nodes : \A k \in DOMAIN nodes[j].inputs :
           nodes[j].inputs[k] = nodes[p].name => j = c
      /\ p \in Staying /\ p # c
      /\ nodes[c].op.type \in ActivationOps
    BY DEF FusedInto
<1>2. nodes[p].op.type \in KernelOps /\ nodes[c].op.type \notin TransformOps \cup IOOps
    <2>1. nodes[p].op.type \in {"Linear", "Conv2d"} /\ nodes[c].op.type \in KernelOps
        BY FusedOperators
    <2> QED
        BY <2>1, KernelOpsAre
<1>3. Staying \subseteq DOMAIN nodes
    BY DEF Staying
<1>4. KernelOps' = KernelOps /\ Kernels' = Kernels \ {c} /\ p \in Kernels'
      /\ Transforms' = Transforms
    <2>1. KernelOps' = KernelOps
        BY DEF KernelOps
    <2>2. \A j \in Staying : nodes'[j].op.type = nodes[j].op.type
        BY <1>1, <1>3
    <2>3. Kernels' = Kernels \ {c}
        BY <1>1, <2>1, <2>2 DEF Kernels
    <2>4. Transforms' = Transforms
        BY <1>1, <1>2, <2>2 DEF Transforms
    <2> QED
        BY <1>1, <1>2, <2>1, <2>3, <2>4 DEF Kernels
<1>5. Backend!Outputs' = Backend!Outputs /\ Backend!Outputs \subseteq DOMAIN nodes
    BY <1>1 DEF Backend!Outputs
<1>6. PICK G \in SUBSET Transforms :
          Grounds(G) /\ \A o \in Backend!Outputs : Reads(o, G \cup Kernels)
    BY DEF OutputsGrounded
<1>7. c \notin G /\ G \subseteq DOMAIN nodes /\ Kernels \subseteq DOMAIN nodes
    BY <1>2, <1>3, <1>6 DEF Transforms, Kernels
<1>8. ASSUME NEW j \in DOMAIN nodes, j # c, nodes[j].op.type # "Input", Reads(j, G \cup Kernels)
      PROVE  \E i \in G \cup Kernels' : nodes'[i].name = nodes'[j].inputs[1]
    <2>1. PICK i \in G \cup Kernels : nodes[i].name = nodes[j].inputs[1]
        BY <1>8 DEF Reads
    <2>2. 1 \in DOMAIN nodes[j].inputs /\ i \in DOMAIN nodes /\ i # p
        BY <1>1, <1>7, <1>8, <2>1 DEF WellOperated
    <2>3. CASE i = c
        BY <1>1, <1>4, <1>8, <2>1, <2>2, <2>3
    <2>4. CASE i # c
        <3>1. nodes[j].inputs[1] # nodes[c].name
            BY <2>1, <2>2, <2>4
        <3>2. nodes'[j].inputs[1] = nodes[j].inputs[1] /\ nodes'[i].name = nodes[i].name
            BY <1>1, <2>2, <3>1
        <3> QED
            BY <1>4, <2>1, <2>4, <3>2
    <2> QED
        BY <2>3, <2>4
<1>9. \A j \in G : \E i \in G \cup Kernels' : nodes'[i].name = nodes'[j].inputs[1]
    <2> TAKE j \in G
    <2>1. nodes[j].op.type # "Input"
        BY <1>6 DEF Transforms, TransformOps
    <2> QED
        BY <1>6, <1>7, <1>8, <2>1 DEF Grounds
<1>10. \A j \in Backend!Outputs : \E i \in G \cup Kernels' : nodes'[i].name = nodes'[j].inputs[1]
    <2> TAKE j \in Backend!Outputs
    <2>1. nodes[j].op.type = "Output" /\ j # c
        BY <1>2 DEF Backend!Outputs, IOOps
    <2> QED
        BY <1>5, <1>6, <1>8, <2>1
<1> QED
    BY <1>4, <1>5, <1>6, <1>9, <1>10 DEF OutputsGrounded, Grounds, Reads

LEMMA FuseNumbers ==
    ASSUME OutputsNumbered, model' = model,
           NEW p \in DOMAIN nodes, NEW c \in DOMAIN nodes, FusedInto(p, c)
    PROVE  OutputsNumbered'
<1>1. DOMAIN nodes' = DOMAIN nodes
      /\ \A j \in DOMAIN nodes : /\ nodes'[j].op.type = nodes[j].op.type
                                 /\ nodes'[j].op.index = nodes[j].op.index
    BY DEF FusedInto
<1>2. Backend!Outputs' = Backend!Outputs /\ Backend!Inputs' = Backend!Inputs
    BY <1>1 DEF Backend!Outputs, Backend!Inputs
<1>3. \A j \in Backend!Outputs : nodes'[j].op.index = nodes[j].op.index
    BY <1>1 DEF Backend!Outputs
<1> QED
    BY <1>2, <1>3 DEF OutputsNumbered

(* What is removed in the end is fused activations.                         *)
LEMMA RemovalFits ==
    ASSUME nodes \in Seq(Nodes), phase = "kernel_fusion",
           WellOperated, AdditionsStandAlone, IdentifiersApart,
           Connected, OutputsGrounded, OutputsNumbered,
           \A j \in DOMAIN nodes \ Staying : nodes[j].op.type \in ActivationOps,
           nodes' = SubList(nodes, Staying), phase' = "optimized",
           model' = model, level' = level
    PROVE  /\ WellOperated' /\ AdditionsStandAlone' /\ IdentifiersApart'
           /\ Connected' /\ OutputsGrounded' /\ OutputsNumbered'
<1> DEFINE K == Staying
           c == Cardinality(K)
           f(r) == AtRank(K, r)
<1>1. DOMAIN nodes = 1 .. Len(nodes) /\ Len(nodes) \in Nat /\ K \in SUBSET (1 .. Len(nodes))
    BY DEF Staying
<1> HIDE DEF K
<1>2. /\ c \in Nat
      /\ \A r \in 1 .. c : f(r) \in K
      /\ \A r, t \in 1 .. c : /\ f(r) < f(t) => r < t
                              /\ f(r) = f(t) => r = t
      /\ \A j \in K : \E r \in 1 .. c : f(r) = j
    <2> DEFINE n == Len(nodes)
    <2>1. n \in Nat /\ K \in SUBSET (1 .. n)
        BY <1>1
    <2> HIDE DEF n
    <2>2. /\ Cardinality(K) \in Nat
          /\ \A r \in 1 .. Cardinality(K) : AtRank(K, r) \in K
          /\ \A r, t \in 1 .. Cardinality(K) :
                /\ AtRank(K, r) < AtRank(K, t) => r < t
                /\ AtRank(K, r) = AtRank(K, t) => r = t
          /\ \A j \in K : Rank(K, j) \in 1 .. Cardinality(K) /\ AtRank(K, Rank(K, j)) = j
        BY <2>1, Ranks
    <2> QED
        BY <2>2
<1>3. DOMAIN nodes' = 1 .. c /\ \A r \in 1 .. c : nodes'[r] = nodes[f(r)]
    BY DEF SubList, K
<1>4. Staying' = DOMAIN nodes'
    BY DEF Staying
<1> HIDE DEF c, f
<1>5. \A r \in 1 .. c : f(r) \in DOMAIN nodes
    BY <1>1, <1>2
<1>6. KernelOps' = KernelOps /\ \A r \in 1 .. c : r \in Body' <=> f(r) \in Body
    BY <1>3, <1>5 DEF Body, KernelOps
<1>7. \A j \in DOMAIN nodes : nodes[j].op.type \notin ActivationOps => \E r \in 1 .. c : f(r) = j
    BY <1>2 DEF K
<1>8. WellOperated' /\ AdditionsStandAlone'
    <2>1. \A r \in DOMAIN nodes' : \E j \in DOMAIN nodes : nodes'[r] = nodes[j]
        BY <1>3, <1>5
    <2>2. WellOperated'
        BY <1>6, <2>1 DEF WellOperated
    <2> QED
        BY <2>1, <2>2 DEF AdditionsStandAlone
<1>9. IdentifiersApart'
    <2>1. \A r \in 1 .. c : Sanitized(r)' = Sanitized(f(r))
        BY <1>3 DEF Sanitized
    <2> SUFFICES ASSUME NEW r \in Body', NEW t \in Body', Sanitized(r)' = Sanitized(t)'
                 PROVE  r = t
        BY DEF IdentifiersApart
    <2>2. r \in 1 .. c /\ t \in 1 .. c
        BY <1>3 DEF Body
    <2>3. f(r) = f(t)
        BY <1>6, <2>1, <2>2 DEF IdentifiersApart
    <2> QED
        BY <1>2, <2>2, <2>3
<1>10. Connected'
    <2> SUFFICES ASSUME NEW r \in 1 .. c, NEW k \in DOMAIN nodes'[r].inputs
                 PROVE  \E t \in 1 .. c : /\ t \in Body' /\ t < r
                                          /\ nodes'[t].name = nodes'[r].inputs[k]
        BY <1>3, <1>4 DEF Connected
    <2>1. f(r) \in Staying /\ nodes'[r] = nodes[f(r)]
        BY <1>2, <1>3 DEF K
    <2>2. PICK i \in Staying \cap Body : i < f(r) /\ nodes[i].name = nodes[f(r)].inputs[k]
        BY <2>1 DEF Connected
    <2>3. PICK t \in 1 .. c : f(t) = i
        BY <1>2, <2>2 DEF K
    <2>4. t < r
        BY <1>2, <2>2, <2>3
    <2> QED
        BY <1>3, <1>6, <2>1, <2>2, <2>3, <2>4
<1>11. \A r \in 1 .. c : /\ r \in Kernels' <=> f(r) \in Kernels
                         /\ r \in Transforms' <=> f(r) \in Transforms
    BY <1>2, <1>3, <1>4, <1>6 DEF Kernels, Transforms, K
<1>12. /\ \A r \in 1 .. c : r \in Backend!Outputs' <=> f(r) \in Backend!Outputs
       /\ \A r \in 1 .. c : r \in Backend!Inputs' <=> f(r) \in Backend!Inputs
       /\ Backend!Outputs' \subseteq 1 .. c
    BY <1>3, <1>5 DEF Backend!Outputs, Backend!Inputs
<1>13. /\ \A j \in Backend!Outputs : \E r \in Backend!Outputs' : f(r) = j
       /\ \A j \in Backend!Inputs : \E r \in Backend!Inputs' : f(r) = j
    <2>1. "Output" \notin ActivationOps /\ "Input" \notin ActivationOps
        BY DEF ActivationOps
    <2> QED
        BY <1>7, <1>12, <2>1 DEF Backend!Outputs, Backend!Inputs
<1>14. OutputsGrounded'
    <2>1. PICK G \in SUBSET Transforms :
              Grounds(G) /\ \A o \in Backend!Outputs : Reads(o, G \cup Kernels)
        BY DEF OutputsGrounded
    <2> DEFINE H == {r \in 1 .. c : f(r) \in G}
    <2>2. H \subseteq Transforms'
        BY <1>11, <2>1
    <2>3. ASSUME NEW r \in 1 .. c, Reads(f(r), G \cup Kernels)
          PROVE  \E t \in H \cup Kernels' : nodes'[t].name = nodes'[r].inputs[1]
        <3>1. PICK i \in G \cup Kernels : nodes[i].name = nodes[f(r)].inputs[1]
            BY <2>3 DEF Reads
        <3>2. i \in K
            BY <2>1, <3>1 DEF Transforms, Kernels, K
        <3>3. PICK t \in 1 .. c : f(t) = i
            BY <1>2, <3>2
        <3>4. t \in H \cup Kernels'
            BY <1>11, <3>1, <3>3
        <3> QED
            BY <1>3, <3>1, <3>3, <3>4
    <2>4. \A r \in H : \E t \in H \cup Kernels' : nodes'[t].name = nodes'[r].inputs[1]
        BY <2>1, <2>3 DEF Grounds
    <2>5. \A r \in Backend!Outputs' : \E t \in H \cup Kernels' : nodes'[t].name = nodes'[r].inputs[1]
        BY <1>12, <2>1, <2>3
    <2> HIDE DEF H
    <2> QED
        BY <2>2, <2>4, <2>5 DEF OutputsGrounded, Grounds, Reads
<1>15. OutputsNumbered'
    <2>1. Backend!Outputs' # {}
        BY <1>13 DEF OutputsNumbered
    <2>2. ASSUME NEW r \in Backend!Outputs'
          PROVE  nodes'[r].op.index \in 0 .. Len(model'.output) - 1
        <3>1. f(r) \in Backend!Outputs /\ nodes'[r] = nodes[f(r)]
            BY <1>3, <1>12
        <3> QED
            BY <3>1 DEF OutputsNumbered
    <2>3. ASSUME NEW r \in Backend!Outputs', NEW t \in Backend!Outputs',
                 nodes'[r].op.index = nodes'[t].op.index
          PROVE  r = t
        <3>1. /\ f(r) \in Backend!Outputs /\ nodes'[r] = nodes[f(r)] /\ r \in 1 .. c
              /\ f(t) \in Backend!Outputs /\ nodes'[t] = nodes[f(t)] /\ t \in 1 .. c
            BY <1>3, <1>12
        <3>2. f(r) = f(t)
            BY <2>3, <3>1 DEF OutputsNumbered
        <3> QED
            BY <1>2, <3>1, <3>2
    <2>4. CASE \A i, j \in Backend!Outputs : i = j
        <3>1. \A r, t \in Backend!Outputs' : r = t
            BY <1>2, <1>12, <2>4
        <3> QED
            BY <2>1, <2>2, <2>3, <3>1 DEF OutputsNumbered
    <2>5. CASE \E i, j \in Backend!Inputs : i # j
        <3>1. \E r, t \in Backend!Inputs' : r # t
            BY <1>13, <2>5
        <3> QED
            BY <2>1, <2>2, <2>3, <3>1 DEF OutputsNumbered
    <2> QED
        BY <2>4, <2>5 DEF OutputsNumbered
<1> QED
    BY <1>8, <1>9, <1>10, <1>14, <1>15

(* What the back end relies on, in the list.                                *)
Sound ==
    /\ WellOperated /\ AdditionsStandAlone /\ IdentifiersApart
    /\ phase \in {"optimize", "kernel_fusion"} => IdentifiersUnextended
    /\ Connected /\ OutputsGrounded /\ OutputsNumbered

LEMMA FusionKeepsSound ==
    ASSUME Typed, level > 0, Pass!IInv, Sound, Fuse
    PROVE  Sound' /\ phase' \in {"kernel_fusion", "optimized"}
<1>1. Pass!Next /\ level' = level /\ model' = model
    BY FusionIsPass DEF Fuse, frontVars
<1>2. phase = "kernel_fusion" /\ phase' \in {"kernel_fusion", "optimized"}
    BY <1>1, FuseEffect
<1>3. Pass!TypeOK /\ Pass!Running
    BY <1>2 DEF Pass!IInv
<1>4. /\ WellOperated /\ AdditionsStandAlone /\ IdentifiersApart /\ IdentifiersUnextended
      /\ Connected /\ OutputsGrounded /\ OutputsNumbered /\ nodes \in Seq(Nodes)
    BY <1>2 DEF Sound, Typed
<1>5. CASE Pass!Fuse
    <2>1. PICK c \in DOMAIN nodes : FusedInto(position, c)
        BY <1>3, <1>4, <1>5, FuseIs
    <2>2. position \in DOMAIN nodes
        BY <2>1 DEF FusedInto, Staying
    <2>3. \A i, j \in DOMAIN nodes : nodes[i].name = nodes[j].name => i = j
        BY <1>3 DEF Pass!Running, Pass!NamesDistinct
    <2>4. WellOperated' /\ AdditionsStandAlone'
        BY <1>1, <1>4, <2>1, <2>2, FuseOperates
    <2>5. IdentifiersApart' /\ IdentifiersUnextended'
        BY <1>1, <1>4, <2>1, <2>2, FuseIdentifies
    <2>6. Connected'
        BY <1>4, <2>1, <2>2, <2>3, FuseConnects
    <2>7. OutputsGrounded'
        BY <1>4, <2>1, <2>2, <2>3, FuseGrounds
    <2>8. OutputsNumbered'
        BY <1>1, <1>4, <2>1, <2>2, FuseNumbers
    <2> QED
        BY <1>2, <2>4, <2>5, <2>6, <2>7, <2>8 DEF Sound
<1>6. CASE Pass!Skip
    <2>1. nodes' = nodes /\ Staying' = Staying
        BY <1>6 DEF Pass!Skip, Staying
    <2> QED
        BY <1>1, <1>2, <1>4, <2>1, GraphSame DEF Sound
<1>7. CASE Pass!RemoveFused
    <2>1. Pass!Kept = Staying
        BY <1>2 DEF Pass!Kept, Staying
    <2>2. nodes' = SubList(nodes, Staying) /\ phase' = "optimized"
        BY <1>7, <2>1, PassSubList DEF Pass!RemoveFused
    <2>3. \A j \in DOMAIN nodes \ Staying : nodes[j].op.type \in ActivationOps
        BY <1>3, <2>1 DEF Pass!Running, Pass!RemovedAreActivations, Pass!ActivationOps, ActivationOps
    <2>4. /\ WellOperated' /\ AdditionsStandAlone' /\ IdentifiersApart'
          /\ Connected' /\ OutputsGrounded' /\ OutputsNumbered'
        BY <1>1, <1>2, <1>4, <2>2, <2>3, RemovalFits
    <2> QED
        BY <1>2, <2>2, <2>4 DEF Sound
<1> QED
    BY <1>1, <1>5, <1>6, <1>7 DEF Pass!Next

-----------------------------------------------------------------------------
(* What a model computes                                                    *)

ResultOf(n, t, value) ==
    IF n.op_type \in Reshaping
    THEN value[n.input[1]]
    ELSE IF t # n.output[1]
    THEN Extra(t)
    ELSE Apply(Function(n.op_type), n.attributes,
               [i \in (IF n.op_type \in Configured THEN 1 .. 1 ELSE DOMAIN n.input) |->
                   value[n.input[i]]])

(* The values after each of the first nodes.                                *)
After(m, value, k) ==
    [t \in Defined(m, Len(m.node) + 1) |->
        IF k = 0 THEN Tensor(t)
        ELSE IF \E o \in DOMAIN m.node[k].output : m.node[k].output[o] = t
        THEN ResultOf(m.node[k], t, value)
        ELSE value[t]]

Evaluates(f, m, n) == f = [k \in 0 .. n |-> After(m, f[k - 1], k)]

LEMMA EvaluationExists ==
    ASSUME NEW m, NEW n \in Nat
    PROVE  \E f : Evaluates(f, m, n)
<1> DEFINE bad == {k \in Nat : ~ \E f : Evaluates(f, m, k)}
<1> SUFFICES ASSUME bad # {} PROVE FALSE
    OBVIOUS
<1>1. PICK k \in bad : \A l \in bad : k <= l
    <2> HIDE DEF bad
    <2>1. bad \in SUBSET Nat
        BY DEF bad
    <2> QED
        BY <2>1, LeastNumber
<1>2. \A v, w : After(m, v, 0) = After(m, w, 0)
    BY DEF After
<1>3. k # 0
    <2> DEFINE z == After(m, m, 0)
               f == [i \in 0 .. 0 |-> z]
    <2>1. \A i \in 0 .. 0 : After(m, f[i - 1], i) = z
        <3> HIDE DEF f
        <3>1. \A i \in 0 .. 0 : i = 0
            OBVIOUS
        <3> QED
            BY <1>2, <3>1
    <2> HIDE DEF z
    <2>2. f = [i \in 0 .. 0 |-> f[i]] /\ \A i \in 0 .. 0 : f[i] = z
        OBVIOUS
    <2> HIDE DEF f
    <2>3. f = [i \in 0 .. 0 |-> After(m, f[i - 1], i)]
        BY <2>1, <2>2
    <2>4. Evaluates(f, m, 0)
        BY <2>3 DEF Evaluates
    <2> QED
        BY <2>4
<1>4. k \in Nat /\ k - 1 \in Nat /\ k - 1 \notin bad
    BY <1>1, <1>3
<1>5. PICK f : Evaluates(f, m, k - 1)
    BY <1>4
<1> DEFINE g == [i \in 0 .. k |-> IF i = k THEN After(m, f[k - 1], k) ELSE f[i]]
<1>6. Evaluates(g, m, k)
    <2>1. \A i \in 0 .. k - 1 : f[i] = After(m, f[i - 1], i)
        BY <1>5 DEF Evaluates
    <2>2. ASSUME NEW i \in 0 .. k PROVE g[i] = After(m, g[i - 1], i)
        <3>1. i # 0 => i - 1 \in 0 .. k /\ i - 1 # k /\ g[i - 1] = f[i - 1]
            BY <1>4
        <3>2. CASE i = k
            <4>1. g[i] = After(m, f[k - 1], k)
                BY <3>2
            <4> HIDE DEF g
            <4> QED
                BY <1>3, <3>1, <3>2, <4>1
        <3>3. CASE i # k
            <4>1. g[i] = f[i] /\ i \in 0 .. k - 1
                BY <1>4, <3>3
            <4> HIDE DEF g
            <4>2. CASE i = 0
                <5>1. After(m, f[i - 1], i) = After(m, g[i - 1], i)
                    BY <1>2, <4>2
                <5> QED
                    BY <2>1, <4>1, <5>1
            <4>3. CASE i # 0
                BY <2>1, <3>1, <4>1, <4>3
            <4> QED
                BY <4>2, <4>3
        <3> QED
            BY <3>2, <3>3
    <2>3. g = [i \in 0 .. k |-> g[i]]
        OBVIOUS
    <2> HIDE DEF g
    <2>4. g = [i \in 0 .. k |-> After(m, g[i - 1], i)]
        BY <2>2, <2>3
    <2> QED
        BY <2>4 DEF Evaluates
<1> QED
    BY <1>1, <1>6

LEMMA OnnxValuesAre ==
    ASSUME NEW m
    PROVE  OnnxValues(m) = (CHOOSE f : Evaluates(f, m, Len(m.node)))[Len(m.node)]
    BY DEF OnnxValues, Evaluates, After, ResultOf

(* A tensor keeps its value once it is defined.                             *)
LEMMA DefinedValue ==
    ASSUME NEW m \in Models
    PROVE  \E f : /\ \A k \in 0 .. Len(m.node) : f[k] = After(m, f[k - 1], k)
                  /\ OnnxValues(m) = f[Len(m.node)]
                  /\ \A k \in 0 .. Len(m.node) : \A t \in Defined(m, k + 1) :
                        t \in Defined(m, Len(m.node) + 1) /\ OnnxValues(m)[t] = f[k][t]
<1> DEFINE n == Len(m.node)
           all == Defined(m, n + 1)
           f == CHOOSE f : Evaluates(f, m, n)
<1>1. m.node \in Seq(OnnxNodes) /\ n \in Nat /\ DOMAIN m.node = 1 .. n /\ CheckedModel(m)
    BY ModelTyped
<1>2. Evaluates(f, m, n)
    BY <1>1, EvaluationExists
<1>3. OnnxValues(m) = f[n]
    BY OnnxValuesAre
<1> HIDE DEF f
<1>4. \A k \in 0 .. n : f[k] = After(m, f[k - 1], k)
    BY <1>2 DEF Evaluates
<1>5. \A k \in 0 .. n : \A l \in k .. n : Defined(m, k + 1) \subseteq Defined(m, l + 1)
    <2> SUFFICES ASSUME NEW k \in 0 .. n, NEW l \in k .. n
                 PROVE  Defined(m, k + 1) \subseteq Defined(m, l + 1)
        OBVIOUS
    <2>1. 1 .. (k + 1) - 1 \subseteq 1 .. (l + 1) - 1
        BY <1>1
    <2> QED
        BY <2>1 DEF Defined
<1> HIDE DEF n
<1>6. ASSUME NEW k \in 0 .. n, NEW t \in Defined(m, k + 1)
      PROVE  f[n][t] = f[k][t]
    <2> DEFINE bad == {l \in Nat : l \in k .. n /\ f[l][t] # f[k][t]}
    <2> SUFFICES ASSUME bad # {} PROVE FALSE
        <3>1. n \in k .. n /\ n \in Nat
            BY <1>1 DEF n
        <3> QED
            BY <3>1
    <2>1. PICK l \in bad : \A o \in bad : l <= o
        <3> HIDE DEF bad
        <3>1. bad \in SUBSET Nat
            BY DEF bad
        <3> QED
            BY <3>1, LeastNumber
    <2>2. l # k /\ l \in k .. n /\ k \in Nat /\ n \in Nat
        BY <1>1, <2>1 DEF n
    <2>3. l - 1 \in k .. n /\ l - 1 \in Nat /\ l \in 1 .. n /\ l \in 0 .. n /\ l # 0 /\ l - 1 \in 0 .. n
        BY <2>2
    <2>4. f[l - 1][t] = f[k][t]
        BY <2>1, <2>3
    <2>5. t \in Defined(m, l)
        <3>1. Defined(m, k + 1) \subseteq Defined(m, (l - 1) + 1)
            BY <1>5, <2>3
        <3>2. (l - 1) + 1 = l
            BY <2>3
        <3> QED
            BY <3>1, <3>2
    <2>6. ~ \E o \in DOMAIN m.node[l].output : m.node[l].output[o] = t
        <3>1. l \in DOMAIN m.node
            BY <1>1, <2>3 DEF n
        <3> QED
            BY <1>1, <2>5, <3>1 DEF CheckedModel
    <2>7. t \in all
        BY <1>1, <1>5 DEF n
    <2>8. f[l][t] = f[l - 1][t]
        <3>1. f[l] = After(m, f[l - 1], l)
            BY <1>4, <2>3
        <3> DEFINE v == f[l - 1]
        <3> HIDE DEF v
        <3>2. After(m, v, l)[t] = v[t]
            BY <2>3, <2>6, <2>7 DEF After, n
        <3> QED
            BY <3>1, <3>2 DEF v
    <2> QED
        BY <2>1, <2>4, <2>8
<1>7. \A k \in 0 .. n : \A t \in Defined(m, k + 1) : t \in Defined(m, n + 1)
    <2>1. n \in Nat /\ \A k \in 0 .. n : n \in k .. n
        BY <1>1 DEF n
    <2> QED
        BY <1>5, <2>1
<1>8. \A k \in 0 .. n : f[k] = After(m, f[k - 1], k)
    BY <1>4
<1> QED
    BY <1>3, <1>6, <1>7, <1>8 DEF n

LEMMA InputValue ==
    ASSUME NEW m \in Models, NEW t,
           t \in m.initializer \/ \E i \in DOMAIN m.input : m.input[i] = t
    PROVE  OnnxValues(m)[t] = Tensor(t)
<1> DEFINE n == Len(m.node)
<1>1. PICK f : /\ \A k \in 0 .. n : f[k] = After(m, f[k - 1], k)
               /\ OnnxValues(m) = f[n]
               /\ \A k \in 0 .. n : \A u \in Defined(m, k + 1) :
                     u \in Defined(m, n + 1) /\ OnnxValues(m)[u] = f[k][u]
    BY DefinedValue
<1>2. 0 \in 0 .. n
    BY ModelTyped
<1>3. t \in Defined(m, 0 + 1)
    BY DEF Defined
<1>4. OnnxValues(m)[t] = f[0][t] /\ t \in Defined(m, n + 1)
    BY <1>1, <1>2, <1>3
<1>5. f[0] = After(m, f[0 - 1], 0)
    BY <1>1, <1>2
<1>6. \A v : After(m, v, 0)[t] = Tensor(t)
    BY <1>4 DEF After
<1> QED
    BY <1>4, <1>5, <1>6

(* A node computes its outputs from the values of its operands.             *)
LEMMA ResultValue ==
    ASSUME NEW m \in Models, NEW k \in DOMAIN m.node,
           NEW t, \E o \in DOMAIN m.node[k].output : m.node[k].output[o] = t
    PROVE  \E v : /\ OnnxValues(m)[t] = ResultOf(m.node[k], t, v)
                  /\ \A i \in DOMAIN m.node[k].input :
                        v[m.node[k].input[i]] = OnnxValues(m)[m.node[k].input[i]]
<1> DEFINE n == Len(m.node)
<1>1. m.node \in Seq(OnnxNodes) /\ CheckedModel(m)
    BY ModelTyped
<1>2. n \in Nat /\ k \in 1 .. n
    BY <1>1
<1>3. k \in 0 .. n /\ k - 1 \in 0 .. n /\ k # 0 /\ k \in 1 .. (k + 1) - 1 /\ (k - 1) + 1 = k
    BY <1>2
<1>4. PICK f : /\ \A l \in 0 .. n : f[l] = After(m, f[l - 1], l)
               /\ OnnxValues(m) = f[n]
               /\ \A l \in 0 .. n : \A u \in Defined(m, l + 1) :
                     u \in Defined(m, n + 1) /\ OnnxValues(m)[u] = f[l][u]
    BY DefinedValue
<1>5. t \in Defined(m, k + 1)
    BY <1>3 DEF Defined
<1>6. OnnxValues(m)[t] = f[k][t] /\ t \in Defined(m, n + 1)
    BY <1>3, <1>4, <1>5
<1>7. ASSUME NEW i \in DOMAIN m.node[k].input
      PROVE  f[k - 1][m.node[k].input[i]] = OnnxValues(m)[m.node[k].input[i]]
    <2> DEFINE s == m.node[k].input[i]
    <2>1. s \in Defined(m, k)
        BY <1>1 DEF CheckedModel
    <2>2. s \in Defined(m, (k - 1) + 1)
        BY <1>3, <2>1
    <2> HIDE DEF s
    <2>3. OnnxValues(m)[s] = f[k - 1][s]
        BY <1>3, <1>4, <2>2
    <2> QED
        BY <2>3 DEF s
<1>8. f[k][t] = ResultOf(m.node[k], t, f[k - 1])
    <2>1. f[k] = After(m, f[k - 1], k)
        BY <1>3, <1>4
    <2> DEFINE v == f[k - 1]
    <2> HIDE DEF v
    <2>2. After(m, v, k)[t] = ResultOf(m.node[k], t, v)
        BY <1>3, <1>6 DEF After
    <2> QED
        BY <2>1, <2>2 DEF v
<1> DEFINE v == f[k - 1]
<1>9. OnnxValues(m)[t] = ResultOf(m.node[k], t, v)
    BY <1>6, <1>8
<1>10. \A i \in DOMAIN m.node[k].input :
          v[m.node[k].input[i]] = OnnxValues(m)[m.node[k].input[i]]
    BY <1>7
<1> HIDE DEF v
<1> QED
    BY <1>9, <1>10

LEMMA ReshapedValue ==
    ASSUME NEW m \in Models, NEW k \in DOMAIN m.node, m.node[k].op_type \in Reshaping,
           1 \in DOMAIN m.node[k].input,
           NEW t, \E o \in DOMAIN m.node[k].output : m.node[k].output[o] = t
    PROVE  OnnxValues(m)[t] = OnnxValues(m)[m.node[k].input[1]]
<1>1. PICK v : /\ OnnxValues(m)[t] = ResultOf(m.node[k], t, v)
               /\ v[m.node[k].input[1]] = OnnxValues(m)[m.node[k].input[1]]
    BY ResultValue
<1> QED
    BY <1>1 DEF ResultOf

(* The operands an operator computes with.                                  *)
Operands(n) == IF n.op_type \in Configured THEN 1 .. 1 ELSE DOMAIN n.input

LEMMA ComputedValue ==
    ASSUME NEW m \in Models, NEW k \in DOMAIN m.node, m.node[k].op_type \notin Reshaping,
           1 \in DOMAIN m.node[k].input,
           NEW t, \E o \in DOMAIN m.node[k].output : m.node[k].output[o] = t,
           t = m.node[k].output[1]
    PROVE  LET n == m.node[k]
           IN  OnnxValues(m)[t] =
                  Apply(Function(n.op_type), n.attributes,
                        [i \in Operands(n) |-> OnnxValues(m)[n.input[i]]])
<1> DEFINE n == m.node[k]
<1>1. PICK v : /\ OnnxValues(m)[t] = ResultOf(n, t, v)
               /\ \A i \in DOMAIN n.input : v[n.input[i]] = OnnxValues(m)[n.input[i]]
    BY ResultValue
<1>2. Operands(n) \subseteq DOMAIN n.input
    BY DEF Operands
<1>3. [i \in Operands(n) |-> v[n.input[i]]] = [i \in Operands(n) |-> OnnxValues(m)[n.input[i]]]
    BY <1>1, <1>2
<1>4. ResultOf(n, t, v) = Apply(Function(n.op_type), n.attributes, [i \in Operands(n) |-> v[n.input[i]]])
    BY DEF ResultOf, Operands
<1> QED
    BY <1>1, <1>3, <1>4

-----------------------------------------------------------------------------
(* The names the IR starts with, and the identifiers they become            *)

(* Where IRNames has the name of an input, and of a node that is listed.    *)
LEMMA NamesPlaced ==
    ASSUME model \in Models, level \in Levels
    PROVE  LET c == Cardinality(RealInputs)
               d == Cardinality(Listed)
           IN  /\ c \in Nat /\ d \in Nat /\ 1 .. (c + d) \subseteq DOMAIN IRNames
               /\ \A i \in RealInputs : \E r \in 1 .. c :
                      AtRank(RealInputs, r) = i /\ IRNames[r] = model.input[i]
               /\ \A k \in Listed : \E r \in 1 .. d :
                      /\ AtRank(Listed, r) = k
                      /\ IRNames[c + r] = Frontend!NodeName(model.node[k])
<1> DEFINE name == [k \in DOMAIN model.node |-> Frontend!NodeName(model.node[k])]
           s1 == SubList(model.input, RealInputs)
           s2 == SubList(name, Listed)
           s3 == IF level = 0 THEN <<>> ELSE [o \in DOMAIN model.output |-> Lower(model.output[o])]
           c == Cardinality(RealInputs)
           d == Cardinality(Listed)
<1>1. /\ model.input \in Seq(Name) /\ model.node \in Seq(OnnxNodes)
      /\ model.output \in Seq(Name) /\ CheckedModel(model)
    BY ModelTyped
<1>2. /\ Len(model.input) \in Nat /\ RealInputs \in SUBSET (1 .. Len(model.input))
      /\ Len(model.node) \in Nat /\ Listed \in SUBSET (1 .. Len(model.node))
      /\ DOMAIN model.output = 1 .. Len(model.output) /\ Len(model.output) \in Nat
    BY <1>1 DEF RealInputs, Listed
<1>3. IRNames = s1 \o s2 \o s3
    BY DEF IRNames
<1>4. /\ c \in Nat /\ DOMAIN s1 = 1 .. c
      /\ \A i \in RealInputs : \E r \in 1 .. c : AtRank(RealInputs, r) = i /\ s1[r] = model.input[i]
    <2> DEFINE K == RealInputs
               n == Len(model.input)
    <2>0. n \in Nat /\ K \in SUBSET (1 .. n)
        BY <1>2
    <2> HIDE DEF K, n
    <2>1. /\ Cardinality(K) \in Nat
          /\ DOMAIN SubList(model.input, K) = 1 .. Cardinality(K)
          /\ \A r \in 1 .. Cardinality(K) : SubList(model.input, K)[r] = model.input[AtRank(K, r)]
          /\ \A j \in K : Rank(K, j) \in 1 .. Cardinality(K) /\ AtRank(K, Rank(K, j)) = j
        BY <2>0, Ranks DEF SubList
    <2> QED
        BY <2>1 DEF K
<1>5. /\ d \in Nat /\ DOMAIN s2 = 1 .. d
      /\ \A k \in Listed : \E r \in 1 .. d :
            AtRank(Listed, r) = k /\ s2[r] = Frontend!NodeName(model.node[k])
    <2> DEFINE K == Listed
               n == Len(model.node)
    <2>0. n \in Nat /\ K \in SUBSET (1 .. n)
        BY <1>2
    <2>2. \A k \in K : name[k] = Frontend!NodeName(model.node[k])
        BY DEF Listed
    <2> HIDE DEF name, K, n
    <2>1. /\ Cardinality(K) \in Nat
          /\ DOMAIN SubList(name, K) = 1 .. Cardinality(K)
          /\ \A r \in 1 .. Cardinality(K) : SubList(name, K)[r] = name[AtRank(K, r)]
          /\ \A j \in K : Rank(K, j) \in 1 .. Cardinality(K) /\ AtRank(K, Rank(K, j)) = j
        BY <2>0, Ranks DEF SubList
    <2> QED
        BY <2>1, <2>2 DEF K
<1>6. s1 \in Seq(Name) /\ s2 \in Seq(Name) /\ s3 \in Seq(Name)
    <2>1. \A j \in RealInputs : model.input[j] \in Name
        BY <1>1 DEF RealInputs
    <2>2. s1 \in Seq(Name)
        BY <1>2, <2>1, SubListTyped
    <2>3. ASSUME NEW k \in Listed PROVE name[k] \in Name
        <3>1. k \in DOMAIN model.node /\ model.node[k] \in OnnxNodes
            BY <1>1 DEF Listed
        <3>2. model.node[k].output # <<>>
            BY <1>1, <3>1 DEF CheckedModel
        <3>3. model.node[k].name \in Name /\ model.node[k].output[1] \in Name
            BY <3>1, <3>2 DEF OnnxNodes
        <3> QED
            BY <3>1, <3>3, LowerTyped DEF Frontend!NodeName
    <2>4. s2 \in Seq(Name)
        <3> HIDE DEF name
        <3> QED
            BY <1>2, <2>3, SubListTyped
    <2>5. [o \in 1 .. Len(model.output) |-> Lower(model.output[o])] \in Seq(Name)
        <3>1. \A o \in 1 .. Len(model.output) : Lower(model.output[o]) \in Name
            BY <1>1, <1>2, LowerTyped
        <3> QED
            BY <1>2, <3>1, IsASeq
    <2>6. s3 \in Seq(Name)
        BY <1>2, <2>5
    <2> QED
        BY <2>2, <2>4, <2>6
<1> HIDE DEF s1, s2, s3, name, c, d
<1>7. Len(s1) = c /\ Len(s2) = d
    BY <1>4, <1>5, <1>6, LenProperties
<1> DEFINE s12 == s1 \o s2
<1>8. /\ s12 \in Seq(Name) /\ Len(s12) = c + d
      /\ \A r \in 1 .. c : s12[r] = s1[r]
      /\ \A r \in 1 .. d : s12[c + r] = s2[r]
    <2>1. /\ s12 \in Seq(Name) /\ Len(s12) = Len(s1) + Len(s2)
          /\ \A r \in 1 .. Len(s1) : s12[r] = s1[r]
          /\ \A r \in 1 .. Len(s2) : s12[Len(s1) + r] = s2[r]
        BY <1>6, Joined
    <2> QED
        BY <1>7, <2>1
<1> HIDE DEF s12
<1>9. IRNames \in Seq(Name) /\ Len(IRNames) = c + d + Len(s3) /\ \A r \in 1 .. c + d : IRNames[r] = s12[r]
    <2>1. IRNames = s12 \o s3
        BY <1>3 DEF s12
    <2>2. /\ IRNames \in Seq(Name) /\ Len(IRNames) = Len(s12) + Len(s3)
          /\ \A r \in 1 .. Len(s12) : IRNames[r] = s12[r]
        <3>1. s12 \in Seq(Name) /\ s3 \in Seq(Name)
            BY <1>6, <1>8
        <3> QED
            BY <2>1, <3>1, Joined
    <2> QED
        BY <1>8, <2>2
<1>10. 1 .. (c + d) \subseteq DOMAIN IRNames
    <2>1. Len(s3) \in Nat /\ DOMAIN IRNames = 1 .. (c + d + Len(s3))
        BY <1>6, <1>9, LenProperties
    <2> QED
        BY <1>4, <1>5, <2>1
<1>11. \A r \in 1 .. c : IRNames[r] = s1[r]
    <2> TAKE r \in 1 .. c
    <2>1. r \in 1 .. c + d
        BY <1>4, <1>5
    <2> QED
        BY <1>8, <1>9, <2>1
<1>12. \A r \in 1 .. d : IRNames[c + r] = s2[r]
    <2> TAKE r \in 1 .. d
    <2>1. c + r \in 1 .. c + d
        BY <1>4, <1>5
    <2> QED
        BY <1>8, <1>9, <2>1
<1> QED
    BY <1>4, <1>5, <1>10, <1>11, <1>12 DEF c, d

(* Of a supported model the identifiers are apart, too, and with -O1 none   *)
(* is another one with a word added.                                        *)
LEMMA SanitizedClear ==
    ASSUME SupportedModel, model \in Models, level \in Levels
    PROVE  /\ \A i, l \in RealInputs :
                 Backend!SanitizeVariableName(model.input[i])
                   = Backend!SanitizeVariableName(model.input[l]) => i = l
           /\ \A i \in RealInputs : \A k \in Listed :
                 Backend!SanitizeVariableName(model.input[i])
                   # Backend!SanitizeVariableName(Frontend!NodeName(model.node[k]))
           /\ \A k, l \in Listed :
                 Backend!SanitizeVariableName(Frontend!NodeName(model.node[k]))
                   = Backend!SanitizeVariableName(Frontend!NodeName(model.node[l])) => k = l
           /\ level > 0 => \A a, b \in InputNames \cup NodeNames : \A w \in Word :
                 Backend!SanitizeVariableName(a) # Append(Backend!SanitizeVariableName(b), w)
<1> DEFINE San(a) == Backend!SanitizeVariableName(a)
           c == Cardinality(RealInputs)
           d == Cardinality(Listed)
           node(k) == Frontend!NodeName(model.node[k])
           sanitized == [k \in DOMAIN IRNames |-> San(IRNames[k])]
<1>1. /\ c \in Nat /\ d \in Nat /\ 1 .. (c + d) \subseteq DOMAIN IRNames
      /\ \A i \in RealInputs : \E r \in 1 .. c :
             AtRank(RealInputs, r) = i /\ IRNames[r] = model.input[i]
      /\ \A k \in Listed : \E r \in 1 .. d :
             AtRank(Listed, r) = k /\ IRNames[c + r] = node(k)
    BY NamesPlaced
<1>2. Distinct(sanitized) /\ (level > 0 => Unextended(sanitized))
    BY DEF SupportedModel, ClearNames
<1> DEFINE dom == DOMAIN IRNames
<1>3. /\ \A r, t \in dom : San(IRNames[r]) = San(IRNames[t]) => r = t
      /\ level > 0 => \A r, t \in dom : \A w \in Word : San(IRNames[r]) # Append(San(IRNames[t]), w)
    <2> HIDE DEF San
    <2>1. DOMAIN sanitized = dom /\ \A r \in dom : sanitized[r] = San(IRNames[r])
        OBVIOUS
    <2> HIDE DEF sanitized, dom
    <2> QED
        BY <1>2, <2>1 DEF Distinct, Unextended
<1> HIDE DEF San, node, c, d, sanitized, dom
<1>4. \A i \in RealInputs : \E r \in 1 .. c :
         r \in dom /\ AtRank(RealInputs, r) = i /\ San(IRNames[r]) = San(model.input[i])
    <2> TAKE i \in RealInputs
    <2>1. PICK r \in 1 .. c : AtRank(RealInputs, r) = i /\ IRNames[r] = model.input[i]
        BY <1>1
    <2>2. r \in 1 .. c + d
        BY <1>1
    <2> QED
        BY <1>1, <2>1, <2>2 DEF dom
<1>5. \A k \in Listed : \E r \in 1 .. d :
         c + r \in dom /\ AtRank(Listed, r) = k /\ San(IRNames[c + r]) = San(node(k))
    <2> TAKE k \in Listed
    <2>1. PICK r \in 1 .. d : AtRank(Listed, r) = k /\ IRNames[c + r] = node(k)
        BY <1>1
    <2>2. c + r \in 1 .. c + d
        BY <1>1
    <2> QED
        BY <1>1, <2>1, <2>2 DEF dom
<1>6. ASSUME NEW i \in RealInputs, NEW l \in RealInputs, San(model.input[i]) = San(model.input[l])
      PROVE  i = l
    BY <1>3, <1>4, <1>6
<1>7. ASSUME NEW i \in RealInputs, NEW k \in Listed PROVE San(model.input[i]) # San(node(k))
    <2>1. PICK r \in 1 .. c : r \in dom /\ San(IRNames[r]) = San(model.input[i])
        BY <1>4
    <2>2. PICK t \in 1 .. d : c + t \in dom /\ San(IRNames[c + t]) = San(node(k))
        BY <1>5
    <2>3. r # c + t
        BY <1>1, <2>1, <2>2
    <2> QED
        BY <1>3, <2>1, <2>2, <2>3
<1>8. ASSUME NEW k \in Listed, NEW l \in Listed, San(node(k)) = San(node(l)) PROVE k = l
    <2>1. PICK r \in 1 .. d : c + r \in dom /\ AtRank(Listed, r) = k /\ San(IRNames[c + r]) = San(node(k))
        BY <1>5
    <2>2. PICK t \in 1 .. d : c + t \in dom /\ AtRank(Listed, t) = l /\ San(IRNames[c + t]) = San(node(l))
        BY <1>5
    <2>3. c + r = c + t
        BY <1>3, <1>8, <2>1, <2>2
    <2>4. r = t
        BY <1>1, <2>3
    <2> QED
        BY <2>1, <2>2, <2>4
<1>9. \A a \in InputNames \cup NodeNames : \E r \in dom : San(IRNames[r]) = San(a)
    <2>1. \A i \in RealInputs : \E r \in dom : San(IRNames[r]) = San(model.input[i])
        BY <1>4
    <2>2. \A k \in Listed : \E r \in dom : San(IRNames[r]) = San(node(k))
        BY <1>5
    <2> QED
        BY <2>1, <2>2 DEF InputNames, NodeNames, node
<1>10. ASSUME level > 0, NEW a \in InputNames \cup NodeNames, NEW b \in InputNames \cup NodeNames,
              NEW w \in Word
       PROVE  San(a) # Append(San(b), w)
    BY <1>3, <1>9, <1>10
<1> QED
    BY <1>6, <1>7, <1>8, <1>10 DEF San, node

-----------------------------------------------------------------------------
(* What the front end lists                                                 *)

(* What becomes a kernel, an element-wise kernel, a transform.              *)
LEMMA ConvertedKernels ==
    ASSUME NEW t \in DOMAIN Frontend!Converted
    PROVE  /\ t \notin {"BatchNormalization", "LayerNormalization", "Identity"} =>
                Frontend!Converted[t] \in KernelOps \cup TransformOps
           /\ Frontend!Converted[t] \in ElementWiseOps <=> t \in ElementWiseOps
           /\ Frontend!Converted[t] = "Add" => t = "Add"
           /\ Frontend!Converted[t] \in TransformOps => t \in {"Flatten", "Reshape"}
           /\ Frontend!Converted[t] \in KernelOps => t # "Reshape"
    BY KernelOpsAre DEF Frontend!Converted, TransformOps, ElementWiseOps

LEMMA ConvertedParameters ==
    ASSUME NEW n
    PROVE  /\ Frontend!Convert(n).weight \in {None} \cup model.initializer
           /\ Frontend!Convert(n).bias \in {None} \cup model.initializer
<1>1. \A i : Frontend!Initializer(n, i) \in {None} \cup model.initializer
    BY DEF Frontend!Initializer
<1>2. \/ Frontend!Convert(n) =
           [type |-> Frontend!Converted[n.op_type], activation |-> None, index |-> 0,
            weight |-> Frontend!Initializer(n, 2), bias |-> Frontend!Initializer(n, 3)]
      \/ Frontend!Convert(n) =
           [type |-> Frontend!Converted[n.op_type], activation |-> None, index |-> 0,
            weight |-> None, bias |-> None]
    BY DEF Frontend!Convert, Frontend!Op
<1> QED
    BY <1>1, <1>2

(* The nodes of inputs and outputs have no parameters; outputs are numbered.*)
LEMMA IOParameters ==
    /\ \A i : Frontend!InputNode(i).op.weight = None /\ Frontend!InputNode(i).op.bias = None
    /\ \A o : /\ Frontend!OutputNode(o).op.weight = None /\ Frontend!OutputNode(o).op.bias = None
              /\ Frontend!OutputNode(o).op.index = o - 1
<1>1. \A i : Frontend!InputNode(i) =
         [name |-> Frontend!Lower(model.input[i]), inputs |-> <<>>,
          op |-> [type |-> "Input", activation |-> None, index |-> i - 1,
                  weight |-> None, bias |-> None]]
    BY DEF Frontend!InputNode, Frontend!Node, Frontend!Op
<1>2. \A o : Frontend!OutputNode(o) =
         [name |-> Frontend!Lower(model.output[o]),
          inputs |-> <<Frontend!ResolveInputName(model.output[o])>>,
          op |-> [type |-> "Output", activation |-> None, index |-> o - 1,
                  weight |-> None, bias |-> None]]
    BY DEF Frontend!OutputNode, Frontend!Node, Frontend!Op
<1> QED
    BY <1>1, <1>2

(* A known first operand is the first input.                                *)
LEMMA ResolvedFirst ==
    ASSUME NEW n \in OnnxNodes, NEW map, \A t \in DOMAIN map : map[t] \in Name,
           1 \in DOMAIN n.input, n.input[1] \in DOMAIN map
    PROVE  /\ 1 \in DOMAIN Frontend!ResolvedInputs(n, map)
           /\ Frontend!ResolvedInputs(n, map)[1] = map[n.input[1]]
<1> DEFINE K == {i \in DOMAIN n.input : n.input[i] \in DOMAIN map}
           s == [i \in DOMAIN n.input |-> map[n.input[i]]]
<1>1. Frontend!ResolvedInputs(n, map) = SubList(s, K)
    BY FrontendSubList DEF Frontend!ResolvedInputs
<1>2. Len(n.input) \in Nat /\ K \in SUBSET (1 .. Len(n.input)) /\ 1 \in K /\ s[1] = map[n.input[1]]
    BY DEF OnnxNodes
<1> DEFINE len == Len(n.input)
<1> HIDE DEF K, s, len
<1>3. /\ Cardinality(K) \in Nat
      /\ \A r \in 1 .. Cardinality(K) : AtRank(K, r) \in K
      /\ \A r, t \in 1 .. Cardinality(K) : AtRank(K, r) < AtRank(K, t) => r < t
      /\ \A j \in K : Rank(K, j) \in 1 .. Cardinality(K) /\ AtRank(K, Rank(K, j)) = j
    <2>1. len \in Nat /\ K \in SUBSET (1 .. len)
        BY <1>2 DEF len
    <2> QED
        BY <2>1, Ranks
<1>4. 1 \in 1 .. Cardinality(K) /\ AtRank(K, 1) = 1
    <2>1. PICK r \in 1 .. Cardinality(K) : AtRank(K, r) = 1
        BY <1>2, <1>3
    <2>2. 1 \in 1 .. Cardinality(K)
        BY <1>3
    <2>3. ~ AtRank(K, r) < AtRank(K, 1)
        BY <1>3, <2>1, <2>2
    <2>4. AtRank(K, 1) \in Nat \ {0}
        <3>1. K \subseteq Nat \ {0}
            BY <1>2
        <3>2. AtRank(K, 1) \in K
            BY <1>3, <2>2
        <3> QED
            BY <3>1, <3>2
    <2> QED
        BY <2>1, <2>2, <2>3, <2>4
<1>5. SubList(s, K) = [r \in 1 .. Cardinality(K) |-> s[AtRank(K, r)]]
    BY DEF SubList
<1>6. 1 \in DOMAIN SubList(s, K) /\ SubList(s, K)[1] = s[1]
    BY <1>4, <1>5
<1> QED
    BY <1>1, <1>2, <1>6

(* Results of a structural operator go by the name of a known first operand.*)
LEMMA PassThroughFirst ==
    ASSUME Typed, Frontend!PassThrough, Frontend!Current.op_type # "CustomOperator",
           1 \in Frontend!KnownOperands(Frontend!Current)
    PROVE  LET n == Frontend!Current
           IN  \A t \in DOMAIN value_map' : value_map'[t] =
                 IF t \in Frontend!Outputs(n) THEN value_map[n.input[1]] ELSE value_map[t]
<1> DEFINE n == Frontend!Current
           known == Frontend!KnownOperands(n)
           first == CHOOSE i \in known : \A k \in known : i <= k
<1>1. /\ Frontend!Traversing
      /\ value_map' = IF n.op_type = "CustomOperator" \/ known = {} THEN value_map
                      ELSE Frontend!Mapped(n, value_map[n.input[first]])
    BY DEF Frontend!PassThrough, Frontend!Traversing
<1>2. n \in OnnxNodes
    BY <1>1, CurrentTyped
<1>3. n.op_type # "CustomOperator" /\ 1 \in known
    OBVIOUS
<1> HIDE DEF n
<1>4. known \subseteq Nat \ {0}
    BY <1>2 DEF Frontend!KnownOperands, OnnxNodes
<1>5. first = 1
    <2>1. first \in known /\ \A k \in known : first <= k
        <3>1. \A k \in known : 1 <= k
            BY <1>4
        <3> HIDE DEF known
        <3> QED
            BY <1>3, <3>1
    <2> HIDE DEF first, known
    <2> QED
        BY <1>3, <1>4, <2>1
<1> HIDE DEF first, known
<1>6. value_map' = Frontend!Mapped(n, value_map[n.input[1]])
    BY <1>1, <1>3, <1>5
<1>7. \A t \in DOMAIN value_map' : value_map'[t] =
         IF t \in Frontend!Outputs(n) THEN value_map[n.input[1]] ELSE value_map[t]
    <2>1. /\ DOMAIN value_map' = DOMAIN value_map \cup Frontend!Outputs(n)
          /\ \A t \in DOMAIN value_map \cup Frontend!Outputs(n) : value_map'[t] =
                IF t \in Frontend!Outputs(n) THEN value_map[n.input[1]] ELSE value_map[t]
        BY <1>6, MappedEffect
    <2> QED
        BY <2>1
<1> QED
    BY <1>7 DEF n

(* What the walk knows of the data that the node it is at reads.            *)
LEMMA OperandsKnown ==
    ASSUME Typed, SupportedModel, Walked, Frontend!Traversing
    PROVE  LET n == Frontend!Current
           IN  /\ position \in DOMAIN model.node /\ n = model.node[position]
               /\ 1 \in DOMAIN n.input
               /\ n.op_type \notin ShapeOps =>
                    n.input[1] \in DOMAIN value_map /\ n.input[1] \notin ShapeTensors
               /\ n.op_type \in ElementWiseOps =>
                    /\ DOMAIN n.input = 1 .. 2
                    /\ \A i \in 1 .. 2 : n.input[i] \in DOMAIN value_map
<1> DEFINE n == Frontend!Current
<1>1. /\ position \in DOMAIN model.node /\ n = model.node[position] /\ n \in OnnxNodes
      /\ model \in Models /\ CheckedModel(model)
    BY CurrentTyped, ModelTyped DEF Typed
<1>2. \A i \in DOMAIN n.input : n.input[i] \in Defined(model, position)
    BY DefinedGrows
<1>3. 1 \in DOMAIN n.input
    BY <1>1, SupportedOperands
<1>4. \A i \in DOMAIN n.input : IsData(n, i) =>
        /\ n.input[i] \notin model.initializer
        /\ n.op_type \notin ShapeOps => n.input[i] \notin ShapeTensors
    BY <1>1 DEF SupportedModel, OperandsFlow
<1>5. n.op_type \in ElementWiseOps => Len(n.input) = 2
    BY <1>1 DEF CheckedModel
<1> HIDE DEF n
<1>6. \A t \in Defined(model, position) :
         t \in model.initializer \cup ShapeTensors \cup DOMAIN value_map
    BY DEF Walked, NothingForgotten
<1>7. \A i \in DOMAIN n.input : IsData(n, i) /\ n.op_type \notin ShapeOps =>
         n.input[i] \in DOMAIN value_map /\ n.input[i] \notin ShapeTensors
    BY <1>2, <1>4, <1>6
<1>8. n.op_type \in ElementWiseOps => DOMAIN n.input = 1 .. 2 /\ n.op_type \notin ShapeOps
    <2>1. n.input \in Seq(Name)
        BY <1>1 DEF OnnxNodes
    <2> QED
        BY <1>5, <2>1 DEF ShapeOps, Frontend!PassThroughOps, ElementWiseOps
<1>9. IsData(n, 1) /\ (n.op_type \in ElementWiseOps => \A i : IsData(n, i))
    BY DEF IsData
<1> QED
    BY <1>1, <1>3, <1>7, <1>8, <1>9 DEF n

(* The node that is listed for it.                                          *)
LEMMA ListedNode ==
    ASSUME Typed, SupportedModel, Walked, Frontend!ParseNode
    PROVE  LET n == Frontend!Current
               new == nodes'[Len(nodes) + 1]
           IN  /\ position \in Listed /\ n = model.node[position]
               /\ n.op_type \in DOMAIN Frontend!Converted /\ n.op_type \notin ShapeOps
               /\ n.input[1] \in DOMAIN value_map /\ n.input[1] \notin ShapeTensors
               /\ 1 \in DOMAIN n.input
               /\ new.op.type = Frontend!Converted[n.op_type]
               /\ new.op.type \in KernelOps \cup TransformOps
               /\ new.op.type \in KernelOps =>
                    Len(new.inputs) = IF new.op.type \in ElementWiseOps THEN 2 ELSE 1
               /\ 1 \in DOMAIN new.inputs /\ new.inputs[1] = value_map[n.input[1]]
               /\ new.op.activation = None
               /\ new.op.weight \in {None} \cup model.initializer
               /\ new.op.bias \in {None} \cup model.initializer
<1> DEFINE n == Frontend!Current
           new == nodes'[Len(nodes) + 1]
           K == {i \in DOMAIN n.input : n.input[i] \in DOMAIN value_map'}
<1>1. /\ n.op_type \in DOMAIN Frontend!Converted
      /\ DOMAIN value_map' = DOMAIN value_map \cup Frontend!Outputs(n)
      /\ \A t \in DOMAIN value_map' : value_map'[t] =
            IF t \in Frontend!Outputs(n) THEN Frontend!NodeName(n) ELSE value_map[t]
      /\ \A t \in DOMAIN value_map' : value_map'[t] \in Name
      /\ new.op.type = Frontend!Converted[n.op_type]
      /\ new.op.activation = None
      /\ new.inputs = Frontend!ResolvedInputs(n, value_map')
    BY ParseNodeEffect
<1>2. Frontend!Traversing
    BY DEF Frontend!ParseNode
<1>3. /\ position \in DOMAIN model.node /\ n = model.node[position] /\ n \in OnnxNodes
      /\ model \in Models /\ nodes \in Seq(Nodes)
    BY <1>2, CurrentTyped DEF Typed
<1>4. /\ \A i \in DOMAIN n.input : n.input[i] \in Defined(model, position)
      /\ \A t \in Frontend!Outputs(n) : t \notin Defined(model, position)
    BY <1>2, DefinedGrows
<1>5. n.op_type \notin Frontend!NoNodeOps /\ n.op_type \notin ShapeOps
    BY <1>1, ConvertedTypes DEF ShapeOps, Frontend!NoNodeOps
<1>6. position \in Listed
    BY <1>3, <1>5 DEF Listed, NodesOf
<1>7. /\ 1 \in DOMAIN n.input
      /\ n.input[1] \in DOMAIN value_map /\ n.input[1] \notin ShapeTensors
      /\ n.op_type \in ElementWiseOps =>
           DOMAIN n.input = 1 .. 2 /\ \A i \in 1 .. 2 : n.input[i] \in DOMAIN value_map
    BY <1>2, <1>5, OperandsKnown
<1>8. n.op_type \notin ElementWiseOps /\ n.op_type # "Reshape" =>
          \A i \in DOMAIN n.input : i # 1 => n.input[i] \in model.initializer
    BY <1>3, <1>5, SupportedOperands
<1>9. n.op_type \notin {"CustomOperator", "BatchNormalization", "LayerNormalization", "Identity"}
    BY <1>3, SupportedNodes
<1>10. new.op = Frontend!Convert(n)
    <2> DEFINE node == [name |-> Frontend!NodeName(n), op |-> Frontend!Convert(n),
                        inputs |-> Frontend!ResolvedInputs(n, value_map')]
    <2>1. nodes' = Append(nodes, node)
        BY DEF Frontend!ParseNode, Frontend!Node
    <2>2. node.op = Frontend!Convert(n)
        OBVIOUS
    <2> HIDE DEF node, n
    <2>3. nodes'[Len(nodes) + 1] = node
        BY <1>3, <2>1
    <2> QED
        BY <2>2, <2>3
<1>11. /\ new.op.weight \in {None} \cup model.initializer
       /\ new.op.bias \in {None} \cup model.initializer
    <2> HIDE DEF n, new
    <2> QED
        BY <1>10, ConvertedParameters
<1> HIDE DEF n, new
<1>12. 1 \in DOMAIN new.inputs /\ new.inputs[1] = value_map[n.input[1]]
    <2>1. n.input[1] \in DOMAIN value_map' /\ value_map'[n.input[1]] = value_map[n.input[1]]
        BY <1>1, <1>4, <1>7
    <2>2. /\ 1 \in DOMAIN Frontend!ResolvedInputs(n, value_map')
          /\ Frontend!ResolvedInputs(n, value_map')[1] = value_map'[n.input[1]]
        BY <1>1, <1>3, <1>7, <2>1, ResolvedFirst
    <2> QED
        BY <1>1, <2>1, <2>2
<1>13. Len(new.inputs) = Cardinality(K)
    <2> DEFINE resolved == Frontend!ResolvedInputs(n, value_map')
    <2>1. Len(resolved) = Cardinality(K)
        BY <1>1, <1>3, ResolvedTyped
    <2> HIDE DEF K, resolved
    <2>2. new.inputs = resolved
        BY <1>1 DEF resolved
    <2> QED
        BY <2>1, <2>2
<1>14. ASSUME new.op.type \in KernelOps
       PROVE  Len(new.inputs) = IF new.op.type \in ElementWiseOps THEN 2 ELSE 1
    <2>1. n.op_type # "Reshape" /\ (new.op.type \in ElementWiseOps <=> n.op_type \in ElementWiseOps)
        BY <1>1, <1>14, ConvertedKernels
    <2>2. CASE n.op_type \in ElementWiseOps
        <3>1. K = 1 .. 2
            BY <1>1, <1>7, <2>2
        <3>2. Cardinality(1 .. 2) = 2
            <4>1. 1 .. 2 = {1} \cup {2}
                OBVIOUS
            <4>2. IsFiniteSet({1}) /\ Cardinality({1}) = 1
                BY FS_Singleton
            <4>3. Cardinality({1} \cup {2}) = Cardinality({1}) + 1
                BY <4>2, FS_AddElement
            <4> QED
                BY <4>1, <4>2, <4>3
        <3> QED
            BY <1>13, <2>1, <2>2, <3>1, <3>2
    <2>3. CASE n.op_type \notin ElementWiseOps
        <3>1. 1 \in K
            BY <1>1, <1>7
        <3>2. ASSUME NEW i \in DOMAIN n.input, i # 1 PROVE i \notin K
            <4>1. n.input[i] \in model.initializer
                BY <1>8, <2>1, <2>3, <3>2
            <4>2. n.input[i] \notin DOMAIN value_map
                BY <4>1 DEF Walked, MapsToNodes
            <4>3. n.input[i] \notin Frontend!Outputs(n)
                BY <1>4
            <4> QED
                BY <1>1, <4>2, <4>3
        <3>3. K = {1}
            BY <3>1, <3>2
        <3> QED
            BY <1>13, <2>1, <2>3, <3>3, FS_Singleton
    <2> QED
        BY <2>2, <2>3
<1>15. new.op.type \in KernelOps \cup TransformOps
    BY <1>1, <1>9, ConvertedKernels
<1> QED
    BY <1>1, <1>3, <1>5, <1>6, <1>7, <1>11, <1>12, <1>14, <1>15 DEF n, new

-----------------------------------------------------------------------------
(* The walk of the front end, once more                                     *)

LEMMA ListedStandAlone ==
    SupportedModel /\ model \in Models /\ ListedSoFar => AdditionsStandAlone
<1> SUFFICES ASSUME SupportedModel, model \in Models, ListedSoFar, level > 0,
                    NEW i \in DOMAIN nodes, NEW j \in DOMAIN nodes, nodes[i].op.type = "Add"
             PROVE  nodes[j].op.type \notin ActivationOps
    BY DEF AdditionsStandAlone
<1>1. \A h \in DOMAIN nodes :
        \/ nodes[h].op.type = "Input"
        \/ \E k \in Listed : nodes[h].op.type = Frontend!Converted[model.node[k].op_type]
    BY DEF ListedSoFar
<1>2. \A k \in Listed : k \in DOMAIN model.node /\ model.node[k].op_type \in DOMAIN Frontend!Converted
    <2> TAKE k \in Listed
    <2>1. k \in DOMAIN model.node /\ model.node[k].op_type \notin Frontend!NoNodeOps
        BY DEF Listed, NodesOf
    <2>2. model.node[k].op_type \in DOMAIN Frontend!Converted \cup Frontend!PassThroughOps
        BY <2>1, SupportedNodes
    <2> QED
        BY <2>1, <2>2 DEF Frontend!NoNodeOps
<1>3. PICK k \in Listed : Frontend!Converted[model.node[k].op_type] = "Add"
    BY <1>1
<1>4. k \in NodesOf({"Add"})
    <2>1. model.node[k].op_type = "Add"
        BY <1>2, <1>3, ConvertedKernels
    <2> QED
        BY <1>2, <2>1 DEF NodesOf
<1>5. \A l \in Listed : Frontend!Converted[model.node[l].op_type] \notin ActivationOps
    BY <1>4 DEF SupportedModel, KernelsExist
<1>6. "Input" \notin ActivationOps
    BY DEF ActivationOps
<1> QED
    BY <1>1, <1>5, <1>6

(* A tensor that must have been computed: its value is read from a buffer.  *)
Computed(t) == t \notin ShapeTensors /\ OnnxValues(model)[t][1] # "tensor"

LEMMA ComputedSame ==
    ASSUME model' = model, NEW t
    PROVE  (Computed(t))' <=> Computed(t)
    BY ModelSame DEF Computed

LEMMA InputsListed ==
    ASSUME Typed, SupportedModel, Frontend!MapInputs, level' = level
    PROVE  WellOperated' /\ IdentifiersApart' /\ ListedSoFar' /\ ValuesGrounded'
<1> DEFINE K == RealInputs
           c == Cardinality(K)
           n == Len(model.input)
<1>1. /\ model \in Models /\ model.input \in Seq(Name) /\ level \in Levels
    BY ModelTyped DEF Typed
<1>2. /\ position' = 1 /\ model' = model /\ phase' = "traverse"
      /\ nodes' = SubList(ListedInputs, K)
      /\ DOMAIN value_map' = {model.input[i] : i \in K}
      /\ \A t \in DOMAIN value_map' : value_map'[t] = t
    BY MapInputsEffect
<1>3. n \in Nat /\ K \in SUBSET (1 .. n) /\ DOMAIN model.input = 1 .. n
    BY <1>1 DEF RealInputs
<1>4. \A i \in K : /\ ListedInputs[i].name = model.input[i]
                   /\ ListedInputs[i].op.type = "Input"
                   /\ ListedInputs[i].op.activation = None
                   /\ ListedInputs[i].op.weight = None
                   /\ ListedInputs[i].op.bias = None
    BY <1>1, InputNodeTyped, IOParameters
        DEF RealInputs, ListedInputs, SupportedModel, LowerCaseInputs
<1>5. \A i, l \in K : Backend!SanitizeVariableName(model.input[i])
                        = Backend!SanitizeVariableName(model.input[l]) => i = l
    BY <1>1, SanitizedClear
<1> HIDE DEF K, n
<1>7. /\ c \in Nat
      /\ \A r \in 1 .. c : AtRank(K, r) \in K
      /\ \A r, t \in 1 .. c : AtRank(K, r) = AtRank(K, t) => r = t
    BY <1>3, Ranks
<1>8. DOMAIN nodes' = 1 .. c /\ \A r \in 1 .. c : nodes'[r] = ListedInputs[AtRank(K, r)]
    BY <1>2 DEF SubList
<1> HIDE DEF c
<1>9. \A r \in 1 .. c : /\ nodes'[r].name = model.input[AtRank(K, r)]
                        /\ nodes'[r].op.type = "Input"
                        /\ nodes'[r].op.activation = None
                        /\ nodes'[r].op.weight = None
                        /\ nodes'[r].op.bias = None
    BY <1>4, <1>7, <1>8
<1>10. WellOperated'
    <2>1. "Input" \in IOOps /\ "Input" \notin KernelOps
        BY KernelOpsAre DEF IOOps
    <2> HIDE <1>2
    <2> QED
        BY <1>8, <1>9, <2>1 DEF WellOperated
<1>11. IdentifiersApart'
    <2> SUFFICES ASSUME NEW r \in 1 .. c, NEW q \in 1 .. c, (Sanitized(r))' = (Sanitized(q))'
                 PROVE  r = q
        BY <1>8 DEF IdentifiersApart, Body
    <2>1. (Sanitized(r))' = Backend!SanitizeVariableName(nodes'[r].name)
        BY DEF Sanitized, Backend!SanitizeVariableName
    <2>2. (Sanitized(q))' = Backend!SanitizeVariableName(nodes'[q].name)
        BY DEF Sanitized, Backend!SanitizeVariableName
    <2>3. Backend!SanitizeVariableName(model.input[AtRank(K, r)])
            = Backend!SanitizeVariableName(model.input[AtRank(K, q)])
        BY <1>9, <2>1, <2>2
    <2>4. AtRank(K, r) = AtRank(K, q)
        BY <1>5, <1>7, <2>3
    <2> QED
        BY <1>7, <2>4
<1>12. ListedSoFar'
    <2>1. \A j \in DOMAIN nodes' : nodes'[j].op.type = "Input"
        BY <1>8, <1>9
    <2>2. Backend!Outputs' = {}
        BY <2>1 DEF Backend!Outputs
    <2>3. ASSUME c > 1 PROVE \E i, j \in Backend!Inputs' : i # j
        <3>1. 1 \in DOMAIN nodes' /\ 2 \in DOMAIN nodes'
            BY <1>7, <1>8, <2>3
        <3>2. 1 \in Backend!Inputs' /\ 2 \in Backend!Inputs'
            BY <2>1, <3>1 DEF Backend!Inputs
        <3> QED
            BY <3>2
    <2>4. (Cardinality(RealInputs) > 1 => \E i, j \in Backend!Inputs : i # j)'
        BY <1>2, <2>3, ModelSame DEF c, K
    <2> QED
        BY <2>1, <2>2, <2>4 DEF ListedSoFar
<1>13. ValuesGrounded'
    <2>1. \A t \in DOMAIN value_map' : ~ Computed(t)
        <3> TAKE t \in DOMAIN value_map'
        <3>1. \E i \in DOMAIN model.input : model.input[i] = t
            BY <1>2, <1>3
        <3>2. OnnxValues(model)[t] = Tensor(t)
            BY <1>1, <3>1, InputValue
        <3> QED
            BY <3>2 DEF Computed, Tensor
    <2>2. {} \in SUBSET Transforms' /\ (Grounds({}))'
        BY DEF Grounds
    <2>3. \A t \in DOMAIN value_map' : ~ (Computed(t))'
        BY <1>2, <2>1, ComputedSame
    <2> QED
        BY <2>2, <2>3 DEF ValuesGrounded, Computed
<1> QED
    BY <1>10, <1>11, <1>12, <1>13

LEMMA NodeListed ==
    ASSUME Typed, SupportedModel, Walked, Frontend!ParseNode, level' = level,
           WellOperated, IdentifiersApart, ListedSoFar, ValuesGrounded
    PROVE  WellOperated' /\ IdentifiersApart' /\ ListedSoFar' /\ ValuesGrounded'
<1> DEFINE n == Frontend!Current
           len == Len(nodes)
           e == len + 1
           new == nodes'[len + 1]
<1>1. /\ phase = "traverse" /\ phase' = phase /\ model' = model /\ position' = position + 1
      /\ DOMAIN value_map' = DOMAIN value_map \cup Frontend!Outputs(n)
      /\ \A t \in DOMAIN value_map' : value_map'[t] =
            IF t \in Frontend!Outputs(n) THEN Frontend!NodeName(n) ELSE value_map[t]
      /\ nodes' = Append(nodes, new) /\ nodes' \in Seq(Nodes)
      /\ new.name = Frontend!NodeName(n)
    BY ParseNodeEffect
<1>2. /\ position \in Listed /\ n = model.node[position]
      /\ n.op_type \in DOMAIN Frontend!Converted /\ n.op_type \notin ShapeOps
      /\ n.input[1] \in DOMAIN value_map /\ n.input[1] \notin ShapeTensors
      /\ 1 \in DOMAIN n.input
      /\ new.op.type = Frontend!Converted[n.op_type]
      /\ new.op.type \in KernelOps \cup TransformOps
      /\ new.op.type \in KernelOps =>
           Len(new.inputs) = IF new.op.type \in ElementWiseOps THEN 2 ELSE 1
      /\ 1 \in DOMAIN new.inputs /\ new.inputs[1] = value_map[n.input[1]]
      /\ new.op.activation = None
      /\ new.op.weight \in {None} \cup model.initializer
      /\ new.op.bias \in {None} \cup model.initializer
    BY ListedNode
<1>3. /\ model \in Models /\ level \in Levels /\ nodes \in Seq(Nodes) /\ position \in Nat
    BY DEF Typed
<1> HIDE DEF n
<1>4. /\ len \in Nat /\ DOMAIN nodes = 1 .. len /\ DOMAIN nodes' = 1 .. (len + 1)
      /\ \A j \in 1 .. len : nodes'[j] = nodes[j]
    <2> HIDE DEF new
    <2>1. /\ DOMAIN Append(nodes, new) = 1 .. (len + 1) /\ DOMAIN nodes = 1 .. len
          /\ len \in Nat /\ \A j \in 1 .. len : Append(nodes, new)[j] = nodes[j]
        BY <1>3
    <2> QED
        BY <1>1, <2>1
<1>5. new = nodes'[e] /\ e \in DOMAIN nodes' /\ e \notin DOMAIN nodes
    BY <1>4
<1>6. /\ \A j \in DOMAIN nodes' : j = e \/ (j \in DOMAIN nodes /\ nodes'[j] = nodes[j])
      /\ \A j \in DOMAIN nodes : j \in DOMAIN nodes' /\ nodes'[j] = nodes[j]
    BY <1>4
<1> HIDE DEF len, new, e
<1>7. new.op.type \notin IOOps
    BY <1>2, KernelOpsAre DEF IOOps, TransformOps
<1>8. WellOperated'
    <2>1. \A j \in DOMAIN nodes' :
            /\ nodes'[j].op.type \in IOOps \cup TransformOps \cup KernelOps
            /\ nodes'[j].op.type \in KernelOps =>
                 Len(nodes'[j].inputs) = IF nodes'[j].op.type \in ElementWiseOps THEN 2 ELSE 1
            /\ nodes'[j].op.type # "Input" => 1 \in DOMAIN nodes'[j].inputs
            /\ \/ nodes'[j].op.activation = None
               \/ /\ nodes'[j].op.type \in {"Linear", "Conv2d"}
                  /\ nodes'[j].op.activation \in KernelOps
            /\ nodes'[j].op.weight \in {None} \cup model.initializer
            /\ nodes'[j].op.bias \in {None} \cup model.initializer
        <3> TAKE j \in DOMAIN nodes'
        <3>1. CASE j = e
            BY <1>2, <1>5, <3>1
        <3>2. CASE j \in DOMAIN nodes /\ nodes'[j] = nodes[j]
            BY <3>2 DEF WellOperated
        <3> QED
            BY <1>6, <3>1, <3>2
    <2> QED
        BY <1>1, <2>1 DEF WellOperated
(* Its identifier is new. *)
<1>9. \A j \in DOMAIN nodes' : (Sanitized(j))' = Backend!SanitizeVariableName(nodes'[j].name)
    BY DEF Sanitized, Backend!SanitizeVariableName
<1>10. ASSUME NEW j \in DOMAIN nodes
       PROVE  Backend!SanitizeVariableName(nodes[j].name) # Backend!SanitizeVariableName(new.name)
    <2>1. new.name = Frontend!NodeName(model.node[position])
        BY <1>1, <1>2
    <2>2. CASE nodes[j].name \in InputNames
        <3>1. PICK i \in RealInputs : nodes[j].name = model.input[i]
            BY <2>2 DEF InputNames
        <3>2. Backend!SanitizeVariableName(model.input[i])
                # Backend!SanitizeVariableName(Frontend!NodeName(model.node[position]))
            BY <1>2, <1>3, SanitizedClear
        <3> QED
            BY <2>1, <3>1, <3>2
    <2>3. CASE \E k \in Listed : k < position /\ nodes[j].name = Frontend!NodeName(model.node[k])
        <3>1. PICK k \in Listed : k < position /\ nodes[j].name = Frontend!NodeName(model.node[k])
            BY <2>3
        <3>2. k # position
            BY <1>3, <3>1
        <3>3. Backend!SanitizeVariableName(Frontend!NodeName(model.node[k]))
                # Backend!SanitizeVariableName(Frontend!NodeName(model.node[position]))
            BY <1>2, <1>3, <3>2, SanitizedClear
        <3> QED
            BY <2>1, <3>1, <3>3
    <2> QED
        BY <2>2, <2>3 DEF Walked, NamesSoFar
<1>11. IdentifiersApart'
    <2> DEFINE San(a) == Backend!SanitizeVariableName(a)
    <2>1. \A i, j \in Body : San(nodes[i].name) = San(nodes[j].name) => i = j
        BY DEF IdentifiersApart, Sanitized
    <2>2. \A j \in DOMAIN nodes : San(nodes[j].name) # San(new.name)
        BY <1>10
    <2>3. \A j \in Body' : j = e \/ (j \in Body /\ nodes'[j] = nodes[j])
        BY <1>6 DEF Body
    <2>4. \A j \in Body : j \in DOMAIN nodes
        BY DEF Body
    <2> HIDE DEF San
    <2>5. \A i, j \in Body' : San(nodes'[i].name) = San(nodes'[j].name) => i = j
        BY <1>5, <2>1, <2>2, <2>3, <2>4
    <2>6. \A j \in Body' : (Sanitized(j))' = San(nodes'[j].name)
        BY <1>9 DEF Body, San
    <2>7. \A i, j \in Body' : (Sanitized(i))' = (Sanitized(j))' => i = j
        BY <2>5, <2>6
    <2> QED
        BY <2>7 DEF IdentifiersApart
<1>12. ListedSoFar'
    <2>1. \A j \in DOMAIN nodes' :
             \/ nodes'[j].op.type = "Input"
             \/ \E k \in Listed : nodes'[j].op.type = Frontend!Converted[model.node[k].op_type]
        <3> TAKE j \in DOMAIN nodes'
        <3>1. CASE j = e
            BY <1>2, <1>5, <3>1
        <3>2. CASE j \in DOMAIN nodes /\ nodes'[j] = nodes[j]
            BY <3>2 DEF ListedSoFar
        <3> QED
            BY <1>6, <3>1, <3>2
    <2>2. Backend!Outputs' = {}
        <3> SUFFICES ASSUME NEW j \in DOMAIN nodes', nodes'[j].op.type = "Output" PROVE FALSE
            BY DEF Backend!Outputs
        <3>1. Backend!Outputs = {}
            BY DEF ListedSoFar
        <3> QED
            BY <1>5, <1>6, <1>7, <3>1 DEF IOOps, Backend!Outputs
    <2>3. Cardinality(RealInputs) > 1 => \E i, j \in Backend!Inputs' : i # j
        <3>1. Backend!Inputs \subseteq Backend!Inputs'
            BY <1>6 DEF Backend!Inputs
        <3> QED
            BY <3>1 DEF ListedSoFar
    <2>4. (Cardinality(RealInputs))' = Cardinality(RealInputs) /\ Listed' = Listed
        BY <1>1, ModelSame
    <2>5. (Cardinality(RealInputs) > 1 => \E i, j \in Backend!Inputs : i # j)'
        BY <2>3, <2>4
    <2>6. (\A j \in DOMAIN nodes :
             \/ nodes[j].op.type = "Input"
             \/ \E k \in Listed : nodes[j].op.type = Frontend!Converted[model.node[k].op_type])'
        BY <1>1, <2>1, <2>4
    <2> QED
        BY <2>2, <2>5, <2>6 DEF ListedSoFar
(* A kernel grounds its results; a transform those of computed data. *)
<1>13. /\ Staying = DOMAIN nodes /\ Staying' = DOMAIN nodes'
       /\ Kernels = {j \in DOMAIN nodes : nodes[j].op.type \in KernelOps}
       /\ Kernels' = {j \in DOMAIN nodes' : nodes'[j].op.type \in KernelOps}
       /\ Transforms = {j \in DOMAIN nodes : nodes[j].op.type \in TransformOps}
       /\ Transforms' = {j \in DOMAIN nodes' : nodes'[j].op.type \in TransformOps}
    <2>1. Staying = DOMAIN nodes /\ Staying' = DOMAIN nodes'
        BY <1>1 DEF Staying
    <2> QED
        BY <2>1 DEF Kernels, Transforms
<1>14. PICK G \in SUBSET Transforms :
          /\ \A j \in G : Reads(j, G \cup Kernels)
          /\ \A t \in DOMAIN value_map :
               Computed(t) => \E i \in G \cup Kernels : nodes[i].name = value_map[t]
    BY DEF ValuesGrounded, Grounds, Computed
<1>15. ValuesGrounded'
    <2>0. PICK H : H = IF new.op.type \in TransformOps /\ Computed(n.input[1]) THEN G \cup {e} ELSE G
        OBVIOUS
    <2>1. Kernels \subseteq Kernels' /\ (new.op.type \in KernelOps => e \in Kernels')
        BY <1>5, <1>6, <1>13
    <2>2. H \in SUBSET Transforms'
        BY <2>0, <1>5, <1>6, <1>13
    <2>3. \A i \in G \cup Kernels : i \in DOMAIN nodes /\ nodes'[i] = nodes[i]
        BY <1>6, <1>13
    <2>4. \A j \in H : \E i \in H \cup Kernels' : nodes'[i].name = nodes'[j].inputs[1]
        <3> TAKE j \in H
        <3>0. G \subseteq H
            BY <2>0
        <3>1. CASE j \in G
            <4>1. PICK i \in G \cup Kernels : nodes[i].name = nodes[j].inputs[1]
                BY <1>14, <3>1 DEF Reads
            <4>2. i \in H \cup Kernels'
                BY <2>1, <3>0, <4>1
            <4> QED
                BY <2>3, <3>1, <4>1, <4>2
        <3>2. CASE j = e /\ new.op.type \in TransformOps /\ Computed(n.input[1])
            <4>1. PICK i \in G \cup Kernels : nodes[i].name = value_map[n.input[1]]
                BY <1>2, <1>14, <3>2
            <4>2. i \in H \cup Kernels'
                BY <2>1, <3>0, <4>1
            <4> QED
                BY <1>2, <1>5, <2>3, <3>2, <4>1, <4>2
        <3> QED
            BY <2>0, <3>1, <3>2
    <2>5. (Grounds(H))'
        BY <2>4 DEF Grounds, Reads
    <2>6. ASSUME NEW t \in DOMAIN value_map', Computed(t)
          PROVE  \E i \in H \cup Kernels' : nodes'[i].name = value_map'[t]
        <3>1. CASE t \notin Frontend!Outputs(n)
            <4>1. t \in DOMAIN value_map /\ value_map'[t] = value_map[t]
                BY <1>1, <3>1
            <4>2. PICK i \in G \cup Kernels : nodes[i].name = value_map[t]
                BY <1>14, <2>6, <4>1
            <4>3. i \in H \cup Kernels'
                BY <2>0, <2>1, <4>2
            <4> QED
                BY <2>3, <4>1, <4>2, <4>3
        <3>2. CASE t \in Frontend!Outputs(n)
            <4>1. value_map'[t] = nodes'[e].name
                BY <1>1, <1>5, <3>2
            <4>2. CASE new.op.type \in KernelOps
                BY <2>1, <4>1, <4>2
            <4>3. CASE new.op.type \in TransformOps
                <5>1. n.op_type \in Reshaping
                    BY <1>2, <4>3, ConvertedKernels DEF Reshaping
                <5>2. position \in DOMAIN model.node
                    BY <1>2 DEF Listed
                <5>3. \E o \in DOMAIN n.output : n.output[o] = t
                    BY <3>2 DEF Frontend!Outputs
                <5>4. OnnxValues(model)[t] = OnnxValues(model)[n.input[1]]
                    BY <1>2, <1>3, <5>1, <5>2, <5>3, ReshapedValue
                <5>5. Computed(n.input[1])
                    BY <1>2, <2>6, <5>4 DEF Computed
                <5>6. e \in H
                    BY <2>0, <4>3, <5>5
                <5> QED
                    BY <4>1, <5>6
            <4> QED
                BY <1>2, <4>2, <4>3
        <3> QED
            BY <3>1, <3>2
    <2>7. \A t \in DOMAIN value_map' : (Computed(t))' => \E i \in H \cup Kernels' : nodes'[i].name = value_map'[t]
        BY <1>1, <2>6, ComputedSame
    <2> QED
        BY <2>2, <2>5, <2>7 DEF ValuesGrounded, Computed
<1> QED
    BY <1>8, <1>11, <1>12, <1>15

LEMMA PassedThrough ==
    ASSUME Typed, SupportedModel, Walked, Frontend!PassThrough, level' = level,
           WellOperated, IdentifiersApart, ListedSoFar, ValuesGrounded
    PROVE  WellOperated' /\ IdentifiersApart' /\ ListedSoFar' /\ ValuesGrounded'
<1> DEFINE n == Frontend!Current
<1>1. /\ phase = "traverse" /\ phase' = phase /\ model' = model /\ nodes' = nodes
      /\ n.op_type \in Frontend!NoNodeOps
      /\ \/ value_map' = value_map
         \/ DOMAIN value_map' = DOMAIN value_map \cup Frontend!Outputs(n)
    BY PassThroughEffect
<1>2. Frontend!Traversing
    BY DEF Frontend!PassThrough
<1>3. /\ position \in DOMAIN model.node /\ n = model.node[position]
      /\ 1 \in DOMAIN n.input
      /\ n.op_type \notin ShapeOps =>
           n.input[1] \in DOMAIN value_map /\ n.input[1] \notin ShapeTensors
    BY <1>2, OperandsKnown
<1>4. n.op_type # "CustomOperator" /\ model \in Models
    BY <1>3, SupportedNodes DEF Typed
<1>5. n.op_type \in ShapeOps \/ n.op_type \in Reshaping
    BY <1>1, <1>4 DEF Frontend!NoNodeOps, ShapeOps
<1>6. n.op_type \notin ShapeOps =>
         \A t \in DOMAIN value_map' : value_map'[t] =
            IF t \in Frontend!Outputs(n) THEN value_map[n.input[1]] ELSE value_map[t]
    <2>1. n.op_type \notin ShapeOps => 1 \in Frontend!KnownOperands(n)
        BY <1>3 DEF Frontend!KnownOperands
    <2> QED
        BY <1>4, <2>1, PassThroughFirst
<1>7. \A t \in DOMAIN value_map' : t \notin Frontend!Outputs(n) =>
         t \in DOMAIN value_map /\ value_map'[t] = value_map[t]
    BY PassThroughEffect
<1> HIDE DEF n
<1>8. /\ Staying' = Staying /\ Kernels' = Kernels /\ Transforms' = Transforms
      /\ Backend!Outputs' = Backend!Outputs /\ Backend!Inputs' = Backend!Inputs
    BY <1>1 DEF Staying, Kernels, Transforms, Backend!Outputs, Backend!Inputs
<1>9. WellOperated' /\ IdentifiersApart'
    BY <1>1, <1>8, GraphSame
<1>10. ListedSoFar'
    BY <1>1, <1>8, ModelSame DEF ListedSoFar
<1>11. PICK G \in SUBSET Transforms :
          /\ \A j \in G : Reads(j, G \cup Kernels)
          /\ \A t \in DOMAIN value_map :
               Computed(t) => \E i \in G \cup Kernels : nodes[i].name = value_map[t]
    BY DEF ValuesGrounded, Grounds, Computed
<1>12. ASSUME NEW t \in DOMAIN value_map', Computed(t)
       PROVE  \E i \in G \cup Kernels : nodes[i].name = value_map'[t]
    <2>1. CASE t \notin Frontend!Outputs(n)
        BY <1>7, <1>11, <1>12, <2>1
    <2>2. CASE t \in Frontend!Outputs(n)
        <3>1. n.op_type \notin ShapeOps
            <4>1. t \notin ShapeTensors
                BY <1>12 DEF Computed
            <4> QED
                BY <1>3, <2>2, <4>1 DEF ShapeTensors, NodesOf
        <3>2. \E o \in DOMAIN n.output : n.output[o] = t
            BY <2>2 DEF Frontend!Outputs
        <3>3. OnnxValues(model)[t] = OnnxValues(model)[n.input[1]]
            BY <1>3, <1>4, <1>5, <3>1, <3>2, ReshapedValue
        <3>4. Computed(n.input[1])
            BY <1>3, <1>12, <3>1, <3>3 DEF Computed
        <3> QED
            BY <1>3, <1>6, <1>11, <2>2, <3>1, <3>4
    <2> QED
        BY <2>1, <2>2
<1>13. ValuesGrounded'
    <2>1. \A t \in DOMAIN value_map' : (Computed(t))' => \E i \in G \cup Kernels : nodes'[i].name = value_map'[t]
        BY <1>1, <1>12, ComputedSame
    <2>2. (Grounds(G))'
        BY <1>1, <1>8, <1>11 DEF Grounds, Reads
    <2> QED
        BY <1>8, <2>1, <2>2 DEF ValuesGrounded, Computed
<1> QED
    BY <1>9, <1>10, <1>13

(* The list is complete: what kernel fusion and the back end build on.      *)
LEMMA OutputsListed ==
    ASSUME Typed, SupportedModel, Walked, Frontend!MapOutputs, level' = level,
           WellOperated, IdentifiersApart, AdditionsStandAlone, ListedSoFar, ValuesGrounded
    PROVE  /\ WellOperated' /\ IdentifiersApart' /\ AdditionsStandAlone'
           /\ IdentifiersUnextended' /\ Connected' /\ OutputsGrounded' /\ OutputsNumbered'
<1> DEFINE len == Len(nodes)
           outs == Len(model.output)
           parent(o) == Frontend!ResolveInputName(model.output[o])
<1>1. /\ phase = "traverse" /\ phase' = "optimize" /\ position > Len(model.node)
      /\ model' = model /\ value_map' = value_map
      /\ nodes' = nodes \o ListedOutputs /\ ListedOutputs \in Seq(Nodes) /\ nodes' \in Seq(Nodes)
    BY MapOutputsEffect
<1>2. /\ model \in Models /\ level \in Levels /\ nodes \in Seq(Nodes) /\ position \in Nat
      /\ model.output \in Seq(Name) /\ model.node \in Seq(OnnxNodes) /\ CheckedModel(model)
    BY ModelTyped DEF Typed
<1>3. /\ MapsToNodes /\ NothingForgotten /\ NamesSoFar /\ Fusion!InOrder(nodes)
      /\ position = Len(model.node) + 1
    BY <1>1, <1>2 DEF Walked
<1>5. /\ len \in Nat /\ DOMAIN nodes = 1 .. len
      /\ outs \in Nat /\ DOMAIN model.output = 1 .. outs
    BY <1>2
<1>6. Len(ListedOutputs) = outs
    BY <1>1, <1>5, LenProperties DEF ListedOutputs
<1>7. /\ DOMAIN nodes' = 1 .. (len + outs)
      /\ \A j \in 1 .. len : nodes'[j] = nodes[j]
      /\ \A o \in 1 .. outs : nodes'[len + o] = ListedOutputs[o]
    <2> DEFINE both == nodes \o ListedOutputs
    <2>1. /\ both \in Seq(Nodes) /\ Len(both) = Len(nodes) + Len(ListedOutputs)
          /\ \A j \in 1 .. Len(nodes) : both[j] = nodes[j]
          /\ \A o \in 1 .. Len(ListedOutputs) : both[Len(nodes) + o] = ListedOutputs[o]
        BY <1>1, <1>2, Joined
    <2> HIDE DEF both
    <2>2. nodes' = both
        BY <1>1 DEF both
    <2>3. DOMAIN both = 1 .. (len + outs)
        BY <1>6, <2>1, LenProperties
    <2> QED
        BY <1>6, <2>1, <2>2, <2>3
<1>8. \A o \in 1 .. outs : LET new == nodes'[len + o]
                           IN  /\ new.inputs = <<parent(o)>>
                               /\ new.op.type = "Output" /\ new.op.activation = None
                               /\ new.op.weight = None /\ new.op.bias = None
                               /\ new.op.index = o - 1
    <2> TAKE o \in 1 .. outs
    <2>1. nodes'[len + o] = Frontend!OutputNode(o) /\ o \in DOMAIN model.output
        BY <1>5, <1>7 DEF ListedOutputs
    <2> QED
        BY <2>1, OutputNodeTyped, IOParameters
<1>9. \A o \in 1 .. outs :
          /\ model.output[o] \in DOMAIN value_map /\ parent(o) = value_map[model.output[o]]
          /\ Computed(model.output[o])
    <2> TAKE o \in 1 .. outs
    <2>1. model.output[o] \in Defined(model, position)
        BY <1>2, <1>3, <1>5 DEF CheckedModel
    <2>2. Computed(model.output[o]) /\ model.output[o] \notin ShapeTensors \cup model.initializer
        BY <1>5 DEF SupportedModel, OutputsComputed, Computed
    <2>3. model.output[o] \in DOMAIN value_map
        BY <1>3, <2>1, <2>2 DEF NothingForgotten
    <2> QED
        BY <2>2, <2>3 DEF Frontend!ResolveInputName
<1>10. \A j \in DOMAIN nodes : nodes[j].name \in InputNames \cup NodeNames
    BY <1>3 DEF NamesSoFar, NodeNames
<1>11. \A o \in 1 .. outs : \E i \in DOMAIN nodes : nodes[i].name = parent(o)
    BY <1>3, <1>9 DEF MapsToNodes
<1>12. outs # 0 /\ (outs = 1 \/ Cardinality(RealInputs) > 1)
    <2>1. model.output # <<>> /\ (outs = 1 \/ Cardinality(RealInputs) > 1)
        BY DEF SupportedModel, OutputsComputed
    <2> QED
        BY <1>2, <2>1
<1> HIDE DEF len, outs, parent
<1>13. \A j \in DOMAIN nodes' : \/ j \in 1 .. len /\ j \in DOMAIN nodes /\ nodes'[j] = nodes[j]
                                \/ \E o \in 1 .. outs : j = len + o
    <2> TAKE j \in DOMAIN nodes'
    <2>1. CASE j \in 1 .. len
        BY <1>5, <1>7, <2>1
    <2>2. CASE j \notin 1 .. len
        <3>1. j - len \in 1 .. outs /\ j = len + (j - len)
            BY <1>5, <1>7, <2>2
        <3> QED
            BY <3>1
    <2> QED
        BY <2>1, <2>2
<1>14. \A j \in DOMAIN nodes : j \in DOMAIN nodes' /\ nodes'[j] = nodes[j]
    BY <1>5, <1>7
<1>15. \A o \in 1 .. outs : len + o \in DOMAIN nodes' /\ len + o \notin DOMAIN nodes
    BY <1>5, <1>7
<1>16. \A j \in DOMAIN nodes : nodes[j].op.type # "Output"
    BY DEF ListedSoFar, Backend!Outputs
<1>17. Body = DOMAIN nodes /\ Body' = DOMAIN nodes /\ Staying' = DOMAIN nodes'
    <2>1. Body = DOMAIN nodes /\ Staying' = DOMAIN nodes'
        BY <1>1, <1>16 DEF Body, Staying
    <2>2. \A j \in DOMAIN nodes' : nodes'[j].op.type # "Output" <=> j \in DOMAIN nodes
        BY <1>8, <1>13, <1>15, <1>16
    <2> QED
        BY <1>14, <2>1, <2>2 DEF Body
<1>18. \A j \in DOMAIN nodes : (Sanitized(j))' = Sanitized(j)
    <2>1. \A j : (Sanitized(j))' = Backend!SanitizeVariableName(nodes'[j].name)
        BY DEF Sanitized, Backend!SanitizeVariableName
    <2> QED
        BY <1>14, <2>1 DEF Sanitized
<1>19. WellOperated'
    <2>1. \A j \in DOMAIN nodes' :
            /\ nodes'[j].op.type \in IOOps \cup TransformOps \cup KernelOps
            /\ nodes'[j].op.type \in KernelOps =>
                 Len(nodes'[j].inputs) = IF nodes'[j].op.type \in ElementWiseOps THEN 2 ELSE 1
            /\ nodes'[j].op.type # "Input" => 1 \in DOMAIN nodes'[j].inputs
            /\ \/ nodes'[j].op.activation = None
               \/ /\ nodes'[j].op.type \in {"Linear", "Conv2d"}
                  /\ nodes'[j].op.activation \in KernelOps
            /\ nodes'[j].op.weight \in {None} \cup model.initializer
            /\ nodes'[j].op.bias \in {None} \cup model.initializer
        <3> TAKE j \in DOMAIN nodes'
        <3>1. CASE j \in DOMAIN nodes /\ nodes'[j] = nodes[j]
            BY <3>1 DEF WellOperated
        <3>2. CASE \E o \in 1 .. outs : j = len + o
            <4>1. PICK o \in 1 .. outs : j = len + o
                BY <3>2
            <4>2. "Output" \in IOOps /\ "Output" \notin KernelOps
                BY KernelOpsAre DEF IOOps
            <4>3. 1 \in DOMAIN nodes'[j].inputs
                BY <1>8, <4>1
            <4> QED
                BY <1>8, <4>1, <4>2, <4>3
        <3> QED
            BY <1>13, <3>1, <3>2
    <2> QED
        BY <1>1, <2>1 DEF WellOperated
<1>20. IdentifiersApart'
    BY <1>17, <1>18 DEF IdentifiersApart
<1>21. AdditionsStandAlone'
    <2>1. "Output" # "Add" /\ "Output" \notin ActivationOps
        BY DEF ActivationOps
    <2>2. ASSUME level > 0, NEW i \in DOMAIN nodes', NEW j \in DOMAIN nodes',
                 nodes'[i].op.type = "Add"
          PROVE  nodes'[j].op.type \notin ActivationOps
        BY <1>8, <1>13, <2>1, <2>2 DEF AdditionsStandAlone
    <2> QED
        BY <2>2 DEF AdditionsStandAlone
<1>22. IdentifiersUnextended'
    <2> SUFFICES ASSUME level > 0, NEW i \in DOMAIN nodes, NEW j \in DOMAIN nodes, NEW w \in Word
                 PROVE  Sanitized(j) # Append(Sanitized(i), w)
        BY <1>17, <1>18 DEF IdentifiersUnextended
    <2>1. \A a, b \in InputNames \cup NodeNames :
             Backend!SanitizeVariableName(a) # Append(Backend!SanitizeVariableName(b), w)
        BY <1>2, SanitizedClear
    <2> QED
        BY <1>10, <2>1 DEF Sanitized
<1>23. Connected'
    <2> SUFFICES ASSUME NEW j \in DOMAIN nodes', NEW k \in DOMAIN nodes'[j].inputs
                 PROVE  \E i \in DOMAIN nodes : i < j /\ nodes'[i].name = nodes'[j].inputs[k]
        BY <1>14, <1>17 DEF Connected
    <2>1. CASE j \in 1 .. len /\ j \in DOMAIN nodes /\ nodes'[j] = nodes[j]
        <3>1. PICK i \in 1 .. j - 1 : nodes[i].name = nodes'[j].inputs[k]
            BY <1>3, <2>1 DEF Fusion!InOrder
        <3>2. i \in DOMAIN nodes /\ i < j
            BY <1>5, <2>1
        <3> QED
            BY <1>14, <3>1, <3>2
    <2>2. CASE \E o \in 1 .. outs : j = len + o
        <3>1. PICK o \in 1 .. outs : j = len + o
            BY <2>2
        <3>2. nodes'[j].inputs = <<parent(o)>>
            BY <1>8, <3>1
        <3>3. nodes'[j].inputs[k] = parent(o)
            BY <3>2
        <3>4. PICK i \in DOMAIN nodes : nodes[i].name = parent(o)
            BY <1>11
        <3>5. i < j
            BY <1>5, <3>1
        <3> QED
            BY <1>14, <3>3, <3>4, <3>5
    <2> QED
        BY <1>13, <2>1, <2>2
<1>24. Kernels \subseteq Kernels' /\ Transforms \subseteq Transforms' /\ Kernels \cup Transforms \subseteq DOMAIN nodes
    <2>1. Staying \subseteq DOMAIN nodes
        BY DEF Staying
    <2> QED
        BY <1>14, <1>17, <2>1 DEF Kernels, Transforms
<1>25. OutputsGrounded'
    <2>1. PICK G \in SUBSET Transforms :
            /\ \A j \in G : Reads(j, G \cup Kernels)
            /\ \A t \in DOMAIN value_map :
                 Computed(t) => \E i \in G \cup Kernels : nodes[i].name = value_map[t]
        BY DEF ValuesGrounded, Grounds, Computed
    <2>2. ASSUME NEW j \in G PROVE \E i \in G \cup Kernels' : nodes'[i].name = nodes'[j].inputs[1]
        <3>1. PICK i \in G \cup Kernels : nodes[i].name = nodes[j].inputs[1]
            BY <2>1 DEF Reads
        <3>2. i \in DOMAIN nodes /\ j \in DOMAIN nodes /\ i \in G \cup Kernels'
            BY <1>24, <3>1
        <3> QED
            BY <1>14, <3>1, <3>2
    <2>3. (Grounds(G))'
        BY <2>2 DEF Grounds, Reads
    <2>4. ASSUME NEW j \in Backend!Outputs'
          PROVE  \E i \in G \cup Kernels' : nodes'[i].name = nodes'[j].inputs[1]
        <3>1. PICK o \in 1 .. outs : j = len + o
            BY <1>13, <1>16 DEF Backend!Outputs
        <3>2. nodes'[j].inputs[1] = value_map[model.output[o]]
            BY <1>8, <1>9, <3>1
        <3>3. PICK i \in G \cup Kernels : nodes[i].name = value_map[model.output[o]]
            BY <1>9, <2>1
        <3>4. i \in DOMAIN nodes /\ i \in G \cup Kernels'
            BY <1>24, <3>3
        <3> QED
            BY <1>14, <3>2, <3>3, <3>4
    <2>5. G \in SUBSET Transforms'
        BY <1>24
    <2>6. \A j \in Backend!Outputs' : (Reads(j, G \cup Kernels))'
        BY <2>4 DEF Reads
    <2> QED
        BY <2>3, <2>5, <2>6 DEF OutputsGrounded
<1>26. OutputsNumbered'
    <2>1. Backend!Outputs' = {len + o : o \in 1 .. outs}
        BY <1>8, <1>13, <1>15, <1>16 DEF Backend!Outputs
    <2>2. \A o \in 1 .. outs : nodes'[len + o].op.index = o - 1 /\ o - 1 \in 0 .. Len(model.output) - 1
        BY <1>5, <1>8 DEF outs
    <2>3. Backend!Outputs' # {}
        BY <1>5, <1>12, <2>1
    <2>4. \A i, j \in Backend!Outputs' : nodes'[i].op.index = nodes'[j].op.index => i = j
        <3> TAKE i, j \in Backend!Outputs'
        <3>1. PICK o \in 1 .. outs : i = len + o
            BY <2>1
        <3>2. PICK p \in 1 .. outs : j = len + p
            BY <2>1
        <3>3. nodes'[i].op.index = o - 1 /\ nodes'[j].op.index = p - 1
            BY <2>2, <3>1, <3>2
        <3>4. o - 1 = p - 1 => o = p
            BY <1>5
        <3> QED
            BY <3>1, <3>2, <3>3, <3>4
    <2>5. outs = 1 => \A i, j \in Backend!Outputs' : i = j
        BY <2>1
    <2>6. Cardinality(RealInputs) > 1 => \E i, j \in Backend!Inputs' : i # j
        <3>1. Backend!Inputs \subseteq Backend!Inputs'
            BY <1>14 DEF Backend!Inputs
        <3> QED
            BY <3>1 DEF ListedSoFar
    <2>7. \A i \in Backend!Outputs' : nodes'[i].op.index \in 0 .. Len(model'.output) - 1
        BY <1>1, <2>1, <2>2
    <2> QED
        BY <1>12, <2>3, <2>4, <2>5, <2>6, <2>7 DEF OutputsNumbered
<1> QED
    BY <1>19, <1>20, <1>21, <1>22, <1>23, <1>25, <1>26

-----------------------------------------------------------------------------
(* Every step keeps it                                                      *)

LEMMA CInitially == Init => CInv
<1> SUFFICES ASSUME Init PROVE CInv
    OBVIOUS
<1>1. /\ phase = "map_inputs" /\ nodes = <<>> /\ calls = <<>> /\ metadata = <<>>
    BY DEF Init, Frontend!Init
<1>2. DOMAIN nodes = {}
    BY <1>1
<1>3. WellOperated /\ AdditionsStandAlone /\ IdentifiersApart
    BY <1>2 DEF WellOperated, AdditionsStandAlone, IdentifiersApart, Body
<1> QED
    BY <1>1, <1>3 DEF CInv, Built

LEMMA ParseBuilds ==
    ASSUME IInv, IInv', CInv, SupportedModel, SupportedModel', Parse
    PROVE  Built'
<1>1. /\ level' = level /\ calls' = calls /\ metadata' = metadata /\ Frontend!Next
      /\ Typed /\ Typed' /\ Built /\ phase' # "failed"
    BY DEF Parse, backVars, IInv, CInv
<1>2. phase = "traverse" => Walked
    BY DEF IInv
<1>3. WellOperated /\ IdentifiersApart /\ AdditionsStandAlone
      /\ (phase = "traverse" => ListedSoFar /\ ValuesGrounded)
    BY <1>1 DEF Built
<1>4. phase \in {"map_inputs", "traverse"} => calls = <<>> /\ metadata = <<>>
    BY <1>1 DEF Built
<1>5. ASSUME WellOperated' /\ IdentifiersApart' /\ ListedSoFar' /\ ValuesGrounded',
             phase \in {"map_inputs", "traverse"}, phase' = "traverse"
      PROVE  Built'
    <2>1. (SupportedModel /\ model \in Models /\ ListedSoFar => AdditionsStandAlone)'
        BY ListedStandAlone, PTL
    <2>2. AdditionsStandAlone'
        BY <1>1, <1>5, <2>1 DEF Typed
    <2> QED
        BY <1>1, <1>4, <1>5, <2>2 DEF Built
<1>6. CASE Frontend!MapInputs
    <2>1. phase = "map_inputs" /\ phase' = "traverse"
        BY <1>1, <1>6, MapInputsEffect
    <2> QED
        BY <1>1, <1>5, <1>6, <2>1, InputsListed
<1>7. CASE Frontend!Refuse
    BY <1>1, <1>7 DEF Frontend!Refuse
<1>8. CASE Frontend!PassThrough
    <2>1. phase = "traverse" /\ phase' = "traverse"
        BY <1>1, <1>8, PassThroughEffect
    <2>2. WellOperated' /\ IdentifiersApart' /\ ListedSoFar' /\ ValuesGrounded'
        BY <1>1, <1>2, <1>3, <1>8, <2>1, PassedThrough
    <2> QED
        BY <1>5, <2>1, <2>2
<1>9. CASE Frontend!ParseNode
    <2>1. phase = "traverse" /\ phase' = "traverse"
        BY <1>1, <1>9, ParseNodeEffect
    <2>2. WellOperated' /\ IdentifiersApart' /\ ListedSoFar' /\ ValuesGrounded'
        BY <1>1, <1>2, <1>3, <1>9, <2>1, NodeListed
    <2> QED
        BY <1>5, <2>1, <2>2
<1>10. CASE Frontend!MapOutputs
    <2>1. phase = "traverse" /\ phase' = "optimize"
        BY <1>1, <1>10, MapOutputsEffect
    <2>2. /\ WellOperated' /\ IdentifiersApart' /\ AdditionsStandAlone'
          /\ IdentifiersUnextended' /\ Connected' /\ OutputsGrounded' /\ OutputsNumbered'
        BY <1>1, <1>2, <1>3, <1>10, <2>1, OutputsListed
    <2> QED
        BY <1>1, <1>4, <2>1, <2>2 DEF Built
<1> QED
    BY <1>1, <1>6, <1>7, <1>8, <1>9, <1>10 DEF Frontend!Next

LEMMA OptimizeBuilds ==
    ASSUME IInv, Built, Optimize
    PROVE  Built'
<1>1. /\ phase = "optimize" /\ phase' \in {"optimized", "kernel_fusion"}
      /\ level' = level /\ nodes' = nodes /\ model' = model
      /\ nodes_to_remove' = nodes_to_remove /\ calls' = calls /\ metadata' = metadata
    BY DEF Optimize, frontVars, fuseVars, backVars
<1>2. nodes_to_remove = {}
    BY <1>1 DEF IInv
<1>3. Staying' = Staying
    BY <1>1, <1>2 DEF Staying
<1>4. /\ WellOperated' /\ AdditionsStandAlone' /\ IdentifiersApart'
      /\ IdentifiersUnextended' /\ Connected' /\ OutputsGrounded' /\ OutputsNumbered'
    BY <1>1, <1>3, GraphSame DEF Built
<1>5. calls' = <<>> /\ metadata' = <<>>
    BY <1>1 DEF Built
<1> QED
    BY <1>1, <1>4, <1>5 DEF Built

LEMMA FuseBuilds ==
    ASSUME IInv, CInv, SupportedModel, Fuse
    PROVE  Built'
<1>1. Fusion!Next /\ calls' = calls /\ metadata' = metadata
    BY DEF Fuse, backVars
<1>2. phase = "kernel_fusion"
    BY <1>1, FusionIsPass, FuseEffect DEF IInv
<1>3. Typed /\ level > 0 /\ Pass!IInv /\ Built
    BY <1>2 DEF IInv, CInv
<1>4. Sound /\ calls = <<>> /\ metadata = <<>>
    BY <1>2, <1>3 DEF Built, Sound
<1>5. Sound' /\ phase' \in {"kernel_fusion", "optimized"}
    BY <1>3, <1>4, FusionKeepsSound
<1> QED
    BY <1>1, <1>4, <1>5 DEF Sound, Built

LEMMA StartCodegenBuilds ==
    ASSUME Built, StartCodegen
    PROVE  Built'
<1>1. /\ phase = "optimized" /\ phase' = "codegen" /\ position' = 1
      /\ level' = level /\ nodes' = nodes /\ model' = model
      /\ calls' = calls /\ metadata' = metadata
    BY DEF StartCodegen, frontVars, backVars
<1>2. Staying' = Staying
    BY <1>1 DEF Staying
<1>3. /\ WellOperated' /\ AdditionsStandAlone' /\ IdentifiersApart'
      /\ Connected' /\ OutputsGrounded' /\ OutputsNumbered'
    BY <1>1, <1>2, GraphSame DEF Built
<1>4. calls' = <<>> /\ metadata' = <<>>
    BY <1>1 DEF Built
<1>5. IsList(<<>>) /\ DOMAIN <<>> = {}
    BY NoList
<1>6. Stored'
    <2>1. IsList(metadata)'
        BY <1>4, <1>5 DEF IsList
    <2> QED
        BY <1>4, <1>5, <2>1 DEF Stored
<1>7. Called'
    <2>1. IsList(calls)'
        BY <1>4, <1>5 DEF IsList
    <2>2. Reached' = 1
        BY <1>1 DEF Reached
    <2>3. \A j \in Backend!Compute' : ~ j < Reached'
        <3>1. nodes \in Seq(Nodes) => \A j \in DOMAIN nodes : ~ j < 1
            OBVIOUS
        <3> QED
            BY <1>1, <2>2, <3>1 DEF Backend!Compute
    <2> QED
        BY <1>4, <1>5, <2>1, <2>3 DEF Called
<1> QED
    BY <1>1, <1>3, <1>6, <1>7 DEF Built

LEMMA GenerateBuilds ==
    ASSUME Typed, Built, Generate, phase' # "failed"
    PROVE  Built'
<1>1. Backend!Next /\ level' = level /\ model' = model
    BY DEF Generate, frontVars
<1>2. phase \in {"codegen", "pack_model_data"}
    BY <1>1, GenerateEffect
<1>3. Fit /\ Called /\ Stored /\ WellOperated /\ AdditionsStandAlone /\ IdentifiersApart
      /\ Connected /\ OutputsGrounded /\ OutputsNumbered
    BY <1>2 DEF Built, Fit, Typed
<1>4. /\ phase' \in {"codegen", "pack_model_data", "done"} /\ nodes' = nodes
      /\ Called' /\ Stored'
    BY <1>2, <1>3, GenerateCalls
<1>5. Staying' = Staying
    BY <1>2, <1>4 DEF Staying
<1>6. /\ WellOperated' /\ AdditionsStandAlone' /\ IdentifiersApart'
      /\ Connected' /\ OutputsGrounded' /\ OutputsNumbered'
    BY <1>1, <1>3, <1>4, <1>5, GraphSame
<1> QED
    BY <1>4, <1>6 DEF Built

LEMMA StutterBuilds ==
    ASSUME Built, UNCHANGED vars
    PROVE  Built'
<1>1. /\ phase' = phase /\ level' = level /\ nodes' = nodes /\ position' = position
      /\ model' = model /\ value_map' = value_map /\ nodes_to_remove' = nodes_to_remove
      /\ calls' = calls /\ metadata' = metadata
    BY DEF vars, frontVars, fuseVars, backVars
<1>2. Staying' = Staying /\ Kernels' = Kernels /\ Transforms' = Transforms
      /\ Backend!Outputs' = Backend!Outputs /\ Backend!Inputs' = Backend!Inputs
    BY <1>1 DEF Staying, Kernels, Transforms, Backend!Outputs, Backend!Inputs
<1>3. /\ (WellOperated => WellOperated') /\ (AdditionsStandAlone => AdditionsStandAlone')
      /\ (IdentifiersApart => IdentifiersApart')
      /\ (IdentifiersUnextended => IdentifiersUnextended')
      /\ (Connected => Connected') /\ (OutputsGrounded => OutputsGrounded')
      /\ (OutputsNumbered => OutputsNumbered')
    BY <1>1, <1>2, GraphSame
<1>4. ListedSoFar => ListedSoFar'
    BY <1>1, <1>2, ModelSame DEF ListedSoFar
<1>5. ValuesGrounded => ValuesGrounded'
    <2> SUFFICES ASSUME ValuesGrounded PROVE ValuesGrounded'
        OBVIOUS
    <2>1. PICK G \in SUBSET Transforms :
            /\ \A j \in G : Reads(j, G \cup Kernels)
            /\ \A t \in DOMAIN value_map :
                 Computed(t) => \E i \in G \cup Kernels : nodes[i].name = value_map[t]
        BY DEF ValuesGrounded, Grounds, Computed
    <2>2. (Grounds(G))'
        BY <1>1, <1>2, <2>1 DEF Grounds, Reads
    <2>3. \A t \in DOMAIN value_map' : (Computed(t))' => \E i \in G \cup Kernels : nodes'[i].name = value_map'[t]
        BY <1>1, <2>1, ComputedSame
    <2> QED
        BY <1>2, <2>2, <2>3 DEF ValuesGrounded, Computed
<1>6. Called => Called'
    <2>1. Reached' = Reached
        BY <1>1 DEF Reached
    <2> QED
        BY <1>1, <2>1, OtherStepsCall
<1>7. Stored => Stored'
    BY <1>1, OtherStepsStore
<1> QED
    BY <1>1, <1>3, <1>4, <1>5, <1>6, <1>7 DEF Built

LEMMA NextCInv == IInv /\ CInv /\ [Next]_vars => CInv'
<1> SUFFICES ASSUME IInv, CInv, [Next]_vars PROVE CInv'
    OBVIOUS
<1>1. IInv'
    BY NextIInv
<1>2. model' = model /\ level' = level
    <2>1. Frontend!Next => model' = model
        BY DEF Frontend!Next, Frontend!MapInputs, Frontend!Refuse, Frontend!PassThrough,
            Frontend!ParseNode, Frontend!MapOutputs
    <2> QED
        BY <2>1 DEF Next, Parse, Optimize, Fuse, StartCodegen, Generate, vars, frontVars
<1>3. SupportedModel' <=> SupportedModel
    BY <1>2, SupportedSame
<1>4. phase' = "kernel_fusion" => level' > 0
    <2>1. CASE Parse
        <3>1. phase' # "kernel_fusion"
            BY <2>1 DEF Parse, Frontend!Next, Frontend!MapInputs, Frontend!Refuse,
                Frontend!Traversing, Frontend!PassThrough, Frontend!ParseNode, Frontend!MapOutputs
        <3> QED
            BY <3>1
    <2>2. CASE Optimize
        <3>1. level \in Nat
            BY LevelsAssumption DEF IInv, Typed
        <3> QED
            BY <1>2, <2>2, <3>1 DEF Optimize
    <2>3. CASE Fuse
        <3>1. phase = "kernel_fusion"
            BY <2>3, FusionIsPass, FuseEffect DEF Fuse, IInv
        <3> QED
            BY <1>2, <3>1 DEF CInv
    <2>4. CASE StartCodegen
        BY <2>4 DEF StartCodegen
    <2>5. CASE Generate
        BY <2>5, GenerateEffect DEF Generate, IInv
    <2>6. CASE UNCHANGED vars
        BY <1>2, <2>6 DEF vars, CInv
    <2> QED
        BY <2>1, <2>2, <2>3, <2>4, <2>5, <2>6 DEF Next
<1>5. ASSUME SupportedModel PROVE Built'
    <2>1. Built /\ SupportedModel' /\ Typed /\ phase' # "failed"
        BY <1>1, <1>3, <1>5 DEF CInv, IInv
    <2>2. CASE Parse
        BY <1>1, <1>5, <2>1, <2>2, ParseBuilds
    <2>3. CASE Optimize
        BY <2>1, <2>3, OptimizeBuilds
    <2>4. CASE Fuse
        BY <1>5, <2>4, FuseBuilds
    <2>5. CASE StartCodegen
        BY <2>1, <2>5, StartCodegenBuilds
    <2>6. CASE Generate
        BY <2>1, <2>6, GenerateBuilds
    <2>7. CASE UNCHANGED vars
        BY <2>1, <2>7, StutterBuilds
    <2> QED
        BY <2>2, <2>3, <2>4, <2>5, <2>6, <2>7 DEF Next
<1> QED
    BY <1>3, <1>4, <1>5 DEF CInv

LEMMA CInvariant == Spec => []CInv
<1> QED
    BY InitIInv, CInitially, NextIInv, NextCInv, PTL DEF Spec

-----------------------------------------------------------------------------
(* What the nodes of the list compute                                       *)

ParameterOps == {"Linear", "Conv2d"}

(* The kernel of an operator, given its operands, and a node's value.       *)
Layer(op, args) ==
    Apply(KernelFunction[op.type], "implemented",
          args \o IF op.type \in ParameterOps THEN <<Tensor(op.weight), Tensor(op.bias)>>
                                              ELSE <<>>)

NodeValue(op, args) ==
    IF op.type = "Input" THEN Tensor(model.input[op.index + 1])
    ELSE IF op.type \notin KernelOps THEN args[1]
    ELSE IF op.activation = None THEN Layer(op, args)
    ELSE Apply(KernelFunction[op.activation], "implemented", <<Layer(op, args)>>)

LEMMA ArgumentLists ==
    ASSUME NEW x, NEW y, NEW z
    PROVE  /\ <<x>> \o <<>> = <<x>>
           /\ <<x, y>> \o <<>> = <<x, y>>
           /\ <<x>> \o <<y, z>> = <<x, y, z>>
<1> DEFINE S == {x, y, z}
           a == <<x>>
           b == <<y, z>>
           c == <<x, y, z>>
<1>1. a \in Seq(S) /\ b \in Seq(S) /\ <<x, y>> \in Seq(S) /\ c \in Seq(S)
    OBVIOUS
<1>2. \A s \in Seq(S) : s \o <<>> = s
    <2> HIDE DEF S
    <2> QED
        BY ConcatEmptySeq
<1>3. a \o b = c
    <2>1. Len(a) = 1 /\ Len(b) = 2 /\ Len(c) = 3 /\ a[1] = x /\ b[1] = y /\ b[2] = z
          /\ c[1] = x /\ c[2] = y /\ c[3] = z
        OBVIOUS
    <2> HIDE DEF S, a, b, c
    <2>2. /\ a \o b \in Seq(S) /\ Len(a \o b) = Len(a) + Len(b)
          /\ \A r \in 1 .. Len(a) : (a \o b)[r] = a[r]
          /\ \A r \in 1 .. Len(b) : (a \o b)[Len(a) + r] = b[r]
        BY <1>1, Joined
    <2> DEFINE d == a \o b
    <2>3. d \in Seq(S) /\ Len(d) = 3 /\ d[1] = x /\ d[2] = y /\ d[3] = z
        BY <2>1, <2>2
    <2> HIDE DEF d
    <2>4. \A i \in 1 .. 3 : d[i] = c[i]
        BY <2>1, <2>3
    <2>5. d = c
        BY <1>1, <2>1, <2>3, <2>4, SeqEqual
    <2> QED
        BY <2>5 DEF d
<1> QED
    BY <1>1, <1>2, <1>3

LEMMA ConvertedFunctions ==
    ASSUME NEW t \in DOMAIN Frontend!Converted, Frontend!Converted[t] \in KernelOps
    PROVE  /\ KernelFunction[Frontend!Converted[t]] = Function(t)
           /\ t \in Frontend!WeightOps \cup ElementWiseOps \cup Configured \cup UnaryOps
           /\ Frontend!Converted[t] \in ParameterOps <=> t \in Frontend!WeightOps
           /\ t \in Frontend!WeightOps => t \in Frontend!ParameterOps
           /\ t \notin Reshaping
           /\ Frontend!WeightOps \cap (ElementWiseOps \cup Configured \cup UnaryOps) = {}
           /\ ElementWiseOps \cap (Configured \cup UnaryOps) = {}
    BY DEF KernelFunction, Function, Frontend!Converted, KernelOps, Frontend!WeightOps, ElementWiseOps,
        Configured, UnaryOps, ParameterOps, Reshaping, Frontend!ParameterOps

(* The value of the operand.                                                *)
Operand(n, i) == OnnxValues(model)[n.input[i]]

LEMMA ConvertedComputes ==
    ASSUME SupportedModel, model \in Models, NEW k \in DOMAIN model.node,
           model.node[k].op_type \in DOMAIN Frontend!Converted,
           Frontend!Converted[model.node[k].op_type] \in KernelOps,
           NEW t \in Frontend!Outputs(model.node[k])
    PROVE  LET n == model.node[k]
               args == IF n.op_type \in ElementWiseOps THEN <<Operand(n, 1), Operand(n, 2)>>
                                                       ELSE <<Operand(n, 1)>>
           IN  OnnxValues(model)[t] = NodeValue(Frontend!Convert(n), args)
<1> DEFINE n == model.node[k]
           op == Frontend!Convert(n)
           args == IF n.op_type \in ElementWiseOps THEN <<Operand(n, 1), Operand(n, 2)>>
                                                   ELSE <<Operand(n, 1)>>
           values == [i \in Operands(n) |-> OnnxValues(model)[n.input[i]]]
<1>1. /\ n.attributes = "implemented" /\ n \in OnnxNodes /\ CheckedModel(model)
      /\ n.input \in Seq(Name) /\ DOMAIN n.input = 1 .. Len(n.input) /\ Len(n.input) \in Nat
    <2>1. model.node \in Seq(OnnxNodes) /\ CheckedModel(model)
        BY ModelTyped
    <2>2. n \in OnnxNodes
        BY <2>1
    <2>3. n.input \in Seq(Name)
        BY <2>2 DEF OnnxNodes
    <2> QED
        BY <2>1, <2>2, <2>3, SupportedNodes
<1>2. 1 \in DOMAIN n.input
    BY SupportedOperands
<1>3. /\ KernelFunction[Frontend!Converted[n.op_type]] = Function(n.op_type)
      /\ n.op_type \in Frontend!WeightOps \cup ElementWiseOps \cup Configured \cup UnaryOps
      /\ Frontend!Converted[n.op_type] \in ParameterOps <=> n.op_type \in Frontend!WeightOps
      /\ n.op_type \in Frontend!WeightOps => n.op_type \in Frontend!ParameterOps
      /\ n.op_type \notin Reshaping
      /\ Frontend!WeightOps \cap (ElementWiseOps \cup Configured \cup UnaryOps) = {}
      /\ ElementWiseOps \cap (Configured \cup UnaryOps) = {}
    BY ConvertedFunctions
<1>4. op.type = Frontend!Converted[n.op_type] /\ op.activation = None
    BY <1>1, ConvertTyped
<1>5. OnnxValues(model)[t] = Apply(Function(n.op_type), "implemented", values)
    <2>1. \E o \in DOMAIN n.output : n.output[o] = t
        BY DEF Frontend!Outputs
    <2>2. t = n.output[1]
        <3>1. n.op_type \notin Frontend!NoNodeOps
            BY DEF Frontend!Converted, Frontend!NoNodeOps, Frontend!PassThroughOps
        <3>2. Len(n.output) = 1
            BY <3>1 DEF SupportedModel, KernelsExist, Listed, NodesOf
        <3>3. n.output \in Seq(Name)
            BY <1>1 DEF OnnxNodes
        <3> HIDE DEF n
        <3> QED
            BY <2>1, <3>2, <3>3
    <2> QED
        BY <1>1, <1>2, <1>3, <2>1, <2>2, ComputedValue
<1>6. op.type # "Input" /\ op.type \in KernelOps
    BY <1>4, KernelOpsAre DEF IOOps
<1>7. NodeValue(op, args) = Apply(Function(n.op_type), "implemented",
          args \o IF op.type \in ParameterOps THEN <<Tensor(op.weight), Tensor(op.bias)>>
                                              ELSE <<>>)
    BY <1>3, <1>4, <1>6 DEF NodeValue, Layer
<1>8. CASE n.op_type \in Frontend!WeightOps
    <2>1. Len(n.input) = 3 /\ n.input[2] \in model.initializer /\ n.input[3] \in model.initializer
        <3>1. /\ Len(model.node[k].input) = 3
              /\ \A i \in {2, 3} : model.node[k].input[i] \in model.initializer
            BY <1>8 DEF SupportedModel, KernelsExist, NodesOf
        <3> QED
            BY <3>1
    <2>2. op.weight = n.input[2] /\ op.bias = n.input[3]
        BY <1>1, <1>3, <1>8, <2>1 DEF Frontend!Convert, Frontend!Initializer, Frontend!Op
    <2>3. Tensor(op.weight) = Operand(n, 2) /\ Tensor(op.bias) = Operand(n, 3)
        BY <2>1, <2>2, InputValue DEF Operand
    <2>4. values = <<Operand(n, 1), Operand(n, 2), Operand(n, 3)>>
        <3>1. Operands(n) = 1 .. 3
            BY <1>1, <1>3, <1>8, <2>1 DEF Operands
        <3>2. values = [i \in 1 .. 3 |-> Operand(n, i)]
            BY <3>1 DEF Operand
        <3> HIDE DEF values, n
        <3> QED
            BY <3>2
    <2>5. args = <<Operand(n, 1)>>
        BY <1>3, <1>8
    <2> HIDE DEF values, n, args, op
    <2>6. args \o <<Tensor(op.weight), Tensor(op.bias)>> = values
        BY <2>3, <2>4, <2>5, ArgumentLists
    <2> QED
        BY <1>3, <1>4, <1>5, <1>7, <1>8, <2>6 DEF n, op, args
<1>9. CASE n.op_type \in ElementWiseOps
    <2>1. Len(n.input) = 2
        BY <1>1, <1>9 DEF CheckedModel
    <2>2. values = <<Operand(n, 1), Operand(n, 2)>>
        <3>1. Operands(n) = 1 .. 2
            BY <1>1, <1>3, <1>9, <2>1 DEF Operands
        <3>2. values = [i \in 1 .. 2 |-> Operand(n, i)]
            BY <3>1 DEF Operand
        <3> HIDE DEF values, n
        <3> QED
            BY <3>2
    <2>3. args = <<Operand(n, 1), Operand(n, 2)>>
        BY <1>9
    <2> HIDE DEF values, n, args, op
    <2>4. args \o <<>> = values
        BY <2>2, <2>3, ArgumentLists
    <2> QED
        BY <1>3, <1>4, <1>5, <1>7, <1>9, <2>4 DEF n, op, args
<1>10. CASE n.op_type \in Configured \cup UnaryOps
    <2>1. Operands(n) = 1 .. 1
        BY <1>1, <1>10 DEF CheckedModel, Operands
    <2>2. values = <<Operand(n, 1)>>
        <3>1. values = [i \in 1 .. 1 |-> Operand(n, i)]
            BY <2>1 DEF Operand
        <3> HIDE DEF values, n
        <3> QED
            BY <3>1
    <2>3. args = <<Operand(n, 1)>>
        BY <1>3, <1>10
    <2> HIDE DEF values, n, args, op
    <2>4. args \o <<>> = values
        BY <2>2, <2>3, ArgumentLists
    <2> QED
        BY <1>3, <1>4, <1>5, <1>7, <1>10, <2>4 DEF n, op, args
<1> QED
    BY <1>3, <1>8, <1>9, <1>10

(* What node j is given when the nodes hold the values V.                   *)
Given(V, j, args) ==
    /\ args = [k \in DOMAIN nodes[j].inputs |-> args[k]]
    /\ \A k \in DOMAIN nodes[j].inputs : \A i \in Staying \cap Body :
         i < j /\ nodes[i].name = nodes[j].inputs[k] => args[k] = V[i]

Carries(V, j) == \E args : Given(V, j, args) /\ V[j] = NodeValue(nodes[j].op, args)

Carried(V) == \A j \in Staying : Carries(V, j)

(* What value_map knows, its node computes.                                 *)
ValueMapRight(V) ==
    \A t \in DOMAIN value_map : t \notin ShapeTensors =>
        \A j \in Body : nodes[j].name = value_map[t] => V[j] = OnnxValues(model)[t]

OutputsRight(V) ==
    \A j \in Backend!Outputs : V[j] = OnnxValues(model)[model.output[nodes[j].op.index + 1]]

(* The nodes have values, and the outputs those of the model.               *)
Computes ==
    \E V : /\ Carried(V)
           /\ phase = "traverse" => ValueMapRight(V)
           /\ phase \notin {"map_inputs", "traverse"} => OutputsRight(V)

OutputsComplete ==
    \A o \in DOMAIN model.output : \E j \in Backend!Outputs : nodes[j].op.index = o - 1

(* Each input of the model is at most one node, and they are numbered when  *)
(* the model has several.                                                   *)
InputsRead ==
    /\ \A j \in Backend!Inputs : nodes[j].op.index + 1 \in RealInputs
    /\ \A i, j \in Backend!Inputs : nodes[i].op.index = nodes[j].op.index => i = j
    /\ Cardinality(RealInputs) > 1 => \E i, j \in Backend!Inputs : i # j

(* No buffer of a kernel is taken for an input.                             *)
VarsOffInputs ==
    \A j \in Body : Sanitized(j) \in InputIdentifiers => nodes[j].op.type = "Input"

(* Layers have their weights and biases.                                    *)
LayersStored ==
    \A j \in DOMAIN nodes : nodes[j].op.type \in ParameterOps =>
        nodes[j].op.weight \in model.initializer /\ nodes[j].op.bias \in model.initializer

(* The list, besides Built.                                                 *)
Meant ==
    /\ LayersStored /\ VarsOffInputs /\ Computes
    /\ phase # "map_inputs" => InputsRead
    /\ phase \notin {"map_inputs", "traverse"} => OutputsComplete

LEMMA NamesOffInputs ==
    ASSUME SupportedModel, model \in Models, level \in Levels, NEW k \in Listed
    PROVE  Backend!SanitizeVariableName(Frontend!NodeName(model.node[k])) \notin InputIdentifiers
<1> DEFINE c == Cardinality(RealInputs)
           d == Cardinality(Listed)
<1>1. /\ c \in Nat /\ d \in Nat /\ 1 .. (c + d) \subseteq DOMAIN IRNames
      /\ \E r \in 1 .. d : AtRank(Listed, r) = k /\ IRNames[c + r] = Frontend!NodeName(model.node[k])
    BY NamesPlaced
<1>2. PICK r \in 1 .. d : IRNames[c + r] = Frontend!NodeName(model.node[k])
    BY <1>1
<1>3. \A i \in DOMAIN IRNames : Backend!SanitizeVariableName(IRNames[i]) \in InputIdentifiers => i <= c
    BY DEF SupportedModel, ClearNames
<1> HIDE DEF c, d
<1>4. c + r \in DOMAIN IRNames /\ ~ c + r <= c
    BY <1>1
<1> QED
    BY <1>2, <1>3, <1>4

LEMMA InputsMeant ==
    ASSUME Typed, SupportedModel, Frontend!MapInputs, level' = level
    PROVE  Meant'
<1> DEFINE K == RealInputs
           c == Cardinality(K)
           n == Len(model.input)
<1>1. /\ model \in Models /\ model.input \in Seq(Name) /\ level \in Levels
    BY ModelTyped DEF Typed
<1>2. /\ position' = 1 /\ model' = model /\ phase' = "traverse"
      /\ nodes' = SubList(ListedInputs, K)
      /\ DOMAIN value_map' = {model.input[i] : i \in K}
      /\ \A t \in DOMAIN value_map' : value_map'[t] = t
    BY MapInputsEffect
<1>3. n \in Nat /\ K \in SUBSET (1 .. n) /\ DOMAIN model.input = 1 .. n
    BY <1>1 DEF RealInputs
<1>4. \A i \in K : /\ ListedInputs[i].name = model.input[i]
                   /\ ListedInputs[i].inputs = <<>>
                   /\ ListedInputs[i].op.type = "Input"
                   /\ ListedInputs[i].op.index = i - 1
    <2> TAKE i \in K
    <2>1. ListedInputs[i] = Frontend!InputNode(i) /\ i \in DOMAIN model.input
        BY DEF RealInputs, ListedInputs
    <2>2. Lower(model.input[i]) = model.input[i]
        BY DEF SupportedModel, LowerCaseInputs
    <2>3. Frontend!InputNode(i).op.index = i - 1
        BY DEF Frontend!InputNode, Frontend!Node, Frontend!Op
    <2> QED
        BY <1>1, <2>1, <2>2, <2>3, InputNodeTyped
<1> HIDE DEF K, n
<1>5. /\ c \in Nat
      /\ \A r \in 1 .. c : AtRank(K, r) \in K
      /\ \A r, t \in 1 .. c : AtRank(K, r) = AtRank(K, t) => r = t
    BY <1>3, Ranks
<1>6. DOMAIN nodes' = 1 .. c /\ \A r \in 1 .. c : nodes'[r] = ListedInputs[AtRank(K, r)]
    BY <1>2 DEF SubList
<1> HIDE DEF c
<1>7. \A r \in 1 .. c : /\ nodes'[r].name = model.input[AtRank(K, r)]
                        /\ nodes'[r].inputs = <<>>
                        /\ nodes'[r].op.type = "Input"
                        /\ nodes'[r].op.index = AtRank(K, r) - 1
                        /\ nodes'[r].op.index + 1 = AtRank(K, r)
    <2> TAKE r \in 1 .. c
    <2>1. AtRank(K, r) \in K /\ AtRank(K, r) \in 1 .. n
        BY <1>3, <1>5
    <2>2. (AtRank(K, r) - 1) + 1 = AtRank(K, r)
        BY <1>3, <2>1
    <2> QED
        BY <1>4, <1>6, <2>1, <2>2
<1>8. Backend!Inputs' = 1 .. c /\ Backend!Outputs' = {} /\ Staying' = 1 .. c /\ Body' = 1 .. c
    BY <1>2, <1>6, <1>7 DEF Backend!Inputs, Backend!Outputs, Staying, Body
<1>9. (InputsRead)'
    <2>1. \A j \in 1 .. c : nodes'[j].op.index + 1 \in K
        BY <1>5, <1>7
    <2>2. \A i, j \in 1 .. c : nodes'[i].op.index = nodes'[j].op.index => i = j
        BY <1>3, <1>5, <1>7
    <2>3. c > 1 => \E i, j \in 1 .. c : i # j
        <3>1. c > 1 => 1 \in 1 .. c /\ 2 \in 1 .. c
            BY <1>5
        <3> QED
            BY <3>1
    <2> QED
        BY <1>2, <1>8, <2>1, <2>2, <2>3, ModelSame DEF InputsRead, c, K
<1>10. LayersStored' /\ VarsOffInputs'
    <2>1. "Input" \notin ParameterOps
        BY DEF ParameterOps
    <2> QED
        BY <1>6, <1>7, <1>8, <2>1 DEF LayersStored, VarsOffInputs
<1>11. Computes'
    <2>1. PICK V : V = [r \in 1 .. c |-> Tensor(model.input[AtRank(K, r)])]
        OBVIOUS
    <2>2. \A r \in 1 .. c : V[r] = Tensor(model.input[AtRank(K, r)])
        BY <2>1
    <2>3. (Carried(V))'
        <3> SUFFICES ASSUME NEW r \in 1 .. c PROVE (Carries(V, r))'
            BY <1>8 DEF Carried
        <3>1. (NodeValue(nodes[r].op, <<>>))' = Tensor(model.input[AtRank(K, r)])
            BY <1>2, <1>7 DEF NodeValue
        <3>2. (Given(V, r, <<>>))'
            BY <1>7 DEF Given
        <3> QED
            BY <2>2, <3>1, <3>2 DEF Carries
    <2>4. (ValueMapRight(V))'
        <3> SUFFICES ASSUME NEW t \in DOMAIN value_map', NEW r \in 1 .. c,
                            nodes'[r].name = value_map'[t]
                     PROVE  V[r] = OnnxValues(model)[t]
            BY <1>2, <1>8 DEF ValueMapRight
        <3>1. t = model.input[AtRank(K, r)]
            BY <1>2, <1>7
        <3>2. AtRank(K, r) \in DOMAIN model.input
            BY <1>3, <1>5
        <3>3. OnnxValues(model)[t] = Tensor(t)
            BY <1>1, <3>1, <3>2, InputValue
        <3> QED
            BY <2>2, <3>1, <3>3
    <2> QED
        BY <1>2, <2>3, <2>4 DEF Computes
<1> QED
    BY <1>2, <1>9, <1>10, <1>11 DEF Meant

LEMMA ResolvedPair ==
    ASSUME NEW n \in OnnxNodes, NEW map, DOMAIN n.input = 1 .. 2,
           n.input[1] \in DOMAIN map, n.input[2] \in DOMAIN map
    PROVE  Frontend!ResolvedInputs(n, map)[2] = map[n.input[2]]
<1> DEFINE K == {i \in DOMAIN n.input : n.input[i] \in DOMAIN map}
           s == [i \in DOMAIN n.input |-> map[n.input[i]]]
<1>1. Frontend!ResolvedInputs(n, map) = SubList(s, K)
    BY FrontendSubList DEF Frontend!ResolvedInputs
<1>2. K = 1 .. 2 /\ s[2] = map[n.input[2]]
    <2>1. \A i \in 1 .. 2 : i = 1 \/ i = 2
        OBVIOUS
    <2> QED
        BY <2>1
<1> HIDE DEF s
<1>3. Cardinality(1 .. 2) = 2
    <2>1. 1 .. 2 = {1} \cup {2}
        OBVIOUS
    <2>2. IsFiniteSet({1}) /\ Cardinality({1}) = 1
        BY FS_Singleton
    <2>3. Cardinality({1} \cup {2}) = Cardinality({1}) + 1
        BY <2>2, FS_AddElement
    <2> QED
        BY <2>1, <2>2, <2>3
<1> HIDE DEF K
<1>4. /\ \A r \in 1 .. 2 : AtRank(K, r) \in K
      /\ \A r, t \in 1 .. 2 : AtRank(K, r) < AtRank(K, t) => r < t
      /\ \A r, t \in 1 .. 2 : AtRank(K, r) = AtRank(K, t) => r = t
    <2>1. 2 \in Nat /\ K \in SUBSET (1 .. 2) /\ Cardinality(K) = 2
        BY <1>2, <1>3
    <2> QED
        BY <2>1, Ranks
<1>5. AtRank(K, 2) = 2
    <2>1. AtRank(K, 1) \in 1 .. 2 /\ AtRank(K, 2) \in 1 .. 2
        BY <1>2, <1>4
    <2>2. ~ AtRank(K, 2) < AtRank(K, 1) /\ AtRank(K, 1) # AtRank(K, 2)
        BY <1>4
    <2> HIDE <1>4
    <2> QED
        BY <2>1, <2>2
<1>6. SubList(s, K)[2] = s[AtRank(K, 2)]
    BY <1>2, <1>3 DEF SubList
<1> QED
    BY <1>1, <1>2, <1>5, <1>6

Suppliable == \A V, j : \E args : Given(V, j, args)

LEMMA GivenExists == IdentifiersApart => Suppliable
<1> SUFFICES ASSUME IdentifiersApart, NEW V, NEW j
             PROVE  \E args : Given(V, j, args)
    BY DEF Suppliable
<1> DEFINE args == [k \in DOMAIN nodes[j].inputs |->
                       V[CHOOSE i \in Body : nodes[i].name = nodes[j].inputs[k]]]
<1>1. args = [k \in DOMAIN nodes[j].inputs |-> args[k]]
    OBVIOUS
<1>2. ASSUME NEW k \in DOMAIN nodes[j].inputs, NEW i \in Body, nodes[i].name = nodes[j].inputs[k]
      PROVE  args[k] = V[i]
    <2> DEFINE h == CHOOSE l \in Body : nodes[l].name = nodes[j].inputs[k]
    <2>1. h \in Body /\ nodes[h].name = nodes[j].inputs[k]
        BY <1>2
    <2>2. h = i
        BY <1>2, <2>1, BodyNamesApart
    <2> QED
        BY <2>2
<1> HIDE DEF args
<1>3. Given(V, j, args)
    BY <1>1, <1>2 DEF Given
<1> QED
    BY <1>3

LEMMA GivenLists ==
    ASSUME NEW V, NEW j, NEW args, Given(V, j, args)
    PROVE  /\ DOMAIN args = DOMAIN nodes[j].inputs
           /\ DOMAIN nodes[j].inputs = 1 .. 1 => args = <<args[1]>>
           /\ DOMAIN nodes[j].inputs = 1 .. 2 => args = <<args[1], args[2]>>
<1>1. args = [k \in DOMAIN nodes[j].inputs |-> args[k]]
    BY DEF Given
<1>2. DOMAIN args = DOMAIN nodes[j].inputs
    BY <1>1
<1>3. ASSUME DOMAIN nodes[j].inputs = 1 .. 1 PROVE args = <<args[1]>>
    <2>1. args = [k \in 1 .. 1 |-> args[k]]
        BY <1>1, <1>3
    <2> QED
        BY <2>1
<1>4. ASSUME DOMAIN nodes[j].inputs = 1 .. 2 PROVE args = <<args[1], args[2]>>
    <2>1. args = [k \in 1 .. 2 |-> args[k]]
        BY <1>1, <1>4
    <2> QED
        BY <2>1
<1> QED
    BY <1>2, <1>3, <1>4

(* The node the walk lists computes what the converted node does.           *)
LEMMA NodeComputes ==
    ASSUME Typed, SupportedModel, Walked, Frontend!ParseNode, IdentifiersApart,
           Backend!Outputs = {},
           NEW V, ValueMapRight(V), NEW args,
           \A k \in DOMAIN nodes'[Len(nodes) + 1].inputs : \A i \in DOMAIN nodes :
               nodes[i].name = nodes'[Len(nodes) + 1].inputs[k] => args[k] = V[i],
           DOMAIN nodes'[Len(nodes) + 1].inputs = 1 .. 1 => args = <<args[1]>>,
           DOMAIN nodes'[Len(nodes) + 1].inputs = 1 .. 2 => args = <<args[1], args[2]>>,
           NEW t \in Frontend!Outputs(Frontend!Current)
    PROVE  OnnxValues(model)[t] = NodeValue(nodes'[Len(nodes) + 1].op, args)
<1> DEFINE n == Frontend!Current
           new == nodes'[Len(nodes) + 1]
           op == Frontend!Convert(n)
<1>1. /\ phase = "traverse"
      /\ DOMAIN value_map' = DOMAIN value_map \cup Frontend!Outputs(n)
      /\ \A u \in DOMAIN value_map' : value_map'[u] =
            IF u \in Frontend!Outputs(n) THEN Frontend!NodeName(n) ELSE value_map[u]
      /\ \A u \in DOMAIN value_map' : value_map'[u] \in Name
      /\ new.inputs = Frontend!ResolvedInputs(n, value_map')
    BY ParseNodeEffect
<1>2. /\ position \in Listed /\ n = model.node[position]
      /\ n.op_type \in DOMAIN Frontend!Converted /\ n.op_type \notin ShapeOps
      /\ n.input[1] \in DOMAIN value_map /\ n.input[1] \notin ShapeTensors
      /\ 1 \in DOMAIN n.input
      /\ new.op.type = Frontend!Converted[n.op_type]
      /\ new.op.type \in KernelOps \cup TransformOps
      /\ new.op.type \in KernelOps =>
           Len(new.inputs) = IF new.op.type \in ElementWiseOps THEN 2 ELSE 1
      /\ 1 \in DOMAIN new.inputs /\ new.inputs[1] = value_map[n.input[1]]
    BY ListedNode
<1>3. Frontend!Traversing
    BY DEF Frontend!ParseNode
<1>4. /\ position \in DOMAIN model.node /\ n \in OnnxNodes /\ model \in Models
      /\ DOMAIN new.inputs = 1 .. Len(new.inputs) /\ new.op = op
    <2>1. new.inputs \in Seq(Name)
        <3>1. n \in OnnxNodes
            BY <1>3, CurrentTyped
        <3> HIDE DEF n
        <3>2. Frontend!ResolvedInputs(n, value_map') \in Seq(Name)
            BY <1>1, <3>1, ResolvedTyped
        <3> QED
            BY <1>1, <3>2
    <2> QED
        BY <1>3, <2>1, CurrentTyped, ParsedOperator DEF Typed
<1>5. /\ \A u \in Frontend!Outputs(n) : u \notin Defined(model, position)
      /\ \A i \in DOMAIN n.input : n.input[i] \in Defined(model, position)
    BY <1>3, DefinedGrows
<1>6. /\ \A u \in DOMAIN value_map : \E j \in DOMAIN nodes : nodes[j].name = value_map[u]
      /\ DOMAIN nodes = Body
    BY DEF Walked, MapsToNodes, Body, Backend!Outputs
<1>7. ASSUME NEW i \in DOMAIN n.input, NEW k \in DOMAIN new.inputs,
             n.input[i] \in DOMAIN value_map, n.input[i] \notin ShapeTensors,
             new.inputs[k] = value_map[n.input[i]]
      PROVE  args[k] = Operand(n, i)
    <2>1. PICK j \in DOMAIN nodes : nodes[j].name = value_map[n.input[i]]
        BY <1>6, <1>7
    <2>2. V[j] = OnnxValues(model)[n.input[i]]
        BY <1>6, <1>7, <2>1 DEF ValueMapRight
    <2>3. args[k] = V[j]
        BY <1>7, <2>1
    <2> QED
        BY <2>2, <2>3 DEF Operand
<1>8. args[1] = Operand(n, 1)
    BY <1>2, <1>7
<1> HIDE DEF n, new, op
<1>9. CASE new.op.type \in TransformOps
    <2>1. n.op_type \in Reshaping
        BY <1>2, <1>9, ConvertedKernels DEF Reshaping
    <2>2. \E o \in DOMAIN n.output : n.output[o] = t
        BY DEF Frontend!Outputs, n
    <2>3. OnnxValues(model)[t] = Operand(n, 1)
        BY <1>2, <1>4, <2>1, <2>2, ReshapedValue DEF Operand
    <2>4. NodeValue(new.op, args) = args[1]
        BY <1>9, KernelOpsAre DEF NodeValue, TransformOps
    <2> QED
        BY <1>8, <2>3, <2>4 DEF new
<1>10. CASE new.op.type \in KernelOps
    <2>1. Frontend!Converted[n.op_type] \in KernelOps
          /\ (new.op.type \in ElementWiseOps <=> n.op_type \in ElementWiseOps)
        BY <1>2, <1>10, ConvertedKernels
    <2> DEFINE given == IF n.op_type \in ElementWiseOps THEN <<Operand(n, 1), Operand(n, 2)>>
                                                        ELSE <<Operand(n, 1)>>
    <2>2. OnnxValues(model)[t] = NodeValue(op, given)
        BY <1>2, <1>4, <2>1, ConvertedComputes DEF n, op
    <2>3. CASE n.op_type \in ElementWiseOps
        <3>1. DOMAIN new.inputs = 1 .. 2
            BY <1>2, <1>4, <1>10, <2>1, <2>3
        <3>2. /\ DOMAIN n.input = 1 .. 2
              /\ \A i \in 1 .. 2 : n.input[i] \in DOMAIN value_map
            BY <1>3, <2>3, OperandsKnown DEF n
        <3>3. n.input[2] \notin ShapeTensors
            <4>1. 2 \in DOMAIN model.node[position].input
                BY <1>2, <3>2
            <4> QED
                BY <1>2, <1>4, <2>3, <4>1 DEF SupportedModel, OperandsFlow, IsData
        <3>4. new.inputs[2] = value_map[n.input[2]]
            <4>1. n.input[1] \in DOMAIN value_map' /\ n.input[2] \in DOMAIN value_map'
                BY <1>1, <3>2
            <4>2. n.input[2] \notin Frontend!Outputs(n)
                BY <1>5, <3>2
            <4>3. Frontend!ResolvedInputs(n, value_map')[2] = value_map'[n.input[2]]
                BY <1>4, <3>2, <4>1, ResolvedPair
            <4> QED
                BY <1>1, <4>1, <4>2, <4>3
        <3>5. 2 \in 1 .. 2
            OBVIOUS
        <3>6. args[2] = Operand(n, 2)
            BY <1>7, <3>1, <3>2, <3>3, <3>4, <3>5
        <3>7. args = given
            BY <1>8, <2>3, <3>1, <3>6 DEF new
        <3> QED
            BY <1>4, <2>2, <3>7 DEF new
    <2>4. CASE n.op_type \notin ElementWiseOps
        <3>1. DOMAIN new.inputs = 1 .. 1
            BY <1>2, <1>4, <1>10, <2>1, <2>4
        <3>2. args = given
            BY <1>8, <2>4, <3>1 DEF new
        <3> QED
            BY <1>4, <2>2, <3>2 DEF new
    <2> QED
        BY <2>3, <2>4
<1> QED
    BY <1>2, <1>9, <1>10

LEMMA NodeMeant ==
    ASSUME Typed, SupportedModel, Walked, Frontend!ParseNode, level' = level,
           IdentifiersApart, IdentifiersApart', ListedSoFar, Meant
    PROVE  Meant'
<1> DEFINE n == Frontend!Current
           len == Len(nodes)
           new == nodes'[len + 1]
<1>1. /\ phase = "traverse" /\ phase' = phase /\ model' = model
      /\ DOMAIN value_map' = DOMAIN value_map \cup Frontend!Outputs(n)
      /\ \A t \in DOMAIN value_map' : value_map'[t] =
            IF t \in Frontend!Outputs(n) THEN Frontend!NodeName(n) ELSE value_map[t]
      /\ nodes' = Append(nodes, new) /\ nodes' \in Seq(Nodes)
      /\ new.name = Frontend!NodeName(n)
    BY ParseNodeEffect
<1>2. /\ position \in Listed /\ n = model.node[position]
      /\ n.op_type \in DOMAIN Frontend!Converted
      /\ new.op.type = Frontend!Converted[n.op_type]
      /\ new.op.type \in KernelOps \cup TransformOps
    BY ListedNode
<1>3. /\ model \in Models /\ level \in Levels /\ nodes \in Seq(Nodes)
      /\ position \in DOMAIN model.node /\ n \in OnnxNodes /\ n.output # <<>>
      /\ new.op = Frontend!Convert(n)
    <2>1. Frontend!Traversing
        BY DEF Frontend!ParseNode
    <2> QED
        BY <2>1, CurrentTyped, ParsedOperator DEF Typed
<1>4. /\ len \in Nat /\ DOMAIN nodes = 1 .. len /\ DOMAIN nodes' = 1 .. (len + 1)
      /\ \A j \in 1 .. len : nodes'[j] = nodes[j]
    <2> HIDE DEF new
    <2>1. /\ DOMAIN Append(nodes, new) = 1 .. (len + 1) /\ DOMAIN nodes = 1 .. len
          /\ len \in Nat /\ \A j \in 1 .. len : Append(nodes, new)[j] = nodes[j]
        BY <1>3
    <2> QED
        BY <1>1, <2>1
<1>0. PICK e : e = len + 1
    OBVIOUS
<1>5. new = nodes'[e] /\ e \in DOMAIN nodes' /\ e \notin DOMAIN nodes
      /\ \A j \in DOMAIN nodes : j < e /\ ~ e < j
    BY <1>0, <1>4
<1>6. /\ \A j \in DOMAIN nodes' : j = e \/ (j \in DOMAIN nodes /\ nodes'[j] = nodes[j])
      /\ \A j \in DOMAIN nodes : j \in DOMAIN nodes' /\ nodes'[j] = nodes[j]
    BY <1>0, <1>4
<1>7. Backend!Outputs = {} /\ Body = DOMAIN nodes /\ Staying = DOMAIN nodes
    BY <1>1 DEF ListedSoFar, Backend!Outputs, Body, Staying
<1>8. new.op.type \notin {"Input", "Output"}
    BY <1>2, KernelOpsAre DEF IOOps, TransformOps
<1>9. Backend!Inputs' = Backend!Inputs /\ Body' = DOMAIN nodes' /\ Staying' = DOMAIN nodes'
    <2> HIDE DEF new
    <2>1. \A j \in DOMAIN nodes : nodes[j].op.type # "Output"
        BY <1>7 DEF Backend!Outputs
    <2> QED
        BY <1>1, <1>5, <1>6, <1>8, <2>1 DEF Backend!Inputs, Body, Staying
<1>10. PICK V0 : Carried(V0) /\ ValueMapRight(V0)
    BY <1>1 DEF Meant, Computes
<1>11. PICK t0 : t0 \in Frontend!Outputs(n)
    <2>1. 1 \in DOMAIN n.output
        <3>1. n.output \in Seq(Name)
            BY <1>3 DEF OnnxNodes
        <3> HIDE DEF n
        <3> QED
            BY <1>3, <3>1
    <2> QED
        BY <2>1 DEF Frontend!Outputs
<1>12. PICK W : W = [j \in DOMAIN nodes' |-> IF j = e THEN OnnxValues(model)[t0] ELSE V0[j]]
    OBVIOUS
<1>13. W[e] = OnnxValues(model)[t0] /\ \A j \in DOMAIN nodes : W[j] = V0[j]
    BY <1>5, <1>6, <1>12
<1>14. PICK args : (Given(W, e, args))'
    <2>1. (IdentifiersApart => Suppliable)'
        BY GivenExists, PTL
    <2> QED
        BY <2>1 DEF Suppliable
<1>15. /\ DOMAIN new.inputs = 1 .. 1 => args = <<args[1]>>
       /\ DOMAIN new.inputs = 1 .. 2 => args = <<args[1], args[2]>>
    <2>1. args = [k \in DOMAIN new.inputs |-> args[k]]
        BY <1>5, <1>14 DEF Given
    <2> HIDE DEF new
    <2>2. ASSUME DOMAIN new.inputs = 1 .. 1 PROVE args = <<args[1]>>
        <3>1. args = [k \in 1 .. 1 |-> args[k]]
            BY <2>1, <2>2
        <3> QED
            BY <3>1
    <2>3. ASSUME DOMAIN new.inputs = 1 .. 2 PROVE args = <<args[1], args[2]>>
        <3>1. args = [k \in 1 .. 2 |-> args[k]]
            BY <2>1, <2>3
        <3> QED
            BY <3>1
    <2> QED
        BY <2>2, <2>3
<1>16. \A k \in DOMAIN new.inputs : \A i \in DOMAIN nodes :
          nodes[i].name = new.inputs[k] => args[k] = V0[i]
    <2> TAKE k \in DOMAIN new.inputs
    <2> TAKE i \in DOMAIN nodes
    <2> HAVE nodes[i].name = new.inputs[k]
    <2>1. i \in Staying' \cap Body' /\ i < e /\ nodes'[i].name = new.inputs[k] /\ k \in DOMAIN nodes'[e].inputs
        BY <1>5, <1>6, <1>9
    <2>2. args[k] = W[i]
        BY <1>5, <1>14, <2>1 DEF Given
    <2> QED
        BY <1>13, <2>2
<1>17. \A t \in Frontend!Outputs(n) : OnnxValues(model)[t] = NodeValue(new.op, args)
    BY <1>7, <1>10, <1>15, <1>16, NodeComputes
<1> HIDE DEF n, len, new
<1>18. (Carried(W))'
    <2> SUFFICES ASSUME NEW j \in DOMAIN nodes' PROVE (Carries(W, j))'
        BY <1>9 DEF Carried
    <2>1. CASE j = e
        <3>1. (NodeValue(nodes[e].op, args))' = NodeValue(new.op, args)
            BY <1>1, <1>5 DEF NodeValue
        <3>2. W[e] = (NodeValue(nodes[e].op, args))'
            BY <1>11, <1>13, <1>17, <3>1
        <3> QED
            BY <1>14, <2>1, <3>2 DEF Carries
    <2>2. CASE j \in DOMAIN nodes /\ nodes'[j] = nodes[j]
        <3>1. PICK a : Given(V0, j, a) /\ V0[j] = NodeValue(nodes[j].op, a)
            BY <1>7, <1>10, <2>2 DEF Carried, Carries
        <3>2. (NodeValue(nodes[j].op, a))' = NodeValue(nodes[j].op, a)
            BY <1>1, <2>2 DEF NodeValue
        <3>3. (Given(W, j, a))'
            <4>1. \A i \in DOMAIN nodes' : i < j => i \in DOMAIN nodes /\ nodes'[i] = nodes[i]
                BY <1>5, <1>6, <2>2
            <4>2. \A i \in DOMAIN nodes' : i < j => i \in Staying \cap Body /\ W[i] = V0[i]
                BY <1>7, <1>13, <4>1
            <4> QED
                BY <1>9, <2>2, <3>1, <4>1, <4>2 DEF Given
        <3> QED
            BY <1>13, <2>2, <3>1, <3>2, <3>3 DEF Carries
    <2> QED
        BY <1>6, <2>1, <2>2
<1>19. (ValueMapRight(W))'
    <2> SUFFICES ASSUME NEW t \in DOMAIN value_map', t \notin ShapeTensors,
                        NEW j \in DOMAIN nodes', nodes'[j].name = value_map'[t]
                 PROVE  W[j] = OnnxValues(model)[t]
        BY <1>1, <1>9, ModelSame DEF ValueMapRight
    <2>0. \A i \in DOMAIN nodes' : nodes'[i].name = nodes'[j].name => i = j
        <3> SUFFICES ASSUME NEW i \in DOMAIN nodes', nodes'[i].name = nodes'[j].name PROVE i = j
            OBVIOUS
        <3>1. (Sanitized(i))' = (Sanitized(j))'
            BY DEF Sanitized, Backend!SanitizeVariableName
        <3> QED
            BY <1>9, <3>1 DEF IdentifiersApart
    <2>1. CASE t \in Frontend!Outputs(n)
        <3>1. j = e
            BY <1>1, <1>5, <2>0, <2>1
        <3> QED
            BY <1>11, <1>13, <1>17, <2>1, <3>1
    <2>2. CASE t \notin Frontend!Outputs(n)
        <3>1. t \in DOMAIN value_map /\ value_map'[t] = value_map[t]
            BY <1>1, <2>2
        <3>2. PICK i \in DOMAIN nodes : nodes[i].name = value_map[t]
            BY <3>1 DEF Walked, MapsToNodes
        <3>3. i = j
            BY <1>6, <2>0, <3>1, <3>2
        <3>4. V0[i] = OnnxValues(model)[t]
            BY <1>7, <1>10, <3>1, <3>2 DEF ValueMapRight
        <3> QED
            BY <1>13, <3>3, <3>4
    <2> QED
        BY <2>1, <2>2
<1>20. LayersStored'
    <2> SUFFICES ASSUME NEW j \in DOMAIN nodes', nodes'[j].op.type \in ParameterOps
                 PROVE  /\ nodes'[j].op.weight \in model.initializer
                        /\ nodes'[j].op.bias \in model.initializer
        BY <1>1 DEF LayersStored
    <2>1. CASE j = e
        <3>1. n.op_type \in Frontend!WeightOps /\ n.op_type \in Frontend!ParameterOps
            <4>1. Frontend!Converted[n.op_type] \in KernelOps
                BY <1>2, <1>5, <2>1, KernelOpsAre DEF ParameterOps
            <4> QED
                BY <1>2, <1>5, <2>1, <4>1, ConvertedFunctions
        <3>2. Len(n.input) = 3 /\ n.input[2] \in model.initializer /\ n.input[3] \in model.initializer
            <4>1. /\ Len(model.node[position].input) = 3
                  /\ \A i \in {2, 3} : model.node[position].input[i] \in model.initializer
                BY <1>2, <1>3, <3>1 DEF SupportedModel, KernelsExist, NodesOf
            <4> QED
                BY <1>2, <4>1
        <3>3. DOMAIN n.input = 1 .. 3
            BY <1>3, <3>2 DEF OnnxNodes
        <3>4. new.op.weight = n.input[2] /\ new.op.bias = n.input[3]
            BY <1>3, <3>1, <3>2, <3>3 DEF Frontend!Convert, Frontend!Initializer, Frontend!Op
        <3> QED
            BY <1>5, <2>1, <3>2, <3>4
    <2>2. CASE j \in DOMAIN nodes /\ nodes'[j] = nodes[j]
        BY <2>2 DEF Meant, LayersStored
    <2> QED
        BY <1>6, <2>1, <2>2
<1>21. VarsOffInputs'
    <2> SUFFICES ASSUME NEW j \in DOMAIN nodes', (Sanitized(j))' \in InputIdentifiers
                 PROVE  nodes'[j].op.type = "Input"
        <3>1. InputIdentifiers' = InputIdentifiers
            BY <1>1 DEF InputIdentifiers, RealInputs
        <3> QED
            BY <1>9, <3>1 DEF VarsOffInputs
    <2>1. (Sanitized(j))' = Backend!SanitizeVariableName(nodes'[j].name)
        BY DEF Sanitized, Backend!SanitizeVariableName
    <2>2. CASE j = e
        <3>1. (Sanitized(j))' = Backend!SanitizeVariableName(Frontend!NodeName(model.node[position]))
            BY <1>1, <1>2, <1>5, <2>1, <2>2
        <3> QED
            BY <1>2, <1>3, <3>1, NamesOffInputs
    <2>3. CASE j \in DOMAIN nodes /\ nodes'[j] = nodes[j]
        BY <1>7, <2>1, <2>3 DEF Meant, VarsOffInputs, Sanitized
    <2> QED
        BY <1>6, <2>2, <2>3
<1>22. InputsRead'
    <2>1. InputsRead
        BY <1>1 DEF Meant
    <2>2. \A j \in Backend!Inputs : j \in DOMAIN nodes /\ nodes'[j] = nodes[j]
        BY <1>6 DEF Backend!Inputs
    <2> QED
        BY <1>1, <1>9, <2>1, <2>2, ModelSame DEF InputsRead
<1> QED
    BY <1>1, <1>18, <1>19, <1>20, <1>21, <1>22 DEF Meant, Computes

(* A step that leaves the list alone.                                       *)
LEMMA MeantSame ==
    ASSUME nodes' = nodes, model' = model, Staying' = Staying
    PROVE  /\ \A V : Carried(V) => (Carried(V))'
           /\ \A V : OutputsRight(V) => (OutputsRight(V))'
           /\ LayersStored => LayersStored' /\ (VarsOffInputs => VarsOffInputs')
           /\ InputsRead => InputsRead'
           /\ OutputsComplete => OutputsComplete'
<1>1. /\ Body' = Body /\ Backend!Inputs' = Backend!Inputs /\ Backend!Outputs' = Backend!Outputs
      /\ RealInputs' = RealInputs /\ InputIdentifiers' = InputIdentifiers
    BY DEF Body, Backend!Inputs, Backend!Outputs, RealInputs, InputIdentifiers
<1>2. ASSUME NEW V, Carried(V) PROVE (Carried(V))'
    <2> SUFFICES ASSUME NEW j \in Staying PROVE (Carries(V, j))'
        BY DEF Carried
    <2>1. PICK args : Given(V, j, args) /\ V[j] = NodeValue(nodes[j].op, args)
        BY <1>2 DEF Carried, Carries
    <2>2. (Given(V, j, args))'
        BY <1>1, <2>1 DEF Given
    <2>3. (NodeValue(nodes[j].op, args))' = NodeValue(nodes[j].op, args)
        BY DEF NodeValue
    <2> QED
        BY <2>1, <2>2, <2>3 DEF Carries
<1>3. \A V : OutputsRight(V) => (OutputsRight(V))'
    BY <1>1 DEF OutputsRight
<1>4. LayersStored => LayersStored'
    BY DEF LayersStored
<1>5. VarsOffInputs => VarsOffInputs'
    <2>1. \A j : (Sanitized(j))' = Sanitized(j)
        BY CallsSame
    <2> QED
        BY <1>1, <2>1 DEF VarsOffInputs
<1>6. (InputsRead => InputsRead') /\ (OutputsComplete => OutputsComplete')
    BY <1>1 DEF InputsRead, OutputsComplete
<1> QED
    BY <1>2, <1>3, <1>4, <1>5, <1>6

LEMMA PassMeant ==
    ASSUME Typed, SupportedModel, Walked, Frontend!PassThrough, level' = level, Meant
    PROVE  Meant'
<1> DEFINE n == Frontend!Current
<1>1. /\ phase = "traverse" /\ phase' = phase /\ model' = model /\ nodes' = nodes
      /\ n.op_type \in Frontend!NoNodeOps
    BY PassThroughEffect
<1>2. Frontend!Traversing
    BY DEF Frontend!PassThrough
<1>3. /\ position \in DOMAIN model.node /\ n = model.node[position]
      /\ 1 \in DOMAIN n.input
      /\ n.op_type \notin ShapeOps =>
           n.input[1] \in DOMAIN value_map /\ n.input[1] \notin ShapeTensors
    BY <1>2, OperandsKnown
<1>4. n.op_type # "CustomOperator" /\ model \in Models
    BY <1>3, SupportedNodes DEF Typed
<1>5. n.op_type \in ShapeOps \/ n.op_type \in Reshaping
    BY <1>1, <1>4 DEF Frontend!NoNodeOps, ShapeOps
<1>6. n.op_type \notin ShapeOps =>
         \A t \in DOMAIN value_map' : value_map'[t] =
            IF t \in Frontend!Outputs(n) THEN value_map[n.input[1]] ELSE value_map[t]
    <2>1. n.op_type \notin ShapeOps => 1 \in Frontend!KnownOperands(n)
        BY <1>3 DEF Frontend!KnownOperands
    <2> QED
        BY <1>4, <2>1, PassThroughFirst
<1>7. \A t \in DOMAIN value_map' : t \notin Frontend!Outputs(n) =>
         t \in DOMAIN value_map /\ value_map'[t] = value_map[t]
    BY PassThroughEffect
<1>8. Staying' = Staying /\ Body' = Body
    BY <1>1 DEF Staying, Body
<1>9. PICK V : Carried(V) /\ ValueMapRight(V)
    BY <1>1 DEF Meant, Computes
<1>10. (Carried(V))' /\ LayersStored' /\ VarsOffInputs' /\ InputsRead'
    BY <1>1, <1>8, <1>9, MeantSame DEF Meant
<1> HIDE DEF n
<1>11. (ValueMapRight(V))'
    <2> SUFFICES ASSUME NEW t \in DOMAIN value_map', t \notin ShapeTensors,
                        NEW j \in Body, nodes[j].name = value_map'[t]
                 PROVE  V[j] = OnnxValues(model)[t]
        BY <1>1, <1>8, ModelSame DEF ValueMapRight
    <2>1. CASE t \notin Frontend!Outputs(n)
        BY <1>7, <1>9, <2>1 DEF ValueMapRight
    <2>2. CASE t \in Frontend!Outputs(n)
        <3>1. n.op_type \notin ShapeOps
            BY <1>3, <2>2 DEF ShapeTensors, NodesOf
        <3>2. \E o \in DOMAIN n.output : n.output[o] = t
            BY <2>2 DEF Frontend!Outputs
        <3>3. OnnxValues(model)[t] = OnnxValues(model)[n.input[1]]
            BY <1>3, <1>4, <1>5, <3>1, <3>2, ReshapedValue
        <3>4. V[j] = OnnxValues(model)[n.input[1]]
            BY <1>3, <1>6, <1>9, <2>2, <3>1 DEF ValueMapRight
        <3> QED
            BY <3>3, <3>4
    <2> QED
        BY <2>1, <2>2
<1> QED
    BY <1>1, <1>10, <1>11 DEF Meant, Computes

LEMMA OutputsMeant ==
    ASSUME Typed, SupportedModel, Walked, Frontend!MapOutputs, level' = level,
           ListedSoFar, Meant
    PROVE  Meant'
<1> DEFINE len == Len(nodes)
           outs == Len(model.output)
           parent(o) == Frontend!ResolveInputName(model.output[o])
<1>1. /\ phase = "traverse" /\ phase' = "optimize" /\ position > Len(model.node)
      /\ model' = model /\ value_map' = value_map
      /\ nodes' = nodes \o ListedOutputs /\ ListedOutputs \in Seq(Nodes) /\ nodes' \in Seq(Nodes)
    BY MapOutputsEffect
<1>2. /\ model \in Models /\ nodes \in Seq(Nodes) /\ position \in Nat
      /\ model.output \in Seq(Name) /\ model.node \in Seq(OnnxNodes) /\ CheckedModel(model)
    BY ModelTyped DEF Typed
<1>3. /\ MapsToNodes /\ NothingForgotten /\ position = Len(model.node) + 1
    BY <1>1, <1>2 DEF Walked
<1>5. /\ len \in Nat /\ DOMAIN nodes = 1 .. len
      /\ outs \in Nat /\ DOMAIN model.output = 1 .. outs
    BY <1>2
<1>6. Len(ListedOutputs) = outs
    BY <1>1, <1>5, LenProperties DEF ListedOutputs
<1>7. /\ DOMAIN nodes' = 1 .. (len + outs)
      /\ \A j \in 1 .. len : nodes'[j] = nodes[j]
      /\ \A o \in 1 .. outs : nodes'[len + o] = ListedOutputs[o]
    <2> DEFINE both == nodes \o ListedOutputs
    <2>1. /\ both \in Seq(Nodes) /\ Len(both) = Len(nodes) + Len(ListedOutputs)
          /\ \A j \in 1 .. Len(nodes) : both[j] = nodes[j]
          /\ \A o \in 1 .. Len(ListedOutputs) : both[Len(nodes) + o] = ListedOutputs[o]
        BY <1>1, <1>2, Joined
    <2> HIDE DEF both
    <2>2. nodes' = both
        BY <1>1 DEF both
    <2>3. DOMAIN both = 1 .. (len + outs)
        BY <1>6, <2>1, LenProperties
    <2> QED
        BY <1>6, <2>1, <2>2, <2>3
<1>8. \A o \in 1 .. outs : LET new == nodes'[len + o]
                           IN  /\ new.inputs = <<parent(o)>>
                               /\ new.op.type = "Output" /\ new.op.index = o - 1
    <2> TAKE o \in 1 .. outs
    <2>1. nodes'[len + o] = Frontend!OutputNode(o) /\ o \in DOMAIN model.output
        BY <1>5, <1>7 DEF ListedOutputs
    <2> QED
        BY <2>1, OutputNodeTyped, IOParameters
<1>9. \A o \in 1 .. outs :
          /\ model.output[o] \in DOMAIN value_map /\ parent(o) = value_map[model.output[o]]
          /\ model.output[o] \notin ShapeTensors
    <2> TAKE o \in 1 .. outs
    <2>1. model.output[o] \in Defined(model, position)
        BY <1>2, <1>3, <1>5 DEF CheckedModel
    <2>2. model.output[o] \notin ShapeTensors \cup model.initializer
        BY <1>5 DEF SupportedModel, OutputsComputed
    <2>3. model.output[o] \in DOMAIN value_map
        BY <1>3, <2>1, <2>2 DEF NothingForgotten
    <2> QED
        BY <2>2, <2>3 DEF Frontend!ResolveInputName
<1> HIDE DEF len, outs, parent
<1>13. \A j \in DOMAIN nodes' : \/ j \in 1 .. len /\ j \in DOMAIN nodes /\ nodes'[j] = nodes[j]
                                \/ \E o \in 1 .. outs : j = len + o
    <2> TAKE j \in DOMAIN nodes'
    <2>1. CASE j \in 1 .. len
        BY <1>5, <1>7, <2>1
    <2>2. CASE j \notin 1 .. len
        <3>1. j - len \in 1 .. outs /\ j = len + (j - len)
            BY <1>5, <1>7, <2>2
        <3> QED
            BY <3>1
    <2> QED
        BY <2>1, <2>2
<1>14. \A j \in DOMAIN nodes : j \in DOMAIN nodes' /\ nodes'[j] = nodes[j]
    BY <1>5, <1>7
<1>15. \A o \in 1 .. outs : len + o \in DOMAIN nodes' /\ len + o \notin DOMAIN nodes
    BY <1>5, <1>7
<1>16. \A j \in DOMAIN nodes : nodes[j].op.type # "Output"
    BY DEF ListedSoFar, Backend!Outputs
<1>17. Body = DOMAIN nodes /\ Staying = DOMAIN nodes /\ Body' = DOMAIN nodes /\ Staying' = DOMAIN nodes'
    <2>1. Body = DOMAIN nodes /\ Staying = DOMAIN nodes /\ Staying' = DOMAIN nodes'
        BY <1>1, <1>16 DEF Body, Staying
    <2>2. \A j \in DOMAIN nodes' : nodes'[j].op.type # "Output" <=> j \in DOMAIN nodes
        BY <1>8, <1>13, <1>15, <1>16
    <2> QED
        BY <1>14, <2>1, <2>2 DEF Body
<1>18. Backend!Inputs' = Backend!Inputs /\ Backend!Outputs' = {len + o : o \in 1 .. outs}
    BY <1>8, <1>13, <1>14, <1>15, <1>16 DEF Backend!Inputs, Backend!Outputs
<1>19. PICK V : Carried(V) /\ ValueMapRight(V)
    BY <1>1 DEF Meant, Computes
<1>20. PICK W : W = [j \in DOMAIN nodes' |-> IF j \in DOMAIN nodes THEN V[j]
                        ELSE OnnxValues(model)[model.output[nodes'[j].op.index + 1]]]
    OBVIOUS
<1>21. \A j \in DOMAIN nodes : W[j] = V[j]
    BY <1>14, <1>20
<1>22. \A o \in 1 .. outs : W[len + o] = OnnxValues(model)[model.output[o]]
    <2> TAKE o \in 1 .. outs
    <2>1. nodes'[len + o].op.index + 1 = o
        BY <1>8
    <2> QED
        BY <1>15, <1>20, <2>1
<1>23. (Carried(W))'
    <2> SUFFICES ASSUME NEW j \in DOMAIN nodes' PROVE (Carries(W, j))'
        BY <1>17 DEF Carried
    <2>1. CASE \E o \in 1 .. outs : j = len + o
        <3>1. PICK o \in 1 .. outs : j = len + o
            BY <2>1
        <3>2. PICK args : args = <<OnnxValues(model)[model.output[o]]>>
            OBVIOUS
        <3>3. nodes'[j].inputs = <<parent(o)>> /\ nodes'[j].op.type = "Output"
            BY <1>8, <3>1
        <3>4. (Given(W, j, args))'
            <4>1. DOMAIN nodes'[j].inputs = 1 .. 1 /\ nodes'[j].inputs[1] = value_map[model.output[o]]
                BY <1>9, <3>3
            <4>2. args = [k \in DOMAIN nodes'[j].inputs |-> args[k]]
                BY <3>2, <4>1
            <4>3. \A i \in DOMAIN nodes : nodes'[i].name = value_map[model.output[o]] => args[1] = W[i]
                BY <1>9, <1>14, <1>17, <1>19, <1>21, <3>2 DEF ValueMapRight
            <4>4. \A k \in DOMAIN nodes'[j].inputs : k = 1
                BY <4>1
            <4> QED
                BY <1>17, <4>1, <4>2, <4>3, <4>4 DEF Given
        <3>5. (NodeValue(nodes[j].op, args))' = args[1]
            BY <3>3, KernelOpsAre DEF NodeValue, IOOps
        <3>6. W[j] = args[1]
            BY <1>22, <3>1, <3>2
        <3> QED
            BY <3>4, <3>5, <3>6 DEF Carries
    <2>2. CASE j \in DOMAIN nodes /\ nodes'[j] = nodes[j]
        <3>1. PICK a : Given(V, j, a) /\ V[j] = NodeValue(nodes[j].op, a)
            BY <1>17, <1>19, <2>2 DEF Carried, Carries
        <3>2. (NodeValue(nodes[j].op, a))' = NodeValue(nodes[j].op, a)
            BY <1>1, <2>2 DEF NodeValue
        <3>3. (Given(W, j, a))'
            <4>1. Staying' \cap Body' = DOMAIN nodes /\ Staying \cap Body = DOMAIN nodes
                BY <1>14, <1>17
            <4> QED
                BY <1>14, <1>21, <2>2, <3>1, <4>1 DEF Given
        <3> QED
            BY <1>21, <2>2, <3>1, <3>2, <3>3 DEF Carries
    <2> QED
        BY <1>13, <2>1, <2>2
<1>24. (OutputsRight(W))'
    <2> SUFFICES ASSUME NEW j \in Backend!Outputs'
                 PROVE  W[j] = OnnxValues(model)[model.output[nodes'[j].op.index + 1]]
        BY <1>1 DEF OutputsRight
    <2>1. PICK o \in 1 .. outs : j = len + o
        BY <1>18
    <2>2. nodes'[j].op.index + 1 = o
        BY <1>8, <2>1
    <2> QED
        BY <1>22, <2>1, <2>2
<1>25. OutputsComplete'
    BY <1>1, <1>5, <1>8, <1>18 DEF OutputsComplete
<1>26. LayersStored'
    <2> SUFFICES ASSUME NEW j \in DOMAIN nodes', nodes'[j].op.type \in ParameterOps
                 PROVE  /\ nodes'[j].op.weight \in model.initializer
                        /\ nodes'[j].op.bias \in model.initializer
        BY <1>1 DEF LayersStored
    <2>1. j \in DOMAIN nodes /\ nodes'[j] = nodes[j]
        BY <1>8, <1>13 DEF ParameterOps
    <2> QED
        BY <2>1 DEF Meant, LayersStored
<1>27. VarsOffInputs' /\ InputsRead'
    <2>1. InputIdentifiers' = InputIdentifiers /\ RealInputs' = RealInputs
        BY <1>1 DEF InputIdentifiers, RealInputs
    <2>2. \A j \in DOMAIN nodes : (Sanitized(j))' = Sanitized(j)
        <3>1. \A j : (Sanitized(j))' = Backend!SanitizeVariableName(nodes'[j].name)
            BY DEF Sanitized, Backend!SanitizeVariableName
        <3> QED
            BY <1>14, <3>1 DEF Sanitized
    <2>3. VarsOffInputs'
        BY <1>14, <1>17, <2>1, <2>2 DEF Meant, VarsOffInputs
    <2>4. InputsRead
        BY <1>1 DEF Meant
    <2>5. \A j \in Backend!Inputs : j \in DOMAIN nodes /\ nodes'[j] = nodes[j]
        BY <1>14 DEF Backend!Inputs
    <2> QED
        BY <1>18, <2>1, <2>3, <2>4, <2>5 DEF InputsRead
<1> QED
    BY <1>1, <1>23, <1>24, <1>25, <1>26, <1>27 DEF Meant, Computes

-----------------------------------------------------------------------------
(* Fusion keeps what is computed                                            *)

(* What the nodes were given and computed, they are given and compute when  *)
(* an activation has become part of its producer.                           *)
LEMMA FuseCarries ==
    ASSUME nodes \in Seq(Nodes), WellOperated, AdditionsStandAlone, level > 0,
           IdentifiersUnextended, Connected, model' = model,
           \A i, j \in DOMAIN nodes : nodes[i].name = nodes[j].name => i = j,
           NEW p \in DOMAIN nodes, NEW c \in DOMAIN nodes, FusedInto(p, c),
           NEW V, Carried(V)
    PROVE  \E W : (Carried(W))' /\ \A j \in DOMAIN nodes : j # p => W[j] = V[j]
<1> DEFINE new == NewName(p, c)
<1>1. /\ DOMAIN nodes' = DOMAIN nodes
      /\ \A j \in DOMAIN nodes :
           /\ nodes'[j].name = IF j = p THEN new ELSE nodes[j].name
           /\ nodes'[j].op.type = nodes[j].op.type
           /\ nodes'[j].op.activation = IF j = p THEN nodes[c].op.type ELSE nodes[j].op.activation
           /\ nodes'[j].op.index = nodes[j].op.index
           /\ nodes'[j].op.weight = nodes[j].op.weight
           /\ nodes'[j].op.bias = nodes[j].op.bias
           /\ DOMAIN nodes'[j].inputs = DOMAIN nodes[j].inputs
           /\ \A k \in DOMAIN nodes[j].inputs :
                nodes'[j].inputs[k] = IF j # c /\ nodes[j].inputs[k] = nodes[c].name
                                      THEN new ELSE nodes[j].inputs[k]
      /\ Staying' = Staying \ {c}
      /\ \A k \in DOMAIN nodes[c].inputs : nodes[c].inputs[k] = nodes[p].name
      /\ p \in Staying /\ c \in Staying /\ p # c
      /\ nodes[p].op.activation = None
      /\ nodes[c].op.type \in ActivationOps
    BY DEF FusedInto
<1>2. nodes[p].op.type \in ParameterOps /\ nodes[c].op.type \in KernelOps
    BY FusedOperators DEF ParameterOps
<1>3. Body' = Body /\ Body \subseteq DOMAIN nodes /\ Staying \subseteq DOMAIN nodes
      /\ DOMAIN nodes \subseteq Nat /\ p \in Body /\ c \in Body
    <2>1. nodes[p].op.type # "Output" /\ nodes[c].op.type # "Output"
        BY <1>1, <1>2 DEF ParameterOps, ActivationOps
    <2> QED
        BY <1>1, <2>1 DEF Body, Staying
<1>4. \A i \in Body : nodes[i].name # new
    <2> SUFFICES ASSUME NEW i \in Body, nodes[i].name = new PROVE FALSE
        OBVIOUS
    <2> DEFINE w == LowerWord[nodes[c].op.type]
    <2>1. w \in Word /\ Identifier[w] = <<w>> /\ w \notin Digit
        BY <1>1, WordAssumption, NameAssumption
    <2>2. nodes[p].name \in Name
        <3>1. nodes[p] \in Nodes
            OBVIOUS
        <3> QED
            BY <3>1 DEF Nodes
    <2>3. nodes[i].name = Append(nodes[p].name, w)
        BY DEF NewName
    <2> HIDE DEF w, new
    <2>4. Sanitized(i) = Append(Sanitized(p), w)
        BY <2>1, <2>2, <2>3, IdentifierAppends DEF Sanitized
    <2> QED
        BY <1>1, <1>3, <2>1, <2>4 DEF IdentifiersUnextended
<1>5. 1 \in DOMAIN nodes[c].inputs /\ Len(nodes[c].inputs) = 1
    <2>1. nodes[c].op.type \notin ElementWiseOps \cup {"Input"}
        BY <1>1 DEF ActivationOps, ElementWiseOps
    <2> QED
        BY <1>2, <2>1 DEF WellOperated
<1>6. p < c /\ nodes[c].inputs[1] = nodes[p].name
    <2>1. nodes[c].inputs[1] = nodes[p].name
        BY <1>1, <1>5
    <2>2. PICK i \in Staying \cap Body : i < c /\ nodes[i].name = nodes[c].inputs[1]
        BY <1>1, <1>5 DEF Connected
    <2>3. i = p
        BY <1>3, <2>1, <2>2
    <2> QED
        BY <2>1, <2>2, <2>3
<1>8. PICK X : X = [j \in DOMAIN nodes |-> IF j = p THEN V[c] ELSE V[j]]
    OBVIOUS
<1>9. X[p] = V[c] /\ \A j \in DOMAIN nodes : j # p => X[j] = V[j]
    BY <1>8
<1> HIDE DEF new
<1>10. ASSUME NEW j \in Staying', NEW args, Given(V, j, args)
       PROVE  (Given(X, j, args))'
    <2>1. j \in Staying /\ j # c /\ j \in DOMAIN nodes
        BY <1>1, <1>3
    <2>2. args = [k \in DOMAIN nodes'[j].inputs |-> args[k]]
        BY <1>1, <1>10, <2>1 DEF Given
    <2>3. ASSUME NEW k \in DOMAIN nodes'[j].inputs, NEW i \in Staying' \cap Body',
                 i < j, nodes'[i].name = nodes'[j].inputs[k]
          PROVE  args[k] = X[i]
        <3>1. k \in DOMAIN nodes[j].inputs /\ i \in Staying \cap Body /\ i \in DOMAIN nodes
            BY <1>1, <1>3, <2>1, <2>3
        <3>2. PICK o \in Staying \cap Body : o < j /\ nodes[o].name = nodes[j].inputs[k]
            BY <2>1, <3>1 DEF Connected
        <3>3. args[k] = V[o]
            BY <1>10, <3>1, <3>2 DEF Given
        <3>4. o \in DOMAIN nodes /\ nodes[j].inputs[k] # new
            BY <1>3, <1>4, <3>2
        <3>5. CASE i = p
            <4>1. nodes'[j].inputs[k] = new
                BY <1>1, <2>3, <3>5
            <4>2. nodes[j].inputs[k] = nodes[c].name
                BY <1>1, <2>1, <3>1, <3>4, <4>1
            <4>3. o = c
                BY <3>2, <3>4, <4>2
            <4> QED
                BY <1>9, <3>3, <3>5, <4>3
        <3>6. CASE i # p
            <4>1. nodes'[i].name = nodes[i].name /\ nodes[i].name # new
                BY <1>1, <1>4, <3>1, <3>6
            <4>2. nodes'[j].inputs[k] = nodes[j].inputs[k]
                BY <1>1, <2>1, <2>3, <3>1, <4>1
            <4>3. o = i
                BY <2>3, <3>1, <3>2, <3>4, <4>1, <4>2
            <4> QED
                BY <1>9, <3>1, <3>3, <3>6, <4>3
        <3> QED
            BY <3>5, <3>6
    <2> QED
        BY <2>2, <2>3 DEF Given
<1>11. ASSUME NEW j \in Staying', j # p PROVE (Carries(X, j))'
    <2>1. j \in Staying /\ j \in DOMAIN nodes
        BY <1>1, <1>3
    <2>2. PICK args : Given(V, j, args) /\ V[j] = NodeValue(nodes[j].op, args)
        BY <2>1 DEF Carried, Carries
    <2>3. (Given(X, j, args))'
        BY <1>10, <2>2
    <2>4. /\ nodes'[j].op.type = nodes[j].op.type /\ nodes'[j].op.index = nodes[j].op.index
          /\ nodes'[j].op.activation = nodes[j].op.activation
          /\ nodes'[j].op.weight = nodes[j].op.weight /\ nodes'[j].op.bias = nodes[j].op.bias
        BY <1>1, <1>11, <2>1
    <2>5. (NodeValue(nodes[j].op, args))' = NodeValue(nodes[j].op, args)
        BY <2>4 DEF NodeValue, Layer, KernelOps
    <2> QED
        BY <1>9, <1>11, <2>1, <2>2, <2>3, <2>5 DEF Carries
<1>12. (Carries(X, p))'
    <2>1. PICK args : Given(V, p, args) /\ V[p] = NodeValue(nodes[p].op, args)
        BY <1>1 DEF Carried, Carries
    <2>2. PICK acts : Given(V, c, acts) /\ V[c] = NodeValue(nodes[c].op, acts)
        BY <1>1 DEF Carried, Carries
    <2>3. (Given(X, p, args))'
        BY <1>1, <1>10, <2>1
    <2>4. acts = <<V[p]>>
        <3>1. DOMAIN nodes[c].inputs = 1 .. 1
            <4>1. nodes[c] \in Nodes
                OBVIOUS
            <4>2. nodes[c].inputs \in Seq(Name)
                BY <4>1 DEF Nodes
            <4> QED
                BY <1>5, <4>2
        <3>2. acts = [k \in 1 .. 1 |-> acts[k]] /\ acts[1] = V[p]
            BY <1>1, <1>3, <1>6, <2>2, <3>1 DEF Given
        <3> QED
            BY <3>2
    <2>5. V[p] = Layer(nodes[p].op, args)
        BY <1>1, <1>2, <2>1, KernelOpsAre, FusedOperators DEF NodeValue, ParameterOps, IOOps
    <2>6. V[c] = Apply(KernelFunction[nodes[c].op.type], "implemented", acts)
        <3>1. nodes[c].op.type # "Input" /\ nodes[c].op.type \notin ParameterOps
            BY <1>1 DEF ActivationOps, ParameterOps
        <3>2. nodes[c].op.activation = None
            BY <3>1 DEF WellOperated, ParameterOps
        <3>3. V[c] = Layer(nodes[c].op, acts)
            BY <1>2, <2>2, <3>1, <3>2 DEF NodeValue
        <3>4. acts \o <<>> = acts
            BY <2>4, ArgumentLists
        <3> QED
            BY <3>1, <3>3, <3>4 DEF Layer
    <2>7. (NodeValue(nodes[p].op, args))' =
             Apply(KernelFunction[nodes[c].op.type], "implemented", <<Layer(nodes[p].op, args)>>)
        <3>1. /\ nodes'[p].op.type = nodes[p].op.type
              /\ nodes'[p].op.activation = nodes[c].op.type
              /\ nodes'[p].op.weight = nodes[p].op.weight /\ nodes'[p].op.bias = nodes[p].op.bias
            BY <1>1
        <3>2. nodes[p].op.type # "Input" /\ nodes[p].op.type \in KernelOps
              /\ nodes[c].op.type # None
            BY <1>1, <1>2, FusedOperators, NoneAssumption, KernelOpsAre DEF ParameterOps, IOOps
        <3>3. (Layer(nodes[p].op, args))' = Layer(nodes[p].op, args)
            BY <3>1 DEF Layer
        <3> QED
            BY <3>1, <3>2, <3>3 DEF NodeValue, KernelOps
    <2> QED
        BY <1>9, <2>3, <2>4, <2>5, <2>6, <2>7 DEF Carries
<1>13. (Carried(X))'
    BY <1>11, <1>12 DEF Carried
<1> QED
    BY <1>9, <1>13

LEMMA FuseMeant ==
    ASSUME Typed, WellOperated, AdditionsStandAlone, level > 0,
           IdentifiersUnextended, Connected, model' = model, phase = "kernel_fusion", phase' = phase,
           \A i, j \in DOMAIN nodes : nodes[i].name = nodes[j].name => i = j,
           NEW p \in DOMAIN nodes, NEW c \in DOMAIN nodes, FusedInto(p, c), Meant
    PROVE  Meant'
<1>1. /\ DOMAIN nodes' = DOMAIN nodes
      /\ \A j \in DOMAIN nodes :
           /\ nodes'[j].name = IF j = p THEN NewName(p, c) ELSE nodes[j].name
           /\ nodes'[j].op.type = nodes[j].op.type
           /\ nodes'[j].op.index = nodes[j].op.index
           /\ nodes'[j].op.weight = nodes[j].op.weight
           /\ nodes'[j].op.bias = nodes[j].op.bias
      /\ nodes[c].op.type \in ActivationOps
    BY DEF FusedInto
<1>2. /\ Backend!Inputs' = Backend!Inputs /\ Backend!Outputs' = Backend!Outputs
      /\ Body' = Body /\ InputIdentifiers' = InputIdentifiers /\ RealInputs' = RealInputs
    BY <1>1 DEF Backend!Inputs, Backend!Outputs, Body, InputIdentifiers, RealInputs
<1>3. Backend!Inputs \subseteq DOMAIN nodes /\ Backend!Outputs \subseteq DOMAIN nodes
    BY DEF Backend!Inputs, Backend!Outputs
<1>4. LayersStored'
    BY <1>1 DEF Meant, LayersStored
<1>5. InputsRead' /\ OutputsComplete'
    <2>1. InputsRead /\ OutputsComplete
        BY DEF Meant
    <2>2. InputsRead'
        BY <1>1, <1>2, <1>3, <2>1 DEF InputsRead
    <2>3. OutputsComplete'
        BY <1>1, <1>2, <1>3, <2>1 DEF OutputsComplete
    <2> QED
        BY <2>2, <2>3
<1>6. VarsOffInputs'
    <2> DEFINE w == LowerWord[nodes[c].op.type]
               s == Sanitized(p)
    <2>1. /\ w \in Word /\ Identifier[w] = <<w>> /\ w \notin Digit /\ w # "input"
          /\ \A i \in RealInputs : IndexWord[i - 1] \in Digit
        <3>1. \A i \in RealInputs : i - 1 \in 0 .. Len(model.input) - 1
            <4>1. model.input \in Seq(Name)
                BY ModelTyped DEF Typed
            <4> QED
                BY <4>1 DEF RealInputs
        <3> QED
            BY <1>1, <3>1, WordAssumption, NameAssumption DEF Typed
    <2>2. nodes[p].name \in Name
        <3>1. nodes[p] \in Nodes
            BY DEF Typed
        <3> QED
            BY <3>1 DEF Nodes
    <2>3. s \in Seq(Word \cup {"var"}) /\ (Sanitized(p))' = Append(s, w)
        <3>1. (Sanitized(p))' = Backend!SanitizeVariableName(nodes'[p].name)
            BY DEF Sanitized, Backend!SanitizeVariableName
        <3>2. nodes'[p].name = Append(nodes[p].name, w)
            BY <1>1 DEF NewName
        <3> HIDE DEF w
        <3> QED
            BY <2>1, <2>2, <3>1, <3>2, IdentifierAppends DEF Sanitized
    <2> HIDE DEF w, s
    <2>4. \A j \in Body : j # p => (Sanitized(j))' = Sanitized(j)
        <3>1. \A j : (Sanitized(j))' = Backend!SanitizeVariableName(nodes'[j].name)
            BY DEF Sanitized, Backend!SanitizeVariableName
        <3> QED
            BY <1>1, <3>1 DEF Sanitized, Body
    <2>5. Append(s, w) \notin InputIdentifiers
        <3> SUFFICES ASSUME Append(s, w) \in InputIdentifiers PROVE FALSE
            OBVIOUS
        <3> DEFINE S == Word \cup {"var"}
        <3>1. s \in Seq(S) /\ w \in S
            BY <2>1, <2>3
        <3> HIDE DEF S
        <3> DEFINE t == Append(s, w)
        <3>2. Len(s) \in Nat /\ Len(t) = Len(s) + 1 /\ t[Len(s) + 1] = w
            BY <3>1
        <3>3. PICK i \in RealInputs : t = <<"input", IndexWord[i - 1]>> \/ t = <<"input">>
            BY DEF InputIdentifiers
        <3> HIDE DEF t
        <3>4. CASE t = <<"input">>
            <4>1. Len(t) = 1 /\ t[1] = "input"
                BY <3>4
            <4> QED
                BY <2>1, <3>2, <4>1
        <3>5. CASE t = <<"input", IndexWord[i - 1]>>
            <4>1. Len(t) = 2 /\ t[2] = IndexWord[i - 1]
                BY <3>5
            <4> QED
                BY <2>1, <3>2, <4>1
        <3> QED
            BY <3>3, <3>4, <3>5
    <2> SUFFICES ASSUME NEW j \in Body, (Sanitized(j))' \in InputIdentifiers
                 PROVE  nodes'[j].op.type = "Input"
        BY <1>2 DEF VarsOffInputs
    <2>6. j # p
        BY <2>3, <2>5
    <2> QED
        BY <1>1, <2>4, <2>6 DEF Meant, VarsOffInputs, Body
<1>7. Computes'
    <2>1. PICK V : Carried(V) /\ OutputsRight(V)
        BY DEF Meant, Computes
    <2>2. PICK W : (Carried(W))' /\ \A j \in DOMAIN nodes : j # p => W[j] = V[j]
        BY <2>1, FuseCarries DEF Typed
    <2>3. p \notin Backend!Outputs
        BY DEF FusedInto, Backend!Outputs
    <2>4. (OutputsRight(W))'
        BY <1>1, <1>2, <1>3, <2>1, <2>2, <2>3, ModelSame DEF OutputsRight
    <2> QED
        BY <2>2, <2>4 DEF Computes
<1> QED
    BY <1>4, <1>5, <1>6, <1>7 DEF Meant

(* What stays is given what it was.                                         *)
LEMMA RemovalMeant ==
    ASSUME nodes \in Seq(Nodes), phase = "kernel_fusion", Connected,
           \A i, j \in DOMAIN nodes : nodes[i].name = nodes[j].name => i = j,
           \A j \in DOMAIN nodes \ Staying : nodes[j].op.type \in ActivationOps,
           nodes' = SubList(nodes, Staying), phase' = "optimized", model' = model, Meant
    PROVE  Meant'
<1> DEFINE K == Staying
           c == Cardinality(K)
           f(r) == AtRank(K, r)
<1>1. DOMAIN nodes = 1 .. Len(nodes) /\ Len(nodes) \in Nat /\ K \in SUBSET (1 .. Len(nodes))
    BY DEF Staying
<1> HIDE DEF K
<1>2. /\ c \in Nat
      /\ \A r \in 1 .. c : f(r) \in K
      /\ \A r, t \in 1 .. c : /\ r < t => f(r) < f(t)
                              /\ f(r) = f(t) => r = t
      /\ \A j \in K : \E r \in 1 .. c : f(r) = j
    <2> DEFINE n == Len(nodes)
    <2>1. n \in Nat /\ K \in SUBSET (1 .. n)
        BY <1>1
    <2> HIDE DEF n
    <2>2. /\ Cardinality(K) \in Nat
          /\ \A r \in 1 .. Cardinality(K) : AtRank(K, r) \in K
          /\ \A r, t \in 1 .. Cardinality(K) :
                /\ AtRank(K, t) < AtRank(K, r) => t < r
                /\ AtRank(K, r) = AtRank(K, t) => r = t
          /\ \A j \in K : Rank(K, j) \in 1 .. Cardinality(K) /\ AtRank(K, Rank(K, j)) = j
        BY <2>1, Ranks
    <2>3. ASSUME NEW r \in 1 .. c, NEW t \in 1 .. c, r < t PROVE f(r) < f(t)
        <3>1. f(r) \in Nat /\ f(t) \in Nat
            <4>1. f(r) \in K /\ f(t) \in K
                BY <2>2
            <4>2. K \subseteq Nat
                <5> HIDE DEF f
                <5> QED
                    BY <2>1
            <4> HIDE DEF f
            <4> QED
                BY <4>1, <4>2
        <3>2. ~ f(t) < f(r) /\ f(r) # f(t)
            BY <2>2, <2>3, <3>1
        <3> HIDE DEF f
        <3> QED
            BY <3>1, <3>2
    <2> QED
        BY <2>2, <2>3
<1>3. DOMAIN nodes' = 1 .. c /\ \A r \in 1 .. c : nodes'[r] = nodes[f(r)]
    BY DEF SubList, K
<1>4. Staying' = 1 .. c
    BY <1>3 DEF Staying
<1> HIDE DEF c, f
<1>5. \A r \in 1 .. c : f(r) \in DOMAIN nodes
    BY <1>1, <1>2
<1>6. /\ \A r \in 1 .. c : r \in Body' <=> f(r) \in Body
      /\ Body' \subseteq 1 .. c
      /\ InputIdentifiers' = InputIdentifiers /\ RealInputs' = RealInputs
    BY <1>3, <1>5 DEF Body, InputIdentifiers, RealInputs
<1>7. \A j \in DOMAIN nodes : nodes[j].op.type \notin ActivationOps => \E r \in 1 .. c : f(r) = j
    BY <1>2 DEF K
<1>8. /\ \A r \in 1 .. c : r \in Backend!Outputs' <=> f(r) \in Backend!Outputs
      /\ \A r \in 1 .. c : r \in Backend!Inputs' <=> f(r) \in Backend!Inputs
      /\ Backend!Outputs' \subseteq 1 .. c /\ Backend!Inputs' \subseteq 1 .. c
    BY <1>3, <1>5 DEF Backend!Outputs, Backend!Inputs
<1>9. /\ \A j \in Backend!Outputs : \E r \in Backend!Outputs' : f(r) = j
      /\ \A j \in Backend!Inputs : \E r \in Backend!Inputs' : f(r) = j
    <2>1. "Output" \notin ActivationOps /\ "Input" \notin ActivationOps
        BY DEF ActivationOps
    <2> QED
        BY <1>7, <1>8, <2>1 DEF Backend!Outputs, Backend!Inputs
<1>10. LayersStored'
    <2> SUFFICES ASSUME NEW r \in 1 .. c, nodes'[r].op.type \in ParameterOps
                 PROVE  /\ nodes'[r].op.weight \in model.initializer
                        /\ nodes'[r].op.bias \in model.initializer
        BY <1>3 DEF LayersStored
    <2> QED
        BY <1>3, <1>5 DEF Meant, LayersStored
<1>11. VarsOffInputs'
    <2>1. \A r \in 1 .. c : (Sanitized(r))' = Sanitized(f(r))
        <3>1. \A r : (Sanitized(r))' = Backend!SanitizeVariableName(nodes'[r].name)
            BY DEF Sanitized, Backend!SanitizeVariableName
        <3> QED
            BY <1>3, <3>1 DEF Sanitized
    <2> QED
        BY <1>3, <1>6, <2>1 DEF Meant, VarsOffInputs
<1>12. InputsRead'
    <2>1. InputsRead
        BY DEF Meant
    <2>2. \A r \in Backend!Inputs' : nodes'[r].op.index + 1 \in RealInputs
        BY <1>3, <1>8, <2>1 DEF InputsRead
    <2>3. ASSUME NEW r \in Backend!Inputs', NEW t \in Backend!Inputs',
                 nodes'[r].op.index = nodes'[t].op.index
          PROVE  r = t
        <3>1. f(r) = f(t)
            BY <1>3, <1>8, <2>1, <2>3 DEF InputsRead
        <3> QED
            BY <1>2, <1>8, <3>1
    <2>4. ASSUME Cardinality(RealInputs) > 1 PROVE \E r, t \in Backend!Inputs' : r # t
        <3>1. PICK i \in Backend!Inputs, j \in Backend!Inputs : i # j
            BY <2>1, <2>4 DEF InputsRead
        <3> QED
            BY <1>9, <3>1
    <2> QED
        BY <1>6, <2>2, <2>3, <2>4 DEF InputsRead
<1>13. OutputsComplete'
    <2> SUFFICES ASSUME NEW o \in DOMAIN model.output
                 PROVE  \E r \in Backend!Outputs' : nodes'[r].op.index = o - 1
        BY DEF OutputsComplete
    <2>1. PICK j \in Backend!Outputs : nodes[j].op.index = o - 1
        BY DEF Meant, OutputsComplete
    <2> QED
        BY <1>3, <1>8, <1>9, <2>1
<1>14. Computes'
    <2>1. PICK V : Carried(V) /\ OutputsRight(V)
        BY DEF Meant, Computes
    <2>2. PICK W : W = [r \in 1 .. c |-> V[f(r)]]
        OBVIOUS
    <2>3. \A r \in 1 .. c : W[r] = V[f(r)]
        BY <2>2
    <2>4. ASSUME NEW r \in 1 .. c PROVE (Carries(W, r))'
        <3>1. f(r) \in Staying /\ nodes'[r] = nodes[f(r)]
            BY <1>2, <1>3 DEF K
        <3>2. PICK args : Given(V, f(r), args) /\ V[f(r)] = NodeValue(nodes[f(r)].op, args)
            BY <2>1, <3>1 DEF Carried, Carries
        <3>3. (NodeValue(nodes[r].op, args))' = NodeValue(nodes[f(r)].op, args)
            BY <3>1 DEF NodeValue, KernelOps, Layer
        <3>4. (Given(W, r, args))'
            <4>1. args = [k \in DOMAIN nodes'[r].inputs |-> args[k]]
                BY <3>1, <3>2 DEF Given
            <4>2. ASSUME NEW k \in DOMAIN nodes'[r].inputs, NEW t \in Staying' \cap Body',
                         t < r, nodes'[t].name = nodes'[r].inputs[k]
                  PROVE  args[k] = W[t]
                <5>1. t \in 1 .. c /\ f(t) < f(r) /\ f(t) \in Staying \cap Body
                      /\ nodes'[t] = nodes[f(t)]
                    BY <1>2, <1>3, <1>4, <1>6, <4>2 DEF K
                <5>2. args[k] = V[f(t)]
                    BY <3>1, <3>2, <4>2, <5>1 DEF Given
                <5> QED
                    BY <2>3, <5>1, <5>2
            <4> QED
                BY <4>1, <4>2 DEF Given
        <3> QED
            BY <2>3, <3>2, <3>3, <3>4 DEF Carries
    <2>5. (OutputsRight(W))'
        <3> SUFFICES ASSUME NEW r \in Backend!Outputs'
                     PROVE  W[r] = OnnxValues(model)[model.output[nodes'[r].op.index + 1]]
            BY ModelSame DEF OutputsRight
        <3> QED
            BY <1>3, <1>8, <2>1, <2>3 DEF OutputsRight
    <2> QED
        BY <1>4, <2>4, <2>5 DEF Computes, Carried
<1> QED
    BY <1>10, <1>11, <1>12, <1>13, <1>14 DEF Meant

LEMMA FusionMeant ==
    ASSUME Typed, level > 0, Pass!IInv, Sound, Fuse, Meant
    PROVE  Meant'
<1>1. Pass!Next /\ level' = level /\ model' = model
    BY FusionIsPass DEF Fuse, frontVars
<1>2. phase = "kernel_fusion" /\ phase' \in {"kernel_fusion", "optimized"}
    BY <1>1, FuseEffect
<1>3. Pass!TypeOK /\ Pass!Running
    BY <1>2 DEF Pass!IInv
<1>4. /\ WellOperated /\ AdditionsStandAlone /\ IdentifiersUnextended
      /\ Connected /\ nodes \in Seq(Nodes)
    BY <1>2 DEF Sound, Typed
<1>5. \A i, j \in DOMAIN nodes : nodes[i].name = nodes[j].name => i = j
    BY <1>3 DEF Pass!Running, Pass!NamesDistinct
<1>6. CASE Pass!Fuse
    <2>1. PICK c \in DOMAIN nodes : FusedInto(position, c)
        BY <1>3, <1>4, <1>6, FuseIs
    <2>2. position \in DOMAIN nodes
        BY <2>1 DEF FusedInto, Staying
    <2>3. phase' = phase
        BY <1>6 DEF Pass!Fuse
    <2> QED
        BY <1>1, <1>2, <1>4, <1>5, <2>1, <2>2, <2>3, FuseMeant
<1>7. CASE Pass!Skip
    <2>1. nodes' = nodes /\ Staying' = Staying /\ phase' = phase
        BY <1>7 DEF Pass!Skip, Staying
    <2>2. PICK V : Carried(V) /\ OutputsRight(V)
        BY <1>2 DEF Meant, Computes
    <2>3. (Carried(V))' /\ (OutputsRight(V))'
        BY <1>1, <2>1, <2>2, MeantSame
    <2>4. Computes'
        BY <1>2, <2>1, <2>3 DEF Computes
    <2>5. LayersStored' /\ VarsOffInputs' /\ InputsRead' /\ OutputsComplete'
        BY <1>1, <1>2, <2>1, MeantSame DEF Meant
    <2> QED
        BY <2>4, <2>5 DEF Meant
<1>8. CASE Pass!RemoveFused
    <2>1. Pass!Kept = Staying
        BY <1>2 DEF Pass!Kept, Staying
    <2>2. nodes' = SubList(nodes, Staying) /\ phase' = "optimized"
        BY <1>8, <2>1, PassSubList DEF Pass!RemoveFused
    <2>3. \A j \in DOMAIN nodes \ Staying : nodes[j].op.type \in ActivationOps
        BY <1>3, <2>1 DEF Pass!Running, Pass!RemovedAreActivations, Pass!ActivationOps, ActivationOps
    <2> QED
        BY <1>1, <1>2, <1>4, <1>5, <2>2, <2>3, RemovalMeant
<1> QED
    BY <1>1, <1>6, <1>7, <1>8 DEF Pass!Next

-----------------------------------------------------------------------------
(* The calls, and the blob behind them                                      *)

(* The calls are those of the nodes, and in their order.                    *)
CallsExact ==
    \A k \in DOMAIN calls : \E j \in Backend!Compute : j < Reached /\ calls[k] = Backend!Call(nodes[j])

CallsOrdered ==
    \A k, l \in DOMAIN calls : \A i, j \in Backend!Compute :
        calls[k].var = Sanitized(i) /\ calls[l].var = Sanitized(j) /\ i < j => k < l

LEMMA PhysicalSame ==
    ASSUME nodes' = nodes
    PROVE  \A name : (Backend!PhysicalNodeId(name))' = Backend!PhysicalNodeId(name)
<1> SUFFICES ASSUME NEW name
             PROVE  (Backend!PhysicalNodeId(name))' = Backend!PhysicalNodeId(name)
    OBVIOUS
<1> QED
    BY DEF Backend!PhysicalNodeId, Backend!Aliases, Backend!IsNamed, Backend!AliasOf, Backend!LastNamed

LEMMA CallSame ==
    ASSUME nodes' = nodes, NEW j
    PROVE  (Backend!Call(nodes[j]))' = Backend!Call(nodes[j])
<1>1. /\ Backend!Compute' = Backend!Compute /\ Backend!InputVars' = Backend!InputVars
      /\ Backend!Inputs' = Backend!Inputs
      /\ \A j_1 : (Backend!IOVar("input", j_1))' = Backend!IOVar("input", j_1)
      /\ \A S, name : (Backend!IsNamed(S, name))' = Backend!IsNamed(S, name)
    BY CallsSame DEF Backend!Inputs, Backend!IOVar, Backend!IsNamed
<1>2. \A S, name : (Backend!LastNamed(S, name))' = Backend!LastNamed(S, name)
    BY DEF Backend!LastNamed
<1>3. \A name : (Backend!CppVar(name))' = Backend!CppVar(name)
    BY <1>1, <1>2, PhysicalSame DEF Backend!CppVar
<1>4. \A name : (Backend!BufferAccessor(name))' = Backend!BufferAccessor(name)
    BY <1>1, <1>3, PhysicalSame DEF Backend!BufferAccessor
<1>5. Backend!FirstInput' = Backend!FirstInput
    BY <1>1 DEF Backend!FirstInput
<1>6. (Backend!ResolveInputBuffers(nodes[j]))' = Backend!ResolveInputBuffers(nodes[j])
    BY <1>1, <1>4, <1>5 DEF Backend!ResolveInputBuffers
<1> QED
    BY <1>3, <1>6 DEF Backend!Call

LEMMA EmitExact ==
    ASSUME Fit, Called, CallsExact, CallsOrdered, phase = "codegen", Backend!EmitNode
    PROVE  CallsExact' /\ CallsOrdered'
<1>1. /\ position \in Backend!Compute /\ position' = position + 1
      /\ phase' = "codegen" /\ nodes' = nodes
      /\ calls' = Append(calls, Backend!Call(nodes[position]))
      /\ position \in Nat
    BY DEF Backend!EmitNode, Backend!Generating, Fit
<1> DEFINE new == Backend!Call(nodes[position])
           n == Len(calls)
<1>2. new.var = Sanitized(position)
    BY <1>1, VarOf DEF Fit, Backend!Call
<1>3. /\ Backend!Compute' = Backend!Compute
      /\ \A j : Sanitized(j)' = Sanitized(j)
      /\ \A j : (Backend!Call(nodes[j]))' = Backend!Call(nodes[j])
    BY <1>1, CallsSame, CallSame
<1>4. Reached = position /\ Reached' = position + 1
    BY <1>1 DEF Reached
<1>5. /\ n \in Nat /\ DOMAIN calls = 1 .. n
      /\ DOMAIN calls' = 1 .. n + 1
      /\ \A i \in 1 .. n : calls'[i] = calls[i]
      /\ calls'[n + 1] = new
    <2> HIDE DEF new
    <2>1. IsList(calls) /\ calls' = Append(calls, new)
        BY <1>1 DEF Called, new
    <2> QED
        BY <2>1, ListAppends
<1>6. Backend!Compute \subseteq Nat /\ Backend!Compute \subseteq Body
    BY ComputeIs DEF Backend!Compute, Fit
<1> HIDE DEF n
<1>7. CallsExact'
    <2> SUFFICES ASSUME NEW k \in DOMAIN calls'
                 PROVE  \E j \in Backend!Compute : j < position + 1 /\ calls'[k] = Backend!Call(nodes[j])
        BY <1>3, <1>4 DEF CallsExact
    <2>1. CASE k \in 1 .. n
        <3>1. PICK j \in Backend!Compute : j < position /\ calls[k] = Backend!Call(nodes[j])
            BY <1>4, <1>5, <2>1 DEF CallsExact
        <3>2. j < position + 1
            BY <1>1, <1>6, <3>1
        <3> HIDE DEF new
        <3> QED
            BY <1>5, <2>1, <3>1, <3>2
    <2>2. CASE k = n + 1
        <3>1. position < position + 1
            BY <1>1
        <3> QED
            BY <1>1, <1>5, <2>2, <3>1
    <2> QED
        BY <1>5, <2>1, <2>2
<1> HIDE DEF new
<1>8. \A k \in 1 .. n : \E j \in Backend!Compute : j < position /\ calls[k].var = Sanitized(j)
    <2> TAKE k \in 1 .. n
    <2>1. PICK j \in Backend!Compute : j < position /\ CallOf(calls[k], j)
        BY <1>4, <1>5 DEF Called
    <2> QED
        BY <2>1 DEF CallOf
<1>9. CallsOrdered'
    <2> SUFFICES ASSUME NEW k \in DOMAIN calls', NEW l \in DOMAIN calls',
                        NEW i \in Backend!Compute, NEW j \in Backend!Compute,
                        calls'[k].var = Sanitized(i), calls'[l].var = Sanitized(j), i < j
                 PROVE  k < l
        BY <1>3 DEF CallsOrdered
    <2>1. ASSUME NEW m \in 1 .. n, NEW h \in Backend!Compute, calls'[m].var = Sanitized(h)
          PROVE  h < position
        <3>1. PICK g \in Backend!Compute : g < position /\ calls[m].var = Sanitized(g)
            BY <1>8
        <3>2. g = h
            BY <1>5, <1>6, <2>1, <3>1 DEF Fit, IdentifiersApart
        <3> QED
            BY <3>1, <3>2
    <2>2. ASSUME NEW h \in Backend!Compute, calls'[n + 1].var = Sanitized(h)
          PROVE  h = position
        BY <1>1, <1>2, <1>5, <1>6, <2>2 DEF Fit, IdentifiersApart
    <2>3. CASE k \in 1 .. n /\ l \in 1 .. n
        BY <1>5, <2>3 DEF CallsOrdered
    <2>4. CASE k \in 1 .. n /\ l = n + 1
        BY <1>5, <2>4
    <2>5. CASE k = n + 1 /\ l \in 1 .. n
        <3>1. i = position /\ j < position
            BY <2>1, <2>2, <2>5
        <3> QED
            BY <1>1, <1>6, <3>1
    <2>6. CASE k = n + 1 /\ l = n + 1
        <3>1. i = position /\ j = position
            BY <2>2, <2>6
        <3> QED
            BY <1>1, <3>1
    <2>7. k \in 1 .. n \/ k = n + 1
        BY <1>5
    <2>8. l \in 1 .. n \/ l = n + 1
        BY <1>5
    <2> QED
        BY <2>3, <2>4, <2>5, <2>6, <2>7, <2>8
<1> QED
    BY <1>7, <1>9

LEMMA OtherStepsExact ==
    ASSUME CallsExact, CallsOrdered, nodes' = nodes, calls' = calls,
           \A j \in Backend!Compute : j < Reached => j < Reached'
    PROVE  CallsExact' /\ CallsOrdered'
<1>1. /\ Backend!Compute' = Backend!Compute
      /\ \A j : Sanitized(j)' = Sanitized(j)
      /\ \A j : (Backend!Call(nodes[j]))' = Backend!Call(nodes[j])
    BY CallsSame, CallSame
<1>2. CallsExact'
    BY <1>1 DEF CallsExact
<1> QED
    BY <1>1, <1>2 DEF CallsOrdered

(* The nodes with parameters, and what they have.                           *)
Layered == {j \in DOMAIN nodes : nodes[j].op.type \in ParameterOps}

Params == {"weight", "bias"}

ParameterOf(j, param) == IF param = "weight" THEN nodes[j].op.weight ELSE nodes[j].op.bias

(* The data lies where the entry of the metadata says.                      *)
EntryOf(e, j, param, blob) ==
    /\ e.node = Sanitized(j) /\ e.param = param
    /\ e.offset \in Nat /\ e.size = Size(ParameterOf(j, param))
    /\ e.offset + e.size <= Len(blob)
    /\ \A i \in 1 .. e.size : blob[e.offset + i] = <<ParameterOf(j, param), i>>

EntriesIn(list, blob) ==
    /\ IsList(list) /\ IsList(blob)
    /\ \A m \in DOMAIN list : \E j \in Layered : \E param \in Params :
         EntryOf(list[m], j, param, blob)

HasEntry(list, j, param) ==
    \E m \in DOMAIN list : list[m].node = Sanitized(j) /\ list[m].param = param

(* The nodes before it have stored their parameters.                        *)
StowedUpTo == IF phase = "pack_model_data" THEN position
              ELSE IF phase = "done" THEN Len(nodes) + 1 ELSE 1

Stowed ==
    /\ EntriesIn(metadata, bytes_buffer)
    /\ \A j \in Layered : j < StowedUpTo => \A param \in Params : HasEntry(metadata, j, param)

LEMMA ListsJoin ==
    ASSUME NEW s, IsList(s), NEW t, IsList(t)
    PROVE  /\ IsList(s \o t) /\ Len(s) \in Nat /\ Len(t) \in Nat /\ Len(s \o t) = Len(s) + Len(t)
           /\ \A i \in 1 .. Len(s) : (s \o t)[i] = s[i]
           /\ \A i \in 1 .. Len(t) : (s \o t)[Len(s) + i] = t[i]
<1> DEFINE S == {s[k] : k \in DOMAIN s}
           T == {t[k] : k \in DOMAIN t}
           U == S \cup T
           b == s \o t
           B == {b[k] : k \in DOMAIN b}
<1>1. s \in Seq(S) /\ t \in Seq(T)
    BY DEF IsList
<1> HIDE DEF S, T
<1>2. s \in Seq(U) /\ t \in Seq(U)
    <2>1. /\ Len(s) \in Nat /\ s = [i \in 1 .. Len(s) |-> s[i]] /\ \A i \in 1 .. Len(s) : s[i] \in U
          /\ Len(t) \in Nat /\ t = [i \in 1 .. Len(t) |-> t[i]] /\ \A i \in 1 .. Len(t) : t[i] \in U
        BY <1>1
    <2> HIDE DEF U
    <2> QED
        BY <2>1, IsASeq
<1> HIDE DEF U
<1>3. /\ b \in Seq(U) /\ Len(b) = Len(s) + Len(t)
      /\ \A i \in 1 .. Len(s) : b[i] = s[i]
      /\ \A i \in 1 .. Len(t) : b[Len(s) + i] = t[i]
    BY <1>2, Joined
<1> HIDE DEF b
<1>4. /\ Len(b) \in Nat /\ b = [i \in 1 .. Len(b) |-> b[i]]
      /\ \A i \in 1 .. Len(b) : b[i] \in B
    BY <1>3
<1> HIDE DEF B
<1>5. b \in Seq(B)
    BY <1>4, IsASeq
<1>6. IsList(b)
    BY <1>5 DEF IsList, B
<1>7. Len(s) \in Nat /\ Len(t) \in Nat
    BY <1>2
<1> QED
    BY <1>3, <1>6, <1>7 DEF b

LEMMA FunctionList ==
    ASSUME NEW n \in Nat, NEW s, s = [i \in 1 .. n |-> s[i]]
    PROVE  IsList(s) /\ Len(s) = n
<1> DEFINE S == {s[k] : k \in DOMAIN s}
<1>1. DOMAIN s = 1 .. n
    OBVIOUS
<1>2. \A i \in 1 .. n : s[i] \in S
    BY <1>1
<1> HIDE DEF S
<1>3. s \in Seq(S)
    BY <1>2, IsASeq
<1>4. Len(s) = n
    BY <1>1, <1>3, LenProperties
<1> QED
    BY <1>3, <1>4 DEF IsList, S

(* A blob that goes on keeps what it has.                                   *)
GoesOn(blob, more) ==
    /\ IsList(more) /\ Len(blob) \in Nat /\ Len(more) \in Nat /\ Len(blob) <= Len(more)
    /\ \A i \in 1 .. Len(blob) : more[i] = blob[i]

LEMMA Aligned ==
    ASSUME NEW blob, IsList(blob)
    PROVE  GoesOn(blob, Backend!AlignBuffer(blob))
<1> DEFINE n == (- Len(blob)) % ALIGNMENT
           pad == [i \in 1 .. n |-> <<>>]
<1>1. Len(blob) \in Nat
    BY ListAppends
<1>2. n \in Nat
    BY <1>1, SizeAssumption
<1> HIDE DEF n
<1>3. IsList(pad) /\ Len(pad) = n
    <2>1. pad = [i \in 1 .. n |-> pad[i]]
        OBVIOUS
    <2> HIDE DEF pad
    <2> QED
        BY <1>2, <2>1, FunctionList
<1>4. Backend!AlignBuffer(blob) = blob \o pad
    BY DEF Backend!AlignBuffer, n
<1> HIDE DEF pad
<1>5. /\ IsList(blob \o pad) /\ Len(blob \o pad) = Len(blob) + Len(pad)
      /\ \A i \in 1 .. Len(blob) : (blob \o pad)[i] = blob[i]
    BY <1>3, ListsJoin
<1> QED
    BY <1>1, <1>2, <1>3, <1>4, <1>5 DEF GoesOn

LEMMA EntryStays ==
    ASSUME NEW e, NEW j, NEW param, NEW blob, NEW more, EntryOf(e, j, param, blob),
           Size(ParameterOf(j, param)) \in Nat, GoesOn(blob, more)
    PROVE  EntryOf(e, j, param, more)
<1>1. /\ e.offset \in Nat /\ e.size \in Nat /\ e.offset + e.size <= Len(blob)
      /\ Len(blob) \in Nat /\ Len(more) \in Nat /\ Len(blob) <= Len(more)
    BY DEF EntryOf, GoesOn
<1> DEFINE o == e.offset
           s == e.size
<1>2. o + s <= Len(more) /\ \A i \in 1 .. s : o + i \in 1 .. Len(blob)
    <2> HIDE DEF o, s
    <2> QED
        BY <1>1 DEF o, s
<1>3. \A i \in 1 .. s : more[o + i] = blob[o + i]
    BY <1>2 DEF GoesOn
<1> QED
    BY <1>1, <1>2, <1>3 DEF EntryOf

(* A parameter more.                                                        *)
LEMMA DataPacked ==
    ASSUME Typed, LayersStored, NEW packed, EntriesIn(packed.metadata, packed.buffer),
           NEW j \in Layered, NEW param \in Params,
           Backend!CppVar(nodes[j].name) = Sanitized(j)
    PROVE  LET after == Backend!PackData(packed, nodes[j], param, ParameterOf(j, param))
           IN  /\ EntriesIn(after.metadata, after.buffer)
               /\ HasEntry(after.metadata, j, param)
               /\ \A i, q : HasEntry(packed.metadata, i, q) => HasEntry(after.metadata, i, q)
<1> DEFINE data == ParameterOf(j, param)
           buffer == Backend!AlignBuffer(packed.buffer)
           own == Backend!Data(data)
           blob == buffer \o own
           e == Backend!Entry(nodes[j], param, Len(buffer), data)
           list == packed.metadata
           n == Len(list)
<1>1. \A i \in Layered, q \in Params :
          /\ ParameterOf(i, q) \in model.initializer
          /\ Size(ParameterOf(i, q)) \in Nat \ {0}
    BY SizeAssumption DEF Typed, LayersStored, Layered, ParameterOf
<1>2. data # None
    BY <1>1, ModelTyped, NoneAssumption DEF Typed
<1>3. Backend!PackData(packed, nodes[j], param, data) =
         [buffer |-> blob, metadata |-> Append(list, e)]
    <2>1. ~ (data = None \/ Size(data) = 0)
        BY <1>1, <1>2
    <2> HIDE DEF data
    <2> QED
        BY <2>1 DEF Backend!PackData
<1>4. Size(data) \in Nat \ {0}
    BY <1>1
<1> HIDE DEF data
<1>5. GoesOn(packed.buffer, buffer)
    BY Aligned DEF EntriesIn
<1>6. IsList(own) /\ Len(own) = Size(data) /\ \A i \in 1 .. Size(data) : own[i] = <<data, i>>
    <2>1. own = [i \in 1 .. Size(data) |-> <<data, i>>]
        BY DEF Backend!Data
    <2>2. own = [i \in 1 .. Size(data) |-> own[i]]
        BY <2>1
    <2> HIDE DEF own
    <2> QED
        BY <1>4, <2>1, <2>2, FunctionList
<1> HIDE DEF buffer, own
<1>7. /\ IsList(blob) /\ Len(buffer) \in Nat /\ Len(blob) = Len(buffer) + Size(data)
      /\ \A i \in 1 .. Len(buffer) : blob[i] = buffer[i]
      /\ \A i \in 1 .. Size(data) : blob[Len(buffer) + i] = <<data, i>>
    <2>1. IsList(buffer)
        BY <1>5 DEF GoesOn
    <2>2. /\ IsList(buffer \o own) /\ Len(buffer) \in Nat
          /\ Len(buffer \o own) = Len(buffer) + Len(own)
          /\ \A i \in 1 .. Len(buffer) : (buffer \o own)[i] = buffer[i]
          /\ \A i \in 1 .. Len(own) : (buffer \o own)[Len(buffer) + i] = own[i]
        <3>1. IsList(own)
            BY <1>6
        <3>2. PICK s, t : s = buffer /\ t = own
            OBVIOUS
        <3>3. IsList(s) /\ IsList(t)
            BY <2>1, <3>1, <3>2
        <3>4. /\ IsList(s \o t) /\ Len(s) \in Nat /\ Len(s \o t) = Len(s) + Len(t)
              /\ \A i \in 1 .. Len(s) : (s \o t)[i] = s[i]
              /\ \A i \in 1 .. Len(t) : (s \o t)[Len(s) + i] = t[i]
            BY <3>3, ListsJoin
        <3> QED
            BY <3>2, <3>4
    <2> QED
        BY <1>6, <2>2
<1> HIDE DEF blob
<1>8. GoesOn(packed.buffer, blob)
    <2>1. Len(packed.buffer) \in Nat /\ Len(packed.buffer) <= Len(buffer)
          /\ \A i \in 1 .. Len(packed.buffer) : buffer[i] = packed.buffer[i]
        BY <1>5 DEF GoesOn
    <2>2. Len(blob) \in Nat /\ Len(packed.buffer) <= Len(blob)
        BY <1>4, <1>7, <2>1
    <2>3. \A i \in 1 .. Len(packed.buffer) : i \in 1 .. Len(buffer)
        BY <1>7, <2>1
    <2> QED
        BY <1>7, <2>1, <2>2, <2>3 DEF GoesOn
<1>9. EntryOf(e, j, param, blob)
    <2>1. /\ e.node = Sanitized(j) /\ e.param = param /\ e.offset = Len(buffer) /\ e.size = Size(data)
        BY DEF Backend!Entry
    <2>2. Len(buffer) + Size(data) <= Len(blob)
        BY <1>4, <1>7
    <2> HIDE DEF e
    <2> QED
        BY <1>4, <1>7, <2>1, <2>2 DEF EntryOf, data
<1> HIDE DEF e
<1>10. /\ IsList(Append(list, e)) /\ n \in Nat /\ DOMAIN list = 1 .. n
       /\ DOMAIN Append(list, e) = 1 .. n + 1
       /\ \A m \in 1 .. n : Append(list, e)[m] = list[m]
       /\ Append(list, e)[n + 1] = e
    BY ListAppends DEF EntriesIn
<1> DEFINE after == Append(list, e)
<1> HIDE DEF after, n
<1>11. EntriesIn(after, blob)
    <2>1. ASSUME NEW m \in DOMAIN after
          PROVE  \E i \in Layered : \E q \in Params : EntryOf(after[m], i, q, blob)
        <3>1. CASE m \in 1 .. n
            <4>1. PICK i \in Layered, q \in Params : EntryOf(list[m], i, q, packed.buffer)
                BY <1>10, <3>1 DEF EntriesIn
            <4>2. EntryOf(list[m], i, q, blob)
                BY <1>1, <1>8, <4>1, EntryStays
            <4> QED
                BY <1>10, <3>1, <4>2 DEF after
        <3>2. CASE m = n + 1
            BY <1>9, <1>10, <3>2 DEF after
        <3> QED
            BY <1>10, <2>1, <3>1, <3>2 DEF after
    <2> QED
        BY <1>7, <1>10, <2>1 DEF EntriesIn, after
<1>12. HasEntry(after, j, param)
    <2>1. n + 1 \in DOMAIN after /\ after[n + 1] = e
        BY <1>10 DEF after
    <2> QED
        BY <1>9, <2>1 DEF HasEntry, EntryOf
<1>13. \A i, q : HasEntry(list, i, q) => HasEntry(after, i, q)
    <2> SUFFICES ASSUME NEW i, NEW q, HasEntry(list, i, q) PROVE HasEntry(after, i, q)
        OBVIOUS
    <2>1. PICK m \in DOMAIN list : list[m].node = Sanitized(i) /\ list[m].param = q
        BY DEF HasEntry
    <2>2. m \in DOMAIN after /\ after[m] = list[m]
        BY <1>10, <2>1 DEF after
    <2> QED
        BY <2>1, <2>2 DEF HasEntry
<1> HIDE DEF list
<1> QED
    BY <1>3, <1>11, <1>12, <1>13 DEF after, data, list

LEMMA StowedNext ==
    ASSUME nodes' = nodes, NEW list, NEW blob, metadata' = list, bytes_buffer' = blob,
           EntriesIn(list, blob),
           \A j \in Layered : j < StowedUpTo' => \A param \in Params : HasEntry(list, j, param)
    PROVE  Stowed'
<1>1. Layered' = Layered /\ \A j : (Sanitized(j))' = Sanitized(j)
    BY CallsSame DEF Layered
<1>2. \A j, param : (ParameterOf(j, param))' = ParameterOf(j, param)
    BY DEF ParameterOf
<1>3. \A e, j, param : EntryOf(e, j, param, blob) => (EntryOf(e, j, param, blob))'
    BY <1>1, <1>2 DEF EntryOf
<1>4. (EntriesIn(list, blob))'
    BY <1>1, <1>3 DEF EntriesIn
<1>5. \A j, param : HasEntry(list, j, param) => (HasEntry(list, j, param))'
    BY <1>1 DEF HasEntry
<1>6. (EntriesIn(metadata, bytes_buffer))'
    BY <1>4 DEF EntriesIn, EntryOf
<1>7. (\A j \in Layered : j < StowedUpTo => \A param \in Params : HasEntry(metadata, j, param))'
    BY <1>1 DEF HasEntry
<1> QED
    BY <1>6, <1>7 DEF Stowed

LEMMA PackNodeStows ==
    ASSUME Fit, Typed, LayersStored, Stowed, Backend!PackNode
    PROVE  Stowed'
<1> DEFINE node == nodes[position]
           before == [buffer |-> bytes_buffer, metadata |-> metadata]
           between == Backend!PackData(before, node, "weight", node.op.weight)
           after == Backend!PackData(between, node, "bias", node.op.bias)
<1>1. /\ nodes' = nodes /\ position \in DOMAIN nodes /\ position' = position + 1
      /\ phase = "pack_model_data" /\ phase' = phase /\ position \in Nat
      /\ metadata' = Backend!PackParameters(before, node).metadata
      /\ bytes_buffer' = Backend!PackParameters(before, node).buffer
    BY DEF Backend!PackNode, Fit
<1>2. StowedUpTo = position /\ StowedUpTo' = position + 1
    BY <1>1 DEF StowedUpTo
<1>3. Layered \subseteq Nat
    BY DEF Layered, Fit
<1>4. before.buffer = bytes_buffer /\ before.metadata = metadata
    OBVIOUS
<1>5. EntriesIn(before.metadata, before.buffer)
      /\ \A j \in Layered : j < position => \A param \in Params : HasEntry(before.metadata, j, param)
    BY <1>2, <1>4 DEF Stowed
<1>6. CASE position \notin Layered
    <2>1. node.op.type \notin TrainableOps
        BY <1>1, <1>6, KernelOpsAre DEF Fit, WellOperated, Layered, ParameterOps
    <2>2. Backend!PackParameters(before, node) = before
        BY <2>1, BackendSets DEF Backend!PackParameters
    <2> HIDE DEF before
    <2>3. \A j \in Layered : j < position + 1 => j < position
        BY <1>1, <1>3, <1>6
    <2> QED
        BY <1>1, <1>2, <1>5, <2>2, <2>3, StowedNext
<1>7. CASE position \in Layered
    <2>1. node.op.type \in TrainableOps
        BY <1>7 DEF Layered, ParameterOps, TrainableOps
    <2>2. Backend!PackParameters(before, node) = after
        BY <2>1, BackendSets DEF Backend!PackParameters
    <2>3. Backend!CppVar(node.name) = Sanitized(position)
        <3>1. position \in Backend!Compute
            BY <1>1, <1>7, ComputeIs, KernelOpsAre DEF Fit, Layered, ParameterOps
        <3> QED
            BY <3>1, VarOf DEF Fit
    <2>4. "weight" \in Params /\ "bias" \in Params /\ \A q \in Params : q = "weight" \/ q = "bias"
        BY DEF Params
    <2>5. node.op.weight = ParameterOf(position, "weight") /\ node.op.bias = ParameterOf(position, "bias")
        BY DEF ParameterOf
    <2> HIDE DEF before
    <2>6. /\ EntriesIn(between.metadata, between.buffer)
          /\ HasEntry(between.metadata, position, "weight")
          /\ \A i, q : HasEntry(before.metadata, i, q) => HasEntry(between.metadata, i, q)
        BY <1>5, <1>7, <2>3, <2>4, <2>5, DataPacked
    <2> HIDE DEF between
    <2>7. /\ EntriesIn(after.metadata, after.buffer)
          /\ HasEntry(after.metadata, position, "bias")
          /\ \A i, q : HasEntry(between.metadata, i, q) => HasEntry(after.metadata, i, q)
        BY <1>7, <2>3, <2>4, <2>5, <2>6, DataPacked
    <2> HIDE DEF after
    <2>8. ASSUME NEW j \in Layered, j < position + 1, NEW param \in Params
          PROVE  HasEntry(after.metadata, j, param)
        <3>1. CASE j = position
            BY <2>4, <2>6, <2>7, <3>1
        <3>2. CASE j # position
            <4>1. j < position
                BY <1>1, <1>3, <2>8, <3>2
            <4> QED
                BY <1>5, <2>6, <2>7, <4>1
        <3> QED
            BY <3>1, <3>2
    <2> QED
        BY <1>1, <1>2, <2>2, <2>7, <2>8, StowedNext
<1> QED
    BY <1>6, <1>7

LEMMA RenderStows ==
    ASSUME Fit, Typed, LayersStored, Stowed, Backend!Render
    PROVE  Stowed'
<1>1. /\ nodes' = nodes /\ metadata' = metadata /\ position > Len(nodes)
      /\ bytes_buffer' = Backend!AlignBuffer(bytes_buffer)
      /\ phase = "pack_model_data" /\ phase' = "done" /\ position \in Nat
    BY DEF Backend!Render, Fit
<1>2. StowedUpTo = position
    BY <1>1 DEF StowedUpTo
<1>3. Layered \subseteq 1 .. Len(nodes) /\ Len(nodes) \in Nat
    BY DEF Layered, Fit
<1>4. \A j \in Layered : \A param \in Params : HasEntry(metadata, j, param)
    BY <1>1, <1>2, <1>3 DEF Stowed
<1>5. PICK blob : blob = Backend!AlignBuffer(bytes_buffer)
    OBVIOUS
<1>6. GoesOn(bytes_buffer, blob)
    BY <1>5, Aligned DEF Stowed, EntriesIn
<1>7. EntriesIn(metadata, blob)
    <2>1. \A i \in Layered, q \in Params : Size(ParameterOf(i, q)) \in Nat
        BY SizeAssumption DEF Typed, LayersStored, Layered, ParameterOf
    <2>2. ASSUME NEW m \in DOMAIN metadata
          PROVE  \E j \in Layered : \E param \in Params : EntryOf(metadata[m], j, param, blob)
        <3>1. PICK j \in Layered, param \in Params : EntryOf(metadata[m], j, param, bytes_buffer)
            BY DEF Stowed, EntriesIn
        <3>2. EntryOf(metadata[m], j, param, blob)
            BY <1>6, <2>1, <3>1, EntryStays
        <3> QED
            BY <3>2
    <2>3. IsList(blob) /\ IsList(metadata)
        BY <1>6 DEF GoesOn, Stowed, EntriesIn
    <2> QED
        BY <2>2, <2>3 DEF EntriesIn
<1>8. PICK list : list = metadata
    OBVIOUS
<1> QED
    BY <1>1, <1>4, <1>5, <1>7, <1>8, StowedNext

LEMMA OtherStepsStow ==
    ASSUME Stowed, nodes' = nodes, metadata' = metadata, bytes_buffer' = bytes_buffer,
           \A j \in Layered : j < StowedUpTo' => j < StowedUpTo
    PROVE  Stowed'
<1>1. PICK list, blob : list = metadata /\ blob = bytes_buffer
    OBVIOUS
<1> QED
    BY <1>1, StowedNext DEF Stowed

(* What the back end has made of the list so far.                           *)
Generated ==
    IF phase \in {"codegen", "pack_model_data", "done"} THEN CallsExact /\ CallsOrdered /\ Stowed
    ELSE bytes_buffer = <<>>

LEMMA GenerateExact ==
    ASSUME Typed, Fit, LayersStored, Called, Generated, Generate, phase' # "failed"
    PROVE  Generated'
<1>1. Backend!Next /\ phase \in {"codegen", "pack_model_data"}
    BY GenerateEffect DEF Generate
<1>2. CallsExact /\ CallsOrdered /\ Stowed
    BY <1>1 DEF Generated
<1>3. Backend!Compute \subseteq 1 .. Len(nodes) /\ Layered \subseteq 1 .. Len(nodes)
      /\ Len(nodes) \in Nat /\ position \in Nat \ {0}
    BY DEF Backend!Compute, Layered, Fit
<1>4. CASE Backend!EmitNode
    <2>1. /\ phase = "codegen" /\ phase' = phase /\ nodes' = nodes /\ metadata' = metadata
          /\ bytes_buffer' = bytes_buffer
        BY <1>4 DEF Backend!EmitNode, Backend!Generating
    <2>2. StowedUpTo = 1 /\ StowedUpTo' = 1
        BY <2>1 DEF StowedUpTo
    <2>3. Stowed'
        BY <1>2, <2>1, <2>2, OtherStepsStow
    <2>4. CallsExact' /\ CallsOrdered'
        BY <1>2, <1>4, <2>1, EmitExact
    <2> QED
        BY <2>1, <2>3, <2>4 DEF Generated
<1>5. CASE Backend!SkipNode
    <2>1. /\ phase = "codegen" /\ phase' = phase /\ nodes' = nodes /\ metadata' = metadata
          /\ bytes_buffer' = bytes_buffer /\ calls' = calls /\ position' = position + 1
        BY <1>5 DEF Backend!SkipNode, Backend!Generating
    <2>2. StowedUpTo = 1 /\ StowedUpTo' = 1 /\ Reached = position /\ Reached' = position + 1
        BY <2>1 DEF StowedUpTo, Reached
    <2>3. Stowed'
        BY <1>2, <2>1, <2>2, OtherStepsStow
    <2>4. CallsExact' /\ CallsOrdered'
        BY <1>2, <1>3, <2>1, <2>2, OtherStepsExact
    <2> QED
        BY <2>1, <2>3, <2>4 DEF Generated
<1>6. CASE Backend!EmitFails
    BY <1>6 DEF Backend!EmitFails
<1>7. CASE Backend!StartPacking
    <2>1. /\ phase = "codegen" /\ phase' = "pack_model_data" /\ nodes' = nodes
          /\ metadata' = metadata /\ bytes_buffer' = bytes_buffer /\ calls' = calls
          /\ position' = 1 /\ position > Len(nodes)
        BY <1>7 DEF Backend!StartPacking
    <2>2. StowedUpTo = 1 /\ StowedUpTo' = 1 /\ Reached' = Len(nodes) + 1
        BY <2>1 DEF StowedUpTo, Reached
    <2>3. Stowed'
        BY <1>2, <2>1, <2>2, OtherStepsStow
    <2>4. CallsExact' /\ CallsOrdered'
        BY <1>2, <1>3, <2>1, <2>2, OtherStepsExact
    <2> QED
        BY <2>1, <2>3, <2>4 DEF Generated
<1>8. CASE Backend!PackNode
    <2>1. /\ phase = "pack_model_data" /\ phase' = phase /\ nodes' = nodes /\ calls' = calls
        BY <1>8 DEF Backend!PackNode
    <2>2. Reached' = Reached
        BY <2>1 DEF Reached
    <2>3. Stowed'
        BY <1>2, <1>8, PackNodeStows
    <2>4. CallsExact' /\ CallsOrdered'
        BY <1>2, <2>1, <2>2, OtherStepsExact
    <2> QED
        BY <2>1, <2>3, <2>4 DEF Generated
<1>9. CASE Backend!Render
    <2>1. /\ phase = "pack_model_data" /\ phase' = "done" /\ nodes' = nodes /\ calls' = calls
        BY <1>9 DEF Backend!Render
    <2>2. Reached' = Reached
        BY <2>1 DEF Reached
    <2>3. Stowed'
        BY <1>2, <1>9, RenderStows
    <2>4. CallsExact' /\ CallsOrdered'
        BY <1>2, <2>1, <2>2, OtherStepsExact
    <2> QED
        BY <2>1, <2>3, <2>4 DEF Generated
<1> QED
    BY <1>1, <1>4, <1>5, <1>6, <1>7, <1>8, <1>9 DEF Backend!Next

-----------------------------------------------------------------------------
(* What the program computes                                                *)

LEMMA Several ==
    ASSUME NEW S, IsFiniteSet(S)
    PROVE  Cardinality(S) > 1 <=> \E k, l \in S : k # l
<1>1. Cardinality(S) \in Nat
    BY FS_CardinalityType
<1>2. ASSUME NEW k \in S, NEW l \in S, k # l PROVE Cardinality(S) > 1
    <2> DEFINE T == {k, l}
               one == {l}
    <2>1. Cardinality(one) = 1 /\ IsFiniteSet(one)
        BY FS_Singleton
    <2>2. T = one \cup {k} /\ k \notin one /\ T \subseteq S
        BY <1>2
    <2> HIDE DEF one, T
    <2>3. Cardinality(one \cup {k}) = Cardinality(one) + 1
        BY <2>1, <2>2, FS_AddElement
    <2>4. Cardinality(T) <= Cardinality(S)
        BY <2>2, FS_Subset
    <2> QED
        BY <1>1, <2>1, <2>2, <2>3, <2>4
<1>3. ASSUME \A k, l \in S : k = l PROVE ~ Cardinality(S) > 1
    <2>1. CASE S = {}
        <3>1. Cardinality(S) = 0
            BY <2>1, FS_EmptySet
        <3> QED
            BY <3>1
    <2>2. CASE S # {}
        <3>1. PICK k \in S : TRUE
            BY <2>2
        <3>2. S = {k}
            BY <1>3, <3>1
        <3>3. Cardinality(S) = 1
            BY <3>2, FS_Singleton
        <3> QED
            BY <3>3
    <2> QED
        BY <2>1, <2>2
<1> QED
    BY <1>2, <1>3

(* The list at the end, in which the nodes have the values V.               *)
Final(V) ==
    /\ Typed /\ Fit /\ phase = "done"
    /\ OutputsGrounded /\ LayersStored /\ VarsOffInputs /\ InputsRead /\ Carried(V)

LEMMA FinalSets ==
    ASSUME NEW V, Final(V)
    PROVE  /\ IsFiniteSet(Backend!Inputs) /\ IsFiniteSet(RealInputs)
           /\ Staying = DOMAIN nodes /\ DOMAIN nodes = 1 .. Len(nodes) /\ Len(nodes) \in Nat
           /\ Body \subseteq DOMAIN nodes
           /\ RealInputs \subseteq 1 .. Len(model.input) /\ Len(model.input) \in Nat
<1>1. nodes \in Seq(Nodes) /\ model.input \in Seq(Name)
    BY ModelTyped DEF Final, Fit, Typed
<1>2. DOMAIN nodes = 1 .. Len(nodes) /\ Len(nodes) \in Nat /\ Staying = DOMAIN nodes
      /\ Body \subseteq DOMAIN nodes
    <2>1. phase # "kernel_fusion"
        BY DEF Final
    <2>2. DOMAIN nodes = 1 .. Len(nodes) /\ Len(nodes) \in Nat
        BY <1>1
    <2> QED
        BY <2>1, <2>2 DEF Staying, Body
<1>3. RealInputs \subseteq 1 .. Len(model.input) /\ Len(model.input) \in Nat
    BY <1>1 DEF RealInputs
<1>4. Backend!Inputs \subseteq 1 .. Len(nodes)
    BY <1>2 DEF Backend!Inputs
<1>5. IsFiniteSet(1 .. Len(nodes)) /\ IsFiniteSet(1 .. Len(model.input))
    BY <1>2, <1>3, FS_Interval
<1>6. IsFiniteSet(Backend!Inputs) /\ IsFiniteSet(RealInputs)
    BY <1>3, <1>4, <1>5, FS_Subset
<1> QED
    BY <1>2, <1>3, <1>6

(* Inputs are told apart by their parameters of infer.                      *)
LEMMA InputVarsApart ==
    ASSUME NEW V, Final(V), NEW i \in Backend!Inputs, NEW j \in Backend!Inputs,
           Backend!IOVar("input", i) = Backend!IOVar("input", j)
    PROVE  i = j
<1> SUFFICES ASSUME i # j PROVE FALSE
    OBVIOUS
<1> DEFINE in == "input"
<1>1. Backend!Cardinality(Backend!Inputs) > 1
    <2> DEFINE S == Backend!Inputs
    <2>1. IsFiniteSet(S) /\ i \in S /\ j \in S
        BY FinalSets
    <2> HIDE DEF S
    <2>2. Cardinality(S) > 1
        BY <2>1, Several
    <2> QED
        BY <2>2 DEF Backend!Cardinality, Cardinality, S
<1>2. \A h : Backend!IOVar(in, h) = <<in, IndexWord[nodes[h].op.index]>>
    BY <1>1 DEF Backend!IOVar
<1>3. Backend!IOVar(in, i) = Backend!IOVar(in, j)
    OBVIOUS
<1> HIDE DEF in
<1>4. IndexWord[nodes[i].op.index] = IndexWord[nodes[j].op.index]
    BY <1>2, <1>3
<1>5. \A h \in Backend!Inputs : nodes[h].op.index \in 0 .. Len(model.input) - 1
    <2> TAKE h \in Backend!Inputs
    <2>1. nodes[h].op.index + 1 \in 1 .. Len(model.input) /\ Len(model.input) \in Nat
        BY FinalSets DEF Final, InputsRead
    <2>2. nodes[h].op.index \in Nat
        <3>1. nodes[h] \in Nodes
            BY DEF Final, Fit, Backend!Inputs
        <3> QED
            BY <3>1 DEF Nodes, Ops
    <2> DEFINE x == nodes[h].op.index
               n == Len(model.input)
    <2> HIDE DEF x, n
    <2>3. x + 1 \in 1 .. n /\ n \in Nat /\ x \in Nat
        BY <2>1, <2>2 DEF x, n
    <2>4. x \in 0 .. n - 1
        BY <2>3
    <2> QED
        BY <2>4 DEF x, n
<1>6. nodes[i].op.index = nodes[j].op.index
    BY <1>4, <1>5, WordAssumption DEF Final, Typed
<1> QED
    BY <1>6 DEF Final, InputsRead

(* They are the identifiers no kernel takes.                                *)
LEMMA InputVarsClear ==
    ASSUME NEW V, Final(V)
    PROVE  Backend!InputVars \subseteq InputIdentifiers
<1>1. Backend!Cardinality(Backend!Inputs) > 1 <=> Cardinality(RealInputs) > 1
    <2> DEFINE S == Backend!Inputs
               K == RealInputs
    <2>1. Cardinality(S) > 1 <=> \E k, l \in S : k # l
        BY FinalSets, Several
    <2>2. Cardinality(K) > 1 <=> \E k, l \in K : k # l
        BY FinalSets, Several
    <2>3. ASSUME NEW k \in S, NEW l \in S, k # l PROVE \E x, y \in K : x # y
        <3>1. /\ nodes[k].op.index + 1 \in K /\ nodes[l].op.index + 1 \in K
              /\ nodes[k].op.index # nodes[l].op.index
            BY <2>3 DEF Final, InputsRead
        <3>2. nodes[k].op.index \in Nat /\ nodes[l].op.index \in Nat
            <4>1. nodes[k] \in Nodes /\ nodes[l] \in Nodes
                BY DEF Final, Fit, Backend!Inputs
            <4> QED
                BY <4>1 DEF Nodes, Ops
        <3>3. nodes[k].op.index + 1 # nodes[l].op.index + 1
            BY <3>1, <3>2
        <3> QED
            BY <3>1, <3>3
    <2>4. Cardinality(K) > 1 => \E k, l \in S : k # l
        BY DEF Final, InputsRead
    <2>5. Backend!Cardinality(S) = Cardinality(S)
        BY DEF Backend!Cardinality, Cardinality
    <2> HIDE DEF S, K
    <2>6. Backend!Cardinality(S) > 1 <=> Cardinality(K) > 1
        BY <2>1, <2>2, <2>3, <2>4, <2>5
    <2> QED
        BY <2>6 DEF S, K
<1> SUFFICES ASSUME NEW j \in Backend!Inputs PROVE Backend!IOVar("input", j) \in InputIdentifiers
    BY DEF Backend!InputVars
<1>2. PICK i : i = nodes[j].op.index + 1
    OBVIOUS
<1>3. i \in RealInputs /\ i - 1 = nodes[j].op.index
    <2>1. nodes[j].op.index \in Nat
        <3>1. nodes[j] \in Nodes
            BY DEF Final, Fit, Backend!Inputs
        <3> QED
            BY <3>1 DEF Nodes, Ops
    <2> QED
        BY <1>2, <2>1 DEF Final, InputsRead
<1> DEFINE in == "input"
<1>4. Backend!IOVar(in, j) =
        IF Cardinality(RealInputs) > 1 THEN <<in, IndexWord[i - 1]>> ELSE <<in>>
    BY <1>1, <1>3 DEF Backend!IOVar
<1> QED
    BY <1>3, <1>4 DEF InputIdentifiers

LEMMA KernelVar ==
    ASSUME NEW V, Final(V), NEW name, NEW i \in Backend!Compute,
           Backend!PhysicalNodeId(name) = nodes[i].name
    PROVE  Backend!BufferAccessor(name) = Backend!Member(Sanitized(i))
<1> DEFINE var == Sanitized(i)
<1>1. /\ Backend!Inputs \subseteq Body /\ Backend!Compute \subseteq Body
      /\ Backend!Inputs \cap Backend!Compute = {}
    BY ComputeIs DEF Final, Fit
<1>2. Backend!CppVar(name) = var
    BY ComputedVar DEF Final, Fit
<1>3. ~ Backend!IsNamed(Backend!Inputs, Backend!PhysicalNodeId(name))
    <2>1. \A h \in Body : nodes[h].name = nodes[i].name => h = i
        BY <1>1, BodyNamesApart DEF Final, Fit
    <2> QED
        BY <1>1, <2>1 DEF Backend!IsNamed
<1>4. var \notin Backend!InputVars
    <2>1. nodes[i].op.type # "Input"
        BY <1>1 DEF Backend!Inputs, Backend!Compute
    <2> QED
        BY <1>1, <2>1, InputVarsClear DEF Final, VarsOffInputs
<1> HIDE DEF var
<1> QED
    BY <1>2, <1>3, <1>4 DEF Backend!BufferAccessor, var

(* What a node reads, behind the aliases, has the value the node is given.  *)
LEMMA AliasValue ==
    ASSUME NEW V, Final(V), NEW j \in DOMAIN nodes, nodes[j].op.type \in TransformOps \cup {"Output"},
           NEW i \in Body, i < j, nodes[i].name = nodes[j].inputs[1]
    PROVE  V[j] = V[i]
<1>1. j \in Staying /\ i \in Staying
    BY FinalSets
<1>2. PICK args : Given(V, j, args) /\ V[j] = NodeValue(nodes[j].op, args)
    BY <1>1 DEF Final, Carried, Carries
<1>3. nodes[j].op.type \notin KernelOps /\ nodes[j].op.type # "Input"
    BY KernelOpsAre DEF TransformOps, IOOps
<1>4. 1 \in DOMAIN nodes[j].inputs
    BY <1>3 DEF Final, Fit, WellOperated
<1>5. args[1] = V[i]
    BY <1>1, <1>2, <1>4 DEF Given
<1> QED
    BY <1>2, <1>3, <1>5 DEF NodeValue

LEMMA ReadValue ==
    ASSUME NEW V, Final(V), NEW j \in DOMAIN nodes, NEW k \in DOMAIN nodes[j].inputs
    PROVE  \E h \in Backend!Compute \cup Backend!Inputs :
              /\ h < j /\ Backend!PhysicalNodeId(nodes[j].inputs[k]) = nodes[h].name
              /\ \A args : Given(V, j, args) => args[k] = V[h]
<1>1. Staying = DOMAIN nodes /\ Body \subseteq DOMAIN nodes /\ DOMAIN nodes \subseteq Nat
    BY FinalSets
<1>2. \A h \in DOMAIN nodes : \A l \in DOMAIN nodes[h].inputs :
        \E i \in Body : i < h /\ nodes[i].name = nodes[h].inputs[l]
    BY <1>1 DEF Final, Fit, Connected
<1>3. PICK i \in Body : i < j /\ nodes[i].name = nodes[j].inputs[k]
    BY <1>2
<1> DEFINE K == {g \in Body : g <= i /\ V[g] = V[i]}
<1>4. ASSUME NEW h \in K, h \in Backend!Aliases
      PROVE  /\ nodes[h].inputs # <<>>
             /\ \E g \in K : g < h /\ nodes[g].name = nodes[h].inputs[1]
    <2>1. h \in DOMAIN nodes /\ nodes[h].op.type \in TransformOps
        BY <1>4, BackendSets DEF Backend!Aliases
    <2>2. nodes[h].op.type # "Input"
        BY <2>1 DEF TransformOps
    <2>3. 1 \in DOMAIN nodes[h].inputs
        BY <2>1, <2>2 DEF Final, Fit, WellOperated
    <2>4. nodes[h].inputs # <<>>
        BY <2>3
    <2>5. PICK g \in Body : g < h /\ nodes[g].name = nodes[h].inputs[1]
        BY <1>2, <2>1, <2>3
    <2>6. V[h] = V[g]
        BY <2>1, <2>5, AliasValue
    <2>7. g <= i
        BY <1>1, <2>5
    <2> QED
        BY <2>4, <2>5, <2>6, <2>7
<1>5. i \in K /\ K \subseteq Body
    BY <1>1
<1>6. \A g \in K : g <= i /\ V[g] = V[i]
    OBVIOUS
<1> HIDE DEF K
<1>7. PICK h \in K : /\ h \notin Backend!Aliases
                     /\ Backend!PhysicalNodeId(nodes[i].name) = nodes[h].name
    BY <1>4, <1>5, AliasesEnd DEF Final, Fit
<1>8. h \in Backend!Compute \cup Backend!Inputs
    BY <1>5, <1>7, ComputeIs DEF Final, Fit
<1>9. h < j
    BY <1>1, <1>3, <1>5, <1>6
<1>10. \A args : Given(V, j, args) => args[k] = V[h]
    BY <1>1, <1>3, <1>6 DEF Given
<1> QED
    BY <1>3, <1>7, <1>8, <1>9, <1>10

LEMMA OutputValue ==
    ASSUME NEW V, Final(V), NEW j \in Backend!Outputs
    PROVE  \E h \in Backend!Compute : Parent(j) = Sanitized(h) /\ V[h] = V[j]
<1>1. /\ Staying = DOMAIN nodes /\ Body \subseteq DOMAIN nodes /\ DOMAIN nodes \subseteq Nat
      /\ j \in DOMAIN nodes /\ nodes[j].op.type = "Output"
    BY FinalSets DEF Backend!Outputs
<1>2. \A h \in DOMAIN nodes : \A l \in DOMAIN nodes[h].inputs :
        \E i \in Body : i < h /\ nodes[i].name = nodes[h].inputs[l]
    BY <1>1 DEF Final, Fit, Connected
<1>3. PICK G \in SUBSET Transforms :
          Grounds(G) /\ \A o \in Backend!Outputs : Reads(o, G \cup Kernels)
    BY DEF Final, OutputsGrounded
<1> DEFINE L == G \cup Kernels
           K == {g \in L : V[g] = V[j]}
<1>4. /\ \A i \in G : i \in DOMAIN nodes /\ nodes[i].op.type \in TransformOps
      /\ \A i \in Kernels : i \in DOMAIN nodes /\ nodes[i].op.type \in KernelOps
    BY DEF Transforms, Kernels, Staying
<1>5. /\ L \subseteq Body
      /\ \A i \in L : i \in Backend!Aliases => i \in G
      /\ \A i \in L : i \notin Backend!Aliases => i \in Backend!Compute
    <2>1. "Output" \notin TransformOps /\ "Output" \notin KernelOps
        BY KernelOpsAre DEF TransformOps, IOOps
    <2>2. L \subseteq Body
        BY <1>4, <2>1 DEF Body
    <2>3. ASSUME NEW i \in Kernels PROVE i \notin Backend!Aliases /\ i \in Backend!Compute
        BY <1>4, ComputeIs DEF Final, Fit
    <2>4. ASSUME NEW i \in G PROVE i \in Backend!Aliases
        BY <1>4, BackendSets DEF Backend!Aliases
    <2> QED
        BY <2>2, <2>3, <2>4
<1>6. ASSUME NEW h \in DOMAIN nodes, nodes[h].op.type \in TransformOps \cup {"Output"}, Reads(h, L)
      PROVE  /\ nodes[h].inputs # <<>>
             /\ \E g \in L : g < h /\ nodes[g].name = nodes[h].inputs[1] /\ V[h] = V[g]
    <2>1. nodes[h].op.type # "Input"
        BY <1>6 DEF TransformOps
    <2>2. 1 \in DOMAIN nodes[h].inputs
        BY <2>1 DEF Final, Fit, WellOperated
    <2>3. PICK f \in Body : f < h /\ nodes[f].name = nodes[h].inputs[1]
        BY <1>2, <2>2
    <2>4. PICK g \in L : nodes[g].name = nodes[h].inputs[1]
        BY <1>6 DEF Reads
    <2>5. f = g
        BY <1>5, <2>3, <2>4, BodyNamesApart DEF Final, Fit
    <2>6. V[h] = V[f]
        BY <1>6, <2>3, AliasValue
    <2> QED
        BY <2>2, <2>3, <2>4, <2>5, <2>6
<1>7. PICK g \in L : nodes[g].name = nodes[j].inputs[1] /\ V[j] = V[g]
    BY <1>1, <1>3, <1>6
<1>8. ASSUME NEW h \in K, h \in Backend!Aliases
      PROVE  /\ nodes[h].inputs # <<>>
             /\ \E f \in K : f < h /\ nodes[f].name = nodes[h].inputs[1]
    <2>1. h \in G /\ V[h] = V[j] /\ h \in DOMAIN nodes /\ nodes[h].op.type \in TransformOps
        BY <1>4, <1>5, <1>8
    <2>2. Reads(h, L)
        BY <1>3, <2>1 DEF Grounds
    <2> QED
        BY <1>6, <2>1, <2>2
<1>9. g \in K /\ K \subseteq Body /\ K \subseteq L /\ \A f \in K : V[f] = V[j]
    BY <1>5, <1>7
<1> HIDE DEF K, L
<1>10. PICK h \in K : /\ h \notin Backend!Aliases
                      /\ Backend!PhysicalNodeId(nodes[g].name) = nodes[h].name
    BY <1>8, <1>9, AliasesEnd DEF Final, Fit
<1>11. h \in Backend!Compute /\ V[h] = V[j]
    BY <1>5, <1>9, <1>10
<1> DEFINE name == nodes[j].inputs[1]
<1>12. Backend!PhysicalNodeId(name) = nodes[h].name
    BY <1>7, <1>10
<1> HIDE DEF name
<1>13. Backend!CppVar(name) = Sanitized(h)
    BY <1>11, <1>12, ComputedVar DEF Final, Fit
<1> QED
    BY <1>11, <1>13 DEF Parent, name

LEMMA GreatestNumber ==
    ASSUME NEW n \in Nat, NEW S \in SUBSET (1 .. n), S # {}
    PROVE  \E m \in S : \A l \in S : l <= m
<1> DEFINE B == {b \in Nat : \A l \in S : l <= b}
<1>1. n \in B
    OBVIOUS
<1>2. PICK b \in B : \A c \in B : b <= c
    <2> DEFINE D == B
    <2>1. D \in SUBSET Nat /\ D # {}
        BY <1>1
    <2> HIDE DEF D
    <2>2. \E b \in D : \A c \in D : b <= c
        BY <2>1, LeastNumber
    <2> QED
        BY <2>2 DEF D
<1>3. b \in S
    <2> SUFFICES ASSUME b \notin S PROVE FALSE
        OBVIOUS
    <2>1. PICK l \in S : TRUE
        OBVIOUS
    <2>2. b \in Nat /\ \A k \in S : k <= b /\ k # b /\ k \in Nat /\ k >= 1
        OBVIOUS
    <2>3. b - 1 \in Nat
        BY <2>1, <2>2
    <2>4. \A k \in S : k <= b - 1
        BY <2>2
    <2>5. b - 1 \in B
        BY <2>3, <2>4
    <2>6. b <= b - 1
        BY <1>2, <2>5
    <2> QED
        BY <2>2, <2>6
<1> QED
    BY <1>2, <1>3

(* What the blob holds where the entry says is its parameter, and no other. *)
LEMMA DataFound ==
    ASSUME NEW blob, IsList(blob), NEW e, NEW j, NEW param, EntryOf(e, j, param, blob),
           Size(ParameterOf(j, param)) \in Nat \ {0}, NEW u, Size(u) \in Nat \ {0}
    PROVE  SubSeq(blob, e.offset + 1, e.offset + e.size) = Backend!Data(u) <=> u = ParameterOf(j, param)
<1> DEFINE o == e.offset
           s == e.size
           t == ParameterOf(j, param)
           part == SubSeq(blob, o + 1, o + s)
           data == Backend!Data(u)
<1>1. /\ o \in Nat /\ s = Size(t) /\ s \in Nat \ {0}
      /\ o + s <= Len(blob) /\ \A i \in 1 .. s : blob[o + i] = <<t, i>>
    BY DEF EntryOf
<1> HIDE DEF o, s, t
<1>2. part = [i \in 1 .. s |-> <<t, i>>]
    <2> DEFINE S == {blob[k] : k \in DOMAIN blob}
    <2>1. blob \in Seq(S) /\ Len(blob) \in Nat
        BY DEF IsList
    <2> HIDE DEF S
    <2>2. o + 1 \in 1 .. Len(blob) + 1 /\ o + s \in 0 .. Len(blob)
        BY <1>1, <2>1
    <2>3. \A i \in 1 .. s : part[i] = blob[o + i]
        BY <1>1, <2>1, <2>2
    <2>4. part = [i \in 1 .. s |-> part[i]]
        BY <1>1, <2>1, <2>2
    <2> HIDE DEF part
    <2> QED
        BY <1>1, <2>3, <2>4
<1>3. data = [i \in 1 .. Size(u) |-> <<u, i>>]
    BY DEF Backend!Data
<1> HIDE DEF part, data
<1>4. ASSUME part = data PROVE u = t
    <2>1. 1 \in 1 .. s /\ part[1] = <<t, 1>>
        BY <1>1, <1>2
    <2>2. 1 \in 1 .. Size(u) /\ data[1] = <<u, 1>>
        BY <1>3
    <2> QED
        BY <1>4, <2>1, <2>2
<1>5. ASSUME u = t PROVE part = data
    BY <1>1, <1>2, <1>3, <1>5
<1> QED
    BY <1>4, <1>5 DEF part, data, o, s, t

LEMMA ParameterStored ==
    ASSUME NEW V, Final(V), Stowed, NEW j \in Layered, NEW param \in Params
    PROVE  Parameter(Sanitized(j), param) = Tensor(ParameterOf(j, param))
<1> DEFINE var == Sanitized(j)
           t == ParameterOf(j, param)
           copied == {m \in DOMAIN metadata : metadata[m].node = var /\ metadata[m].param = param}
           last == CHOOSE m \in copied : \A l \in copied : l <= m
           e == metadata[last]
           found == {u \in model.initializer :
                        /\ e.offset + e.size <= Len(bytes_buffer)
                        /\ SubSeq(bytes_buffer, e.offset + 1, e.offset + e.size) = Backend!Data(u)}
<1>1. t \in model.initializer /\ \A u \in model.initializer : Size(u) \in Nat \ {0}
    BY SizeAssumption DEF Final, Typed, LayersStored, Layered, ParameterOf
<1>2. HasEntry(metadata, j, param)
    <2>1. StowedUpTo = Len(nodes) + 1
        BY DEF StowedUpTo, Final
    <2>2. j < Len(nodes) + 1
        BY FinalSets DEF Layered
    <2> QED
        BY <2>1, <2>2 DEF Stowed
<1>3. copied # {}
    BY <1>2 DEF HasEntry
<1>4. Len(metadata) \in Nat /\ copied \in SUBSET (1 .. Len(metadata))
    <2>1. IsList(metadata)
        BY DEF Stowed, EntriesIn
    <2>2. Len(metadata) \in Nat /\ DOMAIN metadata = 1 .. Len(metadata)
        BY <2>1, ListAppends
    <2> QED
        BY <2>2
<1>5. last \in copied
    <2> HIDE DEF copied
    <2>1. \E m \in copied : \A l \in copied : l <= m
        BY <1>3, <1>4, GreatestNumber
    <2> QED
        BY <2>1
<1>6. Parameter(var, param) = IF found = {} THEN <<"garbage">> ELSE Tensor(CHOOSE u \in found : TRUE)
    BY <1>3 DEF Parameter
<1>7. EntryOf(e, j, param, bytes_buffer) /\ IsList(bytes_buffer)
    <2>1. last \in DOMAIN metadata /\ e.node = var /\ e.param = param
        BY <1>5
    <2> HIDE DEF last
    <2>2. PICK i \in Layered, q \in Params : EntryOf(e, i, q, bytes_buffer)
        BY <2>1 DEF Stowed, EntriesIn
    <2>3. Sanitized(i) = var /\ q = param
        BY <2>1, <2>2 DEF EntryOf
    <2>4. i = j
        <3>1. i \in Body /\ j \in Body
            BY DEF Layered, Body, ParameterOps
        <3> QED
            BY <2>3, <3>1 DEF Final, Fit, IdentifiersApart
    <2> QED
        BY <2>2, <2>3, <2>4 DEF Stowed, EntriesIn
<1> HIDE DEF last, copied
<1>8. found = {t}
    <2>1. e.offset + e.size <= Len(bytes_buffer)
        BY <1>7 DEF EntryOf
    <2> HIDE DEF e
    <2>2. \A u \in model.initializer :
             SubSeq(bytes_buffer, e.offset + 1, e.offset + e.size) = Backend!Data(u) <=> u = t
        BY <1>1, <1>7, DataFound
    <2> HIDE DEF t
    <2> QED
        BY <1>1, <2>1, <2>2
<1> HIDE DEF found
<1> QED
    BY <1>6, <1>8

(* The run of the program, as Memory describes it.                          *)
InputTensorOf(var) ==
    LET j == CHOOSE i \in Backend!Inputs : Backend!IOVar("input", i) = var
    IN  Tensor(model.input[nodes[j].op.index + 1])

ReadIn(memory, buffer) ==
    IF buffer.kind = "param" THEN InputTensorOf(buffer.var) ELSE memory[buffer.var]

ParametersOf == [var \in Members |-> <<Parameter(var, "weight"), Parameter(var, "bias")>>]

ResultIn(memory, call) ==
    LET bufs == [i \in DOMAIN call.input_bufs |-> ReadIn(memory, call.input_bufs[i])]
        params == IF call.call_type = "parameterised" THEN ParametersOf[call.var]
                  ELSE <<>>
        layer == Apply(KernelFunction[call.kernel[1]], "implemented", bufs \o params)
    IN  IF call.kernel[2] = None THEN layer
        ELSE Apply(KernelFunction[call.kernel[2]], "implemented", <<layer>>)

Ran(memory, k) ==
    [var \in Members |-> IF calls[k].var = var THEN ResultIn(memory, calls[k]) ELSE memory[var]]

Runs(f, n) ==
    f = [k \in 0 .. n |->
            [var \in Members |->
                IF k = 0 THEN <<"uninitialized">>
                ELSE IF calls[k].var = var THEN ResultIn(f[k - 1], calls[k])
                ELSE f[k - 1][var]]]

LEMMA RunExists ==
    ASSUME NEW n \in Nat
    PROVE  \E f : Runs(f, n)
<1> DEFINE bad == {m \in Nat : ~ \E f : Runs(f, m)}
<1> SUFFICES ASSUME bad # {} PROVE FALSE
    OBVIOUS
<1>1. PICK m \in bad : \A o \in bad : m <= o
    <2> HIDE DEF bad
    <2>1. bad \in SUBSET Nat
        BY DEF bad
    <2> QED
        BY <2>1, LeastNumber
<1> DEFINE start == [var \in Members |-> <<"uninitialized">>]
           At(f, i) == IF i = 0 THEN start ELSE Ran(f[i - 1], i)
<1>2. \A f, o : Runs(f, o) <=> f = [i \in 0 .. o |-> At(f, i)]
    <2> SUFFICES ASSUME NEW f, NEW o
                 PROVE  [i \in 0 .. o |-> At(f, i)] =
                        [k \in 0 .. o |->
                            [var \in Members |->
                                IF k = 0 THEN <<"uninitialized">>
                                ELSE IF calls[k].var = var THEN ResultIn(f[k - 1], calls[k])
                                ELSE f[k - 1][var]]]
        BY DEF Runs
    <2>1. \A k \in 0 .. o : At(f, k) =
             [var \in Members |->
                 IF k = 0 THEN <<"uninitialized">>
                 ELSE IF calls[k].var = var THEN ResultIn(f[k - 1], calls[k])
                 ELSE f[k - 1][var]]
        BY DEF Ran
    <2> HIDE DEF At
    <2> QED
        BY <2>1
<1> HIDE DEF start
<1>3. m # 0
    <2> DEFINE g == [i \in 0 .. 0 |-> start]
    <2>1. g = [i \in 0 .. 0 |-> At(g, i)]
        OBVIOUS
    <2> HIDE DEF g, At
    <2>2. Runs(g, 0)
        BY <1>2, <2>1
    <2> QED
        BY <2>2
<1>4. m \in Nat /\ m - 1 \in Nat /\ m - 1 \notin bad
    BY <1>1, <1>3
<1>5. PICK f : Runs(f, m - 1)
    BY <1>4
<1> DEFINE g == [i \in 0 .. m |-> IF i = m THEN Ran(f[m - 1], m) ELSE f[i]]
<1>6. Runs(g, m)
    <2>1. f = [i \in 0 .. m - 1 |-> At(f, i)]
        <3> HIDE DEF At
        <3> QED
            BY <1>2, <1>5
    <2>2. \A i \in 0 .. m - 1 : f[i] = At(f, i)
        BY <2>1
    <2>3. ASSUME NEW i \in 0 .. m PROVE g[i] = At(g, i)
        <3>1. i # 0 => i - 1 \in 0 .. m /\ i - 1 # m /\ g[i - 1] = f[i - 1]
            BY <1>4
        <3>2. CASE i = m
            <4>1. g[i] = Ran(f[m - 1], m)
                BY <3>2
            <4> HIDE DEF g
            <4> QED
                BY <1>3, <3>1, <3>2, <4>1
        <3>3. CASE i # m
            <4>1. g[i] = f[i] /\ i \in 0 .. m - 1
                BY <1>4, <3>3
            <4> HIDE DEF g
            <4> QED
                BY <2>2, <3>1, <4>1
        <3> QED
            BY <3>2, <3>3
    <2>4. g = [i \in 0 .. m |-> g[i]]
        OBVIOUS
    <2> HIDE DEF g, At
    <2>5. g = [i \in 0 .. m |-> At(g, i)]
        BY <2>3, <2>4
    <2> QED
        BY <1>2, <2>5
<1> QED
    BY <1>1, <1>6

LEMMA MemoryIs ==
    ASSUME Len(calls) \in Nat
    PROVE  \E f : Runs(f, Len(calls)) /\ Memory = f[Len(calls)]
<1> DEFINE n == Len(calls)
           f == CHOOSE f : Runs(f, n)
<1>1. Memory = f[n]
    BY DEF Memory, Runs, ResultIn, ReadIn, InputTensorOf, ParametersOf
<1>2. Runs(f, n)
    <2> HIDE DEF n
    <2>1. n \in Nat
        BY DEF n
    <2> QED
        BY <2>1, RunExists
<1> QED
    BY <1>1, <1>2

(* A kernel given the values of its operands computes that of its node.     *)
LEMMA CallComputes ==
    ASSUME NEW V, Final(V), Stowed, NEW j \in Backend!Compute, Sanitized(j) \in Members,
           NEW memory,
           \A h \in Backend!Compute : h < j => memory[Sanitized(h)] = V[h]
    PROVE  ResultIn(memory, Backend!Call(nodes[j])) = V[j]
<1> DEFINE node == nodes[j]
           call == Backend!Call(node)
           bufs == [i \in DOMAIN call.input_bufs |-> ReadIn(memory, call.input_bufs[i])]
           params == IF call.call_type = "parameterised" THEN ParametersOf[call.var]
                     ELSE <<>>
           layer == Apply(KernelFunction[call.kernel[1]], "implemented", bufs \o params)
<1>1. /\ j \in DOMAIN nodes /\ node.op.type \in KernelOps /\ j \in Staying
      /\ Backend!Inputs \subseteq Body /\ Body \subseteq DOMAIN nodes
    BY ComputeIs, FinalSets DEF Final, Fit, Backend!Compute
<1>2. PICK args : Given(V, j, args) /\ V[j] = NodeValue(node.op, args)
    BY <1>1 DEF Final, Carried, Carries
<1>3. /\ call.var = Sanitized(j)
      /\ call.kernel[1] = node.op.type /\ call.kernel[2] = node.op.activation
      /\ call.call_type = Backend!CallType(node.op)
    <2>1. Backend!CppVar(node.name) = Sanitized(j)
        BY VarOf DEF Final, Fit
    <2> HIDE DEF node
    <2> QED
        BY <2>1 DEF Backend!Call
<1>4. /\ DOMAIN call.input_bufs = DOMAIN node.inputs
      /\ \A i \in DOMAIN node.inputs : call.input_bufs[i] = Backend!BufferAccessor(node.inputs[i])
    BY BuffersOf DEF Final, Fit
<1>5. ASSUME NEW i \in DOMAIN node.inputs
      PROVE  ReadIn(memory, Backend!BufferAccessor(node.inputs[i])) = args[i]
    <2> DEFINE name == node.inputs[i]
    <2>1. PICK h \in Backend!Compute \cup Backend!Inputs :
              /\ h < j /\ Backend!PhysicalNodeId(name) = nodes[h].name
              /\ args[i] = V[h]
        BY <1>1, <1>2, ReadValue
    <2> HIDE DEF name, node
    <2>2. CASE h \in Backend!Compute
        <3>1. Backend!BufferAccessor(name) = Backend!Member(Sanitized(h))
            BY <2>1, <2>2, KernelVar
        <3> QED
            BY <2>1, <2>2, <3>1 DEF ReadIn, Backend!Member, name
    <2>3. CASE h \in Backend!Inputs
        <3> DEFINE in == "input"
                   var == Backend!IOVar(in, h)
                   source == CHOOSE k \in Backend!Inputs : Backend!IOVar("input", k) = var
        <3>1. Backend!BufferAccessor(name) = Backend!Param(var)
            BY <2>1, <2>3, InputVar DEF Final, Fit
        <3>2. source = h
            BY <2>3, InputVarsApart
        <3>3. InputTensorOf(var) = Tensor(model.input[nodes[h].op.index + 1])
            BY <3>2 DEF InputTensorOf
        <3>4. V[h] = Tensor(model.input[nodes[h].op.index + 1])
            <4>1. h \in Staying /\ nodes[h].op.type = "Input"
                BY <1>1, <2>3, FinalSets DEF Backend!Inputs
            <4>2. Carries(V, h)
                BY <4>1 DEF Final, Carried
            <4> QED
                BY <4>1, <4>2 DEF Carries, NodeValue
        <3> HIDE DEF source, var
        <3>5. ReadIn(memory, Backend!Param(var)) = InputTensorOf(var)
            BY DEF ReadIn, Backend!Param
        <3> QED
            BY <2>1, <3>1, <3>3, <3>4, <3>5 DEF name
    <2> QED
        BY <2>1, <2>2, <2>3
<1>6. bufs = args
    <2>1. args = [i \in DOMAIN node.inputs |-> args[i]]
        BY <1>2 DEF Given
    <2> HIDE DEF call
    <2>2. bufs = [i \in DOMAIN node.inputs |-> ReadIn(memory, Backend!BufferAccessor(node.inputs[i]))]
        BY <1>4
    <2> HIDE DEF bufs, node
    <2> QED
        BY <1>5, <2>1, <2>2
<1>7. params = IF node.op.type \in ParameterOps THEN <<Tensor(node.op.weight), Tensor(node.op.bias)>>
                                                ELSE <<>>
    <2>1. call.call_type = "parameterised" <=> node.op.type \in ParameterOps
        <3>1. Backend!CallType(node.op) = "parameterised" <=> node.op.type \in ParameterOps
            BY DEF Backend!CallType, ParameterOps
        <3> QED
            BY <1>3, <3>1
    <2>2. ASSUME node.op.type \in ParameterOps
          PROVE  ParametersOf[call.var] = <<Tensor(node.op.weight), Tensor(node.op.bias)>>
        <3>1. j \in Layered
            BY <1>1, <2>2 DEF Layered
        <3>2. /\ Parameter(Sanitized(j), "weight") = Tensor(node.op.weight)
              /\ Parameter(Sanitized(j), "bias") = Tensor(node.op.bias)
            BY <3>1, ParameterStored DEF Params, ParameterOf
        <3>3. ParametersOf[Sanitized(j)] =
                <<Parameter(Sanitized(j), "weight"), Parameter(Sanitized(j), "bias")>>
            BY DEF ParametersOf
        <3> QED
            BY <1>3, <3>2, <3>3
    <2> HIDE DEF call, node
    <2> QED
        BY <2>1, <2>2
<1>8. layer = Layer(node.op, args)
    <2> HIDE DEF call, node, bufs, params
    <2> QED
        BY <1>3, <1>6, <1>7 DEF Layer
<1>9. ResultIn(memory, call) = IF call.kernel[2] = None THEN layer
                               ELSE Apply(KernelFunction[call.kernel[2]], "implemented", <<layer>>)
    BY DEF ResultIn
<1>10. node.op.type # "Input"
    BY <1>1, KernelOpsAre DEF IOOps
<1> HIDE DEF call, node, layer, bufs, params
<1>11. ResultIn(memory, call) = NodeValue(node.op, args)
    BY <1>1, <1>3, <1>8, <1>9, <1>10 DEF NodeValue
<1> QED
    BY <1>2, <1>11 DEF call, node

(* After k calls the members these computed hold what their nodes compute.  *)
LEMMA CallsCompute ==
    ASSUME NEW V, Final(V), Called, CallsExact, CallsOrdered, Stowed,
           NEW f, Runs(f, Len(calls))
    PROVE  \A k \in 0 .. Len(calls) : \A l \in 1 .. k, j \in Backend!Compute :
               calls[l].var = Sanitized(j) => f[k][Sanitized(j)] = V[j]
<1> DEFINE n == Len(calls)
           Right(k) == \A l \in 1 .. k, j \in Backend!Compute :
                           calls[l].var = Sanitized(j) => f[k][Sanitized(j)] = V[j]
<1>1. n \in Nat /\ DOMAIN calls = 1 .. n
    <2> DEFINE S == {calls[k] : k \in DOMAIN calls}
    <2>1. calls \in Seq(S)
        BY DEF Called, IsList
    <2> HIDE DEF S
    <2> QED
        BY <2>1
<1>2. \A j \in Backend!Compute : j \in Body /\ j \in DOMAIN nodes /\ j < Len(nodes) + 1
    <2>1. Backend!Compute \subseteq Body
        BY ComputeIs DEF Final, Fit
    <2> QED
        BY <2>1, FinalSets
<1>3. Reached = Len(nodes) + 1
    BY DEF Final, Reached
<1>4. ASSUME NEW j \in Backend!Compute
      PROVE  \E m \in 1 .. n : calls[m].var = Sanitized(j)
    BY <1>1, <1>2, <1>3, <1>4 DEF Called, CallOf
<1>5. ASSUME NEW m \in 1 .. n PROVE calls[m].var \in Members
    BY <1>1 DEF Members
<1>6. \A k \in 0 .. n :
         f[k] = [var \in Members |->
                    IF k = 0 THEN <<"uninitialized">>
                    ELSE IF calls[k].var = var THEN ResultIn(f[k - 1], calls[k])
                    ELSE f[k - 1][var]]
    <2> DEFINE At(k) == [var \in Members |->
                            IF k = 0 THEN <<"uninitialized">>
                            ELSE IF calls[k].var = var THEN ResultIn(f[k - 1], calls[k])
                            ELSE f[k - 1][var]]
    <2>1. f = [k \in 0 .. n |-> At(k)]
        BY DEF Runs
    <2> HIDE DEF At, n
    <2>2. \A k \in 0 .. n : f[k] = At(k)
        BY <2>1
    <2> QED
        BY <2>2 DEF At
<1>7. ASSUME NEW k \in 1 .. n, Right(k - 1) PROVE Right(k)
    <2> SUFFICES ASSUME NEW l \in 1 .. k, NEW j \in Backend!Compute, calls[l].var = Sanitized(j)
                 PROVE  f[k][Sanitized(j)] = V[j]
        OBVIOUS
    <2> DEFINE own == Sanitized(j)
               before == f[k - 1]
    <2>1. l \in DOMAIN calls /\ k \in DOMAIN calls /\ own \in Members
        BY <1>1, <1>5
    <2>2. f[k][own] = IF calls[k].var = own THEN ResultIn(before, calls[k]) ELSE before[own]
        <3> HIDE DEF own
        <3>1. k \in 0 .. n /\ k # 0
            BY <1>1
        <3> HIDE DEF n
        <3> QED
            BY <1>6, <2>1, <3>1
    <2>3. CASE l = k
        <3>1. PICK i \in Backend!Compute : calls[k] = Backend!Call(nodes[i])
            BY <2>1 DEF CallsExact
        <3>2. Backend!Call(nodes[i]).var = Sanitized(i)
            BY VarOf DEF Final, Fit, Backend!Call
        <3>3. i = j
            BY <1>2, <2>3, <3>1, <3>2 DEF Final, Fit, IdentifiersApart
        <3>4. ASSUME NEW h \in Backend!Compute, h < j PROVE before[Sanitized(h)] = V[h]
            <4>1. PICK m \in 1 .. n : calls[m].var = Sanitized(h)
                BY <1>4
            <4>2. m < k
                BY <1>1, <2>1, <2>3, <3>4, <4>1 DEF CallsOrdered
            <4>3. m \in 1 .. k - 1
                BY <1>1, <4>2
            <4> QED
                BY <1>7, <4>1, <4>3
        <3> HIDE DEF before
        <3>5. ResultIn(before, Backend!Call(nodes[j])) = V[j]
            BY <2>1, <3>4, CallComputes
        <3> QED
            BY <2>2, <2>3, <3>1, <3>3, <3>5
    <2>4. CASE l # k
        <3>1. calls[k].var # own
            BY <2>1, <2>4 DEF Called
        <3>2. l \in 1 .. k - 1
            BY <1>1, <2>4
        <3>3. before[own] = V[j]
            BY <1>7, <3>2
        <3> QED
            BY <2>2, <3>1, <3>3
    <2> QED
        BY <2>3, <2>4
<1> DEFINE bad == {k \in 0 .. n : ~ Right(k)}
<1>8. bad \in SUBSET Nat /\ bad \subseteq 0 .. n
    BY <1>1
<1>9. Right(0)
    OBVIOUS
<1>10. bad = {}
    <2> SUFFICES ASSUME bad # {} PROVE FALSE
        OBVIOUS
    <2> DEFINE B == bad
    <2>1. B \in SUBSET Nat /\ B # {}
        BY <1>8
    <2> HIDE DEF B
    <2>2. PICK k \in B : \A m \in B : k <= m
        BY <2>1, LeastNumber
    <2>3. k \in 0 .. n /\ ~ Right(k) /\ \A m \in 0 .. n : ~ Right(m) => k <= m
        BY <2>2 DEF B
    <2> HIDE DEF Right, n, bad
    <2>4. k # 0 /\ n \in Nat
        BY <1>1, <1>9, <2>3
    <2>5. k \in 1 .. n /\ k - 1 \in 0 .. n /\ ~ k <= k - 1
        BY <2>3, <2>4
    <2> QED
        BY <1>7, <2>3, <2>5
<1> QED
    BY <1>10

LEMMA DoneComputes ==
    ASSUME NEW V, Final(V), OutputsRight(V), OutputsComplete,
           Called, CallsExact, CallsOrdered, Stowed
    PROVE  ProgramComputesModel
<1> DEFINE n == Len(calls)
<1>1. n \in Nat /\ DOMAIN calls = 1 .. n
    <2> DEFINE S == {calls[k] : k \in DOMAIN calls}
    <2>1. calls \in Seq(S)
        BY DEF Called, IsList
    <2> HIDE DEF S
    <2> QED
        BY <2>1
<1>2. PICK f : Runs(f, n) /\ Memory = f[n]
    BY <1>1, MemoryIs
<1>3. ASSUME NEW j \in Backend!Outputs
      PROVE  Memory[Parent(j)] = OnnxValues(model)[model.output[nodes[j].op.index + 1]]
    <2>1. PICK h \in Backend!Compute : Parent(j) = Sanitized(h) /\ V[h] = V[j]
        BY OutputValue
    <2>2. PICK l \in DOMAIN calls : calls[l].var = Sanitized(h)
        <3>1. Reached = Len(nodes) + 1
            BY DEF Final, Reached
        <3>2. h < Reached
            <4>1. Backend!Compute \subseteq DOMAIN nodes
                BY DEF Backend!Compute
            <4> QED
                BY <3>1, <4>1, FinalSets
        <3> QED
            BY <3>2 DEF Called, CallOf
    <2>3. l \in 1 .. n /\ n \in 0 .. n
        BY <1>1
    <2>4. f[n][Sanitized(h)] = V[h]
        BY <1>2, <2>2, <2>3, CallsCompute
    <2> QED
        BY <1>2, <2>1, <2>4 DEF OutputsRight
<1> QED
    BY <1>3 DEF ProgramComputesModel, OutputsComplete

-----------------------------------------------------------------------------
(* Every step keeps that                                                    *)

(* What the list computes and what the back end has made of it: the         *)
(* invariant, beside IInv and CInv.                                         *)
VInv == SupportedModel => Meant /\ Generated

LEMMA VInitially == Init => VInv
<1> SUFFICES ASSUME Init PROVE VInv
    OBVIOUS
<1>1. phase = "map_inputs" /\ nodes = <<>> /\ bytes_buffer = <<>>
    BY DEF Init, Frontend!Init
<1>2. DOMAIN nodes = {}
    BY <1>1
<1>3. Body = {} /\ Staying = {}
    BY <1>2 DEF Body, Staying
<1>4. LayersStored /\ VarsOffInputs
    BY <1>2, <1>3 DEF LayersStored, VarsOffInputs
<1>5. Computes
    <2>1. PICK V : V = <<>>
        OBVIOUS
    <2>2. Carried(V)
        BY <1>3 DEF Carried
    <2> QED
        BY <1>1, <2>2 DEF Computes
<1>6. Meant
    BY <1>1, <1>4, <1>5 DEF Meant
<1>7. Generated
    BY <1>1 DEF Generated
<1> QED
    BY <1>6, <1>7 DEF VInv

LEMMA ParseMeant ==
    ASSUME IInv, IInv', CInv, CInv', SupportedModel, SupportedModel', Parse, Meant, Generated
    PROVE  Meant' /\ Generated'
<1>1. /\ level' = level /\ bytes_buffer' = bytes_buffer /\ Frontend!Next
      /\ Typed /\ Built /\ Built' /\ phase' # "failed"
    BY DEF Parse, backVars, IInv, CInv
<1>2. phase = "traverse" => Walked
    BY DEF IInv
<1>3. IdentifiersApart /\ IdentifiersApart' /\ (phase = "traverse" => ListedSoFar)
    BY <1>1 DEF Built
<1>4. ASSUME phase \in {"map_inputs", "traverse"}, phase' \in {"traverse", "optimize"}
      PROVE  Generated'
    BY <1>1, <1>4 DEF Generated
<1>5. CASE Frontend!MapInputs
    <2>1. phase = "map_inputs" /\ phase' = "traverse"
        BY <1>1, <1>5, MapInputsEffect
    <2> QED
        BY <1>1, <1>4, <1>5, <2>1, InputsMeant
<1>6. CASE Frontend!Refuse
    BY <1>1, <1>6 DEF Frontend!Refuse
<1>7. CASE Frontend!PassThrough
    <2>1. phase = "traverse" /\ phase' = "traverse"
        BY <1>1, <1>7, PassThroughEffect
    <2> QED
        BY <1>1, <1>2, <1>4, <1>7, <2>1, PassMeant
<1>8. CASE Frontend!ParseNode
    <2>1. phase = "traverse" /\ phase' = "traverse"
        BY <1>1, <1>8, ParseNodeEffect
    <2> QED
        BY <1>1, <1>2, <1>3, <1>4, <1>8, <2>1, NodeMeant
<1>9. CASE Frontend!MapOutputs
    <2>1. phase = "traverse" /\ phase' = "optimize"
        BY <1>1, <1>9, MapOutputsEffect
    <2> QED
        BY <1>1, <1>2, <1>3, <1>4, <1>9, <2>1, OutputsMeant
<1> QED
    BY <1>1, <1>5, <1>6, <1>7, <1>8, <1>9 DEF Frontend!Next

(* A step that leaves the list alone, behind the front end.                 *)
LEMMA ListMeant ==
    ASSUME nodes' = nodes, model' = model, Staying' = Staying, Meant,
           phase \notin {"map_inputs", "traverse"}, phase' \notin {"map_inputs", "traverse"}
    PROVE  Meant'
<1>1. PICK V : Carried(V) /\ OutputsRight(V)
    BY DEF Meant, Computes
<1>2. (Carried(V))' /\ (OutputsRight(V))'
    BY <1>1, MeantSame
<1>3. Computes'
    BY <1>2 DEF Computes
<1>4. LayersStored' /\ VarsOffInputs' /\ InputsRead' /\ OutputsComplete'
    BY MeantSame DEF Meant
<1> QED
    BY <1>3, <1>4 DEF Meant

LEMMA OptimizeMeant ==
    ASSUME IInv, Optimize, Meant, Generated
    PROVE  Meant' /\ Generated'
<1>1. /\ phase = "optimize" /\ phase' \in {"optimized", "kernel_fusion"}
      /\ nodes' = nodes /\ model' = model
      /\ nodes_to_remove' = nodes_to_remove /\ bytes_buffer' = bytes_buffer
    BY DEF Optimize, frontVars, fuseVars, backVars
<1>2. nodes_to_remove = {}
    BY <1>1 DEF IInv
<1>3. Staying' = Staying
    BY <1>1, <1>2 DEF Staying
<1>4. Meant'
    BY <1>1, <1>3, ListMeant
<1> QED
    BY <1>1, <1>4 DEF Generated

LEMMA FuseKeepsMeant ==
    ASSUME IInv, CInv, SupportedModel, Fuse, Meant, Generated
    PROVE  Meant' /\ Generated'
<1>1. Fusion!Next /\ bytes_buffer' = bytes_buffer
    BY DEF Fuse, backVars
<1>2. phase = "kernel_fusion"
    BY <1>1, FusionIsPass, FuseEffect DEF IInv
<1>3. Typed /\ level > 0 /\ Pass!IInv /\ Built
    BY <1>2 DEF IInv, CInv
<1>4. Sound
    BY <1>2, <1>3 DEF Built, Sound
<1>5. phase' \in {"kernel_fusion", "optimized"}
    BY <1>3, <1>4, FusionKeepsSound
<1>6. Meant'
    BY <1>3, <1>4, FusionMeant
<1> QED
    BY <1>1, <1>2, <1>5, <1>6 DEF Generated

LEMMA StartCodegenMeant ==
    ASSUME nodes \in Seq(Nodes), Built, StartCodegen, Meant, Generated
    PROVE  Meant' /\ Generated'
<1>1. /\ phase = "optimized" /\ phase' = "codegen" /\ position' = 1
      /\ nodes' = nodes /\ model' = model
      /\ calls' = calls /\ metadata' = metadata /\ bytes_buffer' = bytes_buffer
    BY DEF StartCodegen, frontVars, backVars
<1>2. Staying' = Staying
    BY <1>1 DEF Staying
<1>3. Meant'
    BY <1>1, <1>2, ListMeant
<1>4. calls' = <<>> /\ metadata' = <<>> /\ bytes_buffer' = <<>>
    BY <1>1 DEF Built, Generated
<1>5. IsList(<<>>) /\ DOMAIN <<>> = {}
    BY NoList
<1>6. CallsExact' /\ CallsOrdered'
    BY <1>4, <1>5 DEF CallsExact, CallsOrdered
<1>7. (EntriesIn(metadata, bytes_buffer))'
    <2>1. IsList(metadata)' /\ IsList(bytes_buffer)'
        BY <1>4, <1>5 DEF IsList
    <2> QED
        BY <1>4, <1>5, <2>1 DEF EntriesIn
<1>8. \A j \in Layered' : ~ j < StowedUpTo'
    <2>1. StowedUpTo' = 1
        BY <1>1 DEF StowedUpTo
    <2>2. \A j \in DOMAIN nodes : ~ j < 1
        OBVIOUS
    <2>3. Layered' \subseteq DOMAIN nodes
        BY <1>1 DEF Layered
    <2> QED
        BY <2>1, <2>2, <2>3
<1>9. Stowed'
    BY <1>7, <1>8 DEF Stowed
<1> QED
    BY <1>1, <1>3, <1>6, <1>9 DEF Generated

LEMMA GenerateMeant ==
    ASSUME Typed, Built, Generate, phase' # "failed", Meant, Generated
    PROVE  Meant' /\ Generated'
<1>1. Backend!Next /\ model' = model
    BY DEF Generate, frontVars
<1>2. phase \in {"codegen", "pack_model_data"}
    BY <1>1, GenerateEffect
<1>3. Fit /\ Called /\ Stored /\ LayersStored
    BY <1>2 DEF Built, Fit, Typed, Meant
<1>4. phase' \in {"codegen", "pack_model_data", "done"} /\ nodes' = nodes
    BY <1>2, <1>3, GenerateCalls
<1>5. Staying' = Staying
    BY <1>2, <1>4 DEF Staying
<1>6. Meant'
    BY <1>1, <1>2, <1>4, <1>5, ListMeant
<1> QED
    BY <1>3, <1>6, GenerateExact

LEMMA StutterMeant ==
    ASSUME UNCHANGED vars, Meant, Generated
    PROVE  Meant' /\ Generated'
<1>1. /\ phase' = phase /\ nodes' = nodes /\ position' = position
      /\ model' = model /\ value_map' = value_map /\ nodes_to_remove' = nodes_to_remove
      /\ calls' = calls /\ metadata' = metadata /\ bytes_buffer' = bytes_buffer
    BY DEF vars, frontVars, fuseVars, backVars
<1>2. Staying' = Staying /\ Body' = Body
    BY <1>1 DEF Staying, Body
<1>3. PICK V : /\ Carried(V)
               /\ phase = "traverse" => ValueMapRight(V)
               /\ phase \notin {"map_inputs", "traverse"} => OutputsRight(V)
    BY DEF Meant, Computes
<1>4. ValueMapRight(V) => (ValueMapRight(V))'
    BY <1>1, <1>2, ModelSame DEF ValueMapRight
<1>5. Computes'
    <2>1. (Carried(V))' /\ (OutputsRight(V) => (OutputsRight(V))')
        BY <1>1, <1>2, <1>3, MeantSame
    <2> QED
        BY <1>1, <1>3, <1>4, <2>1 DEF Computes
<1>6. /\ LayersStored' /\ VarsOffInputs'
      /\ (InputsRead => InputsRead') /\ (OutputsComplete => OutputsComplete')
    BY <1>1, <1>2, MeantSame DEF Meant
<1>7. Meant'
    BY <1>1, <1>5, <1>6 DEF Meant
<1>8. CallsExact /\ CallsOrdered => CallsExact' /\ CallsOrdered'
    <2>1. Reached' = Reached
        BY <1>1 DEF Reached
    <2> QED
        BY <1>1, <2>1, OtherStepsExact
<1>9. Stowed => Stowed'
    <2>1. StowedUpTo' = StowedUpTo /\ Layered' = Layered
        BY <1>1 DEF StowedUpTo, Layered
    <2> QED
        BY <1>1, <2>1, OtherStepsStow
<1> QED
    BY <1>1, <1>7, <1>8, <1>9 DEF Generated

LEMMA NextVInv == IInv /\ CInv /\ VInv /\ [Next]_vars => VInv'
<1> SUFFICES ASSUME IInv, CInv, VInv, [Next]_vars, SupportedModel' PROVE (Meant /\ Generated)'
    BY DEF VInv
<1>1. IInv' /\ CInv'
    BY NextIInv, NextCInv
<1>2. model' = model /\ level' = level
    <2>1. Frontend!Next => model' = model
        BY DEF Frontend!Next, Frontend!MapInputs, Frontend!Refuse, Frontend!PassThrough,
            Frontend!ParseNode, Frontend!MapOutputs
    <2> QED
        BY <2>1 DEF Next, Parse, Optimize, Fuse, StartCodegen, Generate, vars, frontVars
<1>3. SupportedModel
    BY <1>2, SupportedSame
<1>4. Meant /\ Generated /\ Built /\ Typed /\ phase' # "failed"
    BY <1>1, <1>3 DEF VInv, CInv, IInv
<1>5. CASE Parse
    BY <1>1, <1>3, <1>4, <1>5, ParseMeant
<1>6. CASE Optimize
    BY <1>4, <1>6, OptimizeMeant
<1>7. CASE Fuse
    BY <1>3, <1>4, <1>7, FuseKeepsMeant
<1>8. CASE StartCodegen
    BY <1>4, <1>8, StartCodegenMeant DEF Typed
<1>9. CASE Generate
    BY <1>4, <1>9, GenerateMeant
<1>10. CASE UNCHANGED vars
    BY <1>4, <1>10, StutterMeant
<1> QED
    BY <1>5, <1>6, <1>7, <1>8, <1>9, <1>10 DEF Next

-----------------------------------------------------------------------------

(* The compiler, at every point of the pipeline, holds a list of well-formed *)
(* IR nodes: converters give every operator of the registry a type of the   *)
(* taxonomy, and fusion keeps the types of what it rewrites.                *)
THEOREM CompilerTypeOK == Spec => []TypeOK
<1>1. IInv => TypeOK
    BY ModelTyped DEF IInv, Typed, TypeOK
<1> QED
    BY <1>1, Invariant, PTL

(* What the front end lists of a supported model, however long, is what     *)
(* kernel_fusion (opt.py) relies on: nodes behind the nodes they read,      *)
(* activations with one operand, names apart.                               *)
THEOREM FusionAlwaysGetsWhatItNeeds == Spec => []FusionGetsWhatItNeeds
<1>1. IInv => FusionGetsWhatItNeeds
    BY DEF IInv, ReadyForFusion, FusionGetsWhatItNeeds
<1> QED
    BY <1>1, Invariant, PTL

(* No converter, pass or emitter refuses a supported model.                 *)
THEOREM SupportedAlwaysCompiled == Spec => []SupportedIsCompiled
<1>1. IInv => SupportedIsCompiled
    BY DEF IInv, SupportedIsCompiled
<1> QED
    BY <1>1, Invariant, PTL

(* What KernelFusionProofs proves of the pass holds of it in the compiler,  *)
(* on the list the front end made: at -O1 references resolve, only the      *)
(* fused activations are removed, and one sweep leaves nothing to fuse.     *)
THEOREM FusionIsRightInCompiler ==
    Spec => [](SupportedModel /\ level > 0 /\ phase \in {"kernel_fusion", "optimized"} =>
                  /\ Fusion!ReferencesResolve
                  /\ Fusion!RemovesWhatItFused
                  /\ Fusion!NothingLeftToFuse)
<1> DEFINE Right == SupportedModel /\ level > 0 /\ phase \in {"kernel_fusion", "optimized"} =>
                        /\ Fusion!ReferencesResolve
                        /\ Fusion!RemovesWhatItFused
                        /\ Fusion!NothingLeftToFuse
<1>1. Fusion!Kept = Pass!Kept /\ Fusion!ActivationOps = Pass!ActivationOps
    BY DEF Fusion!Kept, Pass!Kept, Fusion!ActivationOps, Pass!ActivationOps
<1>2. Pass!ReferencesResolve => Fusion!ReferencesResolve
    BY <1>1 DEF Pass!ReferencesResolve, Fusion!ReferencesResolve
<1>3. Pass!RemovesWhatItFused => Fusion!RemovesWhatItFused
    BY <1>1 DEF Pass!RemovesWhatItFused, Fusion!RemovesWhatItFused,
        Pass!Cardinality, Fusion!Cardinality
<1>4. Pass!NothingLeftToFuse => Fusion!NothingLeftToFuse
    BY <1>1 DEF Pass!NothingLeftToFuse, Fusion!NothingLeftToFuse,
        Fusion!Fuses, Pass!Fuses, Fusion!Consumers, Pass!Consumers,
        Fusion!Refers, Pass!Refers, Fusion!IsFusable, Pass!IsFusable,
        Fusion!FusableOps, Pass!FusableOps
<1>5. IInv => Right
    BY <1>2, <1>3, <1>4, PassResolves, PassCounts, PassSuffices DEF IInv
<1> HIDE DEF Right
<1>6. Spec => []Right
    BY <1>5, Invariant, PTL
<1> QED
    BY <1>6 DEF Right

(* The program made of a supported model, of any size and at every level,   *)
(* is accepted by the C++ compiler: no member is declared twice, every      *)
(* buffer a kernel reads is an input or a member that is declared, the      *)
(* kernels exist and are given as many buffers as they take, and each       *)
(* output is copied from the buffer of a kernel.  What the front end drops  *)
(* and renames, fusion renames and removes, and the back end aliases and    *)
(* sanitizes still fits together.                                           *)
THEOREM GeneratedCodeAlwaysCompiles == Spec => []GeneratedCodeCompiles
<1>1. IInv /\ CInv => GeneratedCodeCompiles
    <2> SUFFICES ASSUME IInv, CInv, phase = "done", SupportedModel PROVE ProgramCompiles
        BY DEF GeneratedCodeCompiles
    <2>1. nodes \in Seq(Nodes) /\ model \in Models
        BY DEF IInv, Typed
    <2>2. /\ WellOperated /\ IdentifiersApart /\ Connected /\ OutputsGrounded
          /\ OutputsNumbered /\ Called /\ Stored
        BY DEF CInv, Built
    <2> QED
        BY <2>1, <2>2, CalledCompiles
<1> QED
    BY <1>1, Invariant, CInvariant, PTL

(* The program made of a supported model, of any size and at every level,   *)
(* computes what ONNX says of the model: parsing, fusion and the packing of *)
(* weights change no value, and calls run behind those they read.           *)
THEOREM GeneratedCodeAlwaysComputes == Spec => []GeneratedCodeComputes
<1>1. IInv /\ CInv /\ VInv => GeneratedCodeComputes
    <2> SUFFICES ASSUME IInv, CInv, VInv, phase = "done", SupportedModel PROVE ProgramComputesModel
        BY DEF GeneratedCodeComputes
    <2>1. Typed /\ Built /\ Meant /\ Generated
        BY DEF IInv, CInv, VInv
    <2>2. PICK V : Carried(V) /\ OutputsRight(V)
        BY <2>1 DEF Meant, Computes
    <2>3. Fit /\ Called /\ OutputsGrounded
        BY <2>1 DEF Built, Fit, Typed
    <2>4. Final(V) /\ OutputsComplete
        BY <2>1, <2>2, <2>3 DEF Final, Meant
    <2>5. CallsExact /\ CallsOrdered /\ Stowed
        BY <2>1 DEF Generated
    <2> QED
        BY <2>2, <2>3, <2>4, <2>5, DoneComputes
<1>2. Spec => []VInv
    BY InitIInv, CInitially, VInitially, NextIInv, NextCInv, NextVInv, PTL DEF Spec
<1> QED
    BY <1>1, <1>2, Invariant, CInvariant, PTL
=============================================================================
