-------------------------------- MODULE FfxIR --------------------------------
(***************************************************************************)
(* The compiler's intermediate representation: a graph is a list of nodes, *)
(* in the order in which their kernels will run, and a node refers to the  *)
(* nodes it reads by their names.                                          *)
(*                                                                         *)
(* A name is the sequence of words it is made of, to be joined by "_";     *)
(* LowerWord gives each word in lower case.                                *)
(***************************************************************************)
EXTENDS Naturals, Sequences, FiniteSets

CONSTANTS
    Word,       \* words that names are made of
    LowerWord,  \* each word in lower case
    None        \* no activation, no initializer

Name == Seq(Word)

Lower(name) == [k \in DOMAIN name |-> LowerWord[name[k]]]

(* The taxonomy of operators: the classes an operator may be an instance of.*)
IOOps          == {"Input", "Output"}
TransformOps   == {"Flatten"}
ActivationOps  == {"Identity", "ReLU", "ReLU6", "GELU", "LeakyReLU",
                   "Sigmoid", "SiLU", "Hardswish", "Tanh"}
ElementWiseOps == {"Mul", "Div", "Add", "Sub"}
TrainableOps   == {"Linear", "Conv2d", "LayerNorm", "RMSNorm", "BatchNorm2d"}
PoolingOps     == {"MaxPool2d", "AvgPool2d", "AdaptiveMaxPool2d",
                   "AdaptiveAvgPool2d"}

OpTypes == IOOps \cup TransformOps \cup ActivationOps \cup ElementWiseOps
           \cup TrainableOps \cup PoolingOps \cup {"Softmax"}

(* An operator.  A Fused...Activation operator is the operator it extends   *)
(* with an activation; the parameters are the initializers they come from.  *)
Op(type) ==
    [type |-> type, activation |-> None, index |-> 0,
     weight |-> None, bias |-> None]

Node(name, op, inputs) == [name |-> name, op |-> op, inputs |-> inputs]

Ops ==
    [type : OpTypes, activation : {None} \cup ActivationOps, index : Nat,
     weight : {None} \cup Name, bias : {None} \cup Name]

Nodes == [name : Name, op : Ops, inputs : Seq(Name)]

(* The elements of a list at the positions in K, in their order: the list   *)
(* comprehension [x for x in s if ...].                                     *)
Rank(K, j) == Cardinality({i \in K : i <= j})

AtRank(K, r) == CHOOSE j \in K : Rank(K, j) = r

SubList(s, K) == [r \in 1 .. Cardinality(K) |-> s[AtRank(K, r)]]

Refers(node, name) == \E k \in DOMAIN node.inputs : node.inputs[k] = name

ASSUME NameAssumption ==
    /\ LowerWord \in [Word -> Word]
    /\ ActivationOps \subseteq Word

ASSUME NoneAssumption == None \notin ActivationOps \cup Name
=============================================================================
