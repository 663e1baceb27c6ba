---------------------------- MODULE KernelFusion ----------------------------
(***************************************************************************)
(* The kernel fusion pass (kernel_fusion in opt.py): an activation that is *)
(* the only reader of a layer or of an addition becomes part of it.  The   *)
(* pass rewrites the list of nodes while it iterates over it: the fused    *)
(* node takes a new name, everything that read the old node or the         *)
(* activation is made to read the new name, and the activation stays in    *)
(* the list, without readers, until the loop is over.                      *)
(***************************************************************************)
EXTENDS FfxIR

CONSTANT Graphs     \* the graphs the pass may be given

(* What the pass relies on.  The front end lists a node behind the nodes it *)
(* reads; it gives an activation one operand and nothing else; it builds no *)
(* fused operator.  That names are distinct, and that none is another one with a word added, *)
(* is up to the model that is compiled.                                     *)
NamesDistinct(g) ==
    \A i, j \in DOMAIN g : g[i].name = g[j].name => i = j

NamesUnextended(g) ==
    \A i, j \in DOMAIN g : \A w \in Word : g[i].name # Append(g[j].name, w)

InOrder(g) ==
    \A j \in DOMAIN g : \A k \in DOMAIN g[j].inputs :
        \E i \in 1 .. j - 1 : g[i].name = g[j].inputs[k]

Unfused(g) ==
    \A j \in DOMAIN g :
        /\ g[j].op.activation = None
        /\ g[j].op.type \in ActivationOps =>
             g[j].op = Op(g[j].op.type) /\ Len(g[j].inputs) = 1

ASSUME GraphsAssumption ==
    \A g \in Graphs :
        /\ g \in Seq(Nodes)
        /\ NamesDistinct(g) /\ NamesUnextended(g) /\ InOrder(g) /\ Unfused(g)

VARIABLES
    phase,            \* "kernel_fusion" while the pass runs
    nodes,            \* graph.nodes
    position,         \* of the producer the loop looks at next
    nodes_to_remove,  \* names of the activations fused so far
    fused_count

vars == <<phase, nodes, position, nodes_to_remove, fused_count>>

(* The operators that have a fusion function, by their exact type.          *)
FusableOps == {"Add", "Conv2d", "Linear", "BatchNorm2d"}

IsFusable(op) == op.type \in FusableOps /\ op.activation = None

(* The nodes that stay.                                                     *)
Kept == {j \in DOMAIN nodes : nodes[j].name \notin nodes_to_remove}

Consumers(p) == {j \in DOMAIN nodes : Refers(nodes[j], nodes[p].name)}

-----------------------------------------------------------------------------

(* A mutant: any reader of the producer that is an activation is fused.     *)
FusesAnyReader(p, c) ==
    /\ nodes[p].name \notin nodes_to_remove
    /\ c \in Consumers(p)
    /\ nodes[c].op.type \in ActivationOps
    /\ IsFusable(nodes[p].op)

(* The loop fuses activation c into producer p.                             *)
Fuses(p, c) ==
    /\ nodes[p].name \notin nodes_to_remove
    /\ Consumers(p) = {c}
    /\ nodes[c].op.type \in ActivationOps
    /\ IsFusable(nodes[p].op)

NewProducerName(p, c) ==
    Append(nodes[p].name, LowerWord[nodes[c].op.type])

(* A mutant: the activation is stored as it is spelled in the name.         *)
FusedNodeBySuffix(p, c) ==
    [nodes[p] EXCEPT !.name = NewProducerName(p, c),
                     !.op.activation = LowerWord[nodes[c].op.type]]

FusedNode(p, c) ==
    [nodes[p] EXCEPT !.name = NewProducerName(p, c),
                     !.op.activation = nodes[c].op.type]

(* A mutant: readers keep the names they read.                              *)
NotRewired(node, legacy_names, new_name) == node

Rewired(node, legacy_names, new_name) ==
    [node EXCEPT !.inputs = [k \in DOMAIN @ |->
        IF @[k] \in legacy_names THEN new_name ELSE @[k]]]

Rewrite(p, c) ==
    LET legacy_names == {nodes[p].name, nodes[c].name}
        renamed      == [nodes EXCEPT ![p] = FusedNode(p, c)]
    IN  [j \in DOMAIN nodes |->
            IF renamed[j].name \in legacy_names
            THEN renamed[j]
            ELSE Rewired(renamed[j], legacy_names, NewProducerName(p, c))]

(* A mutant: the fused consumer is taken out of the list being iterated     *)
(* over, so that the loop misses the node behind it.                        *)
FuseMissesNext ==
    /\ phase = "kernel_fusion"
    /\ position <= Len(nodes)
    /\ \E c \in DOMAIN nodes :
         /\ Fuses(position, c)
         /\ nodes' = Rewrite(position, c)
         /\ nodes_to_remove' = nodes_to_remove \cup {nodes[c].name}
    /\ fused_count' = fused_count + 1
    /\ position' = position + 2
    /\ UNCHANGED phase

(* A mutant: the producer is marked for removal, by the name it had.        *)
FuseRemovesProducer ==
    /\ phase = "kernel_fusion"
    /\ position <= Len(nodes)
    /\ \E c \in DOMAIN nodes :
         /\ Fuses(position, c)
         /\ nodes' = Rewrite(position, c)
    /\ nodes_to_remove' = nodes_to_remove \cup {nodes[position].name}
    /\ fused_count' = fused_count + 1
    /\ position' = position + 1
    /\ UNCHANGED phase

Fuse ==
    /\ phase = "kernel_fusion"
    /\ position <= Len(nodes)
    /\ \E c \in DOMAIN nodes :
         /\ Fuses(position, c)
         /\ nodes' = Rewrite(position, c)
         /\ nodes_to_remove' = nodes_to_remove \cup {nodes[c].name}
    /\ fused_count' = fused_count + 1
    /\ position' = position + 1
    /\ UNCHANGED phase

Skip ==
    /\ phase = "kernel_fusion"
    /\ position <= Len(nodes)
    /\ ~ \E c \in DOMAIN nodes : Fuses(position, c)
    /\ position' = position + 1
    /\ UNCHANGED <<phase, nodes, nodes_to_remove, fused_count>>

RemoveFused ==
    /\ phase = "kernel_fusion"
    /\ position > Len(nodes)
    /\ nodes' = SubList(nodes, Kept)
    /\ phase' = "optimized"
    /\ UNCHANGED <<position, nodes_to_remove, fused_count>>

Init ==
    /\ phase = "kernel_fusion"
    /\ nodes \in Graphs
    /\ position = 1
    /\ nodes_to_remove = {}
    /\ fused_count = 0

Next == Fuse \/ Skip \/ RemoveFused

Spec == Init /\ [][Next]_vars

-----------------------------------------------------------------------------
(* Properties                                                               *)

TypeOK ==
    /\ phase \in {"kernel_fusion", "optimized"}
    /\ nodes \in Seq(Nodes)
    /\ position \in Nat \ {0}
    /\ nodes_to_remove \subseteq Name
    /\ fused_count \in Nat

(* However far the loop has come, a node that stays reads nodes that stay   *)
(* and run before it, each by a name that no other node has: the renaming   *)
(* of opt.py:103-119 reaches every reader and captures none.                *)
ReferencesResolve ==
    \A j \in Kept : \A k \in DOMAIN nodes[j].inputs :
        \E i \in Kept :
            /\ i < j
            /\ nodes[i].name = nodes[j].inputs[k]
            /\ \A other \in DOMAIN nodes :
                   nodes[other].name = nodes[j].inputs[k] => other = i

(* What is removed is the fused activations and nothing else, and each of   *)
(* them lives on in one producer: the count logged at opt.py:126 is the     *)
(* number of nodes the graph loses.                                         *)
RemovesWhatItFused ==
    phase = "kernel_fusion" =>
        /\ Cardinality(DOMAIN nodes \ Kept) = fused_count
        /\ Cardinality({j \in Kept : nodes[j].op.activation # None}) = fused_count
        /\ \A j \in DOMAIN nodes \ Kept : nodes[j].op.type \in ActivationOps

(* A later iteration never makes a fusion possible that an earlier one had  *)
(* to refuse, so one sweep over the nodes is enough.                        *)
NothingLeftToFuse ==
    phase = "optimized" => ~ \E p, c \in DOMAIN nodes : Fuses(p, c)

(* What the graph computes: each node's value as a term over the inputs,    *)
(* where a name stands for the last node before the reader that has it.     *)
Value ==
    LET Source(j, name) == {i \in Kept : i < j /\ nodes[i].name = name}
        Last(S) == CHOOSE i \in S : \A other \in S : other <= i
        value[j \in DOMAIN nodes] ==
            LET n    == nodes[j]
                args == [k \in DOMAIN n.inputs |->
                            LET s == Source(j, n.inputs[k])
                            IN  IF s = {} THEN <<>> ELSE value[Last(s)]]
                kernel == <<[n.op EXCEPT !.activation = None], args>>
            IN  IF n.op.activation = None
                THEN kernel
                ELSE <<Op(n.op.activation), <<kernel>>>>
    IN  value

Meaning == {Value[j] : j \in {i \in Kept : nodes[i].op.type = "Output"}}

(* Every iteration, and the removal at the end, leaves what each output of  *)
(* the graph computes as it was.                                            *)
MeaningPreserved == [][Meaning' = Meaning]_vars
=============================================================================
