------------------------- MODULE KernelFusionProofs -------------------------
(***************************************************************************)
(* Proofs about KernelFusion, for graphs of any size with any operators.   *)
(*                                                                         *)
(* The properties speak of the nodes that stay.  They are not inductive by *)
(* themselves: that a new name captures no reader needs that no node is    *)
(* called like an unfused one with a word added, and that an iteration     *)
(* touches no earlier decision needs that a fused activation is detached,  *)
(* i.e. reads a name that no node has any more.                            *)
(***************************************************************************)
EXTENDS KernelFusion, FiniteSetTheorems, SequenceTheorems, TLAPS

Unextended ==
    \A q \in DOMAIN nodes : nodes[q].op.activation = None =>
        \A w \in Word : \A j \in DOMAIN nodes :
            /\ nodes[j].name # Append(nodes[q].name, w)
            /\ \A k \in DOMAIN nodes[j].inputs :
                   nodes[j].inputs[k] # Append(nodes[q].name, w)

ReadersBehind ==
    \A j \in Kept : \A k \in DOMAIN nodes[j].inputs :
        \E i \in Kept : i < j /\ nodes[i].name = nodes[j].inputs[k]

Detached ==
    \A r \in DOMAIN nodes \ Kept : \A k \in DOMAIN nodes[r].inputs :
        \A j \in DOMAIN nodes : nodes[j].name # nodes[r].inputs[k]

UnaryActivations ==
    \A j \in DOMAIN nodes : nodes[j].op.type \in ActivationOps =>
        /\ nodes[j].op = Op(nodes[j].op.type)
        /\ nodes[j].op.activation = None
        /\ Len(nodes[j].inputs) = 1

RemovedAreActivations ==
    /\ \A j \in DOMAIN nodes \ Kept : nodes[j].op.type \in ActivationOps
    /\ \A name \in nodes_to_remove : \E j \in DOMAIN nodes : nodes[j].name = name

(* No producer the loop has passed can be fused any more.                   *)
Passed == \A p, c \in DOMAIN nodes : p < position => ~ Fuses(p, c)

Counted ==
    /\ Cardinality(DOMAIN nodes \ Kept) = fused_count
    /\ Cardinality({j \in Kept : nodes[j].op.activation # None}) = fused_count

Running ==
    /\ NamesDistinct(nodes)
    /\ Unextended
    /\ ReadersBehind
    /\ Detached
    /\ UnaryActivations
    /\ RemovedAreActivations
    /\ Passed
    /\ Counted

IInv ==
    /\ TypeOK
    /\ phase = "kernel_fusion" => Running
    /\ phase = "optimized" => NamesDistinct(nodes) /\ ReadersBehind /\ NothingLeftToFuse

-----------------------------------------------------------------------------
(* Lists                                                                    *)

(* Ranks in a set of positions grow with the position and start at one.     *)
LEMMA RankGrows ==
    ASSUME NEW n \in Nat, NEW K \in SUBSET (1 .. n)
    PROVE  /\ IsFiniteSet(K) /\ Cardinality(K) \in Nat
           /\ \A j \in K : Rank(K, j) \in 1 .. Cardinality(K)
           /\ \A i, j \in K : i < j => Rank(K, i) < Rank(K, j)
<1> DEFINE Upto(j) == {i \in K : i <= j}
<1>1. IsFiniteSet(K) /\ Cardinality(K) \in Nat
    <2>1. IsFiniteSet(1 .. n)
        BY FS_Interval
    <2>2. IsFiniteSet(K)
        BY <2>1, FS_Subset
    <2> QED
        BY <2>2, FS_CardinalityType
<1>2. \A j \in K : /\ IsFiniteSet(Upto(j)) /\ Cardinality(Upto(j)) \in Nat
                   /\ Cardinality(Upto(j)) <= Cardinality(K)
    <2> TAKE j \in K
    <2>1. Upto(j) \in SUBSET K
        OBVIOUS
    <2> QED
        BY <1>1, <2>1, FS_Subset, FS_CardinalityType
<1>3. \A j \in K : Cardinality(Upto(j)) # 0
    <2> TAKE j \in K
    <2>1. j \in Upto(j)
        OBVIOUS
    <2> QED
        BY <1>2, <2>1, FS_EmptySet
<1>4. \A i, j \in K : i < j => Cardinality(Upto(i)) < Cardinality(Upto(j))
    <2> SUFFICES ASSUME NEW i \in K, NEW j \in K, i < j
                 PROVE  Cardinality(Upto(i)) < Cardinality(Upto(j))
        OBVIOUS
    <2>1. Upto(i) \in SUBSET Upto(j)
        <3>1. \A m \in K : m <= i => m <= j
            OBVIOUS
        <3> QED
            BY <3>1
    <2>3. j \in Upto(j) /\ j \notin Upto(i)
        OBVIOUS
    <2>2. /\ Cardinality(Upto(i)) <= Cardinality(Upto(j))
          /\ Cardinality(Upto(j)) = Cardinality(Upto(i)) => Upto(j) = Upto(i)
        BY <1>2, <2>1, FS_Subset
    <2> QED
        BY <1>2, <2>2, <2>3
<1> QED
    BY <1>1, <1>2, <1>3, <1>4 DEF Rank

(* Every rank up to the number of positions is the rank of a position.      *)
LEMMA RankReached ==
    ASSUME NEW n \in Nat, NEW K \in SUBSET (1 .. n), NEW r \in 1 .. Cardinality(K)
    PROVE  \E j \in K : Rank(K, j) = r
<1> SUFFICES ASSUME \A j \in K : Rank(K, j) # r PROVE FALSE
    OBVIOUS
<1> DEFINE T == (1 .. Cardinality(K)) \ {r}
           rank == [j \in K |-> Rank(K, j)]
<1>1. IsFiniteSet(K) /\ Cardinality(K) \in Nat
    BY RankGrows
<1>2. rank \in [K -> T]
    BY RankGrows
<1>3. IsFiniteSet(T) /\ Cardinality(T) < Cardinality(K)
    <2>1. /\ IsFiniteSet(1 .. Cardinality(K))
          /\ Cardinality(1 .. Cardinality(K)) = Cardinality(K)
        BY <1>1, FS_Interval
    <2>2. /\ IsFiniteSet(T)
          /\ Cardinality(T) = Cardinality(1 .. Cardinality(K)) - 1
        BY <2>1, FS_RemoveElement
    <2> HIDE DEF T
    <2> QED
        BY <1>1, <2>1, <2>2
<1> HIDE DEF T, rank
<1>4. PICK i, j \in K : i # j /\ rank[i] = rank[j]
    BY <1>1, <1>2, <1>3, FS_PigeonHole
<1>5. Rank(K, i) = Rank(K, j)
    BY <1>4 DEF rank
<1>6. i < j \/ j < i
    BY <1>4
<1>7. /\ Rank(K, i) \in Nat /\ Rank(K, j) \in Nat
      /\ i < j => Rank(K, i) < Rank(K, j)
      /\ j < i => Rank(K, j) < Rank(K, i)
    BY <1>1, RankGrows
<1> QED
    BY <1>5, <1>6, <1>7

(* Every position has a rank, and stands at it.                             *)
LEMMA RanksReach ==
    ASSUME NEW n \in Nat, NEW K \in SUBSET (1 .. n), NEW j \in K
    PROVE  Rank(K, j) \in 1 .. Cardinality(K) /\ AtRank(K, Rank(K, j)) = j
<1>1. Rank(K, j) \in 1 .. Cardinality(K)
    BY RankGrows
<1>2. AtRank(K, Rank(K, j)) \in K /\ Rank(K, AtRank(K, Rank(K, j))) = Rank(K, j)
    BY <1>1, RankReached DEF AtRank
<1>3. \A i \in K : i # j => Rank(K, i) # Rank(K, j)
    <2> TAKE i \in K
    <2>1. i < j \/ j < i \/ i = j
        OBVIOUS
    <2> QED
        BY <2>1, RankGrows
<1> QED
    BY <1>1, <1>2, <1>3

(* A sublist keeps the elements at the positions it is given, in order.     *)
LEMMA SubListInOrder ==
    ASSUME NEW s, NEW n \in Nat, NEW K \in SUBSET (1 .. n)
    PROVE  /\ Cardinality(K) \in Nat
           /\ DOMAIN SubList(s, K) = 1 .. Cardinality(K)
           /\ \A r \in 1 .. Cardinality(K) :
                 AtRank(K, r) \in K /\ SubList(s, K)[r] = s[AtRank(K, r)]
           /\ \A r, t \in 1 .. Cardinality(K) :
                 /\ AtRank(K, r) < AtRank(K, t) => r < t
                 /\ AtRank(K, r) = AtRank(K, t) => r = t
           /\ \A j \in K : \E r \in 1 .. Cardinality(K) : AtRank(K, r) = j
<1>1. \A r \in 1 .. Cardinality(K) : AtRank(K, r) \in K /\ Rank(K, AtRank(K, r)) = r
    BY RankReached DEF AtRank
<1>2. \A j \in K : Rank(K, j) \in 1 .. Cardinality(K) /\ AtRank(K, Rank(K, j)) = j
    BY RanksReach
<1>3. \A r, t \in 1 .. Cardinality(K) :
        /\ AtRank(K, r) < AtRank(K, t) => r < t
        /\ AtRank(K, r) = AtRank(K, t) => r = t
    BY <1>1, RankGrows
<1>4. Cardinality(K) \in Nat
    BY RankGrows
<1> QED
    BY <1>1, <1>2, <1>3, <1>4 DEF SubList

-----------------------------------------------------------------------------
(* One fusion                                                               *)

(* The nodes a fusion brings together: both are in the list to stay, and    *)
(* the producer's new name is nobody's.                                     *)
LEMMA FusedPair ==
    ASSUME TypeOK, Running,
           NEW p \in DOMAIN nodes, NEW c \in DOMAIN nodes, Fuses(p, c)
    PROVE  /\ p \in Kept /\ c \in Kept /\ p # c
           /\ nodes[p].op.activation = None /\ nodes[c].op.activation = None
           /\ nodes[p].op.type \notin ActivationOps
           /\ nodes[c].op.type \in ActivationOps
           /\ NewProducerName(p, c) \in Name
           /\ \A j \in DOMAIN nodes : nodes[j].name # NewProducerName(p, c)
           /\ \A j \in DOMAIN nodes : \A k \in DOMAIN nodes[j].inputs :
                  /\ nodes[j].inputs[k] # NewProducerName(p, c)
                  /\ nodes[j].inputs[k] = nodes[p].name => j = c
           /\ \A k \in DOMAIN nodes[c].inputs : nodes[c].inputs[k] = nodes[p].name
<1>1. /\ p \in Kept
      /\ nodes[p].op.activation = None /\ nodes[p].op.type \in FusableOps
      /\ nodes[c].op.type \in ActivationOps
    BY DEF Fuses, IsFusable, Kept
<1>2. nodes[p].op.type \notin ActivationOps
    BY <1>1 DEF FusableOps, ActivationOps
<1>3. c \in Consumers(p) /\ \A j \in DOMAIN nodes :
        Refers(nodes[j], nodes[p].name) => j = c
    BY DEF Fuses, Consumers
<1>4. PICK m \in DOMAIN nodes[c].inputs : nodes[c].inputs[m] = nodes[p].name
    BY <1>3 DEF Consumers, Refers
<1>5. c \in Kept
    BY <1>4 DEF Running, Detached
<1>6. nodes[c].op.activation = None /\ Len(nodes[c].inputs) = 1
    BY <1>1 DEF Running, UnaryActivations
<1>7. \A k \in DOMAIN nodes[c].inputs : nodes[c].inputs[k] = nodes[p].name
    <2>1. nodes[c] \in Nodes
        BY DEF TypeOK
    <2>2. nodes[c].inputs \in Seq(Name)
        BY <2>1 DEF Nodes
    <2>3. DOMAIN nodes[c].inputs = 1 .. 1
        BY <1>6, <2>2, LenProperties
    <2> QED
        BY <1>4, <2>3
<1>8. LowerWord[nodes[c].op.type] \in Word /\ nodes[p].name \in Name
    <2>1. nodes[c].op.type \in Word
        BY <1>1, NameAssumption
    <2>2. nodes[p] \in Nodes
        BY DEF TypeOK
    <2> QED
        BY <2>1, <2>2, NameAssumption DEF Nodes
<1>9. NewProducerName(p, c) \in Name
    BY <1>8, AppendProperties DEF NewProducerName, Name
<1>10. /\ \A j \in DOMAIN nodes : nodes[j].name # NewProducerName(p, c)
       /\ \A j \in DOMAIN nodes : \A k \in DOMAIN nodes[j].inputs :
              nodes[j].inputs[k] # NewProducerName(p, c)
    BY <1>1, <1>8 DEF Running, Unextended, NewProducerName
<1>11. \A j \in DOMAIN nodes : \A k \in DOMAIN nodes[j].inputs :
          nodes[j].inputs[k] = nodes[p].name => j = c
    BY <1>3 DEF Refers
<1> QED
    BY <1>1, <1>2, <1>5, <1>6, <1>7, <1>9, <1>10, <1>11

(* A fusion keeps the list well-formed and the types of the operators.      *)
LEMMA RewriteTyped ==
    ASSUME nodes \in Seq(Nodes),
           NEW p \in DOMAIN nodes, NEW c \in DOMAIN nodes, Fuses(p, c)
    PROVE  /\ Rewrite(p, c) \in Seq(Nodes)
           /\ DOMAIN Rewrite(p, c) = DOMAIN nodes
           /\ \A j \in DOMAIN nodes : Rewrite(p, c)[j].op.type = nodes[j].op.type
<1> DEFINE new == NewProducerName(p, c)
           legacy == {nodes[p].name, nodes[c].name}
           renamed == [nodes EXCEPT ![p] = FusedNode(p, c)]
<1>1. \A j \in DOMAIN nodes : nodes[j] \in Nodes
    OBVIOUS
<1>2. nodes[c].op.type \in ActivationOps
    BY DEF Fuses
<1>3. new \in Name
    <2>1. LowerWord[nodes[c].op.type] \in Word
        BY <1>2, NameAssumption
    <2>2. nodes[p].name \in Name
        BY <1>1 DEF Nodes
    <2> QED
        BY <2>1, <2>2, AppendProperties DEF NewProducerName, Name
<1>4. FusedNode(p, c) \in Nodes /\ FusedNode(p, c).op.type = nodes[p].op.type
    BY <1>1, <1>2, <1>3 DEF FusedNode, Nodes, Ops
<1>5. \A j \in DOMAIN nodes : /\ renamed[j] \in Nodes
                              /\ renamed[j].op.type = nodes[j].op.type
    BY <1>1, <1>4
<1>6. ASSUME NEW n \in Nodes
      PROVE  Rewired(n, legacy, new) \in Nodes /\ Rewired(n, legacy, new).op = n.op
    <2> DEFINE rewired == [k \in DOMAIN n.inputs |->
                             IF n.inputs[k] \in legacy THEN new ELSE n.inputs[k]]
    <2>1. n.inputs \in Seq(Name)
        BY DEF Nodes
    <2>2. rewired \in Seq(Name)
        BY <1>3, <2>1
    <2>3. Rewired(n, legacy, new) = [n EXCEPT !.inputs = rewired]
        BY DEF Rewired
    <2> HIDE DEF rewired, new, legacy
    <2> QED
        BY <2>2, <2>3 DEF Nodes
<1>7. \A j \in DOMAIN nodes : /\ Rewrite(p, c)[j] \in Nodes
                              /\ Rewrite(p, c)[j].op.type = nodes[j].op.type
    <2> TAKE j \in DOMAIN nodes
    <2>1. Rewrite(p, c)[j] = IF renamed[j].name \in legacy THEN renamed[j]
                             ELSE Rewired(renamed[j], legacy, new)
        BY DEF Rewrite
    <2>2. renamed[j] \in Nodes /\ renamed[j].op.type = nodes[j].op.type
        BY <1>5
    <2> HIDE DEF renamed, legacy, new
    <2> QED
        BY <1>6, <2>1, <2>2
<1>8. DOMAIN nodes = 1 .. Len(nodes) /\ Len(nodes) \in Nat
    BY LenProperties
<1>9. Rewrite(p, c) = [j \in 1 .. Len(nodes) |-> Rewrite(p, c)[j]]
    BY <1>8 DEF Rewrite
<1>10. DOMAIN Rewrite(p, c) = DOMAIN nodes
    BY DEF Rewrite
<1> HIDE DEF renamed, legacy
<1>11. [j \in 1 .. Len(nodes) |-> Rewrite(p, c)[j]] \in [1 .. Len(nodes) -> Nodes]
    BY <1>7, <1>8
<1>12. Rewrite(p, c) \in Seq(Nodes)
    BY <1>8, <1>9, <1>11, IsASeq
<1> QED
    BY <1>7, <1>10, <1>12

(* What a fusion makes of each node.                                        *)
LEMMA RewriteShape ==
    ASSUME TypeOK, Running,
           NEW p \in DOMAIN nodes, NEW c \in DOMAIN nodes, Fuses(p, c)
    PROVE  /\ Rewrite(p, c) \in Seq(Nodes)
           /\ DOMAIN Rewrite(p, c) = DOMAIN nodes
           /\ \A j \in DOMAIN nodes :
                /\ Rewrite(p, c)[j].name =
                      IF j = p THEN NewProducerName(p, c) ELSE nodes[j].name
                /\ Rewrite(p, c)[j].op.type = nodes[j].op.type
                /\ Rewrite(p, c)[j].op.activation =
                      IF j = p THEN nodes[c].op.type ELSE nodes[j].op.activation
                /\ DOMAIN Rewrite(p, c)[j].inputs = DOMAIN nodes[j].inputs
                /\ Len(Rewrite(p, c)[j].inputs) = Len(nodes[j].inputs)
                /\ \A k \in DOMAIN nodes[j].inputs :
                     Rewrite(p, c)[j].inputs[k] =
                        IF j # c /\ nodes[j].inputs[k] = nodes[c].name
                        THEN NewProducerName(p, c) ELSE nodes[j].inputs[k]
<1> DEFINE new == NewProducerName(p, c)
           legacy == {nodes[p].name, nodes[c].name}
           renamed == [nodes EXCEPT ![p] = FusedNode(p, c)]
<1>1. nodes \in Seq(Nodes) /\ \A j \in DOMAIN nodes : nodes[j] \in Nodes
    BY DEF TypeOK
<1>2. /\ new \in Name /\ p # c /\ nodes[c].op.type \in ActivationOps
      /\ \A j \in DOMAIN nodes : nodes[j].name # new
    BY FusedPair
<1>3. /\ FusedNode(p, c) \in Nodes
      /\ FusedNode(p, c).name = new
      /\ FusedNode(p, c).op.type = nodes[p].op.type
      /\ FusedNode(p, c).op.activation = nodes[c].op.type
      /\ FusedNode(p, c).inputs = nodes[p].inputs
    BY <1>1, <1>2 DEF FusedNode, Nodes, Ops
<1>4. \A j \in DOMAIN nodes : renamed[j] = IF j = p THEN FusedNode(p, c) ELSE nodes[j]
    BY <1>1
<1>5. \A j \in DOMAIN nodes : renamed[j].name \in legacy <=> j = c
    BY <1>2, <1>3, <1>4 DEF Running, NamesDistinct
<1>6. ASSUME NEW n \in Nodes
      PROVE  /\ Rewired(n, legacy, new) \in Nodes
             /\ Rewired(n, legacy, new).name = n.name
             /\ Rewired(n, legacy, new).op = n.op
             /\ DOMAIN Rewired(n, legacy, new).inputs = DOMAIN n.inputs
             /\ Len(Rewired(n, legacy, new).inputs) = Len(n.inputs)
             /\ \A k \in DOMAIN n.inputs : Rewired(n, legacy, new).inputs[k] =
                    IF n.inputs[k] \in legacy THEN new ELSE n.inputs[k]
    <2> DEFINE rewired == [k \in DOMAIN n.inputs |->
                             IF n.inputs[k] \in legacy THEN new ELSE n.inputs[k]]
    <2>1. n.inputs \in Seq(Name)
        BY DEF Nodes
    <2>2. rewired \in Seq(Name) /\ Len(rewired) = Len(n.inputs)
        BY <1>2, <2>1
    <2>3. Rewired(n, legacy, new) = [n EXCEPT !.inputs = rewired]
        BY DEF Rewired
    <2> HIDE DEF rewired, new, legacy
    <2>4. /\ [n EXCEPT !.inputs = rewired] \in Nodes
          /\ [n EXCEPT !.inputs = rewired].name = n.name
          /\ [n EXCEPT !.inputs = rewired].op = n.op
          /\ [n EXCEPT !.inputs = rewired].inputs = rewired
        BY <2>2 DEF Nodes
    <2> QED
        BY <2>2, <2>3, <2>4 DEF rewired
<1>7. \A j \in DOMAIN nodes : Rewrite(p, c)[j] =
         IF j = c THEN nodes[j] ELSE Rewired(renamed[j], legacy, new)
    BY <1>2, <1>4, <1>5 DEF Rewrite
<1>8. DOMAIN Rewrite(p, c) = DOMAIN nodes
    BY DEF Rewrite
<1>10. Rewrite(p, c) \in Seq(Nodes)
    BY <1>1, RewriteTyped
<1>11. ASSUME NEW j \in DOMAIN nodes, NEW k \in DOMAIN nodes[j].inputs
       PROVE  Rewrite(p, c)[j].inputs[k] =
                IF j # c /\ nodes[j].inputs[k] = nodes[c].name
                THEN new ELSE nodes[j].inputs[k]
    <2>1. CASE j = c
        BY <1>7, <2>1
    <2>2. CASE j # c
        <3>1. nodes[j].inputs[k] # nodes[p].name
            BY <2>2, FusedPair
        <3>2. renamed[j] \in Nodes /\ renamed[j].inputs = nodes[j].inputs
            BY <1>1, <1>3, <1>4
        <3> HIDE DEF renamed, legacy, new
        <3>3. Rewired(renamed[j], legacy, new).inputs[k] =
                IF nodes[j].inputs[k] \in legacy THEN new ELSE nodes[j].inputs[k]
            BY <1>6, <3>2
        <3> QED
            BY <1>7, <2>2, <3>1, <3>3 DEF legacy
    <2> QED
        BY <2>1, <2>2
<1>12. ASSUME NEW j \in DOMAIN nodes
       PROVE  /\ Rewrite(p, c)[j].name = IF j = p THEN new ELSE nodes[j].name
              /\ Rewrite(p, c)[j].op.type = nodes[j].op.type
              /\ Rewrite(p, c)[j].op.activation =
                    IF j = p THEN nodes[c].op.type ELSE nodes[j].op.activation
              /\ DOMAIN Rewrite(p, c)[j].inputs = DOMAIN nodes[j].inputs
              /\ Len(Rewrite(p, c)[j].inputs) = Len(nodes[j].inputs)
    <2>1. CASE j = c
        BY <1>2, <1>7, <2>1
    <2>2. CASE j # c
        <3>1. renamed[j] \in Nodes
            BY <1>1, <1>3, <1>4
        <3>2. Rewrite(p, c)[j] = Rewired(renamed[j], legacy, new)
            BY <1>7, <2>2
        <3> HIDE DEF renamed, legacy, new
        <3>3. /\ Rewrite(p, c)[j].name = renamed[j].name
              /\ Rewrite(p, c)[j].op = renamed[j].op
              /\ DOMAIN Rewrite(p, c)[j].inputs = DOMAIN renamed[j].inputs
              /\ Len(Rewrite(p, c)[j].inputs) = Len(renamed[j].inputs)
            BY <1>6, <3>1, <3>2
        <3> QED
            BY <1>3, <1>4, <3>3
    <2> QED
        BY <2>1, <2>2
<1> HIDE DEF renamed, legacy
<1> QED
    BY <1>8, <1>10, <1>11, <1>12

(* An iteration that fuses activation c into the producer at its position.  *)
FusesIn(c) ==
    /\ phase = "kernel_fusion"
    /\ position <= Len(nodes)
    /\ Fuses(position, c)
    /\ nodes' = Rewrite(position, c)
    /\ nodes_to_remove' = nodes_to_remove \cup {nodes[c].name}
    /\ fused_count' = fused_count + 1
    /\ position' = position + 1
    /\ phase' = phase

(* What an iteration that fuses does, in the terms of the invariant: it     *)
(* takes c out of the nodes that stay, renames the producer and hands the   *)
(* readers of c over to it.                                                 *)
LEMMA FusionEffect ==
    ASSUME TypeOK, Running, NEW c \in DOMAIN nodes, FusesIn(c)
    PROVE  /\ position \in DOMAIN nodes
           /\ NewProducerName(position, c) \in Name
           /\ DOMAIN nodes' = DOMAIN nodes
           /\ \A j \in DOMAIN nodes :
                /\ nodes'[j].name = IF j = position THEN NewProducerName(position, c)
                                                    ELSE nodes[j].name
                /\ nodes'[j].op.type = nodes[j].op.type
                /\ nodes'[j].op.activation =
                      IF j = position THEN nodes[c].op.type ELSE nodes[j].op.activation
                /\ DOMAIN nodes'[j].inputs = DOMAIN nodes[j].inputs
                /\ Len(nodes'[j].inputs) = Len(nodes[j].inputs)
                /\ \A k \in DOMAIN nodes[j].inputs :
                     nodes'[j].inputs[k] =
                        IF j # c /\ nodes[j].inputs[k] = nodes[c].name
                        THEN NewProducerName(position, c) ELSE nodes[j].inputs[k]
           /\ Kept' = Kept \ {c}
           /\ TypeOK'
<1>1. position \in DOMAIN nodes
    <2>1. DOMAIN nodes = 1 .. Len(nodes) /\ Len(nodes) \in Nat
        BY LenProperties DEF TypeOK
    <2> QED
        BY <2>1 DEF TypeOK, FusesIn
<1> DEFINE new == NewProducerName(position, c)
<1>2. Fuses(position, c) /\ nodes' = Rewrite(position, c)
    BY DEF FusesIn
<1>3. /\ position \in Kept /\ c \in Kept /\ position # c
      /\ new \in Name
      /\ \A j \in DOMAIN nodes : nodes[j].name # new
    BY <1>1, <1>2, FusedPair
<1>4. /\ nodes' \in Seq(Nodes)
      /\ DOMAIN nodes' = DOMAIN nodes
      /\ \A j \in DOMAIN nodes :
           /\ nodes'[j].name = IF j = position THEN new ELSE nodes[j].name
           /\ nodes'[j].op.type = nodes[j].op.type
           /\ nodes'[j].op.activation =
                 IF j = position THEN nodes[c].op.type ELSE nodes[j].op.activation
           /\ DOMAIN nodes'[j].inputs = DOMAIN nodes[j].inputs
           /\ Len(nodes'[j].inputs) = Len(nodes[j].inputs)
           /\ \A k \in DOMAIN nodes[j].inputs :
                nodes'[j].inputs[k] =
                   IF j # c /\ nodes[j].inputs[k] = nodes[c].name
                   THEN new ELSE nodes[j].inputs[k]
    BY <1>1, <1>2, RewriteShape
<1> HIDE DEF new
<1>5. new \notin nodes_to_remove
    BY <1>3 DEF Running, RemovedAreActivations
<1>6. nodes_to_remove' = nodes_to_remove \cup {nodes[c].name}
    BY DEF FusesIn
<1>7. Kept' = Kept \ {c}
    <2>1. ASSUME NEW j \in DOMAIN nodes
          PROVE  nodes'[j].name \notin nodes_to_remove' <=> j \in Kept \ {c}
        <3>1. CASE j = position
            BY <1>1, <1>3, <1>4, <1>5, <1>6, <3>1
        <3>2. CASE j # position
            <4>1. nodes'[j].name = nodes[j].name
                BY <1>4, <3>2
            <4>2. nodes[j].name = nodes[c].name <=> j = c
                BY DEF Running, NamesDistinct
            <4> QED
                BY <1>6, <4>1, <4>2 DEF Kept
        <3> QED
            BY <3>1, <3>2
    <2>2. Kept' = {j \in DOMAIN nodes : nodes'[j].name \notin nodes_to_remove'}
        BY <1>4 DEF Kept
    <2>3. Kept \subseteq DOMAIN nodes
        BY DEF Kept
    <2> QED
        BY <2>1, <2>2, <2>3
<1>8. TypeOK'
    <2>1. nodes[c] \in Nodes
        BY DEF TypeOK
    <2>2. nodes_to_remove' \subseteq Name
        BY <1>6, <2>1 DEF TypeOK, Nodes
    <2> QED
        BY <1>4, <2>2 DEF TypeOK, FusesIn
<1> QED
    BY <1>1, <1>3, <1>4, <1>7, <1>8 DEF new

(* Of the operators it changes that of the producer, and of that what is    *)
(* fused with it.                                                           *)
LEMMA FusionOperators ==
    ASSUME TypeOK, Running, NEW c \in DOMAIN nodes, FusesIn(c)
    PROVE  \A j \in DOMAIN nodes : nodes'[j].op =
              IF j = position THEN [nodes[position].op EXCEPT !.activation = nodes[c].op.type]
              ELSE nodes[j].op
<1> DEFINE p == position
           legacy == {nodes[p].name, nodes[c].name}
           new == NewProducerName(p, c)
           renamed == [nodes EXCEPT ![p] = FusedNode(p, c)]
<1>1. nodes' = Rewrite(p, c) /\ p \in DOMAIN nodes
    BY FusionEffect DEF FusesIn
<1>2. \A j \in DOMAIN nodes : nodes[j] \in Nodes
    BY DEF TypeOK
<1>3. /\ FusedNode(p, c).op = [nodes[p].op EXCEPT !.activation = nodes[c].op.type]
      /\ \E name, op, inputs : FusedNode(p, c) = Node(name, op, inputs)
    <2> DEFINE op == [nodes[p].op EXCEPT !.activation = nodes[c].op.type]
    <2>1. nodes[p] \in Nodes
        BY <1>1, <1>2
    <2>2. FusedNode(p, c) = Node(new, op, nodes[p].inputs)
        <3> DEFINE n == nodes[p]
                   a == nodes[c].op.type
        <3>1. n = [name |-> n.name, op |-> n.op, inputs |-> n.inputs]
            BY <2>1 DEF Nodes
        <3>2. FusedNode(p, c) = [n EXCEPT !.name = new, !.op.activation = a]
            BY DEF FusedNode
        <3>3. op = [n.op EXCEPT !.activation = a]
            OBVIOUS
        <3>4. nodes[p].inputs = n.inputs
            OBVIOUS
        <3> HIDE DEF n, a, new, op
        <3> QED
            BY <3>1, <3>2, <3>3, <3>4 DEF Node
    <2>3. FusedNode(p, c).op = op
        BY <2>2 DEF Node
    <2> HIDE DEF op, new
    <2> QED
        BY <2>2, <2>3 DEF op
<1>4. ASSUME NEW n, \E name, op, inputs : n = Node(name, op, inputs)
      PROVE  Rewired(n, legacy, new).op = n.op
    BY <1>4 DEF Rewired, Node
<1>5. ASSUME NEW j \in DOMAIN nodes
      PROVE  nodes'[j].op = renamed[j].op
    <2>1. nodes'[j] = IF renamed[j].name \in legacy THEN renamed[j]
                      ELSE Rewired(renamed[j], legacy, new)
        BY <1>1 DEF Rewrite
    <2>2. renamed[j] = IF j = p THEN FusedNode(p, c) ELSE nodes[j]
        BY <1>1
    <2>3. \E name, op, inputs : nodes[j] = Node(name, op, inputs)
        BY <1>2 DEF Nodes, Node
    <2>4. \E name, op, inputs : renamed[j] = Node(name, op, inputs)
        BY <1>3, <2>2, <2>3
    <2> HIDE DEF renamed, legacy, new
    <2> QED
        BY <1>4, <2>1, <2>4
<1>6. ASSUME NEW j \in DOMAIN nodes
      PROVE  renamed[j] = IF j = p THEN FusedNode(p, c) ELSE nodes[j]
    BY <1>1
<1> HIDE DEF renamed
<1> QED
    BY <1>3, <1>5, <1>6

(* Names stay distinct, and none is an unfused one with a word added.       *)
LEMMA FusionNames ==
    ASSUME TypeOK, Running, NEW c \in DOMAIN nodes, FusesIn(c)
    PROVE  NamesDistinct(nodes)' /\ Unextended'
<1> DEFINE new == NewProducerName(position, c)
<1>1. /\ position \in DOMAIN nodes
      /\ DOMAIN nodes' = DOMAIN nodes
      /\ \A j \in DOMAIN nodes :
           /\ nodes'[j].name = IF j = position THEN new ELSE nodes[j].name
           /\ nodes'[j].op.activation =
                 IF j = position THEN nodes[c].op.type ELSE nodes[j].op.activation
           /\ DOMAIN nodes'[j].inputs = DOMAIN nodes[j].inputs
           /\ \A k \in DOMAIN nodes[j].inputs :
                nodes'[j].inputs[k] \in {new, nodes[j].inputs[k]}
    BY FusionEffect
<1>2. /\ \A j \in DOMAIN nodes : nodes[j].name # new
      /\ nodes[c].op.type \in ActivationOps
    BY <1>1, FusedPair DEF FusesIn
<1> HIDE DEF new
<1>3. NamesDistinct(nodes)'
    BY <1>1, <1>2 DEF Running, NamesDistinct
<1>4. ASSUME NEW q \in DOMAIN nodes, nodes'[q].op.activation = None, NEW w \in Word
      PROVE  new # Append(nodes[q].name, w)
    <2>1. q # position
        BY <1>1, <1>2, <1>4, NoneAssumption
    <2>2. nodes[q].name # nodes[position].name
        BY <1>1, <2>1 DEF Running, NamesDistinct
    <2>3. /\ nodes[q].name \in Seq(Word) /\ nodes[position].name \in Seq(Word)
          /\ LowerWord[nodes[c].op.type] \in Word
        <3>1. nodes[q] \in Nodes /\ nodes[position] \in Nodes
            BY <1>1 DEF TypeOK
        <3>2. nodes[c].op.type \in Word
            BY <1>2, NameAssumption
        <3> QED
            BY <3>1, <3>2, NameAssumption DEF Nodes, Name
    <2> QED
        BY <2>2, <2>3, AppendInjective DEF new, NewProducerName
<1>5. ASSUME NEW q \in DOMAIN nodes, nodes'[q].op.activation = None, NEW w \in Word,
             NEW j \in DOMAIN nodes
      PROVE  /\ nodes'[j].name # Append(nodes'[q].name, w)
             /\ \A k \in DOMAIN nodes'[j].inputs :
                    nodes'[j].inputs[k] # Append(nodes'[q].name, w)
    <2>1. q # position
        BY <1>1, <1>2, <1>5, NoneAssumption
    <2>2. nodes[q].op.activation = None /\ nodes'[q].name = nodes[q].name
        BY <1>1, <1>5, <2>1
    <2>3. /\ nodes[j].name # Append(nodes[q].name, w)
          /\ \A k \in DOMAIN nodes[j].inputs : nodes[j].inputs[k] # Append(nodes[q].name, w)
        BY <2>2 DEF Running, Unextended
    <2>4. new # Append(nodes[q].name, w)
        BY <1>4, <1>5
    <2>5. nodes'[j].name \in {new, nodes[j].name}
        BY <1>1
    <2> QED
        BY <1>1, <2>2, <2>3, <2>4, <2>5
<1>6. Unextended'
    BY <1>1, <1>5 DEF Unextended
<1> QED
    BY <1>3, <1>6

(* Whoever read the activation reads the producer, which runs before it;    *)
(* the activation is left with a name that is gone.                         *)
LEMMA FusionReaders ==
    ASSUME TypeOK, Running, NEW c \in DOMAIN nodes, FusesIn(c)
    PROVE  ReadersBehind' /\ Detached'
<1> DEFINE new == NewProducerName(position, c)
<1>1. /\ position \in DOMAIN nodes
      /\ DOMAIN nodes' = DOMAIN nodes
      /\ \A j \in DOMAIN nodes :
           /\ nodes'[j].name = IF j = position THEN new ELSE nodes[j].name
           /\ DOMAIN nodes'[j].inputs = DOMAIN nodes[j].inputs
           /\ \A k \in DOMAIN nodes[j].inputs :
                nodes'[j].inputs[k] =
                   IF j # c /\ nodes[j].inputs[k] = nodes[c].name
                   THEN new ELSE nodes[j].inputs[k]
      /\ Kept' = Kept \ {c}
    BY FusionEffect
<1>2. /\ position \in Kept /\ c \in Kept /\ position # c
      /\ \A j \in DOMAIN nodes : nodes[j].name # new
      /\ \A j \in DOMAIN nodes : \A k \in DOMAIN nodes[j].inputs :
             /\ nodes[j].inputs[k] # new
             /\ nodes[j].inputs[k] = nodes[position].name => j = c
      /\ \A k \in DOMAIN nodes[c].inputs : nodes[c].inputs[k] = nodes[position].name
    BY <1>1, FusedPair DEF FusesIn
<1> HIDE DEF new
<1>3. Kept \subseteq DOMAIN nodes /\ \A i, j \in DOMAIN nodes :
          nodes[i].name = nodes[j].name => i = j
    BY DEF Kept, Running, NamesDistinct
<1>4. position < c
    <2>1. PICK k \in DOMAIN nodes[c].inputs : nodes[c].inputs[k] = nodes[position].name
        BY DEF FusesIn, Fuses, Consumers, Refers
    <2>2. PICK i \in Kept : i < c /\ nodes[i].name = nodes[position].name
        BY <1>2, <2>1 DEF Running, ReadersBehind
    <2> QED
        BY <1>1, <1>3, <2>2
<1>5. ASSUME NEW j \in Kept \ {c}, NEW k \in DOMAIN nodes[j].inputs
      PROVE  \E i \in Kept \ {c} : i < j /\ nodes'[i].name = nodes'[j].inputs[k]
    <2>1. PICK i \in Kept : i < j /\ nodes[i].name = nodes[j].inputs[k]
        BY DEF Running, ReadersBehind
    <2>2. CASE i = c
        <3>1. nodes'[j].inputs[k] = new /\ nodes'[position].name = new
            BY <1>1, <1>3, <2>1, <2>2
        <3>2. position < j
            <4>1. position \in Nat /\ c \in Nat /\ j \in Nat
                BY <1>1, <1>3, LenProperties DEF TypeOK
            <4> QED
                BY <1>4, <2>1, <2>2, <4>1
        <3> QED
            BY <1>2, <3>1, <3>2
    <2>3. CASE i # c
        <3>1. nodes[j].inputs[k] # nodes[c].name
            BY <1>3, <2>1, <2>3
        <3>2. nodes'[j].inputs[k] = nodes[j].inputs[k]
            BY <1>1, <1>3, <3>1
        <3>3. i # position
            BY <1>2, <1>3, <2>1
        <3> QED
            BY <1>1, <1>3, <2>1, <2>3, <3>2, <3>3
    <2> QED
        BY <2>2, <2>3
<1>6. ReadersBehind'
    BY <1>1, <1>3, <1>5 DEF ReadersBehind
<1>7. ASSUME NEW r \in DOMAIN nodes \ (Kept \ {c}), NEW k \in DOMAIN nodes[r].inputs,
             NEW j \in DOMAIN nodes
      PROVE  nodes'[j].name # nodes'[r].inputs[k]
    <2>1. CASE r = c
        <3>1. nodes'[r].inputs[k] = nodes[position].name
            BY <1>1, <1>2, <2>1
        <3> QED
            BY <1>1, <1>2, <1>3, <3>1
    <2>2. CASE r # c
        <3>1. \A i \in DOMAIN nodes : nodes[i].name # nodes[r].inputs[k]
            BY <2>2 DEF Running, Detached
        <3>2. nodes'[r].inputs[k] = nodes[r].inputs[k]
            BY <1>1, <3>1
        <3> QED
            BY <1>1, <1>2, <3>1, <3>2
    <2> QED
        BY <2>1, <2>2
<1>8. Detached'
    BY <1>1, <1>7 DEF Detached
<1> QED
    BY <1>6, <1>8

(* What is removed are activations, each counted once.                      *)
LEMMA FusionCounts ==
    ASSUME TypeOK, Running, NEW c \in DOMAIN nodes, FusesIn(c)
    PROVE  UnaryActivations' /\ RemovedAreActivations' /\ Counted'
<1>1. /\ position \in DOMAIN nodes
      /\ DOMAIN nodes' = DOMAIN nodes
      /\ \A j \in DOMAIN nodes :
           /\ j # position => nodes'[j].name = nodes[j].name /\ nodes'[j].op = nodes[j].op
           /\ nodes'[j].op.type = nodes[j].op.type
           /\ nodes'[j].op.activation =
                 IF j = position THEN nodes[c].op.type ELSE nodes[j].op.activation
           /\ Len(nodes'[j].inputs) = Len(nodes[j].inputs)
      /\ Kept' = Kept \ {c}
    BY FusionEffect, FusionOperators
<1>2. /\ position \in Kept /\ c \in Kept /\ position # c
      /\ nodes[position].op.type \notin ActivationOps
      /\ nodes[position].op.activation = None
      /\ nodes[c].op.type \in ActivationOps
      /\ nodes[c].op.activation = None
    BY <1>1, FusedPair DEF FusesIn
<1>3. UnaryActivations'
    BY <1>1, <1>2 DEF Running, UnaryActivations
<1>4. RemovedAreActivations'
    <2>1. \A j \in DOMAIN nodes' \ Kept' : nodes'[j].op.type \in ActivationOps
        BY <1>1, <1>2 DEF Running, RemovedAreActivations
    <2>2. ASSUME NEW name \in nodes_to_remove'
          PROVE  \E j \in DOMAIN nodes' : nodes'[j].name = name
        <3>1. PICK j \in DOMAIN nodes : nodes[j].name = name
            BY <2>2 DEF FusesIn, Running, RemovedAreActivations
        <3>2. j # position
            <4>1. CASE name \in nodes_to_remove
                BY <1>2, <3>1, <4>1 DEF Kept
            <4>2. CASE name = nodes[c].name
                BY <1>1, <1>2, <3>1, <4>2 DEF Running, NamesDistinct
            <4> QED
                BY <2>2, <4>1, <4>2 DEF FusesIn
        <3> QED
            BY <1>1, <3>1, <3>2
    <2> QED
        BY <2>1, <2>2 DEF RemovedAreActivations
<1>5. Counted'
    <2> DEFINE Gone == DOMAIN nodes \ Kept
               Fused == {j \in Kept : nodes[j].op.activation # None}
    <2>1. IsFiniteSet(Gone) /\ IsFiniteSet(Fused)
        <3>1. IsFiniteSet(DOMAIN nodes)
            BY FS_Interval, LenProperties DEF TypeOK
        <3>2. Gone \subseteq DOMAIN nodes /\ Fused \subseteq DOMAIN nodes
            BY DEF Kept
        <3> HIDE DEF Gone, Fused
        <3> QED
            BY <3>1, <3>2, FS_Subset
    <2>2. DOMAIN nodes' \ Kept' = Gone \cup {c}
        BY <1>1, <1>2
    <2>3. {j \in Kept' : nodes'[j].op.activation # None} = Fused \cup {position}
        <3>1. Kept \subseteq DOMAIN nodes
            BY DEF Kept
        <3> QED
            BY <1>1, <1>2, <3>1, NoneAssumption
    <2>4. c \notin Gone /\ position \notin Fused
        BY <1>2
    <2>5. Cardinality(Gone) = fused_count /\ Cardinality(Fused) = fused_count
        BY DEF Running, Counted
    <2> HIDE DEF Gone, Fused
    <2>6. /\ Cardinality(Gone \cup {c}) = fused_count + 1
          /\ Cardinality(Fused \cup {position}) = fused_count + 1
        BY <2>1, <2>4, <2>5, FS_AddElement
    <2> QED
        BY <2>2, <2>3, <2>6 DEF Counted, FusesIn
<1> QED
    BY <1>3, <1>4, <1>5

(* The producer is fused now, and for the ones before it nothing changed:   *)
(* their consumers are the same positions as before.                        *)
LEMMA FusionPasses ==
    ASSUME TypeOK, Running, NEW c \in DOMAIN nodes, FusesIn(c)
    PROVE  Passed'
<1> DEFINE new == NewProducerName(position, c)
<1>1. /\ position \in DOMAIN nodes
      /\ DOMAIN nodes' = DOMAIN nodes
      /\ \A j \in DOMAIN nodes :
           /\ nodes'[j].name = IF j = position THEN new ELSE nodes[j].name
           /\ nodes'[j].op.type = nodes[j].op.type
           /\ nodes'[j].op.activation =
                 IF j = position THEN nodes[c].op.type ELSE nodes[j].op.activation
           /\ DOMAIN nodes'[j].inputs = DOMAIN nodes[j].inputs
           /\ \A k \in DOMAIN nodes[j].inputs :
                nodes'[j].inputs[k] =
                   IF j # c /\ nodes[j].inputs[k] = nodes[c].name
                   THEN new ELSE nodes[j].inputs[k]
    BY FusionEffect
<1>2. /\ nodes[c].op.type \in ActivationOps
      /\ \A j \in DOMAIN nodes : nodes[j].name # new
    BY <1>1, FusedPair DEF FusesIn
<1> HIDE DEF new
<1>3. /\ nodes_to_remove \subseteq nodes_to_remove'
      /\ position' = position + 1
    BY DEF FusesIn
<1> SUFFICES ASSUME NEW q \in DOMAIN nodes, NEW d \in DOMAIN nodes,
                    q < position + 1, Fuses(q, d)'
             PROVE  FALSE
    BY <1>1, <1>3 DEF Passed
<1>4. /\ nodes'[q].name \notin nodes_to_remove'
      /\ Consumers(q)' = {d}
      /\ nodes'[d].op.type \in ActivationOps
      /\ nodes'[q].op.type \in FusableOps /\ nodes'[q].op.activation = None
    BY DEF Fuses, IsFusable
<1>5. q # position
    BY <1>1, <1>2, <1>4, NoneAssumption
<1>6. q < position
    BY <1>1, <1>5, LenProperties DEF TypeOK
<1>7. q # c
    <2>1. FusableOps \cap ActivationOps = {}
        BY DEF FusableOps, ActivationOps
    <2> QED
        BY <1>1, <1>2, <1>4, <2>1
<1>8. nodes'[q].name = nodes[q].name /\ nodes[q].name # nodes[c].name
    BY <1>1, <1>5, <1>7 DEF Running, NamesDistinct
<1>9. ASSUME NEW j \in DOMAIN nodes
      PROVE  Refers(nodes'[j], nodes[q].name) <=> Refers(nodes[j], nodes[q].name)
    <2>1. ASSUME NEW k \in DOMAIN nodes[j].inputs
          PROVE  nodes'[j].inputs[k] = nodes[q].name <=> nodes[j].inputs[k] = nodes[q].name
        BY <1>1, <1>2, <1>8
    <2>2. DOMAIN nodes'[j].inputs = DOMAIN nodes[j].inputs
        BY <1>1
    <2> QED
        BY <2>1, <2>2 DEF Refers
<1>10. Consumers(q)' = Consumers(q)
    BY <1>1, <1>8, <1>9 DEF Consumers
<1>11. Fuses(q, d)
    BY <1>1, <1>3, <1>4, <1>5, <1>8, <1>10 DEF Fuses, IsFusable
<1> QED
    BY <1>6, <1>11 DEF Running, Passed

(* An iteration that fuses keeps the invariant.                             *)
LEMMA FuseStep ==
    ASSUME IInv, Fuse
    PROVE  IInv'
<1>1. TypeOK /\ Running /\ phase' = "kernel_fusion"
    BY DEF IInv, Fuse
<1>2. PICK c \in DOMAIN nodes : FusesIn(c)
    BY DEF Fuse, FusesIn
<1>3. TypeOK'
    BY <1>1, <1>2, FusionEffect
<1>4. Running'
    BY <1>1, <1>2, FusionNames, FusionReaders, FusionCounts, FusionPasses DEF Running
<1> QED
    BY <1>1, <1>3, <1>4 DEF IInv

(* So does one that passes a producer over.                                 *)
LEMMA SkipStep ==
    ASSUME IInv, Skip
    PROVE  IInv'
<1>1. TypeOK /\ Running /\ phase' = "kernel_fusion"
    BY DEF IInv, Skip
<1>2. UNCHANGED <<nodes, nodes_to_remove, fused_count>> /\ position' = position + 1
    BY DEF Skip
<1>3. Kept' = Kept
    BY <1>2 DEF Kept
<1>4. /\ NamesDistinct(nodes)' /\ Unextended' /\ ReadersBehind' /\ Detached'
      /\ UnaryActivations' /\ RemovedAreActivations' /\ Counted'
    BY <1>1, <1>2, <1>3
    DEF Running, NamesDistinct, Unextended, ReadersBehind, Detached,
        UnaryActivations, RemovedAreActivations, Counted
<1>5. Passed'
    <2>1. \A p, c \in DOMAIN nodes : Fuses(p, c)' <=> Fuses(p, c)
        BY <1>2 DEF Fuses, Consumers, IsFusable
    <2>2. \A p, c \in DOMAIN nodes : p = position => ~ Fuses(p, c)
        BY DEF Skip
    <2>3. \A p, c \in DOMAIN nodes : p < position => ~ Fuses(p, c)
        BY <1>1 DEF Running, Passed
    <2>4. \A p \in DOMAIN nodes : p < position + 1 => p < position \/ p = position
        BY <1>1, LenProperties DEF TypeOK
    <2> QED
        BY <1>2, <2>1, <2>2, <2>3, <2>4 DEF Passed
<1>6. TypeOK'
    BY <1>1, <1>2 DEF TypeOK, Skip
<1> QED
    BY <1>1, <1>4, <1>5, <1>6 DEF IInv, Running

(* Removing the fused activations leaves a list whose references resolve as *)
(* before, and nothing to fuse: the consumers that went were detached.      *)
LEMMA RemoveStep ==
    ASSUME IInv, RemoveFused
    PROVE  IInv'
<1> DEFINE n == Len(nodes)
           K == Kept
           at(r) == AtRank(K, r)
           D == 1 .. Cardinality(K)
<1>1. TypeOK /\ Running /\ phase' = "optimized"
    BY DEF IInv, RemoveFused
<1>2. DOMAIN nodes = 1 .. n /\ n \in Nat
    BY <1>1, LenProperties DEF TypeOK
<1>3. K \in SUBSET (1 .. n)
    BY <1>2 DEF Kept
<1>4. nodes' = SubList(nodes, K) /\ nodes_to_remove' = nodes_to_remove
    BY DEF RemoveFused
<1> HIDE DEF K, n
<1>5. /\ Cardinality(K) \in Nat
      /\ DOMAIN nodes' = D
      /\ \A r \in D : at(r) \in K /\ nodes'[r] = nodes[at(r)]
      /\ \A r, t \in D : /\ at(r) < at(t) => r < t
                         /\ at(r) = at(t) => r = t
      /\ \A j \in K : \E r \in D : at(r) = j
    <2>1. /\ Cardinality(K) \in Nat
          /\ DOMAIN SubList(nodes, K) = 1 .. Cardinality(K)
          /\ \A r \in 1 .. Cardinality(K) :
                AtRank(K, r) \in K /\ SubList(nodes, K)[r] = nodes[AtRank(K, r)]
          /\ \A r, t \in 1 .. Cardinality(K) :
                /\ AtRank(K, r) < AtRank(K, t) => r < t
                /\ AtRank(K, r) = AtRank(K, t) => r = t
          /\ \A j \in K : \E r \in 1 .. Cardinality(K) : AtRank(K, r) = j
        <3> HIDE DEF at, D
        <3>1. n \in Nat /\ K \in SUBSET (1 .. n)
            BY <1>2, <1>3
        <3> QED
            BY <3>1, SubListInOrder
    <2> QED
        BY <1>4, <2>1
<1> HIDE DEF at, D
<1>6. \A j \in K : j \in DOMAIN nodes /\ nodes[j].name \notin nodes_to_remove
    BY DEF Kept, K
<1>7. Kept' = D
    BY <1>4, <1>5, <1>6 DEF Kept
<1>8. NamesDistinct(nodes)'
    <2>1. ASSUME NEW r \in D, NEW t \in D, nodes'[r].name = nodes'[t].name
          PROVE  r = t
        <3>1. at(r) = at(t)
            BY <1>1, <1>5, <1>6, <2>1 DEF Running, NamesDistinct
        <3> QED
            BY <1>5, <3>1
    <2> QED
        BY <1>5, <2>1 DEF NamesDistinct
<1>9. ReadersBehind'
    <2>1. ASSUME NEW t \in D, NEW k \in DOMAIN nodes'[t].inputs
          PROVE  \E r \in D : r < t /\ nodes'[r].name = nodes'[t].inputs[k]
        <3>1. at(t) \in K /\ nodes'[t] = nodes[at(t)]
            BY <1>5
        <3>2. PICK i \in K : i < at(t) /\ nodes[i].name = nodes'[t].inputs[k]
            BY <1>1, <2>1, <3>1 DEF Running, ReadersBehind, K
        <3>3. PICK r \in D : at(r) = i
            BY <1>5, <3>2
        <3> QED
            BY <1>5, <3>2, <3>3
    <2> QED
        BY <1>5, <1>7, <2>1 DEF ReadersBehind
<1>10. NothingLeftToFuse'
    <2> SUFFICES ASSUME NEW q \in D, NEW d \in D, Fuses(q, d)'
                 PROVE  FALSE
        BY <1>5 DEF NothingLeftToFuse
    <2>1. /\ Consumers(q)' = {d}
          /\ nodes'[d].op.type \in ActivationOps
          /\ IsFusable(nodes'[q].op)
        BY DEF Fuses
    <2>2. /\ at(q) \in K /\ nodes'[q] = nodes[at(q)]
          /\ at(d) \in K /\ nodes'[d] = nodes[at(d)]
        BY <1>5
    <2>3. Refers(nodes[at(d)], nodes[at(q)].name)
        BY <2>1, <2>2 DEF Consumers
    <2>4. ASSUME NEW j \in DOMAIN nodes, Refers(nodes[j], nodes[at(q)].name)
          PROVE  j = at(d)
        <3>1. j \in K
            BY <1>1, <1>6, <2>2, <2>4 DEF Running, Detached, Refers, K
        <3>2. PICK r \in D : at(r) = j
            BY <1>5, <3>1
        <3>3. r \in Consumers(q)'
            BY <1>5, <2>2, <2>4, <3>2 DEF Consumers
        <3> QED
            BY <2>1, <3>2, <3>3
    <2>5. Consumers(at(q)) = {at(d)}
        BY <1>6, <2>2, <2>3, <2>4 DEF Consumers
    <2>6. Fuses(at(q), at(d))
        BY <1>6, <2>1, <2>2, <2>5 DEF Fuses
    <2>7. at(q) \in DOMAIN nodes /\ at(d) \in DOMAIN nodes /\ at(q) < position
        <3>1. at(q) \in 1 .. n /\ position > n
            BY <1>3, <2>2 DEF RemoveFused, n
        <3>2. position \in Nat
            BY <1>1 DEF TypeOK
        <3> QED
            BY <1>2, <1>6, <2>2, <3>1, <3>2
    <2> QED
        BY <1>1, <2>6, <2>7 DEF Running, Passed
<1>11. TypeOK'
    <2>1. \A r \in D : nodes'[r] \in Nodes
        BY <1>1, <1>5, <1>6 DEF TypeOK
    <2>2. nodes' = [r \in D |-> nodes[at(r)]]
        BY <1>4 DEF SubList, D, at
    <2>3. nodes' \in Seq(Nodes)
        <3>1. [r \in D |-> nodes[at(r)]] \in [1 .. Cardinality(K) -> Nodes]
            BY <1>5, <2>1 DEF D
        <3> QED
            BY <1>5, <2>2, <3>1, SeqDef
    <2> QED
        BY <1>1, <2>3 DEF TypeOK, RemoveFused
<1> QED
    BY <1>1, <1>8, <1>9, <1>10, <1>11 DEF IInv

-----------------------------------------------------------------------------
(* The invariant                                                            *)

(* The pass may be given any of the graphs.                                 *)
LEMMA InitIInv == Init => IInv
<1> SUFFICES ASSUME Init PROVE IInv
    OBVIOUS
<1>1. /\ phase = "kernel_fusion" /\ position = 1
      /\ nodes_to_remove = {} /\ fused_count = 0
    BY DEF Init
<1>2. /\ nodes \in Seq(Nodes)
      /\ NamesDistinct(nodes) /\ NamesUnextended(nodes)
      /\ InOrder(nodes) /\ Unfused(nodes)
    BY GraphsAssumption DEF Init
<1>3. DOMAIN nodes = 1 .. Len(nodes) /\ Len(nodes) \in Nat
    BY <1>2, LenProperties
<1>4. Kept = DOMAIN nodes
    BY <1>1 DEF Kept
<1>5. TypeOK
    BY <1>1, <1>2 DEF TypeOK
<1>6. ReadersBehind
    <2> SUFFICES ASSUME NEW j \in DOMAIN nodes, NEW k \in DOMAIN nodes[j].inputs
                 PROVE  \E i \in DOMAIN nodes : i < j /\ nodes[i].name = nodes[j].inputs[k]
        BY <1>4 DEF ReadersBehind
    <2>1. PICK i \in 1 .. j - 1 : nodes[i].name = nodes[j].inputs[k]
        BY <1>2 DEF InOrder
    <2> QED
        BY <1>3, <2>1
<1>7. Unextended
    <2> SUFFICES ASSUME NEW q \in DOMAIN nodes, NEW w \in Word, NEW j \in DOMAIN nodes
                 PROVE  /\ nodes[j].name # Append(nodes[q].name, w)
                        /\ \A k \in DOMAIN nodes[j].inputs :
                               nodes[j].inputs[k] # Append(nodes[q].name, w)
        BY DEF Unextended
    <2>1. \A i \in DOMAIN nodes : nodes[i].name # Append(nodes[q].name, w)
        BY <1>2 DEF NamesUnextended
    <2>2. \A k \in DOMAIN nodes[j].inputs :
              \E i \in DOMAIN nodes : nodes[i].name = nodes[j].inputs[k]
        BY <1>4, <1>6 DEF ReadersBehind
    <2> QED
        BY <2>1, <2>2
<1>8. Detached /\ RemovedAreActivations
    BY <1>1, <1>4 DEF Detached, RemovedAreActivations
<1>9. UnaryActivations
    BY <1>2 DEF Unfused, UnaryActivations
<1>10. Passed
    BY <1>1, <1>3 DEF Passed
<1>11. Counted
    <2>1. DOMAIN nodes \ Kept = {} /\ {j \in Kept : nodes[j].op.activation # None} = {}
        BY <1>2, <1>4 DEF Unfused
    <2> QED
        BY <1>1, <2>1, FS_EmptySet DEF Counted
<1> QED
    BY <1>1, <1>2, <1>5, <1>6, <1>7, <1>8, <1>9, <1>10, <1>11 DEF IInv, Running

(* Every step of the pass keeps the invariant.                              *)
LEMMA FusionKeepsIInv == IInv /\ [Next]_vars => IInv'
<1> SUFFICES ASSUME IInv, [Next]_vars PROVE IInv'
    OBVIOUS
<1>1. CASE Fuse
    BY <1>1, FuseStep
<1>2. CASE Skip
    BY <1>2, SkipStep
<1>3. CASE RemoveFused
    BY <1>3, RemoveStep
<1>4. CASE UNCHANGED vars
    BY <1>4
    DEF vars, IInv, TypeOK, Running, NamesDistinct, Unextended, ReadersBehind,
        Detached, UnaryActivations, RemovedAreActivations, Passed, Counted,
        NothingLeftToFuse, Kept, Fuses, Consumers
<1> QED
    BY <1>1, <1>2, <1>3, <1>4 DEF Next

(* The invariant holds in every reachable state.                            *)
THEOREM FusionInvariant == Spec => []IInv
    BY InitIInv, FusionKeepsIInv, PTL DEF Spec

-----------------------------------------------------------------------------
(* The properties                                                           *)

(* The invariant implies the properties of the pass.                        *)
LEMMA InvariantResolves == IInv => ReferencesResolve
<1> SUFFICES ASSUME IInv PROVE ReferencesResolve
    OBVIOUS
<1>1. NamesDistinct(nodes) /\ ReadersBehind
    BY DEF IInv, Running, TypeOK
<1>2. Kept \subseteq DOMAIN nodes
    BY DEF Kept
<1> QED
    BY <1>1, <1>2 DEF ReferencesResolve, ReadersBehind, NamesDistinct

LEMMA InvariantCounts == IInv => RemovesWhatItFused
    BY DEF IInv, Running, Counted, RemovedAreActivations, RemovesWhatItFused

LEMMA InvariantSuffices == IInv => NothingLeftToFuse
    BY DEF IInv, NothingLeftToFuse

(* The variables keep their types: in particular the rewritten list is a    *)
(* list of well-formed nodes.                                               *)
THEOREM FusionTypeOK == Spec => []TypeOK
<1>1. IInv => TypeOK
    BY DEF IInv
<1> QED
    BY FusionInvariant, <1>1, PTL

(* However many fusions there were, the renaming of opt.py:103-119 reaches  *)
(* every reader and captures none.                                          *)
THEOREM ReferencesAlwaysResolve == Spec => []ReferencesResolve
    BY FusionInvariant, InvariantResolves, PTL

(* The nodes removed at opt.py:124-125 are exactly the activations that     *)
(* were fused, one for each fused operator.                                 *)
THEOREM OnlyFusedAreRemoved == Spec => []RemovesWhatItFused
    BY FusionInvariant, InvariantCounts, PTL

(* One sweep of the loop at opt.py:58 is enough, however long the chains.   *)
THEOREM OneSweepSuffices == Spec => []NothingLeftToFuse
    BY FusionInvariant, InvariantSuffices, PTL

-----------------------------------------------------------------------------
(* What the graph computes                                                  *)

(* A set of positions has a first one.                                      *)
LEMMA FirstPosition ==
    ASSUME NEW n \in Nat, NEW K \in SUBSET (1 .. n), K # {}
    PROVE  \E i \in K : \A k \in K : i <= k
<1>1. /\ Cardinality(K) \in Nat
      /\ \A r \in 1 .. Cardinality(K) : AtRank(K, r) \in K
      /\ \A r, t \in 1 .. Cardinality(K) : AtRank(K, r) < AtRank(K, t) => r < t
      /\ \A j \in K : \E r \in 1 .. Cardinality(K) : AtRank(K, r) = j
    BY SubListInOrder, RanksReach, RankGrows
<1>2. 1 \in 1 .. Cardinality(K)
    <2>1. PICK j \in K : TRUE
        OBVIOUS
    <2>2. PICK r \in 1 .. Cardinality(K) : AtRank(K, r) = j
        BY <1>1
    <2> QED
        BY <1>1, <2>2
<1>3. AtRank(K, 1) \in K
    BY <1>1, <1>2
<1>4. ASSUME NEW k \in K PROVE AtRank(K, 1) <= k
    <2>1. PICK r \in 1 .. Cardinality(K) : AtRank(K, r) = k
        BY <1>1
    <2>2. ~ AtRank(K, r) < AtRank(K, 1)
        BY <1>1, <1>2
    <2>3. AtRank(K, 1) \in 1 .. n /\ k \in 1 .. n
        BY <1>3, Zenon
    <2> QED
        BY <2>1, <2>2, <2>3
<1> QED
    BY <1>3, <1>4

(* The value of a node, of those that it reads.                             *)
Sources(j, name) == {i \in Kept : i < j /\ nodes[i].name = name}

Latest(S) == CHOOSE i \in S : \A other \in S : other <= i

Arguments(value, j) ==
    [k \in DOMAIN nodes[j].inputs |->
        IF Sources(j, nodes[j].inputs[k]) = {} THEN <<>>
        ELSE value[Latest(Sources(j, nodes[j].inputs[k]))]]

Kernel(op, args) == <<[op EXCEPT !.activation = None], args>>

Term(op, args) ==
    IF op.activation = None THEN Kernel(op, args)
    ELSE <<Op(op.activation), <<Kernel(op, args)>>>>

Evaluates(value) ==
    value = [j \in DOMAIN nodes |-> Term(nodes[j].op, Arguments(value, j))]

LEMMA ValueIs == Value = CHOOSE value : Evaluates(value)
    BY DEF Value, Evaluates, Term, Kernel, Arguments, Sources, Latest

(* A name is that of one node, so that a reader has no choice.              *)
LEMMA SourceIs ==
    ASSUME NamesDistinct(nodes), NEW j, NEW i \in Kept, i < j
    PROVE  /\ Sources(j, nodes[i].name) = {i}
           /\ Latest({i}) = i
<1>1. Kept \subseteq DOMAIN nodes
    BY DEF Kept
<1>2. Sources(j, nodes[i].name) = {i}
    BY <1>1 DEF Sources, NamesDistinct
<1> QED
    BY <1>2 DEF Latest

(* A node's value depends on those of earlier nodes only.                   *)
LEMMA ArgumentsAgree ==
    ASSUME nodes \in Seq(Nodes), NamesDistinct(nodes), NEW j \in DOMAIN nodes,
           NEW f, NEW g, \A i \in 1 .. j - 1 : f[i] = g[i]
    PROVE  Arguments(f, j) = Arguments(g, j)
<1>1. ASSUME NEW name, Sources(j, name) # {}
      PROVE  f[Latest(Sources(j, name))] = g[Latest(Sources(j, name))]
    <2>1. PICK i \in Kept : i < j /\ nodes[i].name = name
        BY <1>1 DEF Sources
    <2>2. Latest(Sources(j, name)) = i
        BY <2>1, SourceIs
    <2>3. i \in 1 .. j - 1
        <3>1. i \in DOMAIN nodes
            BY DEF Kept
        <3>2. DOMAIN nodes = 1 .. Len(nodes) /\ Len(nodes) \in Nat
            BY LenProperties
        <3> QED
            BY <2>1, <3>1, <3>2
    <2> QED
        BY <2>2, <2>3
<1> DEFINE of(v, k) == IF Sources(j, nodes[j].inputs[k]) = {} THEN <<>>
                       ELSE v[Latest(Sources(j, nodes[j].inputs[k]))]
<1>2. \A k \in DOMAIN nodes[j].inputs : of(f, k) = of(g, k)
    BY <1>1
<1>3. /\ Arguments(f, j) = [k \in DOMAIN nodes[j].inputs |-> of(f, k)]
      /\ Arguments(g, j) = [k \in DOMAIN nodes[j].inputs |-> of(g, k)]
    BY DEF Arguments
<1> HIDE DEF of
<1> QED
    BY <1>2, <1>3

(* So there are values, node after node.                                    *)
LEMMA ValuesExist ==
    ASSUME nodes \in Seq(Nodes), NamesDistinct(nodes)
    PROVE  Evaluates(Value)
<1> DEFINE n == Len(nodes)
           Of(f, j) == Term(nodes[j].op, Arguments(f, j))
           Upto(f, k) == f = [j \in 1 .. k |-> Of(f, j)]
           bad == {k \in 1 .. n : ~ \E f : Upto(f, k)}
<1>1. DOMAIN nodes = 1 .. n /\ n \in Nat
    BY LenProperties
<1>2. ASSUME NEW f, NEW g, NEW j \in 1 .. n, \A i \in 1 .. j - 1 : f[i] = g[i]
      PROVE  Of(f, j) = Of(g, j)
    BY <1>1, <1>2, ArgumentsAgree
<1> HIDE DEF Of, n
<1>3. \E f : Upto(f, 0)
    <2> DEFINE f == [j \in 1 .. 0 |-> 0]
    <2>1. f = [j \in 1 .. 0 |-> Of(f, j)]
        OBVIOUS
    <2> HIDE DEF f
    <2>2. Upto(f, 0)
        BY <2>1
    <2> QED
        BY <2>2
<1>4. ASSUME NEW k \in 1 .. n, NEW f, Upto(f, k - 1)
      PROVE  \E g : Upto(g, k)
    <2> DEFINE g == [j \in 1 .. k |-> IF j = k THEN Of(f, k) ELSE f[j]]
    <2>1. k \in Nat /\ k # 0 /\ n \in Nat /\ k <= n
        BY <1>1, <1>4
    <2>2. \A j \in 1 .. k - 1 : f[j] = Of(f, j) /\ g[j] = f[j] /\ j \in 1 .. k
        BY <1>4, <2>1
    <2>3. g[k] = Of(f, k)
        BY <2>1
    <2>4. DOMAIN g = 1 .. k /\ g = [j \in 1 .. k |-> g[j]]
        OBVIOUS
    <2> HIDE DEF g, Upto
    <2>5. ASSUME NEW j \in 1 .. k PROVE g[j] = Of(g, j)
        <3>1. j \in 1 .. n /\ \A i \in 1 .. j - 1 : i \in 1 .. k - 1
            BY <2>1
        <3>2. Of(f, j) = Of(g, j)
            BY <1>2, <2>2, <3>1
        <3>3. j = k \/ j \in 1 .. k - 1
            BY <2>1
        <3> QED
            BY <2>2, <2>3, <3>2, <3>3
    <2>6. g = [j \in 1 .. k |-> Of(g, j)]
        BY <2>4, <2>5
    <2>7. Upto(g, k)
        BY <2>6 DEF Upto
    <2> QED
        BY <2>7
<1> HIDE DEF Upto
<1>5. bad = {}
    <2> SUFFICES ASSUME bad # {} PROVE FALSE
        OBVIOUS
    <2>1. bad \in SUBSET (1 .. n)
        OBVIOUS
    <2> HIDE DEF bad
    <2>2. PICK k \in bad : \A i \in bad : k <= i
        BY <1>1, <2>1, FirstPosition
    <2>3. k \in 1 .. n /\ k - 1 \notin bad
        BY <1>1, <2>1, <2>2
    <2>4. \E f : Upto(f, k - 1)
        <3>1. k - 1 = 0 \/ k - 1 \in 1 .. n
            BY <1>1, <2>3
        <3> QED
            BY <1>3, <2>3, <3>1 DEF bad
    <2>5. \E f : Upto(f, k)
        BY <1>4, <2>3, <2>4
    <2> QED
        BY <2>2, <2>5 DEF bad
<1>6. \E f : Upto(f, n)
    <2>1. n = 0 \/ n \in 1 .. n
        BY <1>1
    <2> QED
        BY <1>3, <1>5, <2>1
<1>7. \E f : Evaluates(f)
    BY <1>1, <1>6 DEF Upto, Of, Evaluates
<1> QED
    BY <1>7, ValueIs

LEMMA ValueOf ==
    nodes \in Seq(Nodes) /\ NamesDistinct(nodes) =>
        \A j \in DOMAIN nodes : Value[j] = Term(nodes[j].op, Arguments(Value, j))
<1> SUFFICES ASSUME nodes \in Seq(Nodes), NamesDistinct(nodes), NEW j \in DOMAIN nodes
             PROVE  Value[j] = Term(nodes[j].op, Arguments(Value, j))
    OBVIOUS
<1>1. Evaluates(Value)
    BY ValuesExist
<1> DEFINE v == Value
<1> HIDE DEF v
<1>2. v = [i \in DOMAIN nodes |-> Term(nodes[i].op, Arguments(v, i))]
    BY <1>1 DEF Evaluates, v
<1>3. v[j] = Term(nodes[j].op, Arguments(v, j))
    BY <1>2
<1> QED
    BY <1>3 DEF v

LEMMA ArgumentsDomain ==
    \A v, j : /\ DOMAIN Arguments(v, j) = DOMAIN nodes[j].inputs
              /\ Arguments(v, j) = [k \in DOMAIN nodes[j].inputs |-> Arguments(v, j)[k]]
<1> TAKE v, j
<1> DEFINE of(k) == IF Sources(j, nodes[j].inputs[k]) = {} THEN <<>>
                    ELSE v[Latest(Sources(j, nodes[j].inputs[k]))]
<1>1. Arguments(v, j) = [k \in DOMAIN nodes[j].inputs |-> of(k)]
    BY DEF Arguments
<1> HIDE DEF of
<1> QED
    BY <1>1

(* The value of a node, of the values of the nodes that have the names it   *)
(* reads.                                                                   *)
Reading(j, args) ==
    /\ Value[j] = Term(nodes[j].op, args)
    /\ args = [k \in DOMAIN nodes[j].inputs |-> args[k]]
    /\ \A k \in DOMAIN nodes[j].inputs : \A i \in Kept :
          i < j /\ nodes[i].name = nodes[j].inputs[k] => args[k] = Value[i]

LEMMA ValueReads ==
    nodes \in Seq(Nodes) /\ NamesDistinct(nodes) =>
        \A j \in DOMAIN nodes : \E args : Reading(j, args)
<1> SUFFICES ASSUME nodes \in Seq(Nodes), NamesDistinct(nodes), NEW j \in DOMAIN nodes
             PROVE  \E args : Reading(j, args)
    OBVIOUS
<1> DEFINE args == Arguments(Value, j)
<1>1. Value[j] = Term(nodes[j].op, args)
    BY ValueOf
<1>2. args = [k \in DOMAIN nodes[j].inputs |-> args[k]]
    BY ArgumentsDomain
<1>3. ASSUME NEW k \in DOMAIN nodes[j].inputs, NEW i \in Kept,
             i < j, nodes[i].name = nodes[j].inputs[k]
      PROVE  args[k] = Value[i]
    <2>1. Sources(j, nodes[j].inputs[k]) = {i} /\ Latest({i}) = i
        BY <1>3, SourceIs
    <2> QED
        BY <2>1 DEF Arguments
<1> HIDE DEF args
<1>4. Reading(j, args)
    BY <1>1, <1>2, <1>3 DEF Reading
<1> QED
    BY <1>4

LEMMA ValueReadsThen ==
    nodes' \in Seq(Nodes) /\ NamesDistinct(nodes)' =>
        \A j \in DOMAIN nodes' : \E args :
            /\ Value'[j] = Term(nodes'[j].op, args)
            /\ args = [k \in DOMAIN nodes'[j].inputs |-> args[k]]
            /\ \A k \in DOMAIN nodes'[j].inputs : \A i \in Kept' :
                  i < j /\ nodes'[i].name = nodes'[j].inputs[k] => args[k] = Value'[i]
<1>1. (nodes \in Seq(Nodes) /\ NamesDistinct(nodes) =>
        \A j \in DOMAIN nodes : \E args : Reading(j, args))'
    BY ValueReads, PTL
<1> QED
    BY <1>1 DEF Reading

(* A fused node computes what the activation did, and the others that stay  *)
(* compute what they did.                                                   *)
LEMMA FusionMeans ==
    ASSUME TypeOK, Running, NEW c \in DOMAIN nodes, FusesIn(c)
    PROVE  \A j \in Kept \ {c} :
              Value'[j] = IF j = position THEN Value[c] ELSE Value[j]
<1> DEFINE new == NewProducerName(position, c)
           p == position
           v == Value
           w == Value'
           n == Len(nodes)
           op(j) == IF j = p THEN [nodes[p].op EXCEPT !.activation = nodes[c].op.type]
                    ELSE nodes[j].op
<1>1. /\ p \in DOMAIN nodes
      /\ DOMAIN nodes' = DOMAIN nodes
      /\ \A j \in DOMAIN nodes :
           /\ nodes'[j].name = IF j = p THEN new ELSE nodes[j].name
           /\ DOMAIN nodes'[j].inputs = DOMAIN nodes[j].inputs
           /\ \A k \in DOMAIN nodes[j].inputs :
                nodes'[j].inputs[k] =
                   IF j # c /\ nodes[j].inputs[k] = nodes[c].name
                   THEN new ELSE nodes[j].inputs[k]
      /\ Kept' = Kept \ {c}
    BY FusionEffect
<1>2. \A j \in DOMAIN nodes : nodes'[j].op = op(j)
    BY FusionOperators
<1>3. /\ p \in Kept /\ c \in Kept /\ p # c
      /\ nodes[p].op.activation = None /\ nodes[c].op.activation = None
      /\ nodes[c].op.type \in ActivationOps
      /\ \A j \in DOMAIN nodes : nodes[j].name # new
      /\ \A j \in DOMAIN nodes : \A k \in DOMAIN nodes[j].inputs :
             nodes[j].inputs[k] = nodes[p].name => j = c
      /\ \A k \in DOMAIN nodes[c].inputs : nodes[c].inputs[k] = nodes[p].name
    BY <1>1, FusedPair DEF FusesIn
<1>4. nodes[c].op = Op(nodes[c].op.type) /\ Len(nodes[c].inputs) = 1
    BY <1>3 DEF Running, UnaryActivations
<1>5. /\ \A j \in DOMAIN nodes : \E args :
           /\ v[j] = Term(nodes[j].op, args)
           /\ args = [k \in DOMAIN nodes[j].inputs |-> args[k]]
           /\ \A k \in DOMAIN nodes[j].inputs : \A i \in Kept :
                 i < j /\ nodes[i].name = nodes[j].inputs[k] => args[k] = v[i]
    BY ValueReads DEF Reading, TypeOK, Running
<1>6. /\ \A j \in DOMAIN nodes' : \E args :
           /\ w[j] = Term(nodes'[j].op, args)
           /\ args = [k \in DOMAIN nodes'[j].inputs |-> args[k]]
           /\ \A k \in DOMAIN nodes'[j].inputs : \A i \in Kept' :
                 i < j /\ nodes'[i].name = nodes'[j].inputs[k] => args[k] = w[i]
    <2>1. nodes' \in Seq(Nodes) /\ NamesDistinct(nodes)'
        BY FusionEffect, FusionNames DEF TypeOK
    <2> QED
        BY <2>1, ValueReadsThen
<1>7. /\ DOMAIN nodes = 1 .. n /\ n \in Nat
      /\ Kept \subseteq 1 .. n
      /\ \A i, j \in DOMAIN nodes : nodes[i].name = nodes[j].name => i = j
      /\ \A j \in Kept : \A k \in DOMAIN nodes[j].inputs :
            \E i \in Kept : i < j /\ nodes[i].name = nodes[j].inputs[k]
    BY LenProperties DEF TypeOK, Running, NamesDistinct, ReadersBehind, Kept
<1> HIDE DEF new, v, w, n, p, op
<1>8. p < c /\ DOMAIN nodes[c].inputs = 1 .. 1
    <2>1. nodes[c].inputs \in Seq(Name)
        <3>1. nodes[c] \in Nodes
            BY DEF TypeOK
        <3> QED
            BY <3>1 DEF Nodes
    <2>2. DOMAIN nodes[c].inputs = 1 .. 1
        BY <1>4, <2>1, LenProperties
    <2>3. 1 \in DOMAIN nodes[c].inputs
        BY <2>2
    <2>4. nodes[c].inputs[1] = nodes[p].name
        BY <1>3, <2>3
    <2>5. PICK i \in Kept : i < c /\ nodes[i].name = nodes[c].inputs[1]
        BY <1>3, <1>7, <2>3
    <2> QED
        BY <1>1, <1>7, <2>2, <2>4, <2>5
<1> DEFINE Is(j) == w[j] = IF j = p THEN v[c] ELSE v[j]
           bad == {j \in Kept \ {c} : ~ Is(j)}
<1> SUFFICES ASSUME bad # {} PROVE FALSE
    BY DEF v, w, p
<1>9. PICK j \in bad : \A i \in bad : j <= i
    <2>1. bad \in SUBSET (1 .. n) /\ n \in Nat
        BY <1>7
    <2> HIDE DEF bad
    <2> QED
        BY <2>1, FirstPosition
<1>10. /\ j \in Kept /\ j # c /\ j \in DOMAIN nodes /\ j \in Nat /\ ~ Is(j)
       /\ \A i \in Kept \ {c} : i < j => Is(i)
    BY <1>7, <1>9
<1> HIDE DEF bad
<1>11. PICK args : /\ v[j] = Term(nodes[j].op, args)
                   /\ args = [k \in DOMAIN nodes[j].inputs |-> args[k]]
                   /\ \A k \in DOMAIN nodes[j].inputs : \A i \in Kept :
                         i < j /\ nodes[i].name = nodes[j].inputs[k] => args[k] = v[i]
    BY <1>5, <1>10
<1>12. PICK brgs : /\ w[j] = Term(nodes'[j].op, brgs)
                   /\ brgs = [k \in DOMAIN nodes'[j].inputs |-> brgs[k]]
                   /\ \A k \in DOMAIN nodes'[j].inputs : \A i \in Kept' :
                         i < j /\ nodes'[i].name = nodes'[j].inputs[k] => brgs[k] = w[i]
    BY <1>1, <1>6, <1>10
<1>13. ASSUME NEW k \in DOMAIN nodes[j].inputs
       PROVE  args[k] = brgs[k]
    <2>1. PICK i \in Kept : i < j /\ nodes[i].name = nodes[j].inputs[k]
        BY <1>7, <1>10
    <2>2. args[k] = v[i]
        BY <1>11, <2>1
    <2>3. i \in DOMAIN nodes /\ i # p /\ i \in Nat
        BY <1>3, <1>7, <1>10, <2>1
    <2>4. DOMAIN nodes'[j].inputs = DOMAIN nodes[j].inputs
        BY <1>1, <1>10
    <2>5. CASE i = c
        <3>1. nodes'[j].inputs[k] = new /\ nodes'[p].name = new
            BY <1>1, <1>10, <2>1, <2>5
        <3>2. p \in Kept' /\ p < j
            <4>1. p \in Nat /\ c \in Nat
                BY <1>1, <1>7
            <4> QED
                BY <1>1, <1>3, <1>8, <1>10, <2>1, <2>5, <4>1
        <3>3. brgs[k] = w[p]
            BY <1>12, <2>4, <3>1, <3>2
        <3>4. Is(p)
            BY <1>3, <1>10, <3>2
        <3> QED
            BY <2>2, <2>5, <3>3, <3>4
    <2>6. CASE i # c
        <3>1. nodes[j].inputs[k] # nodes[c].name
            BY <1>7, <2>1, <2>3, <2>6
        <3>2. nodes'[j].inputs[k] = nodes[j].inputs[k] /\ nodes'[i].name = nodes[i].name
            BY <1>1, <1>10, <2>3, <3>1
        <3>3. i \in Kept'
            BY <1>1, <2>6
        <3>4. brgs[k] = w[i]
            BY <1>12, <2>1, <2>4, <3>2, <3>3
        <3>5. Is(i)
            BY <1>10, <2>1, <2>6
        <3> QED
            BY <2>2, <2>3, <3>4, <3>5
    <2> QED
        BY <2>5, <2>6
<1>14. args = brgs
    <2>1. DOMAIN nodes'[j].inputs = DOMAIN nodes[j].inputs
        BY <1>1, <1>10
    <2> QED
        BY <1>11, <1>12, <1>13, <2>1
<1>15. CASE j # p
    <2>1. nodes'[j].op = nodes[j].op
        BY <1>2, <1>10, <1>15 DEF op
    <2> QED
        BY <1>10, <1>11, <1>12, <1>14, <1>15, <2>1
<1>16. CASE j = p
    <2> DEFINE a == nodes[c].op.type
               o == nodes[p].op
    <2>1. nodes'[p].op = [o EXCEPT !.activation = a]
        BY <1>1, <1>2 DEF op
    <2>2. o \in Ops
        <3>1. nodes[p] \in Nodes
            BY <1>1 DEF TypeOK
        <3> QED
            BY <3>1 DEF Nodes
    <2>3. a # None
        BY <1>3, NoneAssumption
    <2>4. /\ [o EXCEPT !.activation = a].activation = a
          /\ [[o EXCEPT !.activation = a] EXCEPT !.activation = None] = o
          /\ [o EXCEPT !.activation = None] = o
          /\ o.activation = None
        BY <1>3, <2>2 DEF Ops
    <2>5. v[p] = Kernel(o, args)
        BY <1>11, <1>16, <2>4 DEF Term
    <2>6. w[p] = <<Op(a), <<Kernel(o, args)>>>>
        <3> HIDE DEF o, a
        <3> QED
            BY <1>12, <1>14, <1>16, <2>1, <2>3, <2>4 DEF Term, Kernel
    <2>7. PICK crgs : /\ v[c] = Term(nodes[c].op, crgs)
                      /\ crgs = [k \in DOMAIN nodes[c].inputs |-> crgs[k]]
                      /\ \A k \in DOMAIN nodes[c].inputs : \A i \in Kept :
                            i < c /\ nodes[i].name = nodes[c].inputs[k] => crgs[k] = v[i]
        BY <1>5
    <2>8. crgs = <<v[p]>>
        <3>1. crgs[1] = v[p]
            BY <1>3, <1>8, <2>7
        <3> QED
            BY <1>8, <2>7, <3>1
    <2>9. v[c] = <<Op(a), <<v[p]>>>>
        <3>1. nodes[c].op = Op(a) /\ Op(a).activation = None
            BY <1>4 DEF Op
        <3>2. [Op(a) EXCEPT !.activation = None] = Op(a)
            BY DEF Op
        <3> HIDE DEF a
        <3> QED
            BY <2>7, <2>8, <3>1, <3>2 DEF Term, Kernel
    <2> QED
        BY <1>10, <1>16, <2>5, <2>6, <2>9
<1> QED
    BY <1>15, <1>16

(* What the removal makes of the list.                                      *)
LEMMA RemovalEffect ==
    ASSUME TypeOK, RemoveFused
    PROVE  /\ Cardinality(Kept) \in Nat /\ DOMAIN nodes' = 1 .. Cardinality(Kept)
           /\ Kept' = DOMAIN nodes'
           /\ \A r \in DOMAIN nodes' :
                 AtRank(Kept, r) \in Kept /\ nodes'[r] = nodes[AtRank(Kept, r)]
           /\ \A r, t \in DOMAIN nodes' : AtRank(Kept, r) < AtRank(Kept, t) => r < t
           /\ \A j \in Kept : \E r \in DOMAIN nodes' : AtRank(Kept, r) = j
<1> DEFINE n == Len(nodes)
           K == Kept
<1>1. DOMAIN nodes = 1 .. n /\ n \in Nat
    BY LenProperties DEF TypeOK
<1>2. K \in SUBSET (1 .. n)
    BY <1>1 DEF Kept
<1>3. nodes' = SubList(nodes, K) /\ nodes_to_remove' = nodes_to_remove
    BY DEF RemoveFused
<1> HIDE DEF K, n
<1>4. /\ Cardinality(K) \in Nat
      /\ DOMAIN SubList(nodes, K) = 1 .. Cardinality(K)
      /\ \A r \in 1 .. Cardinality(K) :
            AtRank(K, r) \in K /\ SubList(nodes, K)[r] = nodes[AtRank(K, r)]
      /\ \A r, t \in 1 .. Cardinality(K) : AtRank(K, r) < AtRank(K, t) => r < t
      /\ \A j \in K : \E r \in 1 .. Cardinality(K) : AtRank(K, r) = j
    <2>1. n \in Nat /\ K \in SUBSET (1 .. n)
        BY <1>1, <1>2
    <2> QED
        BY <2>1, SubListInOrder
<1>5. /\ DOMAIN nodes' = 1 .. Cardinality(K)
      /\ \A r \in DOMAIN nodes' : AtRank(K, r) \in K /\ nodes'[r] = nodes[AtRank(K, r)]
    BY <1>3, <1>4
<1>6. Kept' = DOMAIN nodes'
    <2>1. \A j \in K : nodes[j].name \notin nodes_to_remove
        BY DEF Kept, K
    <2>2. \A r \in DOMAIN nodes' : nodes'[r].name \notin nodes_to_remove'
        BY <1>3, <1>5, <2>1
    <2> QED
        BY <2>2 DEF Kept
<1> QED
    BY <1>4, <1>5, <1>6 DEF K

(* What stays computes what it did: it reads what stays, in the same order. *)
LEMMA RemovalMeans ==
    ASSUME IInv, RemoveFused
    PROVE  \A r \in DOMAIN nodes' : Value'[r] = Value[AtRank(Kept, r)]
<1> DEFINE v == Value
           w == Value'
           m == Cardinality(Kept)
           at(r) == AtRank(Kept, r)
<1>1. TypeOK /\ Running
    BY DEF IInv, RemoveFused
<1>2. /\ m \in Nat /\ DOMAIN nodes' = 1 .. m
      /\ Kept' = DOMAIN nodes'
      /\ \A r \in DOMAIN nodes' : at(r) \in Kept /\ nodes'[r] = nodes[at(r)]
      /\ \A r, t \in DOMAIN nodes' : at(r) < at(t) => r < t
      /\ \A j \in Kept : \E r \in DOMAIN nodes' : at(r) = j
    BY <1>1, RemovalEffect
<1>3. \A j \in DOMAIN nodes : \E args :
         /\ v[j] = Term(nodes[j].op, args)
         /\ args = [k \in DOMAIN nodes[j].inputs |-> args[k]]
         /\ \A k \in DOMAIN nodes[j].inputs : \A i \in Kept :
               i < j /\ nodes[i].name = nodes[j].inputs[k] => args[k] = v[i]
    BY <1>1, ValueReads DEF Reading, TypeOK, Running
<1>4. \A j \in DOMAIN nodes' : \E args :
         /\ w[j] = Term(nodes'[j].op, args)
         /\ args = [k \in DOMAIN nodes'[j].inputs |-> args[k]]
         /\ \A k \in DOMAIN nodes'[j].inputs : \A i \in Kept' :
               i < j /\ nodes'[i].name = nodes'[j].inputs[k] => args[k] = w[i]
    <2>1. IInv' /\ phase' = "optimized"
        BY RemoveStep DEF RemoveFused
    <2>2. nodes' \in Seq(Nodes) /\ NamesDistinct(nodes)'
        BY <2>1 DEF IInv, TypeOK
    <2> QED
        BY <2>2, ValueReadsThen
<1>5. /\ Kept \subseteq DOMAIN nodes
      /\ \A j \in Kept : \A k \in DOMAIN nodes[j].inputs :
            \E i \in Kept : i < j /\ nodes[i].name = nodes[j].inputs[k]
    BY <1>1 DEF Running, ReadersBehind, Kept
<1> HIDE DEF v, w, m, at
<1> DEFINE bad == {r \in DOMAIN nodes' : w[r] # v[at(r)]}
<1> SUFFICES ASSUME bad # {} PROVE FALSE
    BY DEF v, w, at
<1>6. PICK r \in bad : \A t \in bad : r <= t
    <2>1. bad \in SUBSET (1 .. m) /\ m \in Nat
        BY <1>2
    <2> HIDE DEF bad
    <2> QED
        BY <2>1, FirstPosition
<1>7. /\ r \in DOMAIN nodes' /\ r \in Nat /\ w[r] # v[at(r)]
      /\ \A t \in DOMAIN nodes' : t < r => w[t] = v[at(t)]
    BY <1>2, <1>6
<1> HIDE DEF bad
<1> DEFINE j == at(r)
           inputs == nodes[at(r)].inputs
<1>8. j \in Kept /\ j \in DOMAIN nodes /\ nodes'[r] = nodes[j]
    BY <1>2, <1>5, <1>7
<1>9. PICK args : /\ v[j] = Term(nodes[j].op, args)
                  /\ args = [k \in DOMAIN nodes[j].inputs |-> args[k]]
                  /\ \A k \in DOMAIN nodes[j].inputs : \A i \in Kept :
                        i < j /\ nodes[i].name = nodes[j].inputs[k] => args[k] = v[i]
    BY <1>3, <1>8
<1>10. PICK brgs : /\ w[r] = Term(nodes'[r].op, brgs)
                   /\ brgs = [k \in DOMAIN nodes'[r].inputs |-> brgs[k]]
                   /\ \A k \in DOMAIN nodes'[r].inputs : \A i \in Kept' :
                         i < r /\ nodes'[i].name = nodes'[r].inputs[k] => brgs[k] = w[i]
    BY <1>4, <1>7
<1>11. ASSUME NEW k \in DOMAIN nodes[j].inputs
       PROVE  args[k] = brgs[k]
    <2>1. PICK i \in Kept : i < j /\ nodes[i].name = nodes[j].inputs[k]
        BY <1>5, <1>8
    <2>2. args[k] = v[i]
        BY <1>9, <2>1
    <2>3. PICK t \in DOMAIN nodes' : at(t) = i
        BY <1>2, <2>1
    <2>4. t < r /\ t \in Kept' /\ nodes'[t].name = nodes'[r].inputs[k]
        BY <1>2, <1>7, <1>8, <2>1, <2>3
    <2>5. brgs[k] = w[t]
        BY <1>8, <1>10, <2>4
    <2>6. w[t] = v[at(t)]
        BY <1>7, <2>4
    <2> QED
        BY <2>2, <2>3, <2>5, <2>6
<1>12. args = brgs
    BY <1>8, <1>9, <1>10, <1>11
<1> QED
    BY <1>7, <1>8, <1>9, <1>10, <1>12

(* No step changes what an output computes.                                 *)
LEMMA StepMeans == IInv /\ [Next]_vars => Meaning' = Meaning
<1> SUFFICES ASSUME IInv, [Next]_vars PROVE Meaning' = Meaning
    OBVIOUS
<1> DEFINE Ends == {i \in Kept : nodes[i].op.type = "Output"}
<1>1. CASE Fuse
    <2>1. TypeOK /\ Running
        BY <1>1 DEF IInv, Fuse
    <2>2. PICK c \in DOMAIN nodes : FusesIn(c)
        BY <1>1 DEF Fuse, FusesIn
    <2>3. \A j \in Kept \ {c} :
             Value'[j] = IF j = position THEN Value[c] ELSE Value[j]
        BY <2>1, <2>2, FusionMeans
    <2>4. /\ position \in DOMAIN nodes /\ DOMAIN nodes' = DOMAIN nodes
          /\ \A j \in DOMAIN nodes : nodes'[j].op.type = nodes[j].op.type
          /\ Kept' = Kept \ {c}
        BY <2>1, <2>2, FusionEffect
    <2>5. nodes[c].op.type # "Output" /\ nodes[position].op.type # "Output"
        BY <2>2 DEF FusesIn, Fuses, IsFusable, ActivationOps, FusableOps
    <2>6. Ends' = Ends
        BY <2>4, <2>5 DEF Kept
    <2>7. \A j \in Ends : Value'[j] = Value[j]
        BY <2>3, <2>5
    <2> QED
        BY <2>6, <2>7 DEF Meaning
<1>2. CASE Skip
    <2>1. nodes' = nodes /\ Kept' = Kept
        BY <1>2 DEF Skip, Kept
    <2>2. Value' = Value
        BY <2>1 DEF Value
    <2> QED
        BY <2>1, <2>2 DEF Meaning
<1>3. CASE RemoveFused
    <2>1. TypeOK
        BY DEF IInv
    <2>2. /\ Kept' = DOMAIN nodes'
          /\ \A r \in DOMAIN nodes' :
                AtRank(Kept, r) \in Kept /\ nodes'[r] = nodes[AtRank(Kept, r)]
          /\ \A j \in Kept : \E r \in DOMAIN nodes' : AtRank(Kept, r) = j
        BY <1>3, <2>1, RemovalEffect
    <2>3. \A r \in DOMAIN nodes' : Value'[r] = Value[AtRank(Kept, r)]
        BY <1>3, RemovalMeans
    <2> DEFINE at(r) == AtRank(Kept, r)
               v == Value
               w == Value'
    <2>4. \A r \in Ends' : at(r) \in Ends /\ w[r] = v[at(r)]
        BY <2>2, <2>3
    <2>5. \A j \in Ends : \E r \in Ends' : at(r) = j /\ w[r] = v[j]
        BY <2>2, <2>3
    <2>6. Meaning = {v[j] : j \in Ends} /\ Meaning' = {w[r] : r \in Ends'}
        BY DEF Meaning
    <2> HIDE DEF at, v, w, Ends
    <2> QED
        BY <2>4, <2>5, <2>6
<1>4. CASE UNCHANGED vars
    <2>1. nodes' = nodes /\ Kept' = Kept
        BY <1>4 DEF vars, Kept
    <2>2. Value' = Value
        BY <2>1 DEF Value
    <2> QED
        BY <2>1, <2>2 DEF Meaning
<1> QED
    BY <1>1, <1>2, <1>3, <1>4 DEF Next

(* However long the chains and whoever reads what, neither a fusion nor the *)
(* removal at opt.py:124-125 changes what an output of the graph computes.  *)
THEOREM FusionPreservesMeaning == Spec => MeaningPreserved
<1>1. IInv /\ [Next]_vars => [Meaning' = Meaning]_vars
    BY StepMeans
<1> QED
    BY FusionInvariant, <1>1, PTL DEF Spec, MeaningPreserved
=============================================================================
