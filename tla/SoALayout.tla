------------------------------ MODULE SoALayout ------------------------------
(***************************************************************************)
(* The layouts of soa/: scalars, columns and Eigen columns placed one      *)
(* after the other in a buffer of bytes the client allocated, and several  *)
(* such layouts (blocks) one after the other.                              *)
(*                                                                         *)
(* The code is generated by macros that expand once per column, in three   *)
(* loops that must agree on the bytes a column takes: computeDataSize sums *)
(* them, organizeColumnsFromBuffer places the columns, and the stream      *)
(* operator prints where they should be.  A step here is one expansion.    *)
(***************************************************************************)
EXTENDS Integers, Sequences

CONSTANTS
    Storages,   \* structures of arrays by blocks; one block: a plain layout
    Blocks,     \* Blocks[b]: the sequence of columns of block b
    Alignment,  \* the ALIGNMENT template parameter
    Enforced,   \* storages and views whose type enforces the alignment
    Elements,   \* the numbers of elements, per block, clients ask for
    Bases,      \* Bases[s]: addresses the client's buffer may start at
    Address,    \* the bytes of memory
    None

Column == [kind : {"scalar", "column", "eigen"}, size : Nat \ {0}, comps : Nat \ {0}]

ASSUME BlocksAssumption ==
    /\ Blocks \in Seq(Seq(Column)) /\ Len(Blocks) > 0
    /\ \A b \in DOMAIN Blocks : Len(Blocks[b]) > 0
    /\ \A b \in DOMAIN Blocks : \A c \in DOMAIN Blocks[b] :
           Blocks[b][c].kind # "eigen" => Blocks[b][c].comps = 1

ASSUME AlignmentAssumption == Alignment \in Nat \ {0}

ASSUME ClientsAssumption ==
    /\ Elements \subseteq [DOMAIN Blocks -> Nat]
    /\ Bases \in [Storages -> SUBSET Nat] /\ Address \subseteq Nat

ASSUME NoneAssumption == None \notin Elements \cup [base : Nat, bytes : Nat]

VARIABLES
    sizes_,   \* sizes_[s]: elements of each block, or None
    buffer,   \* buffer[s]: the client's buffer, or None
    layout,   \* layout[s]: the blocks built so far
    loop,     \* the loop over the columns in progress
    result    \* what the last call returned

layoutVars == <<sizes_, buffer, layout, loop>>

(* loop.at says which loop runs, for which storage, and the column it is at; *)
(* cur and ret are the locals _soa_impl_curMem and _soa_impl_ret.           *)
Idle == [at |-> "idle"]

Return(c, k) == result' = [call |-> c, kind |-> k]

-----------------------------------------------------------------------------
(* Sizes and alignment.                                                     *)

(* Mutants of the operators below, each a plausible slip.                   *)
alignSizeDown(size)   == (size \div Alignment) * Alignment
ComputePitchPacked(col, n) ==
    IF col.kind = "scalar" THEN ((col.size + Alignment - 1) \div Alignment) * Alignment
    ELSE ((n * col.size * col.comps + Alignment - 1) \div Alignment) * Alignment

alignSize(size) == ((size + Alignment - 1) \div Alignment) * Alignment

ComputePitch(col, n) ==
    CASE col.kind = "scalar" -> alignSize(col.size)
      [] col.kind = "column" -> alignSize(n * col.size)
      [] col.kind = "eigen"  -> alignSize(n * col.size) * col.comps

(* Mutant of the operator below: the components of an Eigen column forgotten. *)
PrintColumnOne(col, n) ==
    IF col.kind = "scalar" THEN alignSize(col.size) ELSE alignSize(col.size * n)

(* Where the next column of the printed structure is said to be.            *)
PrintColumn(col, n) ==
    IF col.kind = "scalar" THEN alignSize(col.size) ELSE alignSize(col.size * n) * col.comps

Misaligned(addr) == addr % Alignment # 0

checkAlignment(o, addr) == o \in Enforced => ~Misaligned(addr)

(* A column of a layout: NAME_, NAMEStride_ and NAMEElementsWithPadding_.   *)
Stride(col, n) ==
    IF col.kind = "eigen" THEN alignSize(n * col.size) \div col.size ELSE 0

Placed(col, n, addr) ==
    [addr |-> addr, stride |-> Stride(col, n), padded |-> Stride(col, n) * col.comps]

PlacedBytes(col, n) ==
    CASE col.kind = "scalar" -> alignSize(col.size)
      [] col.kind = "column" -> alignSize(n * col.size)
      [] col.kind = "eigen"  -> alignSize(n * col.size) * col.comps

(* Mutant of the operator below: byteSize_ not initialised.                 *)
NewBlockUnset(mem, n) == [mem_ |-> mem, elements_ |-> n, byteSize_ |-> None, columns |-> <<>>]

(* struct CLASS, before its columns are placed.                             *)
NewBlock(mem, n) == [mem_ |-> mem, elements_ |-> n, byteSize_ |-> 0, columns |-> <<>>]

Complete(s) ==
    /\ Len(layout[s]) = Len(Blocks)
    /\ loop.at \in {"place", "check"} => loop.target # s

LastColumn == loop.column = Len(Blocks[loop.block])
Current    == layout[loop.target][loop.block]

-----------------------------------------------------------------------------
LayoutInit ==
    /\ sizes_ = [s \in Storages |-> None]
    /\ buffer = [s \in Storages |-> None]
    /\ layout = [s \in Storages |-> <<>>]
    /\ loop = Idle
    /\ result = [call |-> "none", kind |-> "ok"]

(* The client sizes its buffer: computeDataSize over the columns of every   *)
(* block.                                                                   *)
ComputeDataSize(s, n) ==
    /\ loop = Idle /\ sizes_[s] = None
    /\ sizes_' = [sizes_ EXCEPT ![s] = n]
    /\ loop' = [at |-> "size", target |-> s, block |-> 1, column |-> 1, ret |-> 0]
    /\ UNCHANGED <<buffer, layout, result>>

Summed == loop.ret + ComputePitch(Blocks[loop.block][loop.column], sizes_[loop.target][loop.block])

AccumulateBlocks ==
    /\ loop.at = "size" /\ ~(LastColumn /\ loop.block = Len(Blocks))
    /\ loop' = [loop EXCEPT
           !.ret = Summed,
           !.block = IF LastColumn THEN @ + 1 ELSE @,
           !.column = IF LastColumn THEN 1 ELSE @ + 1]
    /\ UNCHANGED <<sizes_, buffer, layout, result>>

(* The client's allocator: it gives bytes of the memory that no other        *)
(* buffer holds.                                                            *)
Held(s) ==
    IF buffer[s] = None THEN {} ELSE buffer[s].base .. buffer[s].base + buffer[s].bytes - 1

Free(base, bytes) ==
    base .. base + bytes - 1 \subseteq Address \ UNION {Held(s) : s \in Storages}

Allocate(base) ==
    /\ loop.at = "size" /\ LastColumn /\ loop.block = Len(Blocks)
    /\ Free(base, Summed)
    /\ buffer' = [buffer EXCEPT ![loop.target] = [base |-> base, bytes |-> Summed]]
    /\ loop' = Idle
    /\ Return("computeDataSize", "ok")
    /\ UNCHANGED <<sizes_, layout>>

(* cloneToNewAddress: the same sizes in a buffer of byteSize() bytes, where *)
(* the last block of the original ends.                                     *)
Clone(s, t, base) ==
    /\ loop = Idle /\ Complete(s) /\ sizes_[t] = None
    /\ sizes_' = [sizes_ EXCEPT ![t] = sizes_[s]]
    /\ LET last  == layout[s][Len(Blocks)]
           bytes == last.mem_ + last.byteSize_ - layout[s][1].mem_
       IN  /\ Free(base, bytes)
           /\ buffer' = [buffer EXCEPT ![t] = [base |-> base, bytes |-> bytes]]
    /\ Return("cloneToNewAddress", "ok")
    /\ UNCHANGED <<layout, loop>>

PlaceFrom(s, b, mem) ==
    [at |-> "place", target |-> s, block |-> b, column |-> 1, cur |-> mem]

Throw(s) ==
    /\ layout' = [layout EXCEPT ![s] = <<>>]
    /\ loop' = Idle
    /\ Return("construct", "runtime_error")

(* The constructor: block after block, organizeColumnsFromBuffer.           *)
Construct(s) ==
    /\ loop = Idle /\ buffer[s] # None /\ layout[s] = <<>>
    /\ IF checkAlignment(s, buffer[s].base)
       THEN /\ layout' = [layout EXCEPT ![s] = <<NewBlock(buffer[s].base, sizes_[s][1])>>]
            /\ loop' = PlaceFrom(s, 1, buffer[s].base)
            /\ UNCHANGED result
       ELSE Throw(s)
    /\ UNCHANGED <<sizes_, buffer>>

Place ==
    /\ loop.at = "place"
    /\ LET col  == Blocks[loop.block][loop.column]
           n    == Current.elements_
           next == loop.cur + PlacedBytes(col, n)
       IN  IF checkAlignment(loop.target, loop.cur)
           THEN /\ layout' = [layout EXCEPT ![loop.target][loop.block].columns =
                       Append(@, Placed(col, n, loop.cur))]
                /\ loop' = IF LastColumn
                           THEN [at |-> "check", target |-> loop.target, block |-> loop.block,
                                 column |-> 1, cur |-> next, ret |-> 0]
                           ELSE [loop EXCEPT !.cur = next, !.column = @ + 1]
                /\ UNCHANGED result
           ELSE Throw(loop.target)
    /\ UNCHANGED <<sizes_, buffer>>

(* byteSize_ = computeDataSize(elements_), and the sanity check that the    *)
(* columns ended there.  The next block starts where this one ends.         *)
AccumulateBlock ==
    /\ loop.at = "check" /\ ~LastColumn
    /\ loop' = [loop EXCEPT !.ret = Summed, !.column = @ + 1]
    /\ UNCHANGED <<sizes_, buffer, layout, result>>

EndBlock ==
    /\ loop.at = "check" /\ LastColumn
    /\ LET s    == loop.target
           b    == loop.block
           end  == Current.mem_ + Summed
           done == [layout EXCEPT ![s][b].byteSize_ = Summed]
       IN  IF end # loop.cur \/ ~(b < Len(Blocks) => checkAlignment(s, end))
           THEN Throw(s)
           ELSE IF b < Len(Blocks)
           THEN /\ layout' = [done EXCEPT ![s] = Append(@, NewBlock(end, sizes_[s][b + 1]))]
                /\ loop' = PlaceFrom(s, b + 1, end)
                /\ UNCHANGED result
           ELSE /\ layout' = done
                /\ loop' = Idle
                /\ Return("construct", "ok")
    /\ UNCHANGED <<sizes_, buffer>>

(* soaToStreamInternal: the offset of each column, and the final offset     *)
(* beside computeDataSize.                                                  *)
Dump(s, b) ==
    /\ loop = Idle /\ Complete(s)
    /\ loop' = [at |-> "dump", target |-> s, block |-> b, column |-> 1, ret |-> 0]
    /\ UNCHANGED <<sizes_, buffer, layout, result>>

DumpColumn ==
    /\ loop.at = "dump" /\ loop.column <= Len(Blocks[loop.block])
    /\ loop' = [loop EXCEPT
           !.ret = @ + PrintColumn(Blocks[loop.block][loop.column], Current.elements_),
           !.column = @ + 1]
    /\ UNCHANGED <<sizes_, buffer, layout, result>>

DumpEnd ==
    /\ loop.at = "dump" /\ loop.column > Len(Blocks[loop.block])
    /\ loop' = Idle
    /\ UNCHANGED <<sizes_, buffer, layout, result>>

LayoutNext ==
    \/ \E s \in Storages :
        \/ \E n \in Elements : ComputeDataSize(s, n)
        \/ \E t \in Storages : \E base \in Bases[t] : Clone(s, t, base)
        \/ Construct(s)
        \/ \E b \in DOMAIN Blocks : Dump(s, b)
    \/ loop.at = "size" /\ \E base \in Bases[loop.target] : Allocate(base)
    \/ AccumulateBlocks \/ Place \/ AccumulateBlock \/ EndBlock
    \/ DumpColumn \/ DumpEnd

-----------------------------------------------------------------------------
Layout == [mem_ : Nat, elements_ : Nat, byteSize_ : Nat,
           columns : Seq([addr : Nat, stride : Nat, padded : Nat])]

Loops ==
    {Idle}
      \cup [at : {"size", "dump"}, target : Storages, block : DOMAIN Blocks, column : Nat, ret : Nat]
      \cup [at : {"place"}, target : Storages, block : DOMAIN Blocks, column : Nat, cur : Nat]
      \cup [at : {"check"}, target : Storages, block : DOMAIN Blocks, column : Nat, cur : Nat, ret : Nat]

LayoutTypeOK ==
    /\ sizes_ \in [Storages -> Elements \cup {None}]
    /\ buffer \in [Storages -> [base : Nat, bytes : Nat] \cup {None}]
    /\ layout \in [Storages -> Seq(Layout)]
    /\ loop \in Loops

(* One byte past the last element of a column.                              *)
ColumnEnd(s, b, c) ==
    LET col == Blocks[b][c]
        at  == layout[s][b].columns[c]
        n   == layout[s][b].elements_
    IN  at.addr + col.size * (CASE col.kind = "scalar" -> 1
                                [] col.kind = "column" -> n
                                [] col.kind = "eigen"  ->
                                       IF n = 0 THEN 0 ELSE (col.comps - 1) * at.stride + n)
=============================================================================
