--------------------------- MODULE StructOfArrays ---------------------------
(***************************************************************************)
(* Structures of arrays in use: the layouts of SoALayout.tla and the views *)
(* that read, write, merge and copy their columns.  A view holds nothing   *)
(* but addresses; `from', which no operation reads, remembers the column   *)
(* of a storage each address was taken from.                               *)
(*                                                                         *)
(* Everything runs in one thread.  deepCopy and the assignment of an       *)
(* element are loops over the columns: one step is one column.             *)
(***************************************************************************)
EXTENDS SoALayout

CONSTANTS
    Views,      \* views by blocks
    AnyStride,  \* FALSE: clients only deepCopy Eigen columns of equal stride
    MaxMade,    \* bound on the views clients make
    MaxCalls    \* bound on the reads, writes and copies they make

ASSUME BoundsAssumption == MaxMade \in Nat /\ MaxCalls \in Nat

VARIABLES
    memory,     \* the byte at each address
    view,       \* view[v][b], for the views v made so far
    copying,    \* the loop of deepCopy or of an element assignment
    made,       \* views made so far
    calls       \* reads, writes and copies so far

vars == <<layoutVars, result, memory, view, copying, made, calls>>

NotCopying == [call |-> "none"]

(* Clients use views once every storage is built or refused.  They make     *)
(* views before they use them: a view holds no data, so later ones would    *)
(* show nothing more.                                                       *)
Client ==
    /\ loop = Idle /\ copying = NotCopying
    /\ \A s \in Storages : buffer[s] # None /\ (checkAlignment(s, buffer[s].base) => Complete(s))

MakesView ==
    /\ Client /\ calls = 0
    /\ made < MaxMade /\ made' = made + 1 /\ UNCHANGED calls

UsesView ==
    /\ Client
    /\ calls < MaxCalls /\ calls' = calls + 1 /\ UNCHANGED made

Scalar(b, c) == Blocks[b][c].kind = "scalar"
Eigen(b, c)  == Blocks[b][c].kind = "eigen"

(* The indices of a column of n elements; a scalar has one.                 *)
Rows(b, c, n) == 0 .. (IF Scalar(b, c) THEN 1 ELSE n) - 1

-----------------------------------------------------------------------------
(* The bytes of element i of a column: SoAValue and its Eigen version, whose *)
(* components lie a stride apart.                                           *)

(* Mutant of the operator below: the stride of an Eigen element forgotten.  *)
ElementBytesDense(col, at, i) ==
    [k \in 0 .. col.size * col.comps - 1 |-> at.addr + i * col.size * col.comps + k]

ElementBytes(col, at, i) ==
    [k \in 0 .. col.size * col.comps - 1 |->
        IF col.kind = "scalar" THEN at.addr + k
        ELSE at.addr + (i + (k \div col.size) * at.stride) * col.size + (k % col.size)]

Content(m, col, at, i) ==
    [k \in 0 .. col.size * col.comps - 1 |-> m[ElementBytes(col, at, i)[k]]]

Spread(m, col, at, i, value) ==
    LET bytes == ElementBytes(col, at, i)
    IN  [a \in DOMAIN m |->
            IF \E k \in DOMAIN bytes : bytes[k] = a
            THEN value[CHOOSE k \in DOMAIN bytes : bytes[k] = a] ELSE m[a]]

(* memcpy of n bytes.                                                       *)
Memcpy(m, to, from, n) ==
    [a \in DOMAIN m |-> IF a \in to .. to + n - 1 THEN m[a - to + from] ELSE m[a]]

-----------------------------------------------------------------------------
(* Making views.                                                            *)

Look(v, s) ==
    /\ MakesView /\ Complete(s) /\ (v \in Enforced <=> s \in Enforced)
    /\ view' = [w \in DOMAIN view \cup {v} |-> IF w # v THEN view[w] ELSE
           [b \in DOMAIN Blocks |->
               [elements_ |-> layout[s][b].elements_,
                columns   |-> layout[s][b].columns,
                from      |-> [c \in DOMAIN Blocks[b] |-> <<s, b, c>>]]]]
    /\ Return("view", "ok")
    /\ UNCHANGED <<layoutVars, memory, copying>>

(* records(): the parameters of a column and the elements of its view.      *)
Record(r) ==
    [params |-> view[r.view][r.block].columns[r.column],
     elements |-> view[r.view][r.block].elements_,
     from |-> view[r.view][r.block].from[r.column]]

Records(b, c) ==
    {r \in [view : DOMAIN view, block : DOMAIN Blocks,
            column : UNION {DOMAIN Blocks[d] : d \in DOMAIN Blocks}] :
        r.column \in DOMAIN Blocks[r.block] /\ Blocks[r.block][r.column] = Blocks[b][c]}

Picks(b) ==
    LET fit == [c \in DOMAIN Blocks[b] |-> Records(b, c)]
    IN  {picked \in [DOMAIN Blocks[b] -> UNION {fit[c] : c \in DOMAIN fit}] :
            \A c \in DOMAIN fit : picked[c] \in fit[c]}

(* Mutants of the operator below: no column is compared with the first one, *)
(* and only the strides of the Eigen columns are.                           *)
ColumnsAgreeNever(v, b, columns) ==
    \A c \in DOMAIN columns : checkAlignment(v, columns[c].params.addr)
ColumnsAgreeStrides(v, b, columns) ==
    \A c \in DOMAIN columns :
        /\ Eigen(b, c) => columns[c].params.stride = Stride(Blocks[b][c], columns[1].elements)
        /\ checkAlignment(v, columns[c].params.addr)

(* The first column sets elements_, the others must agree with it.          *)
ColumnsAgree(v, b, columns) ==
    \A c \in DOMAIN columns :
        /\ Eigen(b, c) => columns[c].params.stride = Stride(Blocks[b][c], columns[1].elements)
        /\ columns[c].elements = columns[1].elements
        /\ checkAlignment(v, columns[c].params.addr)

(* Block b of a view by blocks is replaced by a view made of columns.       *)
Merge(v, b, picked) ==
    LET columns == [c \in DOMAIN Blocks[b] |-> Record(picked[c])]
    IN  /\ MakesView
        /\ IF ColumnsAgree(v, b, columns)
           THEN /\ view' = [view EXCEPT ![v][b] =
                       [elements_ |-> columns[1].elements,
                        columns   |-> [c \in DOMAIN columns |-> columns[c].params],
                        from      |-> [c \in DOMAIN columns |-> columns[c].from]]]
                /\ Return("merge", "ok")
           ELSE Return("merge", "runtime_error") /\ UNCHANGED view
        /\ UNCHANGED <<layoutVars, memory, copying>>

-----------------------------------------------------------------------------
(* Element and column access.                                               *)

(* Mutant of the operator below: an index one past the end is accepted.     *)
InRangeOrEnd(v, b, i) == i <= view[v][b].elements_

InRange(v, b, i) == i < view[v][b].elements_

(* The value a client writes: bytes no cell holds yet.                      *)
Fresh == [k \in Nat |-> -(calls + 1)]

Accessible(v, b, c, i) == Scalar(b, c) \/ InRange(v, b, i)

Get(v, b, c, i) ==
    /\ UsesView
    /\ IF Accessible(v, b, c, i)
       THEN result' = [call |-> "get", kind |-> "value", at |-> <<v, b, c, i>>,
                       value |-> Content(memory, Blocks[b][c], view[v][b].columns[c], i)]
       ELSE Return("get", "out_of_range")
    /\ UNCHANGED <<layoutVars, memory, view, copying>>

Set(v, b, c, i) ==
    /\ UsesView
    /\ IF Accessible(v, b, c, i)
       THEN /\ memory' = Spread(memory, Blocks[b][c], view[v][b].columns[c], i, Fresh)
            /\ result' = [call |-> "set", kind |-> "ok", at |-> <<v, b, c, i>>]
       ELSE Return("set", "out_of_range") /\ UNCHANGED memory
    /\ UNCHANGED <<layoutVars, view, copying>>

(* v[i] = w[j]: both operator[] check their index, then column by column    *)
(* but for the scalars.                                                     *)
AssignElement(v, b, i, w, j) ==
    /\ UsesView
    /\ IF InRange(v, b, i) /\ InRange(w, b, j)
       THEN /\ copying' = [call |-> "assign", to |-> v, from |-> w, block |-> b,
                           column |-> 1, row |-> i, fromRow |-> j]
            /\ UNCHANGED result
       ELSE Return("assign", "out_of_range") /\ UNCHANGED copying
    /\ UNCHANGED <<layoutVars, memory, view>>

AssignColumn ==
    LET b == copying.block
        c == copying.column
        from == view[copying.from][b].columns[c]
        to   == view[copying.to][b].columns[c]
    IN  /\ copying.call = "assign"
        /\ memory' = IF Scalar(b, c) THEN memory
                     ELSE Spread(memory, Blocks[b][c], to, copying.row,
                                 Content(memory, Blocks[b][c], from, copying.fromRow))
        /\ IF c < Len(Blocks[b])
           THEN copying' = [copying EXCEPT !.column = @ + 1] /\ UNCHANGED result
           ELSE copying' = NotCopying /\ Return("assign", "ok")
        /\ UNCHANGED <<layoutVars, view, made, calls>>

-----------------------------------------------------------------------------
(* deepCopy of a view by blocks into a storage.                             *)

SameStrides(s, v) ==
    \A b \in DOMAIN Blocks : \A c \in DOMAIN Blocks[b] :
        layout[s][b].columns[c].stride = view[v][b].columns[c].stride

(* Mutant of the operator below: only the first block is checked up front.  *)
FitsFirst(s, v) == layout[s][1].elements_ >= view[v][1].elements_

Fits(s, v) == \A b \in DOMAIN Blocks : layout[s][b].elements_ >= view[v][b].elements_

DeepCopy(s, v) ==
    /\ UsesView /\ Complete(s)
    /\ AnyStride \/ SameStrides(s, v)
    /\ IF Fits(s, v)
       THEN /\ copying' = [call |-> "deepCopy", to |-> s, from |-> v, block |-> 1, column |-> 1]
            /\ UNCHANGED result
       ELSE Return("deepCopy", "runtime_error") /\ UNCHANGED copying
    /\ UNCHANGED <<layoutVars, memory, view>>

(* Mutants of the operator below: rows counted instead of bytes, and a      *)
(* whole column of the destination copied.                                  *)
CopiedBytesRows(b, c) == view[copying.from][b].elements_
CopiedBytesWhole(b, c) ==
    IF Scalar(b, c) THEN Blocks[b][c].size ELSE
    IF Eigen(b, c) THEN layout[copying.to][b].columns[c].padded * Blocks[b][c].size
                   ELSE layout[copying.to][b].elements_ * Blocks[b][c].size

(* The bytes of an Eigen column are counted by the destination's stride.    *)
CopiedBytes(b, c) ==
    Blocks[b][c].size *
        (CASE Blocks[b][c].kind = "scalar" -> 1
           [] Blocks[b][c].kind = "column" -> view[copying.from][b].elements_
           [] Blocks[b][c].kind = "eigen"  -> layout[copying.to][b].columns[c].padded)

CopyColumn ==
    LET b == copying.block
        c == copying.column
    IN  /\ copying.call = "deepCopy"
        /\ memory' = Memcpy(memory, layout[copying.to][b].columns[c].addr,
                            view[copying.from][b].columns[c].addr, CopiedBytes(b, c))
        /\ IF c < Len(Blocks[b])
           THEN copying' = [copying EXCEPT !.column = @ + 1] /\ UNCHANGED result
           ELSE IF b < Len(Blocks)
           THEN copying' = [copying EXCEPT !.column = 1, !.block = @ + 1] /\ UNCHANGED result
           ELSE copying' = NotCopying /\ Return("deepCopy", "ok")
        /\ UNCHANGED <<layoutVars, view, made, calls>>

-----------------------------------------------------------------------------
Init ==
    /\ LayoutInit
    /\ memory = [a \in Address |-> a]      \* bytes nobody wrote, all different
    /\ view = <<>>
    /\ copying = NotCopying
    /\ made = 0 /\ calls = 0

Next ==
    \/ copying = NotCopying /\ LayoutNext /\ UNCHANGED <<memory, view, copying, made, calls>>
    \/ \E v \in Views, s \in Storages : Look(v, s)
    \/ \E v \in DOMAIN view, b \in DOMAIN Blocks :
        \/ MakesView /\ \E picked \in Picks(b) : Merge(v, b, picked)
        \/ \E c \in DOMAIN Blocks[b], i \in 0 .. view[v][b].elements_ : Get(v, b, c, i) \/ Set(v, b, c, i)
        \/ \E w \in DOMAIN view :
               \E i \in 0 .. view[v][b].elements_, j \in 0 .. view[w][b].elements_ :
                   AssignElement(v, b, i, w, j)
    \/ \E v \in DOMAIN view, s \in Storages : DeepCopy(s, v)
    \/ AssignColumn \/ CopyColumn

Spec == Init /\ [][Next]_vars

-----------------------------------------------------------------------------
(* The state is made of layouts, views and loops of the declared shapes.    *)
TypeOK ==
    /\ LayoutTypeOK
    /\ copying \in {NotCopying}
           \cup [call : {"deepCopy"}, to : Storages, from : Views, block : Nat, column : Nat]
           \cup [call : {"assign"}, to : Views, from : Views, block : Nat, column : Nat,
                 row : Nat, fromRow : Nat]
    /\ made \in 0 .. MaxMade /\ calls \in 0 .. MaxCalls
    /\ DOMAIN memory = Address /\ DOMAIN view \subseteq Views

(* computeDataSize, the constructor and the stream operator agree: whenever *)
(* one of the two later loops reaches a column, its running sum is where    *)
(* the constructor placed the column, and at the end it is where the        *)
(* placement ended (struct_of_arrays.h, "unexpected end pointer").          *)
OffsetsAgree ==
    loop.at \in {"check", "dump"} =>
        LET columns == Current.columns
        IN  loop.ret = IF loop.column <= Len(columns) THEN columns[loop.column].addr - Current.mem_
                       ELSE Current.byteSize_

(* A constructor throws only for a misaligned buffer.                       *)
OnlyMisalignedThrows ==
    result.call = "construct" /\ result.kind = "runtime_error" =>
        \E s \in Storages : s \in Enforced /\ buffer[s] # None /\ layout[s] = <<>>
                             /\ Misaligned(buffer[s].base)

(* No byte belongs to two columns, also of different blocks, and all lie in *)
(* the buffer the client sized with computeDataSize: every column ends      *)
(* before the next one begins, the components of an Eigen column are a      *)
(* whole column apart, and a layout that promises alignment has it.         *)
PlacementSound ==
    \A s \in Storages : \A b \in DOMAIN layout[s] : \A c \in DOMAIN layout[s][b].columns :
        LET here == layout[s][b].columns[c]
        IN  /\ buffer[s].base <= here.addr
            /\ Complete(s) => ColumnEnd(s, b, c) <= buffer[s].base + buffer[s].bytes
            /\ \A d \in DOMAIN layout[s] : \A e \in DOMAIN layout[s][d].columns :
                   d > b \/ (d = b /\ e > c) => ColumnEnd(s, b, c) <= layout[s][d].columns[e].addr
            /\ Eigen(b, c) => here.stride >= layout[s][b].elements_
            /\ s \in Enforced => ~Misaligned(here.addr)

(* The copy of a view holds the rows of the view once deepCopy returns (the *)
(* view's columns may be columns of the destination: then the order of the  *)
(* copies decides, and nothing is said).                                    *)
DeepCopyCopies ==
    [][copying.call = "deepCopy" /\ copying' = NotCopying =>
        LET s == copying.to
            v == copying.from
        IN  (\A b \in DOMAIN Blocks : \A c \in DOMAIN Blocks[b] : view[v][b].from[c][1] # s) =>
            \A b \in DOMAIN Blocks : \A c \in DOMAIN Blocks[b] :
                \A r \in Rows(b, c, view[v][b].elements_) :
                    Content(memory', Blocks[b][c], layout[s][b].columns[c], r) =
                    Content(memory', Blocks[b][c], view[v][b].columns[c], r)]_vars

(* What the layouts and views make of the memory is a set of tables with    *)
(* independent cells.                                                       *)
TableMade(s) ==
    [b \in DOMAIN Blocks |->
        [rows  |-> layout[s][b].elements_,
         cells |-> [c \in DOMAIN Blocks[b] |->
             [r \in Rows(b, c, layout[s][b].elements_) |->
                 Content(memory, Blocks[b][c], layout[s][b].columns[c], r)]]]]

TablesMade == [s \in {t \in Storages : Complete(t)} |-> TableMade(s)]

ViewsMade ==
    [v \in DOMAIN view |->
        [b \in DOMAIN Blocks |-> [rows |-> view[v][b].elements_, from |-> view[v][b].from]]]

Table == INSTANCE SoATable WITH table <- TablesMade, view <- ViewsMade

(* Accesses and copies through views change and show exactly the cells they *)
(* name, and a call that throws changes none (SoATable.tla).                *)
ImplementsTable == Table!Spec
=============================================================================
