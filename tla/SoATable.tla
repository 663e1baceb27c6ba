------------------------------ MODULE SoATable ------------------------------
(***************************************************************************)
(* What a structure of arrays promises: each storage is a set of tables,   *)
(* one per block, whose cells are independent of each other and of where   *)
(* they lie in memory.  A view names, for each of its columns, the column  *)
(* of a storage it shows.  StructOfArrays.tla does this on bytes.          *)
(***************************************************************************)
EXTENDS Naturals

CONSTANTS
    Storages,  \* the storages
    Views,     \* the views
    Blocks     \* for each block the sequence of its columns

VARIABLES
    table,     \* table[s][b] = [rows, cells], cells[c][r]: the bytes of a cell,
               \* for the storages s made so far
    view,      \* view[v][b] = [rows, from], for the views v made so far
    result     \* what the last call returned

vars == <<table, view, result>>

Scalar(b, c) == Blocks[b][c].kind = "scalar"
Eigen(b, c)  == Blocks[b][c].kind = "eigen"

(* The cell of a storage that row r of a view's column shows.               *)
Shown(v, b, c, r) ==
    LET column == view[v][b].from[c]
    IN  <<column[1], column[2], column[3], IF Scalar(b, c) THEN 0 ELSE r>>

Of(t, cell) == t[cell[1]][cell[2]].cells[cell[3]][cell[4]]

(* Every cell of every storage but the given ones holds what it held.       *)
OnlyChanges(cells) ==
    /\ DOMAIN table' = DOMAIN table
    /\ \A s \in DOMAIN table : \A b \in DOMAIN Blocks :
           /\ table'[s][b].rows = table[s][b].rows
           /\ \A c \in DOMAIN Blocks[b] : \A r \in DOMAIN table[s][b].cells[c] :
                  \/ <<s, b, c, r>> \in cells
                  \/ table'[s][b].cells[c][r] = table[s][b].cells[c][r]

Returned(call, kind) == result' = [call |-> call, kind |-> kind]

(* A loop over columns returns with its last column.                        *)
Loops(call) == UNCHANGED result \/ Returned(call, "ok")

-----------------------------------------------------------------------------
Init ==
    /\ table = <<>> /\ view = <<>>
    /\ result = [call |-> "none", kind |-> "ok"]

(* A storage appears, with whatever its memory holds.                       *)
Construct(s) ==
    /\ Returned("construct", "ok")
    /\ s \notin DOMAIN table /\ DOMAIN table' = DOMAIN table \cup {s}
    /\ \A t \in DOMAIN table : table'[t] = table[t]
    /\ UNCHANGED view

(* Calls that change no cell: sizing, cloning and printing, and those that  *)
(* throw - a deepCopy because a block of the view does not fit.             *)
Plain ==
    /\ \/ \E call \in {"computeDataSize", "cloneToNewAddress", "assign"} :
              Returned(call, "ok")
       \/ Returned("construct", "runtime_error")
       \/ Returned("merge", "runtime_error")
       \/ /\ DOMAIN view # {}
          /\ \E call \in {"get", "set", "assign"} : Returned(call, "out_of_range")
       \/ /\ Returned("deepCopy", "runtime_error")
          /\ \E s \in DOMAIN table, v \in DOMAIN view : \E b \in DOMAIN Blocks :
                 view[v][b].rows > table[s][b].rows
    /\ UNCHANGED <<table, view>>

(* A view shows a whole storage ...                                         *)
Look(v, s) ==
    /\ s \in DOMAIN table
    /\ Returned("view", "ok")
    /\ view' = [w \in DOMAIN view \cup {v} |-> IF w # v THEN view[w] ELSE
           [b \in DOMAIN Blocks |->
               [rows |-> table[s][b].rows, from |-> [c \in DOMAIN Blocks[b] |-> <<s, b, c>>]]]]
    /\ UNCHANGED table

(* ... or columns that all have the rows of the view.                       *)
Merge(v, b) ==
    /\ Returned("merge", "ok")
    /\ view' = [view EXCEPT ![v][b] = view'[v][b]]
    /\ LET made == view'[v][b]
       IN  \A c \in DOMAIN Blocks[b] :
               LET column == made.from[c]
               IN  table[column[1]][column[2]].rows = made.rows
    /\ UNCHANGED table

(* Reading and writing one cell: the one the view shows there.              *)
Get ==
    /\ result'.call = "get" /\ result'.kind = "value"
    /\ LET v == result'.at[1]  b == result'.at[2]  c == result'.at[3]  r == result'.at[4]
       IN  /\ Scalar(b, c) \/ r < view[v][b].rows
           /\ result'.value = Of(table, Shown(v, b, c, r))
    /\ UNCHANGED <<table, view>>

Set ==
    /\ result'.call = "set" /\ result'.kind = "ok"
    /\ LET v == result'.at[1]  b == result'.at[2]  c == result'.at[3]  r == result'.at[4]
           cell == Shown(v, b, c, r)
       IN  /\ Scalar(b, c) \/ r < view[v][b].rows
           /\ \A k \in DOMAIN Of(table', cell) : Of(table', cell)[k] = Of(table', cell)[0]
           /\ Of(table', cell) # Of(table, cell)
           /\ OnlyChanges({cell})
    /\ UNCHANGED view

(* One column of an element assigned from another element.                  *)
AssignCell(v, b, c, r, w, q) ==
    /\ Loops("assign")
    /\ UNCHANGED view
    /\ Of(table', Shown(v, b, c, r)) = Of(table, Shown(w, b, c, q))
    /\ OnlyChanges({Shown(v, b, c, r)})

(* One column copied: the view's rows arrive.  Rows the view does not have  *)
(* stay as they are - but for an Eigen column, which is copied whole and    *)
(* whose further rows may hold anything afterwards.                         *)
CopyColumn(s, v, b, c) ==
    LET rows == IF Scalar(b, c) THEN {0} ELSE 0 .. view[v][b].rows - 1
    IN  /\ Loops("deepCopy")
        /\ UNCHANGED view
        /\ \A d \in DOMAIN Blocks : view[v][d].rows <= table[s][d].rows
        /\ \A r \in rows : Of(table', <<s, b, c, r>>) = Of(table, Shown(v, b, c, r))
        /\ OnlyChanges({<<s, b, c, r>> :
               r \in IF Eigen(b, c) THEN DOMAIN table[s][b].cells[c] ELSE rows})

Next ==
    \/ Plain \/ Get \/ Set
    \/ \E s \in Storages : Construct(s)
    \/ \E v \in Views, s \in Storages : Look(v, s)
    \/ \E v \in DOMAIN view : \E b \in DOMAIN Blocks :
        \/ Merge(v, b)
        \/ \E c \in DOMAIN Blocks[b] :
            \/ \E s \in DOMAIN table : CopyColumn(s, v, b, c)
            \/ \E w \in DOMAIN view :
                   \E r \in 0 .. view[v][b].rows - 1, q \in 0 .. view[w][b].rows - 1 :
                       ~Scalar(b, c) /\ AssignCell(v, b, c, r, w, q)

Spec == Init /\ [][Next]_vars
=============================================================================
