-------------------------- MODULE MCStructOfArrays --------------------------
(* Two storages of two blocks: a scalar, a column and an Eigen vector of    *)
(* two components in the first, one column in the second.  One of the buffers *)
(* each may get is misaligned; only one of the two types minds.             *)
EXTENDS StructOfArrays, TLC

CONSTANTS a1, a2, v1, v2

Col(kind, size, comps) == [kind |-> kind, size |-> size, comps |-> comps]

MCBlocks ==
    <<<<Col("scalar", 1, 1), Col("column", 2, 1), Col("eigen", 1, 2)>>,
      <<Col("column", 2, 1)>>>>

(* Odd numbers of elements leave padding; 1 and 2 elements have the same     *)
(* stride, 1 and 3 have not.                                                *)
MCElements == {<<2, 1>>, <<1, 2>>, <<1, 0>>}
MCFewAndMany == {<<3, 1>>, <<1, 1>>}
MCBases    == (a1 :> {0, 1}) @@ (a2 :> {20, 21})
MCEnforced == {a1, v1}
MCAddress  == 0 .. 47
=============================================================================
