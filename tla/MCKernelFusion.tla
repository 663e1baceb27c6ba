--------------------------- MODULE MCKernelFusion ---------------------------
(***************************************************************************)
(* Small graphs for KernelFusion: one input, four operators that read any  *)
(* of the nodes before them, and one or two outputs.                       *)
(***************************************************************************)
EXTENDS KernelFusion, TLC

MCWord == ActivationOps \cup {"relu", "x", "n1", "n2", "n3", "n4", "out", "aux"}

MCLowerWord == [w \in MCWord |-> IF w \in ActivationOps THEN "relu" ELSE w]

Label == <<<<"n1">>, <<"n2">>, <<"n3">>, <<"n4">>>>

(* The nodes an operator at position i can be, given the names it can read. *)
Unary(i, names) ==
    {Node(Label[i], Op(type), <<a>>) :
        type \in {"Conv2d", "ReLU"}, a \in names}

Binary(i, names) == {Node(Label[i], Op("Add"), <<a, b>>) : a, b \in names}

Names(g) == {g[j].name : j \in DOMAIN g}

Extended(graphs, i) ==
    {Append(g, n) : <<g, n>> \in
        UNION {{g} \X (Unary(i, Names(g)) \cup Binary(i, Names(g))) : g \in graphs}}

Inputs == {<<Node(<<"x">>, Op("Input"), <<>>)>>}

Bodies == Extended(Extended(Extended(Extended(Inputs, 1), 2), 3), 4)

Output(index, name, parent) ==
    Node(<<name>>, [Op("Output") EXCEPT !.index = index], <<parent>>)

MCGraphs ==
    {Append(g, Output(0, "out", Label[4])) : g \in Bodies} \cup
    {g \o <<Output(0, "out", Label[4]), Output(1, "aux", Label[i])>> :
        g \in Bodies, i \in 1 .. 4}
=============================================================================
