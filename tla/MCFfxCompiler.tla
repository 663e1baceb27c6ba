--------------------------- MODULE MCFfxCompiler ----------------------------
(***************************************************************************)
(* Small ONNX models for FfxCompiler: up to three nodes that read any of   *)
(* the tensors before them, over one or two inputs, with one or two        *)
(* outputs, and named in the ways exporters do.                            *)
(***************************************************************************)
EXTENDS FfxCompiler, TLC

MCWord ==
    ActivationOps \cup {"relu", "x", "y", "X", "n", "t", "w", "b", "shape", "indices",
                        "1", "2", "3", "1.2", "0", "input", "output", "var"}

MCLowerWord == [w \in MCWord |->
    CASE w = "ReLU" -> "relu" [] w = "X" -> "x" [] OTHER -> w]

MCIdentifier == [w \in MCWord |-> IF w = "1.2" THEN <<"1", "2">> ELSE <<w>>]

MCIndexWord == [i \in 0 .. 1 |-> ToString(i)]

Named(prefix, k) == <<prefix, ToString(k)>>

Out(k) == Named("t", k)

Shape == <<"shape">>

(* The second output of a MaxPool, or the first when the second one is read. *)
Indices == <<"indices">>

(* Data that fills the blob to a multiple of the alignment, and that does not. *)
MCSize(t) == IF t = Named("w", 2) THEN 2 ELSE IF Head(t) = "w" THEN 3 ELSE 1

Initializers == {Named("w", k) : k \in 1 .. 3} \cup {Named("b", k) : k \in 1 .. 3}
                \cup {Shape}

Make(k, op_type, operands) == OnnxNode(Named("n", k), op_type, operands, <<Out(k)>>)

(* The operators at position k that are compiled, given the tensors T.      *)
Common(k, T) ==
    {Make(k, "Conv", <<a, Named("w", k), Named("b", k)>>) : a \in T}
    \cup {Make(k, "Relu", <<a>>) : a \in T}
    \cup {Make(k, "Reshape", <<a, Shape>>) : a \in T}
    \cup {Make(k, "Add", <<a, b>>) : a, b \in T}

(* Those that only pass their operand on, and those that the compiler       *)
(* refuses, or compiles to something else.                                  *)
Rare(k, T) ==
    {Make(k, op_type, <<a>>) :
        op_type \in {"Squeeze", "Shape", "Identity", "CustomOperator", "Erf"},
        a \in T}
    \cup {Make(k, "Conv", <<a, Named("w", k)>>) : a \in T}
    \cup {Make(k, "BatchNormalization",
               <<a, Named("w", k), Named("b", k), Shape, Shape>>) : a \in T}
    \cup {Make(k, "Conv", <<a, b, Named("b", k)>>) : a, b \in T}
    \cup {Make(k, "Add", <<a, Named("w", k)>>) : a \in T}
    \cup {Make(k, "Reshape", <<a, b>>) : a, b \in T}
    \cup {[Make(k, op_type, <<a>>) EXCEPT !.attributes = "refused"] :
            op_type \in {"MaxPool", "ReduceMean"}, a \in T}
    \cup {Make(k, "GlobalAveragePool", <<a>>) : a \in T}
    \cup {[Make(k, "MaxPool", <<a>>) EXCEPT !.output = o] :
            a \in T, o \in {<<Out(k), Indices>>, <<Indices, Out(k)>>}}

Results(inputs, bodies) ==
    {inputs[i] : i \in DOMAIN inputs} \cup {Out(k) : k \in DOMAIN bodies}

Extended(inputs, bodies, Operators(_, _)) ==
    UNION {{Append(body, node) :
                node \in Operators(Len(body) + 1, Results(inputs, body))} :
           body \in bodies}

Model(input, node, output) ==
    [input |-> input, initializer |-> Initializers, node |-> node, output |-> output]

Renamed(m, names) ==
    [m EXCEPT !.node = [k \in DOMAIN @ |-> [@[k] EXCEPT !.name = names[k]]]]

X == <<"x">>

Y == <<"y">>

(* Names as they are given, none, one for two nodes, ones that become the   *)
(* same identifier, one that another one becomes by fusion.                 *)
Namings ==
    {<<<<>>, <<>>, <<>>>>,
     <<Named("n", 1), Named("n", 1), Named("n", 3)>>,
     <<<<"1.2">>, <<"1", "2">>, Named("n", 3)>>,
     <<Named("n", 1), Named("n", 2), <<"n", "1", "relu">>>>}

Two(inputs) == Extended(inputs, Extended(inputs, {<<>>}, Common), Common)

Three == Extended(<<X>>, Two(<<X>>), Common)

OneOutput == {Model(<<X>>, body, <<Out(3)>>) : body \in Three}

MCModels ==
    OneOutput
    \cup {Renamed(m, names) : m \in OneOutput, names \in Namings}
    \cup {Model(<<X>>, body, <<Out(3)>>) : body \in
            Extended(<<X>>, Extended(<<X>>, Extended(<<X>>, {<<>>}, Common), Rare), Common)}
    \cup {Model(<<X>>, body, <<Out(3)>>) : body \in
            Extended(<<X>>, Extended(<<X>>, Extended(<<X>>, {<<>>}, Rare), Common), Common)}
    \cup UNION {{Model(inputs, body, <<Out(2)>>), Model(inputs, body, <<Out(2), Out(1)>>)} :
            <<inputs, body>> \in UNION {{i} \X Two(i) : i \in {<<X, Y>>, <<X, Named("w", 1)>>}}}
    \cup UNION {{Model(inputs, body, <<Out(2)>>) : body \in Two(inputs)} :
            inputs \in {<<<<"X">>>>, <<Y, <<"X">>>>}}
=============================================================================
