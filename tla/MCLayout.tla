------------------------------ MODULE MCLayout ------------------------------
(* Small trees for FlexLayout.  Weights count quarters: 7 is 1.75.         *)
EXTENDS FlexLayout

FlexItem(grow, shrink, fixed, basis, size) ==
    [grow |-> grow, shrink |-> shrink, fixed |-> fixed, basis |-> basis,
     size |-> size, dir |-> "row", justify |-> "start", align |-> "start"]
Leaves ==
    {FlexItem(0, 4, FALSE, 0, <<1, 1>>), FlexItem(7, 7, FALSE, 0, <<2, 1>>),
     FlexItem(14, 0, TRUE, 2, <<1, 3>>), FlexItem(28, 14, TRUE, 0, <<0, 0>>),
     FlexItem(0, 7, FALSE, 0, <<3, 2>>)}
Styles ==
    {<<"row", "around", "center">>, <<"row", "between", "end">>,
     <<"column", "center", "stretch">>, <<"column", "end", "start">>}
Box(style, item) ==
    [item EXCEPT !.dir = style[1], !.justify = style[2], !.align = style[3]]
\* Three children; a column in a row or a row in a column; a child that is reached twice.
MCFlexTrees ==
    {[kids |-> <<<<2, 3, 4>>, <<>>, <<>>, <<>>>>, node |-> <<Box(u, a), a, b, c>>] :
        u \in Styles, a, b, c \in Leaves}
    \cup {[kids |-> <<<<2, 3>>, <<4>>, <<>>, <<>>>>,
           node |-> <<Box(uv[1], a), Box(uv[2], a), b, c>>] :
        uv \in {w \in Styles \X Styles : w[1][1] # w[2][1]}, a, b, c \in Leaves}
    \cup {[kids |-> <<<<2, 3>>, <<3>>, <<>>>>, node |-> <<a, b, a>>] : a, b \in Leaves}
MCFlexViewports == {<<4, 3>>, <<7, 2>>, <<0, 1>>}
=============================================================================
