----------------------------- MODULE MCMibTable -----------------------------
(* MibTable with an overlaid subtree, a static entry after it and a subtree *)
(* last.  Search ranges start at the root, at prefixes, at names, between    *)
(* them and past them all; they end inside a subtree, between two or last.  *)
EXTENDS MibTable

MCSubtrees == {<<1, 1>>, <<3>>}
MCOverlays == {<<1, 1>>}
MCStatics  == {<<1, 2>>}
MCSubIds   == {<<1>>, <<1, 1>>}
MCStarts   == {<<>>, <<1, 1>>, <<1, 1, 1>>, <<1, 1, 1, 1>>, <<1, 1, 2>>,
               <<1, 2>>, <<1, 2, 0>>, <<2>>, <<3>>, <<3, 1, 1>>}
MCEnds     == {<<1, 1, 1, 1>>, <<2>>, <<4>>}
=============================================================================
