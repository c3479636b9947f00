--------------------------- MODULE MCSymbolBuild ---------------------------
(* Two libraries that share a name, in one of them enough names for chains *)
(* below, at and past the cap.                                             *)
EXTENDS SymbolBuild, TLC

CONSTANTS device, amp, a, b, d, e

MCSymbols == {<<device, a>>, <<device, b>>, <<device, d>>, <<device, e>>, <<amp, a>>}
MCNames == {a, b, d, e}

(* Names that one library alone defines are interchangeable. *)
Symmetry == Permutations({b, d, e})
=============================================================================
