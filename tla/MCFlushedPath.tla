--------------------------- MODULE MCFlushedPath ---------------------------
(* A finite instance of FlushedPaths, and of FlushedPath with it. *)
EXTENDS FlushedPaths, TLC

CONSTANTS next, p, q, a, b, c, none

Fields   == {next}
Pointers == {p}
Bases    == {q}
Symbols  == {a, b, c}

\* As many as there may be, and more
Counts   == {3, 4}

Alike == Permutations(Pointers) \cup Permutations(Bases) \cup Permutations(Symbols)
=============================================================================
