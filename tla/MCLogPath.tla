----------------------------- MODULE MCLogPath -----------------------------
(* A finite instance of LogPaths, and of LogPath with it. *)
EXTENDS LogPaths, TLC

CONSTANTS x, y, tx

Fields == {x, y}
Places == {1, 2}

\* As many as there may be, and more
Counts == {2, 3}

Alike == Permutations(Fields)
=============================================================================
