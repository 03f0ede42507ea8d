------------------------------- MODULE Shapes -------------------------------
(***************************************************************************)
(* Control-flow graphs as clang 8 builds them, for the programs the        *)
(* instances analyse.  The builder is not in the repository; what matters  *)
(* of it is that it works backwards through a body, so that block 0 is the *)
(* exit and the last one the entry, and that the predecessors of a block   *)
(* are listed in the order in which their edges were added.                *)
(*                                                                         *)
(* A condition, an increment or an initialisation is a statement the       *)
(* checkers have no transfer function for, and keeps its block from being  *)
(* empty.                                                                  *)
(***************************************************************************)
EXTENDS Naturals, Sequences

Cond == [op |-> "other"]

Graph(last, elems, succ, pred) ==
  [last  |-> last,
   elems |-> [b \in 0 .. last |-> IF b \in {0, last} THEN <<>> ELSE elems[b]],
   succ  |-> [b \in 0 .. last |-> IF b = 0 THEN <<>> ELSE succ[b]],
   pred  |-> [b \in 0 .. last |-> IF b = last THEN <<>> ELSE pred[b + 1]]]

\* { body }
Line(body) == Graph(2, <<body>>, <<<<0>>, <<1>>>>, <<<<1>>, <<2>>>>)

\* { pre; L: post }: straight, but with two blocks
Label(pre, post) ==
  Graph(3, <<post, pre>>, <<<<0>>, <<1>>, <<2>>>>, <<<<1>>, <<2>>, <<3>>>>)

\* { pre; if (c) { then } post }
If(pre, then, post) ==
  Graph(4, <<post, then, Append(pre, Cond)>>,
        <<<<0>>, <<1>>, <<2, 1>>, <<3>>>>,
        <<<<1>>, <<2, 3>>, <<3>>, <<4>>>>)

\* { pre; if (c) { then } else { else } post }: the else branch comes first
IfElse(pre, then, else, post) ==
  Graph(5, <<post, else, then, Append(pre, Cond)>>,
        <<<<0>>, <<1>>, <<1>>, <<3, 2>>, <<4>>>>,
        <<<<1>>, <<2, 3>>, <<4>>, <<4>>, <<5>>>>)

\* { pre; for (init; c; inc) { body } post }: the back edge comes first
For(pre, body, post) ==
  Graph(6, <<post, <<Cond>>, body, <<Cond>>, Append(pre, Cond)>>,
        <<<<0>>, <<4>>, <<2>>, <<3, 1>>, <<4>>, <<5>>>>,
        <<<<1>>, <<4>>, <<3>>, <<4>>, <<2, 5>>, <<6>>>>)

\* { pre; L: body; if (c) { again; goto L; } post }: a backward goto is
\* patched in at the end, so the back edge comes last
GotoLoop(pre, body, again, post) ==
  Graph(5, <<post, again, Append(body, Cond), pre>>,
        <<<<0>>, <<3>>, <<2, 1>>, <<3>>, <<4>>>>,
        <<<<1>>, <<3>>, <<3>>, <<4, 2>>, <<5>>>>)

\* { pre; switch (c) { case 0: body } post }: the block of the switch is made
\* before those of its cases, and so has a lower number
Switch(pre, body, post) ==
  Graph(4, <<post, Append(pre, Cond), body>>,
        <<<<0>>, <<3, 1>>, <<1>>, <<2>>>>,
        <<<<1>>, <<3, 2>>, <<4>>, <<2>>>>)
=============================================================================
