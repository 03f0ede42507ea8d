----------------------------- MODULE Executions -----------------------------
(***************************************************************************)
(* The executions of a program, as sequences of statements with the place  *)
(* they stand at.  The checkers' reports are compared with what happens in *)
(* them; nothing here knows of lattices.                                   *)
(***************************************************************************)
EXTENDS GlobalParser, Sequences, SequencesExt

(***************************************************************************)
(* The executions of function f of program p that enter at most n blocks,  *)
(* calls followed.  A branch may go either way.  from[k, f, b] holds those *)
(* from block b of f on that enter at most k blocks.                       *)
(***************************************************************************)
ExecutionsOf(p, f, n) ==
  LET Blocks == 0 .. Max({p[g].last : g \in DOMAIN p})
      from[k \in 0 .. n, g \in DOMAIN p, b \in Blocks] ==
        LET elems == p[g].elems[b]
            step(i) ==
              IF elems[i].op # "call"
              THEN {<<[at |-> <<g, b, i>>, stmt |-> elems[i]]>>}
              ELSE LET callee == elems[i].callee
                   IN  IF callee \notin DOMAIN p THEN {<<>>}
                       ELSE from[k - 1, callee, p[callee].last]
            inBlock[i \in 0 .. Len(elems)] ==
              IF i = 0 THEN {<<>>}
                       ELSE {x \o y : x \in inBlock[i - 1], y \in step(i)}
            onward == IF b = 0 THEN {<<>>}
                      ELSE UNION {from[k - 1, g, s] : s \in Range(p[g].succ[b])}
        IN  IF k = 0 THEN {}
            ELSE {x \o y : x \in inBlock[Len(elems)], y \in onward}
  IN  from[n, f, p[f].last]

\* p has no branches: each of its functions has one path through it.
IsStraight(p) ==
  \A f \in DOMAIN p : \A b \in DOMAIN p[f].succ : Len(p[f].succ[b]) <= 1

-----------------------------------------------------------------------------
(***************************************************************************)
(* Where calls stand.  The engine skips a call that it meets in the state  *)
(* stored for the callee and the last two call sites, and the caller goes  *)
(* on without the callee's effect.  It can meet a call twice where it      *)
(* visits the block twice, and where two chains of calls end alike.        *)
(***************************************************************************)
CallSites(p, f) ==
  UNION {{<<f, b, i>> : i \in {j \in DOMAIN p[f].elems[b] :
                                p[f].elems[b][j].op = "call"}} :
           b \in DOMAIN p[f].elems}

CalleeAt(p, s) == p[s[1]].elems[s[2]][s[3]].callee

\* Calls stand before the first branch and the first label of a function.
CallsComeFirst(p) ==
  \A f \in DOMAIN p : \A s \in CallSites(p, f) :
    p[f].pred[s[2]] = <<p[f].last>>

\* One path through f leads to block b.
OnePathTo(p, f, b) ==
  LET one[k \in Nat, c \in 0 .. p[f].last] ==
        \/ c = p[f].last
        \/ k > 0 /\ Len(p[f].pred[c]) = 1 /\ one[k - 1, Head(p[f].pred[c])]
  IN  one[p[f].last, b]

CallsOnOnePath(p) ==
  \A f \in DOMAIN p : \A s \in CallSites(p, f) : OnePathTo(p, f, s[2])

\* Nothing follows a call in its function.
CallsAreLast(p) ==
  \A f \in DOMAIN p : \A s \in CallSites(p, f) :
    s[3] = Len(p[f].elems[s[2]]) /\ p[f].succ[s[2]] = <<0>>

(***************************************************************************)
(* No two chains of calls from f end with the same two sites: where g      *)
(* calls a function that calls another, one chain leads to g.              *)
(***************************************************************************)
ContextsTold(p, f) ==
  LET sites == UNION {CallSites(p, g) : g \in ReachFrom(p, {f})}
      one[k \in Nat, g \in DOMAIN p] ==
        \/ g = f
        \/ /\ k > 0
           /\ \E s \in sites :
                /\ CalleeAt(p, s) = g /\ one[k - 1, s[1]]
                /\ \A t \in sites : CalleeAt(p, t) = g => t = s
  IN  \A s, t \in sites :
        CalleeAt(p, s) = t[1] => one[Cardinality(DOMAIN p), s[1]]

-----------------------------------------------------------------------------
\* Step x[i] is operation op, on v if it is one on a variable.
IsOp(step, op)     == step.stmt.op = op
IsOpOn(step, op, v) == step.stmt.op = op /\ step.stmt.var = v
=============================================================================
