----------------------------- MODULE MCDataflow -----------------------------
(***************************************************************************)
(* The engine by itself, over the pair lattice: recursive functions, which *)
(* the pair checker's own traversal of the program does not survive, calls *)
(* in loops, and calls that reach the same function along several chains.  *)
(***************************************************************************)
EXTENDS Dataflow, Shapes

CONSTANTS d, v

P == INSTANCE PairTransitions
       WITH Var   <- {d, v},
            Pairs <- {[data |-> d, check |-> v, isScl |-> FALSE]}

\* The unit's variables are those its functions mention outside of flushes.
Written(p) ==
  {x \in {d, v} : \E f \in DOMAIN p : \E b \in DOMAIN p[f].elems :
     [op |-> "assign", var |-> x] \in Range(p[f].elems[b])}
PairInitManager(p, f)          == P!InitUnit(Written(p), {})
PairInitLatticeValues(m)       == P!InitLatticeValues(m)
PairHandleStmt(S, s, state, m) == P!HandleStmt(S, s, state, m)
PairMeet(out, in)              == P!Meet(out, in)
PairAssertFailed               == P!AssertFailed
PairEqualFails(val)            == FALSE
PairDumpAsserts(val)           == P!DumpAsserts(val)

W(x) == [op |-> "assign", var |-> x]
F(x) == [op |-> "flush", var |-> x]
PF   == [op |-> "pfence"]
Call(f) == [op |-> "call", callee |-> f]

PairStatement ==
  [op : {"assign", "flush"}, var : {d, v}] \cup {PF, Cond}
  \cup [op : {"call"}, callee : {"main", "h", "g", "ext"}]

Ops == {W(d), F(d), PF}

\* A function that calls itself on one branch or from a loop
Direct ==
  {[main |-> If(<<a>>, <<b, Call("main"), c>>, <<c2>>)] :
     a, b, c, c2 \in Ops}
  \cup {[main |-> GotoLoop(<<a>>, <<b, Call("main")>>, <<c>>, <<W(v)>>)] :
          a, b, c \in Ops}

\* Two functions that call each other
Mutual ==
  {[main |-> Line(<<a, Call("h"), W(v)>>),
    h    |-> IfElse(<<b>>, <<c, Call("main")>>, <<Call("h")>>, <<PF>>)] :
     a, b, c \in Ops}

\* g is reached through h from two calls, and directly
Shared ==
  {[main |-> GotoLoop(<<a>>, <<Call("h")>>, <<b, Call("h")>>,
                      <<Call("g"), W(v)>>),
    h    |-> Line(<<Call("g"), c>>),
    g    |-> Line(<<e>>)] :
     a, b, c, e \in Ops}

\* A call of a function without a body, perhaps after a flush of a variable
\* the unit does not mention
Bodyless ==
  {[main |-> If(<<a>>, <<b, Call("ext"), W(v)>>, <<c, W(v)>>)] :
     a, b, c \in Ops}

\* A case of a switch, which is analysed before the switch
Switches ==
  {[main |-> Switch(<<a>>, <<b>>, <<c, W(v)>>)] : a, b, c \in Ops}

AllPrograms == Bodyless \cup Direct \cup Mutual \cup Shared \cup Switches
=============================================================================
