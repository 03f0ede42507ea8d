--------------------------- MODULE MCPairChecker ---------------------------
(***************************************************************************)
(* Families of small programs for the pair checker.  Every family is a set *)
(* of programs over d and v, which form a pair on different lines.         *)
(***************************************************************************)
EXTENDS PairReports, Shapes

CONSTANTS d, v

DclPair == {[data |-> d, check |-> v, isScl |-> FALSE]}

W(x)  == [op |-> "assign", var |-> x]
R(x)  == [op |-> "read", var |-> x]
F(x)  == [op |-> "flush", var |-> x]
FF(x) == [op |-> "flushFence", var |-> x]
PF    == [op |-> "pfence"]
VF    == [op |-> "vfence"]
PC    == [op |-> "pointerCall"]
Call(f) == [op |-> "call", callee |-> f]

ProgramStatement ==
  [op : {"assign", "read", "flush", "flushFence"}, var : {d, v}]
  \cup {PF, VF, Cond, PC} \cup {Call(f) : f \in {"main", "a", "k", "h", "g", "ext"}}

Ops == {W(d), F(d), PF, FF(d)}

\* Every straight-line function of four statements that ends with a write
Lines ==
  {[main |-> Line(<<a, b, c, W(v)>>)] :
     a, b, c \in Ops \cup {W(v), VF}}

Branches ==
  {[main |-> If(<<a>>, <<b>>, <<c, W(v)>>)] : a, b, c \in Ops}
  \cup {[main |-> IfElse(<<a>>, <<b>>, <<c>>, <<e, W(v)>>)] :
          a, b, c, e \in Ops}

Loops ==
  {[main |-> For(<<a>>, <<b, c>>, <<W(v)>>)] : a, b, c \in Ops \cup {W(v)}}
  \cup {[main |-> GotoLoop(<<a>>, <<b>>, <<c>>, <<W(v)>>)] :
          a, b, c \in Ops \cup {W(v)}}

\* main calls k and h, k calls h and g, without loops or branches
CallTrees ==
  {[main |-> Line(<<a, Call("k"), b, Call("h"), W(v)>>),
    k    |-> Line(<<Call("h"), c, Call("g")>>),
    h    |-> Line(<<e>>),
    g    |-> Line(<<FF(v)>>)] :
     a, b, c, e \in {W(d), F(d), PF}}

\* What makes the plugin die: recursion, a call through a pointer, a missing
\* body, a foreign flush
Deadly ==
  {[main |-> Line(<<a, Call(f), W(v)>>),
    h    |-> IfElse(<<b>>, <<Call(g)>>, <<PF>>, <<R(d)>>)] :
     a \in {F(d), W(d)}, b \in {PF, F(v)}, f \in {"h", "ext"},
     g \in {"h", "main", "ext"}}
  \cup {[main |-> IfElse(<<a>>, <<b>>, <<c>>, <<e>>), h |-> Line(<<W(v)>>)] :
          a, b, c, e \in {F(d), R(v), PF}}
  \cup {[main |-> Line(<<a, Call("h"), b>>), h |-> If(<<c>>, <<e>>, <<PF>>)] :
          a, b, c, e \in {R(d), PF, PC}}

\* Chains of three calls: main calls a once, a calls k twice, k calls h
DeepCalls ==
  {[main |-> Line(<<a, Call("a"), b, W(v)>>),
    a    |-> Line(<<Call("k"), c, Call("k")>>),
    k    |-> Line(<<Call("h"), PF>>),
    h    |-> Line(<<e>>)] :
     a, b, c \in {W(d), F(d)}, e \in {W(d), F(d), FF(d)}}

\* Functions of two blocks, the call in the first one or in the second
Labels ==
  {[main |-> Label(<<a, Call("h")>>, <<PF, W(v)>>), h |-> Label(<<c>>, <<e>>)] :
     a \in {W(d), FF(v)}, c, e \in {W(d), F(d), FF(d)}}
  \cup {[main |-> Label(<<a>>, <<Call("h"), W(v)>>), h |-> Label(<<c>>, <<e>>)] :
          a, c, e \in {W(d), F(d)}}

\* Branches and loops in what is called, and after the call
CallsFirst ==
  {[main |-> Line(<<a, Call("h"), W(v)>>), h |-> IfElse(<<PF>>, <<b>>, <<c>>, <<e>>)] :
     a, b \in {W(d), F(d)}, c, e \in {W(d), F(d), PF}}
  \cup {[main |-> IfElse(<<a, Call("h")>>, <<b>>, <<c>>, <<PF, W(v)>>),
         h    |-> GotoLoop(<<PF>>, <<e>>, <<F(d)>>, <<W(v)>>)] :
          a, b, c, e \in {W(d), F(d)}}

\* A call again and again in a loop
CallLoops ==
  {[main |-> GotoLoop(<<W(d)>>, <<a, Call("h")>>, <<b>>, <<W(v)>>),
    h    |-> Line(<<c, e>>)] :
     a, b, c, e \in {W(d), F(d), PF}}

\* A call after a branch, and chains of calls that end alike: the engine may
\* skip the second one
CallJoins ==
  {[main |-> IfElse(<<R(d)>>, <<a>>, <<b>>, <<W(d), Call("h"), W(v)>>),
    h    |-> Line(<<c, e>>)] :
     a, b \in {R(d), W(d)}, c, e \in {F(d), FF(d), PF}}
  \cup {[main |-> Line(<<Call("a"), Call("a"), W(v)>>),
         a    |-> Line(<<a, b, Call("k")>>),
         k    |-> Line(<<Call("h")>>),
         h    |-> Line(<<c>>)] :
          a, b, c \in {W(d), F(d), FF(d)}}

\* A call that one path leads to, but only after a branch or a label
CallsLater ==
  {[main |-> If(<<a>>, <<W(d), Call("g"), Call("k"), W(v)>>, <<R(d)>>),
    g    |-> If(<<R(d)>>, <<b>>, <<R(d)>>),
    k    |-> Line(<<c>>)] :
     a, b \in {FF(v), W(v), R(d)}, c \in {FF(d), PF}}
  \cup {[main |-> Line(<<Call("h"), W(v)>>),
         h    |-> Label(<<a>>, <<Call("g"), Call("k")>>),
         g    |-> Label(<<R(d)>>, <<b>>),
         k    |-> Line(<<W(d)>>)] :
          a, b \in {FF(v), W(v), R(d), FF(d)}}

SkippedCalls == CallLoops \cup CallJoins \cup CallsLater

\* A case of a switch, which the engine analyses before the switch
Switches ==
  {[main |-> Switch(<<a>>, <<b>>, <<c, W(v)>>)] : a, b, c \in Ops}

Families == Lines \cup CallTrees \cup DeepCalls \cup Labels \cup CallsFirst
            \cup Branches \cup Loops \cup Deadly \cup SkippedCalls
            \cup Switches
=============================================================================
