-------------------------- MODULE MCFlushedChecker --------------------------
(* Families of small programs that store the pointer p in the member next. *)
EXTENDS FlushedChecker, Shapes

CONSTANTS next, other, p

S  == [op |-> "store", field |-> next, var |-> p]
O  == [op |-> "store", field |-> other, var |-> p]
A  == [op |-> "assign", var |-> p]
F  == [op |-> "flush", var |-> p]
FF == [op |-> "flushFence", var |-> p]
PF == [op |-> "pfence"]
Call(f) == [op |-> "call", callee |-> f]

ProgramStatement == {S, O, A, F, FF, PF, Cond}
  \cup {Call(f) : f \in {"a", "k", "h", "g"}}

Ops == {A, F, PF, FF}

Lines ==
  {[main |-> Line(<<a, b, c, S>>)] : a, b, c \in Ops \cup {S, O}}

\* main calls h twice, and h calls g
CallTrees ==
  {[main |-> Line(<<a, Call("h"), b, Call("h"), S>>),
    h    |-> Line(<<c, Call("g"), e>>),
    g    |-> Line(<<F>>)] :
     a, b, c, e \in Ops \cup {S}}

\* Chains of three calls: main calls a once, a calls k twice, k calls h
DeepCalls ==
  {[main |-> Line(<<a, Call("a"), b, S>>),
    a    |-> Line(<<Call("k"), c, Call("k")>>),
    k    |-> Line(<<Call("h"), S>>),
    h    |-> Line(<<e>>)] :
     a, b, c, e \in Ops}

\* Functions of two blocks, with a call in each of those of main
Labels ==
  {[main |-> Label(<<a, Call("h")>>, <<b, Call("h"), S>>),
    h    |-> Label(<<c>>, <<e>>)] :
     a, b, c, e \in Ops}

\* Calls in branches, and branches and loops in what is called
CallBranches ==
  {[main |-> IfElse(<<a, Call("h")>>, <<b, Call("h")>>, <<Call("h")>>, <<c, S>>),
    h    |-> Line(<<e, S>>)] :
     a, b, c, e \in Ops}
  \cup {[main |-> If(<<a>>, <<Call("h"), S>>, <<S>>),
         h    |-> GotoLoop(<<PF>>, <<b>>, <<c>>, <<e>>)] :
          a, b, c, e \in Ops}

\* A call after a branch and in a loop, and chains of calls that end alike: the
\* engine may skip the second call
SkippedCalls ==
  {[main |-> IfElse(<<PF>>, <<a>>, <<b>>, <<c, Call("h"), S>>),
    h    |-> Line(<<e>>)] :
     a, b, c, e \in Ops}
  \cup {[main |-> GotoLoop(<<A>>, <<a, Call("h")>>, <<b>>, <<S>>),
         h    |-> Line(<<c>>)] :
          a, b, c \in Ops}
  \cup {[main |-> Line(<<Call("a"), Call("a"), S>>),
         a    |-> Line(<<a, b, Call("k")>>),
         k    |-> Line(<<Call("h")>>),
         h    |-> Line(<<c>>)] :
          a, b, c \in Ops}

Branches ==
  {[main |-> If(<<a>>, <<b>>, <<c, S>>)] : a, b, c \in Ops}
  \cup {[main |-> IfElse(<<a>>, <<b>>, <<c>>, <<e, S>>)] : a, b, c, e \in Ops}

Loops ==
  {[main |-> For(<<a>>, <<b, c>>, <<S>>)] : a, b, c \in Ops \cup {S}}
  \cup {[main |-> GotoLoop(<<a>>, <<b>>, <<c>>, <<S>>)] :
          a, b, c \in Ops \cup {S}}

\* A case of a switch, which the engine analyses before the switch
Switches ==
  {[main |-> Switch(<<a>>, <<b>>, <<c, S>>)] : a, b, c \in Ops \cup {S}}

Families == Lines \cup CallTrees \cup DeepCalls \cup Labels \cup CallBranches
            \cup SkippedCalls \cup Branches \cup Loops \cup Switches
=============================================================================
