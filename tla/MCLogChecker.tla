---------------------------- MODULE MCLogChecker ----------------------------
(* Families of small programs that log and write the members d and o. *)
EXTENDS LogChecker, Shapes

CONSTANTS d, o, tx

TB == [op |-> "tx_begin"]
TE == [op |-> "tx_end"]
Log(x)   == [op |-> "log", var |-> x]
Write(x) == [op |-> "assign", var |-> x]
Read(x)  == [op |-> "read", var |-> x]
L == Log(d)
W == Write(d)
R == Read(d)
Call(f) == [op |-> "call", callee |-> f]

ProgramStatement ==
  {TB, TE, Cond} \cup {Log(x) : x \in {d, o}} \cup {Write(x) : x \in {d, o}}
  \cup {R} \cup {Call(f) : f \in {"a", "k", "h", "g"}}

Ops == {TB, TE, L, W}

Lines ==
  {[main |-> Line(<<a, b, c, e, W>>)] : a, b, c, e \in Ops}

\* Two members in one unit
TwoMembers ==
  {[main |-> Line(<<a, b, c, W, Write(o)>>)] :
     a, b, c \in {TB, TE, L, Log(o)}}

\* Straight functions of two blocks, with a call at the end or without
Labels ==
  {[main |-> Label(<<a, b>>, <<c, W>>)] : a, b, c \in Ops}
  \cup {[main |-> Label(<<TB, a>>, <<b, Call("h")>>),
         h    |-> Label(<<c>>, <<k, W, Write(o)>>)] :
          a, b, c, k \in {TB, TE, L, Log(o)}}

\* calls at the ends of functions; h is a unit of its own too
TailCalls ==
  {[main |-> Line(<<a, b, Call("h")>>),
    h    |-> Line(<<c, e, Call("g")>>),
    g    |-> Line(<<k, W>>)] :
     a, b, c, e, k \in Ops}

\* main calls h twice, and h calls g
CallTrees ==
  {[main |-> Line(<<a, Call("h"), b, Call("h"), W>>),
    h    |-> Line(<<c, Call("g"), e>>),
    g    |-> Line(<<W>>)] :
     a, b, c, e \in Ops}

\* Chains of three calls: main calls a once, a calls k twice, k calls h
DeepCalls ==
  {[main |-> Line(<<TB, Call("a"), b, W, Write(o)>>),
    a    |-> Line(<<Call("k"), c, Call("k")>>),
    k    |-> Line(<<Call("h"), TB>>),
    h    |-> Line(<<k>>)] :
     b, c, k \in {TE, L, Log(o), W}}

\* Branches in what is called, and after the call
CallsFirst ==
  {[main |-> If(<<TB, Call("h")>>, <<a>>, <<b, W>>),
    h    |-> IfElse(<<W>>, <<c>>, <<k>>, <<Write(o)>>)] :
     a, b, c, k \in {TB, TE, L, Log(o)}}

\* Calls after a branch, which the engine may skip when it meets them again
SkippedCalls ==
  {[main |-> IfElse(<<R>>, <<TB, a, TE>>, <<b>>, <<TB, L, Call("h"), TB, Write(o)>>),
    h    |-> Line(<<c, k>>)] :
     a, b, c, k \in {TB, TE, L, Log(o)}}
  \cup {[main |-> IfElse(<<R, a>>, <<Call("a"), b, Write(o)>>, <<Call("a"), W>>, <<c>>),
         a    |-> Line(<<Call("k")>>),
         k    |-> Line(<<Call("h")>>),
         h    |-> Line(<<e>>)] :
          a, b, c, e \in {TB, L, Log(o), Write(o)}}

Branches ==
  {[main |-> If(<<a, b>>, <<c>>, <<e, W>>)] : a, b, c, e \in Ops}
  \cup {[main |-> IfElse(<<TB>>, <<a>>, <<b>>, <<c, W>>)] : a, b, c \in Ops}

\* Loops that do not end a transaction they have not begun: for the others
\* the number of open transactions decreases forever.
Loops ==
  {[main |-> For(<<a>>, <<b, c>>, <<W>>)] :
     a \in Ops, b, c \in Ops \ {TE}}
  \cup {[main |-> For(<<a>>, <<b, c>>, <<W>>)] :
          a \in Ops, b \in {TB}, c \in {TE}}
  \cup {[main |-> GotoLoop(<<a, TB>>, <<b>>, <<c>>, <<W>>)] :
          a \in Ops, b, c \in Ops \ {TE}}

\* Programs that may log d and mention it nowhere else
Foreign ==
  {[main |-> If(<<a, b>>, <<c>>, <<e>>)] : a, b, c, e \in {TB, TE, L, R}}
  \cup {[main |-> Line(<<a, Call("h"), b, Call("h")>>), h |-> Line(<<c>>)] :
          a, b, c \in {TB, L, R}}

\* A case of a switch, which the engine analyses before the switch
Switches ==
  {[main |-> Switch(<<a, b>>, <<c>>, <<e, W>>)] : a, b, c, e \in Ops}

Families == Foreign \cup Lines \cup TwoMembers \cup Labels \cup TailCalls
            \cup CallTrees \cup DeepCalls \cup CallsFirst \cup SkippedCalls
            \cup Branches \cup Loops \cup Switches
=============================================================================
