----------------------------- MODULE MCFrontEnd -----------------------------
(***************************************************************************)
(* Translation units for FrontEnd, in families: records whose fields are   *)
(* laid out in many ways, programs of two functions with bodies of up to   *)
(* two statements, functions declared twice, and declarations the front    *)
(* ends give up on.                                                        *)
(***************************************************************************)
EXTENDS FrontEndProps, FiniteSetsExt

Annot(text, clType, check) ==
  [text |-> text, clType |-> clType, check |-> check]

FieldDecl(nd, record, annots) ==
  [kind |-> "field", nd |-> nd, name |-> nd, record |-> record,
   annots |-> annots]
RecordDecl(nd, align, fields, annots) ==
  [kind |-> "record", nd |-> nd, name |-> "R", align |-> align,
   fields |-> fields, annots |-> annots]
Function(fd, fn, name, annots, body) ==
  [kind |-> "function", fd |-> fd, fn |-> fn, name |-> name,
   annots |-> annots, body |-> body]
Size(nd, size, align) == [nd |-> nd, size |-> size, align |-> align]

-----------------------------------------------------------------------------
(* Records of three fields, with lines of 8 bytes: sizes that fill a line, *)
(* cross it, leave padding, or are unknown                                 *)

Sizes == {<<0, 1>>, <<1, 1>>, <<2, 2>>, <<3, 1>>, <<4, 4>>, <<5, 1>>, <<9, 1>>}

Fields(sizes) ==
  [i \in 1 .. 3 |-> Size(<<"a", "b", "c">>[i], sizes[i][1], sizes[i][2])]

\* The pair is of the fields i and j, or of the record and the field j.
LayoutUnit(align, sizes, i, j) ==
  LET annot(k)  == IF k = i THEN <<Annot("pair", "unk", <<"a", "b", "c">>[j])>>
                            ELSE <<>>
      fields(k) == FieldDecl(<<"a", "b", "c">>[k], "R", annot(k))
  IN  <<RecordDecl("R", align, Fields(sizes), annot(0)),
        fields(1), fields(2), fields(3)>>

Layouts ==
  {LayoutUnit(align, sizes, ij[1], ij[2]) :
     align \in {0, 4, 8}, sizes \in [1 .. 3 -> Sizes],
     ij \in {<<0, 2>>, <<1, 2>>, <<1, 3>>, <<3, 2>>}}

-----------------------------------------------------------------------------
(* Programs of a function f that may call g *)

Leaf == Node("other", NoDecl, <<>>)
Ref(v) == Node("ref", v, <<>>)
Member(f) == Node("member", f, <<Ref("x")>>)
Cast(n) == Node("cast", NoDecl, <<n>>)
Address(n) == Node("unary", NoDecl, <<n>>)
Assign(l, r) == Node("assign", NoDecl, <<l, r>>)
CallOf(fd, args) == Node("call", fd, args)

StoreA == Assign(Member("a"), Cast(Ref("p")))
WriteB == Assign(Member("b"), Leaf)
AssignP == Assign(Ref("p"), Leaf)
ReadA == Node("binary", NoDecl, <<Cast(Member("a")), Leaf>>)
FlushA == CallOf("clflush", <<Cast(Address(Member("a")))>>)
FlushP == CallOf("clflush", <<Cast(Cast(Ref("p")))>>)
LogB == CallOf("log", <<Cast(Address(Member("b")))>>)
CallG == CallOf("g", <<>>)
CallG0 == CallOf("g0", <<>>)
AssignCallG == Assign(Ref("p"), Node("other", NoDecl, <<CallG, ReadA>>))
FlushCallG == CallOf("clflush", <<Cast(CallG)>>)
External == CallOf("ext", <<Cast(Member("b"))>>)

Record ==
  <<FieldDecl("a", "R", <<Annot("pair", "scl", "b"), Annot("pair", "dcl", "c"),
                          Annot("FlushedPtr", "", "")>>),
    FieldDecl("b", "R", <<Annot("LogField", "", "")>>),
    FieldDecl("c", "R", <<Annot("pair", "scl", "b")>>),
    RecordDecl("R", 8, Fields([i \in 1 .. 3 |-> <<1, 1>>]), <<>>)>>

Named1(name) == Function(name, name, name, {}, <<Leaf>>)
Library == <<Named1("clflush"), Named1("pfence"), Named1("log"),
             Function("ext", "ext", "other", {}, NoBody)>>
Transactions == <<Named1("tx_begin"), Named1("tx_end")>>

Stmts == {StoreA, WriteB, ReadA, FlushA, FlushP, LogB, AssignCallG, FlushCallG,
          External}
Bodies == {<<s>> : s \in Stmts} \cup
          {<<s, t>> : s \in Stmts, t \in Stmts \ {ReadA, External}}

FAnnots == {{}, {"LogCode"}, {"LogCode", "NvmCode", "SkipCode"}}

Programs ==
  {Record \o Library \o Transactions \o
     <<Function("g", "g", "other", gAnnots, <<g>>),
       Function("f", "f", "other", fAnnots, body)>> :
     g \in {StoreA, WriteB, AssignP, FlushA}, gAnnots \in {{}, {"SkipCode"}},
     fAnnots \in FAnnots, body \in Bodies}

\* g has a prototype, which the calls in f refer to, and f another after its
\* body; a later declaration has the attributes of the earlier ones too.
Redeclared ==
  {Record \o Library \o Transactions \o
     <<Function("g0", "g", "other", early, NoBody),
       Function("f", "f", "other", fAnnots, <<s, Assign(Ref("p"), CallG0)>>),
       Function("g", "g", "other", early \cup late, <<g, t>>),
       Function("f0", "f", "other", fAnnots \cup late, NoBody),
       Function("e", "e", "other", {"NvmCode", "LogCode"}, <<CallG>>)>> :
     early, late \in {{}, {"NvmCode"}, {"SkipCode"}}, fAnnots \in FAnnots,
     g \in {StoreA, WriteB, FlushA}, s \in {FlushP, LogB, External},
     t \in {AssignP, WriteB}}

-----------------------------------------------------------------------------
(* Declarations that are missing or come twice *)

BadPairs ==
  {<<RecordDecl("R", 8, Fields([i \in 1 .. 3 |-> <<1, 1>>]), record),
     FieldDecl("a", "R", <<Annot("pair", clType, check)>>),
     FieldDecl("b", "R", <<>>), FieldDecl("c", "R", <<>>)>> \o more :
     clType \in {"scl", "dcl", "unk"}, check \in {"", "b", "other", "R"},
     record \in {<<>>, <<Annot("pair", "unk", "b")>>},
     more \in {<<>>, <<RecordDecl("R2", 0, <<>>, <<>>)>>}}

TxFunctions ==
  {Record \o Library \o tx \o
     <<Function("f", "f", "other", annots, <<WriteB>>)>> :
     annots \in FAnnots,
     tx \in {<<>>, <<Named1("tx_begin")>>, <<Named1("tx_end")>>, Transactions,
             Transactions \o
               <<Function("tx_begin2", "tx_begin", "tx_begin", {}, NoBody)>>,
             Transactions \o
               <<Function("tx_end2", "tx_end", "tx_end", {}, NoBody)>>}}

Families == Layouts \cup Programs \cup Redeclared \cup BadPairs \cup TxFunctions

-----------------------------------------------------------------------------
(* The nodes of all statements above *)

RECURSIVE Below(_)
Below(n) == {n} \cup UNION {Below(n.kids[i]) : i \in DOMAIN n.kids}

RECURSIVE HeightOf(_)
HeightOf(n) ==
  1 + Max({0} \cup {HeightOf(n.kids[i]) : i \in DOMAIN n.kids})

AllNodes == UNION {Below(s) : s \in Stmts \cup {AssignP, Leaf, CallG,
                                              Assign(Ref("p"), CallG0)}}
Heights == [n \in AllNodes |-> HeightOf(n)]
=============================================================================
