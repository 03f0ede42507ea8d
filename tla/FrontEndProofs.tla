--------------------------- MODULE FrontEndProofs ---------------------------
(***************************************************************************)
(* The front ends give up exactly on the units they cannot parse, and the  *)
(* tables they build one annotation at a time are those of all the pairs   *)
(* annotated.  A unit tracks the variables of every statement the engine   *)
(* analyses in it, whatever calls lie between, but for those hidden in     *)
(* calls that are not followed.  AutoCl is right about two fields.  For    *)
(* all translation units and checkers.                                     *)
(***************************************************************************)
EXTENDS FrontEndProps, GlobalParserProofs

-----------------------------------------------------------------------------
(* What has been visited *)

Places == 1 .. Len(tu)
Visited == 1 .. pos - 1

\* The declaration at place j can have pairs.
HoldsPairs(j) == tu[j].kind \in {"field", "record"}

\* Annotation a of declaration d, as psiList has it
PsiOf(d, a) == [dataName |-> d.name, checkName |-> a.check, clType |-> a.clType]

PsisAt(j) == {PsiOf(tu[j], PairAnnots(tu[j])[i]) : i \in DOMAIN PairAnnots(tu[j])}
PsisIn(places) == UNION {PsisAt(j) : j \in {k \in places : HoldsPairs(k)}}
Psis == PsisIn(Places)

\* The last of the declarations with this name among places is at j.
LastOf(j, name, places) ==
  /\ j \in places
  /\ HoldsPairs(j) /\ tu[j].name = name
  /\ \A k \in places : HoldsPairs(k) /\ k > j => tu[k].name # name

\* The PairInfo of an annotation
PairOf(psi) ==
  [data  |-> strToND[psi.dataName], check |-> strToND[psi.checkName],
   isScl |-> UsesScl(strToND[psi.dataName], strToND[psi.checkName], psi.clType)]

Resolved(psi) == {psi.dataName, psi.checkName} \subseteq DOMAIN strToND

\* The flags of variable v in a set of pairs
FlagsIn(ps, v) ==
  [isDcl |-> \E p \in ps : v \in {p.data, p.check} /\ ~p.isScl,
   isScl |-> \E p \in ps : v \in {p.data, p.check} /\ p.isScl]
VarsIn(ps) == {p.data : p \in ps} \cup {p.check : p \in ps}
Table(ps) == [v \in VarsIn(ps) |-> FlagsIn(ps, v)]

-----------------------------------------------------------------------------
(* The invariant *)

Parsing == {"fillMainVars", "autoFindFunctions", "fillTrackMap", "done"}

UnitKnown ==
  /\ tu \in TranslationUnits /\ checker \in AllCheckers
  /\ phase \in Parsing \cup {"traverse", "fatal"}
  /\ pos \in 1 .. Len(tu) + 1
  /\ phase \in Parsing => pos = Len(tu) + 1
  /\ phase = "fillMainVars" => HasPairs
  /\ phase = "autoFindFunctions" => checker # "log"

\* Every name stands for the last declaration visited that has it.
NamesKnown ==
  HasPairs =>
    /\ DOMAIN strToND = {tu[j].name : j \in {k \in Visited : HoldsPairs(k)}}
    /\ \A n \in DOMAIN strToND : \E j \in Visited :
         LastOf(j, n, Visited) /\ strToND[n] = tu[j].nd

\* Every annotation visited is on the list or in the tables.
PsisKept ==
  HasPairs =>
    /\ psiList \in Seq(PsisIn(Visited))
    /\ phase # "fatal" =>
         \A psi \in PsisIn(Visited) :
           /\ psi.checkName # NoName
           /\ \/ psi \in Range(psiList)
              \/ phase \in Parsing /\ Resolved(psi) /\ PairOf(psi) \in pairs
    /\ phase \in Parsing \ {"fillMainVars"} => psiList = <<>>

PairsKnown ==
  HasPairs =>
    /\ phase = "traverse" => pairs = {}
    /\ phase \in Parsing =>
         \A p \in pairs : \E psi \in Psis : Resolved(psi) /\ p = PairOf(psi)
    /\ usedVars = Table(pairs)

\* The functions in set s that places declare
DeclaredIn(places, s) ==
  {tu[j].fd : j \in {k \in places : tu[k].kind = "function" /\ BelongsTo(tu[k], s)}}

FunctionsKnown ==
  checker = "log" =>
    /\ functions = [s \in FunctionSets |-> DeclaredIn(Visited, s)]
    /\ phase \in Parsing => ~TxModeAsserts
    /\ functions["tx_begin"] = {} => DOMAIN units = {}

UnitsKnown ==
  /\ phase \in {"traverse", "fillMainVars", "autoFindFunctions"} => DOMAIN units = {}
  /\ phase = "done" => functions["analyzed"] \subseteq DOMAIN units
  /\ checker = "main" =>
       \A fd \in DOMAIN units : \A v \in units[fd].vars :
         /\ v \in DOMAIN usedVars
         /\ units[fd].kinds[v] \in KindsOfLast(PairList(v))

FatalKnown == phase = "fatal" => CannotParse

IInv == /\ UnitKnown /\ NamesKnown /\ PsisKept /\ PairsKnown
        /\ FunctionsKnown /\ UnitsKnown /\ FatalKnown

-----------------------------------------------------------------------------
(* Helpers *)

LEMMA PutFacts ==
  ASSUME NEW f, NEW k, NEW v
  PROVE  /\ DOMAIN Put(f, k, v) = DOMAIN f \cup {k}
         /\ \A x \in DOMAIN f \cup {k} :
              Put(f, k, v)[x] = IF x = k THEN v ELSE f[x]
BY DEF Put
LEMMA ConcatFacts ==
  ASSUME NEW S, NEW x \in Seq(S), NEW y \in Seq(S)
  PROVE  x \o y \in Seq(S) /\ Range(x \o y) = Range(x) \cup Range(y)
<1> DEFINE z == x \o y
           m == Len(x)
           n == Len(y)
<1>1. /\ z \in Seq(S) /\ m \in Nat /\ n \in Nat
      /\ DOMAIN z = 1 .. m + n /\ DOMAIN x = 1 .. m /\ DOMAIN y = 1 .. n
      /\ \A i \in 1 .. m : z[i] = x[i]
      /\ \A i \in 1 .. n : z[i + m] = y[i]
      /\ \A i \in 1 .. m + n : i > m => z[i] = y[i - m]
  OBVIOUS
<1> HIDE DEF z, m, n
<1>2. ASSUME NEW e \in Range(x) \cup Range(y)
      PROVE  e \in Range(z)
  <2>1. CASE e \in Range(x)
    <3>1. PICK i \in 1 .. m : e = x[i]
      BY <1>1, <2>1 DEF Range
    <3>2. i \in 1 .. m + n /\ z[i] = e
      BY <1>1, <3>1
    <3>3. QED
      BY <1>1, <3>2 DEF Range
  <2>2. CASE e \in Range(y)
    <3>1. PICK i \in 1 .. n : e = y[i]
      BY <1>1, <2>2 DEF Range
    <3>2. i + m \in 1 .. m + n /\ z[i + m] = e
      BY <1>1, <3>1
    <3>3. QED
      BY <1>1, <3>2 DEF Range
  <2>3. QED
    BY <2>1, <2>2
<1>3. ASSUME NEW e \in Range(z)
      PROVE  e \in Range(x) \cup Range(y)
  <2>1. PICK i \in 1 .. m + n : e = z[i]
    BY <1>1, <1>3 DEF Range
  <2>2. CASE i <= m
    BY <1>1, <2>1, <2>2 DEF Range
  <2>3. CASE i > m
    <3>1. i - m \in 1 .. n /\ e = y[i - m]
      BY <1>1, <2>1, <2>3
    <3>2. QED
      BY <1>1, <3>1 DEF Range
  <2>4. QED
    BY <1>1, <2>1, <2>2, <2>3
<1>4. QED
  BY <1>1, <1>2, <1>3 DEF z

\* The recursive function of PairAnnots
FirstPairs(d, n, first) ==
  [i \in 0 .. n |-> IF i = 0 THEN <<>>
                    ELSE IF d.annots[i].text = "pair"
                         THEN Append(first[i-1], d.annots[i])
                         ELSE first[i-1]]

LEMMA FirstPairsExist ==
  ASSUME NEW d, NEW n \in Nat
  PROVE  \E first : first = FirstPairs(d, n, first)
<1> DEFINE Fails == {k \in Nat : ~\E first : first = FirstPairs(d, k, first)}
<1>1. SUFFICES ASSUME Fails # {} PROVE FALSE
  OBVIOUS
<1>2. PICK k \in Fails : \A j \in Fails : k <= j
  <2>1. Fails \in SUBSET Nat
    OBVIOUS
  <2> HIDE DEF Fails
  <2>2. QED
    BY <1>1, <2>1, Smallest
<1>3. k # 0
  <2>1. SUFFICES ASSUME k = 0 PROVE FALSE
    OBVIOUS
  <2> DEFINE first == [i \in 0 .. 0 |-> <<>>]
  <2>2. first = FirstPairs(d, 0, first)
    BY DEF FirstPairs
  <2>3. QED
    BY <2>1, <2>2
<1>4. PICK first : first = FirstPairs(d, k - 1, first)
  <2>1. k - 1 \in Nat /\ ~(k <= k - 1)
    BY <1>3
  <2>2. QED
    BY <1>2, <2>1
<1> DEFINE last == IF d.annots[k].text = "pair"
                   THEN Append(first[k-1], d.annots[k]) ELSE first[k-1]
           longer == [i \in 0 .. k |-> IF i < k THEN first[i] ELSE last]
<1>5. longer = FirstPairs(d, k, longer)
  <2>1. \A i \in 0 .. k - 1 : longer[i] = first[i]
    OBVIOUS
  <2>2. \A i \in 0 .. k - 1 :
          first[i] = IF i = 0 THEN <<>>
                     ELSE IF d.annots[i].text = "pair"
                          THEN Append(first[i-1], d.annots[i])
                          ELSE first[i-1]
    BY <1>4 DEF FirstPairs
  <2>3. longer[k] = last
    OBVIOUS
  <2>4. QED
    BY <1>3, <2>1, <2>2, <2>3 DEF FirstPairs
<1>6. QED
  BY <1>5

LEMMA PairAnnotsUnfold ==
  ASSUME NEW d
  PROVE  PairAnnots(d) =
           (CHOOSE first : first = FirstPairs(d, Len(d.annots), first))[Len(d.annots)]
BY DEF PairAnnots, FirstPairs

LEMMA PairAnnotsAreSeq ==
  ASSUME NEW d, d.annots \in Seq(Range(d.annots))
  PROVE  PairAnnots(d) \in Seq(Range(d.annots))
<1> DEFINE S     == Range(d.annots)
           n     == Len(d.annots)
           first == CHOOSE h : h = FirstPairs(d, n, h)
           Bad   == {i \in 0 .. n : first[i] \notin Seq(S)}
<1>1. n \in Nat /\ \A i \in 1 .. n : d.annots[i] \in S
  OBVIOUS
<1>2. first = FirstPairs(d, n, first)
  BY <1>1, FirstPairsExist
<1> HIDE DEF first, S, n
<1>3. \A i \in 0 .. n :
        first[i] = IF i = 0 THEN <<>>
                   ELSE IF d.annots[i].text = "pair"
                        THEN Append(first[i-1], d.annots[i])
                        ELSE first[i-1]
  BY <1>1, <1>2 DEF FirstPairs
<1>4. Bad = {}
  <2>1. SUFFICES ASSUME Bad # {} PROVE FALSE
    OBVIOUS
  <2>2. PICK k \in Bad : \A j \in Bad : k <= j
    <3>1. Bad \in SUBSET Nat
      BY <1>1
    <3> HIDE DEF Bad
    <3>2. QED
      BY <2>1, <3>1, Smallest
  <2>3. k \in 0 .. n /\ first[k] \notin Seq(S)
    OBVIOUS
  <2>4. k # 0
    <3>1. <<>> \in Seq(S) /\ 0 \in 0 .. n
      BY <1>1
    <3>2. first[0] = <<>>
      BY <1>3, <3>1
    <3>3. QED
      BY <2>3, <3>1, <3>2
  <2>5. k - 1 \in 0 .. n /\ k - 1 \notin Bad
    BY <1>1, <2>2, <2>4
  <2>6. first[k-1] \in Seq(S) /\ d.annots[k] \in S
    BY <1>1, <2>4, <2>5
  <2>7. Append(first[k-1], d.annots[k]) \in Seq(S)
    BY <2>6
  <2>8. first[k] \in {Append(first[k-1], d.annots[k]), first[k-1]}
    BY <1>3, <2>3, <2>4
  <2>9. QED
    BY <2>3, <2>6, <2>7, <2>8
<1>5. first[n] \in Seq(S)
  BY <1>1, <1>4
<1>6. QED
  BY <1>5, PairAnnotsUnfold DEF first, S, n

-----------------------------------------------------------------------------
(* The flags of a variable *)

NoFlags == [isDcl |-> FALSE, isScl |-> FALSE]
Added(flags, scl) == [isDcl |-> flags.isDcl \/ ~scl, isScl |-> flags.isScl \/ scl]

LEMMA AddedTwice ==
  ASSUME NEW flags, NEW scl \in BOOLEAN
  PROVE  Added(Added(flags, scl), scl) = Added(flags, scl)
BY DEF Added

LEMMA InsertPairFacts ==
  ASSUME NEW used, NEW nd, NEW scl
  PROVE  InsertPair(used, nd, scl) =
           Put(used, nd, Added(IF nd \in DOMAIN used THEN used[nd] ELSE NoFlags, scl))
BY DEF InsertPair, Added, NoFlags

LEMMA FlagsOfMore ==
  ASSUME NEW ps, NEW d, NEW c, NEW scl \in BOOLEAN, NEW pair,
         pair = [data |-> d, check |-> c, isScl |-> scl]
  PROVE  /\ VarsIn(ps \cup {pair}) = VarsIn(ps) \cup {d, c}
         /\ \A v : v \notin {d, c} => FlagsIn(ps \cup {pair}, v) = FlagsIn(ps, v)
         /\ \A v \in {d, c} :
              FlagsIn(ps \cup {pair}, v) = Added(FlagsIn(ps, v), scl)
         /\ \A v : v \notin VarsIn(ps) => FlagsIn(ps, v) = NoFlags
<1>1. pair.data = d /\ pair.check = c /\ pair.isScl = scl
  OBVIOUS
<1>2. VarsIn(ps \cup {pair}) = VarsIn(ps) \cup {d, c}
  BY <1>1 DEF VarsIn
<1>3. ASSUME NEW v, v \notin {d, c}
      PROVE  FlagsIn(ps \cup {pair}, v) = FlagsIn(ps, v)
  BY <1>1, <1>3 DEF FlagsIn
<1>4. ASSUME NEW v \in {d, c}
      PROVE  FlagsIn(ps \cup {pair}, v) = Added(FlagsIn(ps, v), scl)
  <2> DEFINE isDcl == \E p \in ps : v \in {p.data, p.check} /\ ~p.isScl
             isScl == \E p \in ps : v \in {p.data, p.check} /\ p.isScl
  <2>1. (\E p \in ps \cup {pair} : v \in {p.data, p.check} /\ ~p.isScl)
          <=> (isDcl \/ ~scl)
    BY <1>1
  <2>2. (\E p \in ps \cup {pair} : v \in {p.data, p.check} /\ p.isScl)
          <=> (isScl \/ scl)
    BY <1>1
  <2>3. FlagsIn(ps \cup {pair}, v) = [isDcl |-> isDcl \/ ~scl, isScl |-> isScl \/ scl]
    BY <2>1, <2>2 DEF FlagsIn
  <2>4. FlagsIn(ps, v).isDcl = isDcl /\ FlagsIn(ps, v).isScl = isScl
    BY DEF FlagsIn
  <2> HIDE DEF isDcl, isScl
  <2>5. Added(FlagsIn(ps, v), scl) = [isDcl |-> isDcl \/ ~scl, isScl |-> isScl \/ scl]
    BY <2>4 DEF Added
  <2>6. QED
    BY <2>3, <2>5
<1>5. ASSUME NEW v, v \notin VarsIn(ps)
      PROVE  FlagsIn(ps, v) = NoFlags
  BY <1>5 DEF VarsIn, FlagsIn, NoFlags
<1>6. QED
  BY <1>2, <1>3, <1>4, <1>5

LEMMA InsertedPair ==
  ASSUME NEW ps, NEW d, NEW c, NEW scl \in BOOLEAN
  PROVE  InsertPair(InsertPair(Table(ps), d, scl), c, scl) =
           Table(ps \cup {[data |-> d, check |-> c, isScl |-> scl]})
<1> DEFINE pair == [data |-> d, check |-> c, isScl |-> scl]
           old  == Table(ps)
           one  == InsertPair(old, d, scl)
           two  == InsertPair(one, c, scl)
           new  == Table(ps \cup {pair})
           atD  == Added(FlagsIn(ps, d), scl)
           atC  == Added(FlagsIn(ps, c), scl)
<1>1. pair = [data |-> d, check |-> c, isScl |-> scl]
  OBVIOUS
<1>2. /\ DOMAIN old = VarsIn(ps)
      /\ \A v \in VarsIn(ps) : old[v] = FlagsIn(ps, v)
  BY DEF Table
<1>3. /\ new = [v \in DOMAIN new |-> new[v]]
      /\ DOMAIN new = VarsIn(ps \cup {pair})
      /\ \A v \in DOMAIN new : new[v] = FlagsIn(ps \cup {pair}, v)
  BY DEF Table
<1> HIDE DEF old, new, pair
<1>4. /\ VarsIn(ps \cup {pair}) = VarsIn(ps) \cup {d, c}
      /\ \A v : v \notin {d, c} => FlagsIn(ps \cup {pair}, v) = FlagsIn(ps, v)
      /\ \A v \in {d, c} :
           FlagsIn(ps \cup {pair}, v) = Added(FlagsIn(ps, v), scl)
      /\ \A v : v \notin VarsIn(ps) => FlagsIn(ps, v) = NoFlags
  BY <1>1, FlagsOfMore
<1>5. one = Put(old, d, atD)
  BY <1>2, <1>4, InsertPairFacts
<1> HIDE DEF one, atD
<1>6. /\ DOMAIN one = VarsIn(ps) \cup {d}
      /\ one[d] = atD
      /\ \A v \in VarsIn(ps) \ {d} : one[v] = FlagsIn(ps, v)
  BY <1>2, <1>5 DEF Put
<1>7. two = Put(one, c, atC)
  <2>1. two = Put(one, c, Added(IF c \in DOMAIN one THEN one[c] ELSE NoFlags, scl))
    BY InsertPairFacts
  <2>2. CASE c = d
    <3>1. c \in DOMAIN one /\ one[c] = Added(FlagsIn(ps, c), scl)
      BY <1>6, <2>2 DEF atD
    <3>2. QED
      BY <2>1, <3>1, AddedTwice
  <2>3. CASE c # d
    <3>1. (IF c \in DOMAIN one THEN one[c] ELSE NoFlags) = FlagsIn(ps, c)
      BY <1>4, <1>6, <2>3
    <3>2. QED
      BY <2>1, <3>1
  <2>4. QED
    BY <2>2, <2>3
<1> HIDE DEF two, atC
<1>8. /\ two = [v \in DOMAIN two |-> two[v]]
      /\ DOMAIN two = VarsIn(ps) \cup {d, c}
      /\ two[c] = atC
      /\ \A v \in (VarsIn(ps) \cup {d}) \ {c} : two[v] = one[v]
  BY <1>6, <1>7 DEF Put
<1>9. atD = FlagsIn(ps \cup {pair}, d) /\ atC = FlagsIn(ps \cup {pair}, c)
  BY <1>4 DEF atD, atC
<1>10. ASSUME NEW v \in VarsIn(ps) \cup {d, c}
       PROVE  two[v] = FlagsIn(ps \cup {pair}, v)
  BY <1>4, <1>6, <1>8, <1>9
<1>11. two = new
  BY <1>3, <1>4, <1>8, <1>10
<1>12. QED
  BY <1>11 DEF two, one, old, new, pair

-----------------------------------------------------------------------------
(* Declarations *)

LEMMA UnitFacts ==
  ASSUME UnitKnown
  PROVE  /\ IsUnit(tu) /\ Len(tu) \in Nat /\ DOMAIN tu = Places
         /\ Range(tu) = {tu[j] : j \in Places}
         /\ Visited \subseteq Places /\ (phase \in Parsing => Visited = Places)
<1>1. IsUnit(tu)
  BY UnitsAssumption DEF UnitKnown
<1>2. tu \in Seq(Range(tu))
  BY <1>1 DEF IsUnit
<1>3. Len(tu) \in Nat /\ DOMAIN tu = Places
  BY <1>2 DEF Places
<1>4. Range(tu) = {tu[j] : j \in Places}
  BY <1>3 DEF Range
<1>5. Visited \subseteq Places /\ (phase \in Parsing => Visited = Places)
  BY <1>3 DEF UnitKnown, Visited, Places
<1>6. QED
  BY <1>1, <1>3, <1>4, <1>5

LEMMA AnnotsAt ==
  ASSUME UnitKnown, NEW j \in Places, HoldsPairs(j)
  PROVE  /\ PairAnnots(tu[j]) \in Seq(Range(tu[j].annots))
         /\ Len(PairAnnots(tu[j])) \in Nat
         /\ DOMAIN PairAnnots(tu[j]) = 1 .. Len(PairAnnots(tu[j]))
<1>1. IsDecl(tu[j]) /\ tu[j].kind # "function"
  BY UnitFacts DEF IsUnit, HoldsPairs
<1>2. tu[j].annots \in Seq(Range(tu[j].annots))
  BY <1>1 DEF IsDecl
<1>3. PairAnnots(tu[j]) \in Seq(Range(tu[j].annots))
  BY <1>2, PairAnnotsAreSeq
<1>4. QED
  BY <1>3

\* The places of the declarations that can have pairs
LEMMA PairDecls ==
  ASSUME UnitKnown
  PROVE  Decls("field") \cup Decls("record") =
           {tu[j] : j \in {k \in Places : HoldsPairs(k)}}
BY UnitFacts DEF Decls, HoldsPairs

LEMMA PsiIsAt ==
  ASSUME NEW psi, NEW S, psi \in PsisIn(S)
  PROVE  \E j \in S : /\ HoldsPairs(j)
                      /\ \E i \in DOMAIN PairAnnots(tu[j]) :
                           psi = PsiOf(tu[j], PairAnnots(tu[j])[i])
BY DEF PsisIn, PsisAt

LEMMA AnnotIsPsi ==
  ASSUME NEW S, NEW j \in S, HoldsPairs(j), NEW i \in DOMAIN PairAnnots(tu[j])
  PROVE  PsiOf(tu[j], PairAnnots(tu[j])[i]) \in PsisIn(S)
BY DEF PsisIn, PsisAt

\* A reason to give up
LEMMA BadPair ==
  ASSUME UnitKnown, HasPairs, NEW psi \in Psis,
         \/ psi.checkName = NoName
         \/ \A j \in Places : HoldsPairs(j) => tu[j].name # psi.checkName
  PROVE  CannotParse
<1>1. PICK j \in Places :
        /\ HoldsPairs(j)
        /\ \E i \in DOMAIN PairAnnots(tu[j]) :
             psi = PsiOf(tu[j], PairAnnots(tu[j])[i])
  BY PsiIsAt DEF Psis
<1>2. PICK i \in DOMAIN PairAnnots(tu[j]) : psi = PsiOf(tu[j], PairAnnots(tu[j])[i])
  BY <1>1
<1> DEFINE a == PairAnnots(tu[j])[i]
<1>3. a \in Range(PairAnnots(tu[j])) /\ a.check = psi.checkName
  BY <1>2 DEF Range, PsiOf
<1>4. tu[j] \in Decls("field") \cup Decls("record")
  BY <1>1, PairDecls
<1> HIDE DEF a
<1>5. \/ a.check = NoName
      \/ \A e \in Decls("field") \cup Decls("record") : e.name # a.check
  BY <1>3, PairDecls
<1>6. QED
  BY <1>3, <1>4, <1>5 DEF CannotParse

LEMMA NoBadPair ==
  ASSUME UnitKnown, HasPairs, CannotParse
  PROVE  \E psi \in Psis :
           \/ psi.checkName = NoName
           \/ \A j \in Places : HoldsPairs(j) => tu[j].name # psi.checkName
<1>1. checker # "log"
  BY DEF HasPairs
<1>2. PICK d \in Decls("field") \cup Decls("record") :
        \E a \in Range(PairAnnots(d)) :
          \/ a.check = NoName
          \/ \A e \in Decls("field") \cup Decls("record") : e.name # a.check
  BY <1>1 DEF CannotParse
<1>3. PICK a \in Range(PairAnnots(d)) :
        \/ a.check = NoName
        \/ \A e \in Decls("field") \cup Decls("record") : e.name # a.check
  BY <1>2
<1>4. PICK j \in Places : HoldsPairs(j) /\ d = tu[j]
  BY PairDecls
<1>5. PICK i \in DOMAIN PairAnnots(tu[j]) : a = PairAnnots(tu[j])[i]
  BY <1>3, <1>4 DEF Range
<1> DEFINE psi == PsiOf(tu[j], PairAnnots(tu[j])[i])
<1>6. psi \in Psis
  BY <1>4, AnnotIsPsi DEF Psis
<1>7. psi.checkName = a.check
  BY <1>5 DEF PsiOf
<1>8. \A k \in Places : HoldsPairs(k) => tu[k] \in Decls("field") \cup Decls("record")
  BY PairDecls
<1> HIDE DEF psi
<1>9. QED
  BY <1>3, <1>6, <1>7, <1>8

-----------------------------------------------------------------------------
(* TraverseDecl *)

\* No step changes the unit.
LEMMA SameUnit ==
  ASSUME tu' = tu, checker' = checker
  PROVE  /\ \A S : PsisIn(S)' = PsisIn(S)
         /\ \A j, n, S : LastOf(j, n, S)' <=> LastOf(j, n, S)
         /\ \A j : HoldsPairs(j)' <=> HoldsPairs(j)
         /\ Places' = Places /\ Psis' = Psis
         /\ HasPairs' <=> HasPairs
         /\ CannotParse' <=> CannotParse
<1>1. \A S : PsisIn(S)' = PsisIn(S)
  BY DEF PsisIn, PsisAt, HoldsPairs
<1>2. \A j, n, S : LastOf(j, n, S)' <=> LastOf(j, n, S)
  BY DEF LastOf, HoldsPairs
<1>3. /\ Places' = Places /\ Psis' = Psis
      /\ \A j : HoldsPairs(j)' <=> HoldsPairs(j)
  BY DEF Places, Psis, PsisIn, PsisAt, HoldsPairs
<1>4. HasPairs' <=> HasPairs
  BY DEF HasPairs
<1>5. CannotParse' <=> CannotParse
  BY <1>4 DEF CannotParse, Decls
<1>6. QED
  BY <1>1, <1>2, <1>3, <1>4, <1>5

\* A visit moves on by one declaration.
LEMMA VisitFacts ==
  ASSUME UnitKnown, NEW kind, Visits(kind), phase' \in {"traverse", "fatal"}
  PROVE  /\ UnitKnown' /\ pos \in Places /\ tu[pos].kind = kind
         /\ phase = "traverse" /\ Visited' = Visited \cup {pos}
         /\ \A j \in Visited : j < pos
         /\ tu' = tu /\ checker' = checker
<1>1. /\ phase = "traverse" /\ pos \in Places /\ tu[pos].kind = kind
      /\ pos' = pos + 1 /\ tu' = tu /\ checker' = checker
      /\ Len(tu) \in Nat
  BY UnitFacts DEF Visits
<1>2. Visited' = Visited \cup {pos} /\ \A j \in Visited : j < pos
  BY <1>1 DEF Visited, Places
<1>3. UnitKnown'
  BY <1>1 DEF UnitKnown, Parsing, Places
<1>4. QED
  BY <1>1, <1>2, <1>3

\* A declaration without pairs adds no annotation and no name.
LEMMA PlainVisit ==
  ASSUME UnitKnown, Visited' = Visited \cup {pos}, tu' = tu, checker' = checker,
         ~HoldsPairs(pos)
  PROVE  /\ PsisIn(Visited)' = PsisIn(Visited)
         /\ \A j, n : LastOf(j, n, Visited) => LastOf(j, n, Visited)'
         /\ {k \in Visited' : HoldsPairs(k)'} = {k \in Visited : HoldsPairs(k)}
<1>1. {k \in Visited \cup {pos} : HoldsPairs(k)} = {k \in Visited : HoldsPairs(k)}
  OBVIOUS
<1>2. PsisIn(Visited \cup {pos}) = PsisIn(Visited)
  BY <1>1 DEF PsisIn
<1>3. \A j, n : LastOf(j, n, Visited) => LastOf(j, n, Visited \cup {pos})
  BY DEF LastOf
<1> DEFINE next == Visited \cup {pos}
<1> HIDE DEF next
<1>4. PsisIn(Visited)' = PsisIn(next)
  BY SameUnit DEF next, PsisIn, PsisAt, HoldsPairs
<1>5. \A j, n : LastOf(j, n, next) => LastOf(j, n, Visited)'
  BY DEF next, LastOf, HoldsPairs
<1>6. QED
  BY <1>1, <1>2, <1>3, <1>4, <1>5, SameUnit DEF next
LEMMA SameFunctions ==
  ASSUME tu' = tu, checker' = checker
  PROVE  /\ FunctionSets' = FunctionSets
         /\ \A S, s : DeclaredIn(S, s)' = DeclaredIn(S, s)
<1>1. /\ FunctionSets' = FunctionSets
      /\ \A d, s : BelongsTo(d, s)' <=> BelongsTo(d, s)
  BY DEF FunctionSets, BelongsTo, AnalyzeAnnotation
<1>2. QED
  BY <1>1 DEF DeclaredIn

LEMMA FunctionsVisited ==
  ASSUME FunctionsKnown, UnitsKnown, phase = "traverse",
         phase' \in {"traverse", "fatal"}, Visited' = Visited \cup {pos},
         UNCHANGED <<tu, checker, units>>,
         \/ /\ tu[pos].kind = "function"
            /\ functions' = InsertFunction(functions, tu[pos])
         \/ tu[pos].kind # "function" /\ functions' = functions
  PROVE  FunctionsKnown'
<1> SUFFICES ASSUME checker' = "log"
             PROVE  /\ functions' = [s \in FunctionSets |-> DeclaredIn(Visited, s)]'
                    /\ DOMAIN units' = {} /\ phase' \notin Parsing
  BY DEF FunctionsKnown
<1> DEFINE next == Visited \cup {pos}
<1>1. functions = [s \in FunctionSets |-> DeclaredIn(Visited, s)]
  BY DEF FunctionsKnown
<1>2. \A s : DeclaredIn(next, s) =
             IF tu[pos].kind = "function" /\ BelongsTo(tu[pos], s)
             THEN DeclaredIn(Visited, s) \cup {tu[pos].fd} ELSE DeclaredIn(Visited, s)
  BY DEF DeclaredIn
<1>3. functions' = [s \in FunctionSets |-> DeclaredIn(next, s)]
  BY <1>1, <1>2 DEF InsertFunction
<1> HIDE DEF next
<1>4. \A s : DeclaredIn(Visited, s)' = DeclaredIn(next, s)
  BY SameFunctions DEF next, DeclaredIn
<1>5. FunctionSets' = FunctionSets
  BY SameFunctions
<1>6. DOMAIN units' = {} /\ phase' \notin Parsing
  BY DEF UnitsKnown, Parsing
<1>7. QED
  BY <1>3, <1>4, <1>5, <1>6

\* VisitFunctionDecl
LEMMA FunctionStep == ASSUME IInv, VisitFunctionDecl PROVE IInv'
<1>1. /\ Visits("function") /\ phase' = phase
      /\ UNCHANGED <<strToND, psiList, usedVars, pairs, units>>
  BY DEF VisitFunctionDecl
<1>2. /\ UnitKnown /\ NamesKnown /\ PsisKept /\ PairsKnown /\ FunctionsKnown
      /\ UnitsKnown
  BY DEF IInv
<1>3. phase' = "traverse"
  BY <1>1 DEF Visits
<1>4. /\ UnitKnown' /\ pos \in Places /\ tu[pos].kind = "function"
      /\ phase = "traverse" /\ Visited' = Visited \cup {pos}
      /\ tu' = tu /\ checker' = checker
  BY <1>1, <1>2, <1>3, VisitFacts
<1>5. ~HoldsPairs(pos)
  BY <1>4 DEF HoldsPairs
<1>6. /\ PsisIn(Visited)' = PsisIn(Visited)
      /\ \A j, n : LastOf(j, n, Visited) => LastOf(j, n, Visited)'
      /\ {k \in Visited' : HoldsPairs(k)'} = {k \in Visited : HoldsPairs(k)}
      /\ HasPairs' <=> HasPairs
  BY <1>2, <1>4, <1>5, PlainVisit, SameUnit
<1>7. NamesKnown'
  BY <1>1, <1>2, <1>4, <1>6 DEF NamesKnown
<1>8. PsisKept'
  BY <1>1, <1>2, <1>3, <1>4, <1>6 DEF PsisKept, Parsing
<1>9. PairsKnown'
  BY <1>1, <1>2, <1>3, <1>4, <1>6 DEF PairsKnown, Parsing
<1>10. FunctionsKnown'
  <2>1. functions' = InsertFunction(functions, tu[pos])
    BY DEF VisitFunctionDecl
  <2>2. QED
    BY <1>1, <1>2, <1>3, <1>4, <2>1, FunctionsVisited
<1>11. UnitsKnown'
  BY <1>1, <1>2, <1>3, <1>4 DEF UnitsKnown
<1>12. FatalKnown'
  BY <1>3 DEF FatalKnown
<1>13. QED
  BY <1>4, <1>7, <1>8, <1>9, <1>10, <1>11, <1>12 DEF IInv

\* addAnnotated
LEMMA AddAnnotatedStep ==
  ASSUME IInv, HasPairs, NEW kind \in {"field", "record"}, Visits(kind),
         AddAnnotated(tu[pos]), UNCHANGED <<functions, usedVars, pairs, units>>
  PROVE  IInv'
<1> DEFINE d      == tu[pos]
           annots == PairAnnots(d)
           added  == [i \in DOMAIN annots |-> PsiOf(d, annots[i])]
           next   == Visited \cup {pos}
<1>1. /\ UnitKnown /\ NamesKnown /\ PsisKept /\ PairsKnown /\ FunctionsKnown
      /\ UnitsKnown
  BY DEF IInv
<1>2. /\ strToND' = Put(strToND, d.name, d.nd)
      /\ psiList' = psiList \o added
      /\ phase' = IF \E i \in DOMAIN annots : annots[i].check = NoName
                  THEN "fatal" ELSE phase
  BY DEF AddAnnotated, PsiOf
<1>3. phase = "traverse" /\ phase' \in {"traverse", "fatal"}
  BY <1>2 DEF Visits
<1>4. /\ UnitKnown' /\ pos \in Places /\ d.kind = kind
      /\ Visited' = next
      /\ \A j \in Visited : j < pos
      /\ tu' = tu /\ checker' = checker
  BY <1>1, <1>3, VisitFacts
<1>5. HoldsPairs(pos) /\ HasPairs'
  BY <1>4 DEF HoldsPairs, HasPairs
<1>6. /\ annots \in Seq(Range(d.annots)) /\ Len(annots) \in Nat
      /\ DOMAIN annots = 1 .. Len(annots)
  BY <1>1, <1>4, <1>5, AnnotsAt
<1>7. PsisIn(next) = PsisIn(Visited) \cup PsisAt(pos)
  BY <1>5 DEF PsisIn
<1>8. PsisAt(pos) = {added[i] : i \in DOMAIN added}
  BY DEF PsisAt
<1> HIDE DEF next
<1>9. PsisIn(Visited)' = PsisIn(next)
  BY <1>4 DEF PsisIn, PsisAt, HoldsPairs
<1>10. NamesKnown'
  <2>1. /\ DOMAIN strToND = {tu[j].name : j \in {k \in Visited : HoldsPairs(k)}}
        /\ \A n \in DOMAIN strToND : \E j \in Visited :
             LastOf(j, n, Visited) /\ strToND[n] = tu[j].nd
    BY <1>1 DEF NamesKnown
  <2>2. /\ DOMAIN strToND' = DOMAIN strToND \cup {d.name}
        /\ \A n \in DOMAIN strToND' :
             strToND'[n] = IF n = d.name THEN d.nd ELSE strToND[n]
    BY <1>2 DEF Put
  <2>3. DOMAIN strToND' = {tu[j].name : j \in {k \in next : HoldsPairs(k)}}
    BY <1>5, <2>1, <2>2 DEF next
  <2>4. LastOf(pos, d.name, next)
    BY <1>4, <1>5 DEF LastOf, next, Visited, Places
  <2>5. \A j, n : n # d.name /\ LastOf(j, n, Visited) => LastOf(j, n, next)
    BY DEF LastOf, next
  <2>6. ASSUME NEW n \in DOMAIN strToND'
        PROVE  \E j \in next : LastOf(j, n, next) /\ strToND'[n] = tu[j].nd
    <3>1. CASE n = d.name
      BY <2>2, <2>4, <2>6, <3>1 DEF next
    <3>2. CASE n # d.name
      <4>1. PICK j \in Visited : LastOf(j, n, Visited) /\ strToND[n] = tu[j].nd
        BY <2>1, <2>2, <3>2
      <4>2. j \in next /\ LastOf(j, n, next) /\ strToND'[n] = tu[j].nd
        BY <2>2, <2>5, <2>6, <3>2, <4>1 DEF next
      <4>3. QED
        BY <4>2
    <3>3. QED
      BY <3>1, <3>2
  <2>7. \A k : HoldsPairs(k)' <=> HoldsPairs(k)
    BY <1>4 DEF HoldsPairs
  <2>8. \A j, n : LastOf(j, n, Visited)' <=> LastOf(j, n, next)
    BY <1>4, <2>7 DEF LastOf
  <2>9. QED
    BY <1>4, <2>3, <2>6, <2>7, <2>8 DEF NamesKnown
<1>11. PsisKept'
  <2>1. added \in Seq(PsisAt(pos))
    BY <1>6, <1>8
  <2>2. psiList \in Seq(PsisIn(Visited))
    BY <1>1 DEF PsisKept
  <2>3. /\ psiList' \in Seq(PsisIn(next))
        /\ Range(psiList') = Range(psiList) \cup PsisAt(pos)
    <3>1. psiList \in Seq(PsisIn(next)) /\ added \in Seq(PsisIn(next))
      BY <1>7, <2>1, <2>2
    <3>2. Range(added) = PsisAt(pos)
      BY <1>8 DEF Range
    <3> DEFINE a == added
    <3>3. psiList' = psiList \o a
      BY <1>2
    <3>4. a \in Seq(PsisIn(next)) /\ Range(a) = PsisAt(pos)
      BY <3>1, <3>2
    <3> HIDE DEF a
    <3>5. QED
      BY <3>1, <3>3, <3>4, ConcatFacts
  <2>4. ASSUME phase' # "fatal"
        PROVE  \A psi \in PsisAt(pos) : psi.checkName # NoName
    <3>1. \A i \in DOMAIN annots : annots[i].check # NoName
      BY <1>2, <2>4
    <3>2. \A i \in DOMAIN annots : PsiOf(d, annots[i]).checkName = annots[i].check
      BY DEF PsiOf
    <3>3. \A psi \in PsisAt(pos) : \E i \in DOMAIN annots : psi = PsiOf(d, annots[i])
      BY DEF PsisAt
    <3> HIDE DEF annots, d
    <3>4. QED
      BY <3>1, <3>2, <3>3
  <2>5. \A psi \in PsisIn(Visited) : psi.checkName # NoName /\ psi \in Range(psiList)
    BY <1>1, <1>3 DEF PsisKept, Parsing
  <2>7. phase' \notin Parsing
    BY <1>3 DEF Parsing
  <2>8. phase' # "fatal" =>
          \A psi \in PsisIn(next) : psi.checkName # NoName /\ psi \in Range(psiList')
    BY <1>7, <2>3, <2>4, <2>5
  <2>9. QED
    BY <1>9, <2>3, <2>7, <2>8 DEF PsisKept
<1>12. PairsKnown'
  BY <1>1, <1>3, <1>5 DEF PairsKnown, Parsing
<1>13. FunctionsKnown'
  <2>1. tu[pos].kind # "function"
    BY <1>4
  <2>2. QED
    BY <1>1, <1>3, <1>4, <2>1, FunctionsVisited DEF next
<1>14. UnitsKnown'
  BY <1>1, <1>3 DEF UnitsKnown
<1>15. FatalKnown'
  <2> SUFFICES ASSUME phase' = "fatal" PROVE CannotParse'
    BY DEF FatalKnown
  <2>1. PICK i \in DOMAIN annots : annots[i].check = NoName
    BY <1>2, <1>3
  <2>2. PsiOf(d, annots[i]) \in Psis
    BY <1>4, <1>5, AnnotIsPsi DEF Psis
  <2>3. PsiOf(d, annots[i]).checkName = NoName
    BY <2>1 DEF PsiOf
  <2>4. CannotParse
    BY <1>1, <2>2, <2>3, BadPair
  <2>5. QED
    BY <1>4, <2>4, SameUnit
<1>16. QED
  BY <1>4, <1>10, <1>11, <1>12, <1>13, <1>14, <1>15 DEF IInv

\* A field or record without annotations of pairs
LEMMA PlainDeclStep ==
  ASSUME IInv, ~HasPairs, NEW kind \in {"field", "record"}, Visits(kind),
         UNCHANGED <<phase, functions, units>>
  PROVE  IInv'
<1>1. UnitKnown /\ FunctionsKnown /\ UnitsKnown
  BY DEF IInv
<1>2. phase = "traverse" /\ phase' = "traverse"
  BY DEF Visits
<1>3. /\ UnitKnown' /\ tu[pos].kind = kind
      /\ Visited' = Visited \cup {pos}
      /\ tu' = tu /\ checker' = checker
  BY <1>1, <1>2, VisitFacts
<1>4. ~HasPairs'
  BY <1>3 DEF HasPairs
<1>5. FunctionsKnown'
  <2>1. tu[pos].kind # "function"
    BY <1>3
  <2>2. QED
    BY <1>1, <1>2, <1>3, <2>1, FunctionsVisited
<1>6. UnitsKnown'
  BY <1>1, <1>2, <1>3, <1>4 DEF UnitsKnown, HasPairs
<1>7. FatalKnown'
  BY <1>2 DEF FatalKnown
<1>8. QED
  BY <1>3, <1>4, <1>5, <1>6, <1>7 DEF IInv, NamesKnown, PsisKept, PairsKnown

LEMMA FieldStep == ASSUME IInv, VisitFieldDecl PROVE IInv'
<1>1. Visits("field") /\ UNCHANGED <<functions, usedVars, pairs, units>>
  BY DEF VisitFieldDecl
<1>2. CASE HasPairs
  <2>1. AddAnnotated(tu[pos])
    BY <1>2 DEF VisitFieldDecl
  <2>2. QED
    BY <1>1, <1>2, <2>1, AddAnnotatedStep
<1>3. CASE ~HasPairs
  <2>1. phase' = phase
    BY <1>3 DEF VisitFieldDecl, InsertVariable
  <2>2. QED
    BY <1>1, <1>3, <2>1, PlainDeclStep
<1>4. QED
  BY <1>2, <1>3

LEMMA RecordStep == ASSUME IInv, VisitRecordDecl PROVE IInv'
<1>1. Visits("record") /\ UNCHANGED <<functions, usedVars, pairs, units>>
  BY DEF VisitRecordDecl
<1>2. CASE HasPairs
  <2>1. AddAnnotated(tu[pos])
    BY <1>2 DEF VisitRecordDecl, HasPairs
  <2>2. QED
    BY <1>1, <1>2, <2>1, AddAnnotatedStep
<1>3. CASE ~HasPairs
  <2>1. phase' = phase
    BY <1>3 DEF VisitRecordDecl, InsertVariable
  <2>2. QED
    BY <1>1, <1>3, <2>1, PlainDeclStep
<1>4. QED
  BY <1>2, <1>3

-----------------------------------------------------------------------------
(* fillStructures *)

LEMMA HeadTailFacts ==
  ASSUME NEW S, NEW s \in Seq(S), s # <<>>
  PROVE  /\ Head(s) \in S /\ Tail(s) \in Seq(S)
         /\ Range(s) = {Head(s)} \cup Range(Tail(s))
<1> DEFINE n == Len(s)
           h == Head(s)
           t == Tail(s)
<1>1. /\ n \in Nat \ {0} /\ DOMAIN s = 1 .. n /\ h = s[1] /\ h \in S
      /\ t \in Seq(S) /\ DOMAIN t = 1 .. n - 1
      /\ \A i \in 1 .. n - 1 : t[i] = s[i+1]
  OBVIOUS
<1> HIDE DEF n, h, t
<1>2. ASSUME NEW i \in 1 .. n
      PROVE  s[i] \in {h} \cup Range(t)
  <2>1. CASE i = 1
    BY <1>1, <2>1
  <2>2. CASE i # 1
    <3>1. i - 1 \in 1 .. n - 1 /\ (i - 1) + 1 = i
      BY <1>1, <2>2
    <3>2. t[i-1] = s[i]
      BY <1>1, <3>1
    <3>3. QED
      BY <1>1, <3>1, <3>2 DEF Range
  <2>3. QED
    BY <2>1, <2>2
<1>3. ASSUME NEW i \in 1 .. n - 1
      PROVE  t[i] \in Range(s)
  <2>1. i + 1 \in 1 .. n /\ t[i] = s[i+1]
    BY <1>1
  <2>2. QED
    BY <1>1, <2>1 DEF Range
<1>4. h \in Range(s)
  <2>1. 1 \in 1 .. n
    BY <1>1
  <2>2. QED
    BY <1>1, <2>1 DEF Range
<1>5. Range(s) = {h} \cup Range(t)
  <2>1. Range(s) = {s[i] : i \in 1 .. n} /\ Range(t) = {t[i] : i \in 1 .. n - 1}
    BY <1>1 DEF Range
  <2>2. QED
    BY <1>2, <1>3, <1>4, <2>1
<1>6. QED
  BY <1>1, <1>5 DEF h, t

\* The name of the last declaration with it
LEMMA NamedIs ==
  ASSUME UnitKnown, NEW name, NEW j, LastOf(j, name, Places)
  PROVE  Named(name) = tu[j].nd
<1> DEFINE IsLast(i) == /\ i \in DOMAIN tu
                        /\ tu[i].kind \in {"field", "record"}
                        /\ tu[i].name = name
                        /\ \A k \in i + 1 .. Len(tu) :
                             tu[k].kind \in {"field", "record"} => tu[k].name # name
<1>1. DOMAIN tu = Places /\ Len(tu) \in Nat
  BY UnitFacts
<1>2. IsLast(j)
  BY <1>1 DEF LastOf, HoldsPairs, Places
<1>3. ASSUME NEW i, IsLast(i)
      PROVE  i = j
  <2>1. i \in 1 .. Len(tu) /\ j \in 1 .. Len(tu)
    BY <1>1, <1>2, <1>3 DEF Places
  <2>2. ~(i < j)
    <3>1. SUFFICES ASSUME i < j PROVE FALSE
      OBVIOUS
    <3>2. j \in i + 1 .. Len(tu)
      BY <1>1, <2>1, <3>1
    <3>3. QED
      BY <1>2, <1>3, <3>2
  <2>3. ~(i > j)
    BY <1>2, <1>3, <2>1 DEF LastOf, HoldsPairs, Places
  <2>4. QED
    BY <1>1, <2>1, <2>2, <2>3
<1>4. (CHOOSE i \in DOMAIN tu :
         /\ tu[i].kind \in {"field", "record"}
         /\ tu[i].name = name
         /\ \A k \in i + 1 .. Len(tu) :
              tu[k].kind \in {"field", "record"} => tu[k].name # name) = j
  BY <1>2, <1>3
<1>5. QED
  BY <1>4 DEF Named

\* As many declarations have a name as its set has functions.
LEMMA CountDeclared ==
  ASSUME UnitKnown, NEW s \in LogNames, NEW ds, NEW fs,
         ds = {d \in Decls("function") : d.name = s}, fs = DeclaredIn(Places, s)
  PROVE  /\ IsFiniteSet(ds) /\ Cardinality(ds) \in Nat
         /\ Cardinality(fs) = Cardinality(ds)
         /\ ds = {} <=> fs = {}
         /\ ds # {} => Cardinality(ds) >= 1
<1> DEFINE at == {k \in Places : tu[k].kind = "function" /\ tu[k].name = s}
           f  == [k \in at |-> tu[k]]
           g  == [k \in at |-> tu[k].fd]
<1>1. Len(tu) \in Nat /\ IsUnit(tu) /\ DOMAIN tu = Places
      /\ Range(tu) = {tu[j] : j \in Places}
  BY UnitFacts
<1>2. \A i, j \in at : tu[i].fd = tu[j].fd => i = j
  BY <1>1 DEF IsUnit
<1>3. ds = {tu[k] : k \in at}
  BY <1>1 DEF Decls
<1>4. fs = {tu[k].fd : k \in at}
  BY DEF DeclaredIn, BelongsTo, LogNames
<1>5. IsFiniteSet(at)
  <2>1. IsFiniteSet(Places)
    BY <1>1, FS_Interval DEF Places
  <2>2. QED
    BY <2>1, FS_Subset
<1>6. f \in Bijection(at, ds)
  BY <1>2, <1>3 DEF Bijection, Injection, IsInjective, Surjection
<1>7. g \in Bijection(at, fs)
  BY <1>2, <1>4 DEF Bijection, Injection, IsInjective, Surjection
<1>8. ExistsBijection(at, ds) /\ ExistsBijection(at, fs)
  BY <1>6, <1>7 DEF ExistsBijection
<1>9. ds = {} <=> fs = {}
  <2>1. (ds = {} <=> at = {}) /\ (fs = {} <=> at = {})
    <3>1. ASSUME NEW k \in at
          PROVE  tu[k] \in ds /\ tu[k].fd \in fs
      BY <1>3, <1>4
    <3>2. ASSUME at = {}
          PROVE  ds = {} /\ fs = {}
      <4> HIDE DEF at
      <4>1. QED
        BY <1>3, <1>4, <3>2
    <3> HIDE DEF at
    <3>3. QED
      BY <3>1, <3>2
  <2>2. QED
    BY <2>1
<1> HIDE DEF at
<1>10. IsFiniteSet(ds) /\ Cardinality(ds) = Cardinality(at)
  BY <1>5, <1>8, FS_Bijection
<1>11. Cardinality(fs) = Cardinality(at)
  BY <1>5, <1>8, FS_Bijection
<1>12. Cardinality(ds) \in Nat
  BY <1>10, FS_CardinalityType
<1>13. Cardinality(ds) = 0 <=> ds = {}
  BY <1>10, FS_EmptySet
<1>14. QED
  BY <1>9, <1>10, <1>11, <1>12, <1>13

\* setTxMode's assertion, in terms of the declarations
LEMMA TxModeFacts ==
  ASSUME UnitKnown, checker = "log", NEW ends, NEW begins,
         functions = [s \in FunctionSets |-> DeclaredIn(Places, s)],
         begins = {d \in Decls("function") : d.name = "tx_begin"},
         ends = {d \in Decls("function") : d.name = "tx_end"}
  PROVE  /\ TxModeAsserts <=> /\ begins # {} /\ ends # {}
                              /\ Cardinality(begins \cup ends) > 2
         /\ functions["tx_begin"] = {} <=> begins = {}
<1> DEFINE fb == DeclaredIn(Places, "tx_begin")
           fe == DeclaredIn(Places, "tx_end")
<1>1. functions["tx_begin"] = fb /\ functions["tx_end"] = fe
  BY DEF FunctionSets, LogNames
<1> HIDE DEF fb, fe
<1>2. /\ IsFiniteSet(begins) /\ Cardinality(begins) \in Nat
      /\ Cardinality(fb) = Cardinality(begins)
      /\ begins = {} <=> fb = {}
      /\ begins # {} => Cardinality(begins) >= 1
  BY CountDeclared DEF fb, LogNames
<1>3. /\ IsFiniteSet(ends) /\ Cardinality(ends) \in Nat
      /\ Cardinality(fe) = Cardinality(ends)
      /\ ends = {} <=> fe = {}
      /\ ends # {} => Cardinality(ends) >= 1
  BY CountDeclared DEF fe, LogNames
<1>4. begins \cap ends = {}
  OBVIOUS
<1>5. Cardinality(begins \cap ends) = 0
  BY <1>4, FS_EmptySet
<1> DEFINE both == Cardinality(begins \cup ends)
           b    == Cardinality(begins)
           e    == Cardinality(ends)
<1>6. both = b + e - Cardinality(begins \cap ends)
  BY <1>2, <1>3, FS_Union
<1>7. TxModeAsserts <=> fb # {} /\ fe # {} /\ ~(b = 1 /\ e = 1)
  BY <1>1, <1>2, <1>3 DEF TxModeAsserts
<1>8. b \in Nat /\ e \in Nat /\ both = b + e
  BY <1>2, <1>3, <1>5, <1>6
<1>9. /\ begins = {} <=> fb = {}
      /\ ends = {} <=> fe = {}
      /\ begins # {} => b >= 1
      /\ ends # {} => e >= 1
  BY <1>2, <1>3
<1> HIDE DEF both, b, e
<1>10. fb # {} /\ fe # {} => (both > 2 <=> ~(b = 1 /\ e = 1))
  BY <1>8, <1>9
<1>11. QED
  BY <1>1, <1>7, <1>9, <1>10 DEF both

-----------------------------------------------------------------------------
(* The steps after TraverseDecl *)

\* They visit nothing and declare no name.
LEMMA SameNames ==
  ASSUME UNCHANGED <<tu, checker, pos, strToND>>
  PROVE  /\ NamesKnown => NamesKnown'
         /\ Visited' = Visited /\ Places' = Places /\ Psis' = Psis
         /\ PsisIn(Visited)' = PsisIn(Visited)
         /\ HasPairs' <=> HasPairs
         /\ CannotParse' <=> CannotParse
         /\ \A psi : Resolved(psi)' <=> Resolved(psi)
         /\ \A psi : PairOf(psi)' = PairOf(psi)
<1>1. /\ Visited' = Visited /\ Places' = Places /\ Psis' = Psis
      /\ HasPairs' <=> HasPairs
      /\ CannotParse' <=> CannotParse
      /\ \A j : HoldsPairs(j)' <=> HoldsPairs(j)
      /\ \A j, n, S : LastOf(j, n, S)' <=> LastOf(j, n, S)
  BY SameUnit DEF Visited
<1>2. PsisIn(Visited)' = PsisIn(Visited)
  BY <1>1 DEF PsisIn, PsisAt
<1>3. \A j, n : LastOf(j, n, Visited)' <=> LastOf(j, n, Visited)
  BY <1>1 DEF LastOf
<1>4. NamesKnown => NamesKnown'
  BY <1>1, <1>3 DEF NamesKnown
<1>5. \A psi : Resolved(psi)' <=> Resolved(psi)
  BY DEF Resolved
<1>6. \A psi : PairOf(psi)' = PairOf(psi)
  BY DEF PairOf, UsesScl, GetRDFromAny, Decls
<1>7. QED
  BY <1>1, <1>2, <1>4, <1>5, <1>6

\* Nor do they change the sets of the log checker.
LEMMA SameSets ==
  ASSUME FunctionsKnown, UNCHANGED <<tu, checker, pos, functions>>,
         checker = "log" /\ phase' \in Parsing =>
           phase \in Parsing \/ ~TxModeAsserts,
         checker = "log" /\ functions["tx_begin"] = {} => units' = units
  PROVE  FunctionsKnown'
<1> SUFFICES ASSUME checker = "log" PROVE FunctionsKnown'
  BY DEF FunctionsKnown
<1>1. Visited' = Visited /\ FunctionSets' = FunctionSets
  BY SameFunctions DEF Visited
<1>2. \A s : DeclaredIn(Visited, s)' = DeclaredIn(Visited, s)
  BY <1>1, SameFunctions DEF DeclaredIn
<1>3. TxModeAsserts' <=> TxModeAsserts
  BY DEF TxModeAsserts
<1>4. functions' = [s \in FunctionSets |-> DeclaredIn(Visited, s)]'
  BY <1>1, <1>2 DEF FunctionsKnown
<1>5. /\ phase' \in Parsing => ~TxModeAsserts
      /\ functions["tx_begin"] = {} => DOMAIN units = {}
  BY DEF FunctionsKnown
<1>6. QED
  BY <1>3, <1>4, <1>5 DEF FunctionsKnown

LEMMA FinishTraverseStep == ASSUME IInv, FinishTraverse PROVE IInv'
<1>1. /\ UnitKnown /\ NamesKnown /\ PsisKept /\ PairsKnown /\ FunctionsKnown
      /\ UnitsKnown
  BY DEF IInv
<1>2. /\ phase = "traverse" /\ pos \notin DOMAIN tu
      /\ UNCHANGED <<tu, checker, pos, functions, strToND, psiList, usedVars,
                     pairs, units>>
      /\ phase' \in {"fillMainVars", "autoFindFunctions", "fillTrackMap", "fatal"}
      /\ HasPairs => phase' = "fillMainVars"
      /\ checker = "flushed" => phase' = "autoFindFunctions"
      /\ checker = "log" => phase' = IF TxModeAsserts THEN "fatal" ELSE "fillTrackMap"
      /\ phase' = "fatal" => checker = "log" /\ TxModeAsserts
  BY DEF FinishTraverse, HasPairs
<1>3. /\ Len(tu) \in Nat /\ DOMAIN tu = 1 .. Len(tu)
      /\ pos \in 1 .. Len(tu) + 1
  BY <1>1, UnitFacts DEF UnitKnown, Places
<1>4. pos = Len(tu) + 1 /\ Visited = Places
  BY <1>2, <1>3 DEF Visited, Places
<1>5. UnitKnown'
  BY <1>1, <1>2, <1>4 DEF UnitKnown, Parsing, HasPairs, AllCheckers
<1>6. NamesKnown'
  BY <1>1, <1>2, SameNames
<1>7. PsisKept'
  <2>1. /\ PsisIn(Visited)' = PsisIn(Visited)
        /\ HasPairs' <=> HasPairs
        /\ \A psi : Resolved(psi)' <=> Resolved(psi)
        /\ \A psi : PairOf(psi)' = PairOf(psi)
    BY <1>2, SameNames
  <2>2. phase \notin Parsing /\ phase # "fatal"
    BY <1>2 DEF Parsing
  <2>3. HasPairs' => phase' \notin Parsing \ {"fillMainVars"}
    BY <1>2, <2>1
  <2>4. HasPairs => /\ psiList \in Seq(PsisIn(Visited))
                    /\ \A psi \in PsisIn(Visited) :
                         psi.checkName # NoName /\ psi \in Range(psiList)
    BY <1>1, <2>2 DEF PsisKept, Parsing
  <2>5. QED
    BY <1>2, <2>1, <2>3, <2>4 DEF PsisKept, Parsing
<1>8. PairsKnown'
  <2>1. Table(pairs)' = Table(pairs)
    BY <1>2 DEF Table, VarsIn, FlagsIn
  <2>2. QED
    BY <1>1, <1>2, <2>1, SameNames DEF PairsKnown, Parsing
<1>9. FunctionsKnown'
  <2>1. checker = "log" /\ phase' \in Parsing => ~TxModeAsserts
    BY <1>2 DEF Parsing
  <2>2. QED
    BY <1>1, <1>2, <2>1, SameSets
<1>10. UnitsKnown'
  BY <1>1, <1>2 DEF UnitsKnown
<1>11. FatalKnown'
  <2> SUFFICES ASSUME phase' = "fatal" PROVE CannotParse'
    BY DEF FatalKnown
  <2>1. checker = "log" /\ TxModeAsserts
    BY <1>2
  <2>2. functions = [s \in FunctionSets |-> DeclaredIn(Places, s)]
    BY <1>1, <1>4, <2>1 DEF FunctionsKnown
  <2> DEFINE begins == {d \in Decls("function") : d.name = "tx_begin"}
             ends   == {d \in Decls("function") : d.name = "tx_end"}
  <2>3. /\ begins # {} /\ ends # {}
        /\ Cardinality(begins \cup ends) > 2
    BY <1>1, <2>1, <2>2, TxModeFacts
  <2>4. CannotParse
    BY <2>1, <2>3 DEF CannotParse
  <2>5. QED
    BY <1>2, <2>4, SameNames
<1>12. QED
  BY <1>5, <1>6, <1>7, <1>8, <1>9, <1>10, <1>11 DEF IInv

LEMMA FillMainVarsStep == ASSUME IInv, FillMainVars PROVE IInv'
<1> DEFINE psi == Head(psiList)
<1>1. /\ UnitKnown /\ NamesKnown /\ PsisKept /\ PairsKnown /\ FunctionsKnown
      /\ UnitsKnown
  BY DEF IInv
<1>2. /\ phase = "fillMainVars" /\ psiList # <<>> /\ psiList' = Tail(psiList)
      /\ UNCHANGED <<tu, checker, pos, functions, strToND, units>>
      /\ phase' = IF Resolved(psi) THEN phase ELSE "fatal"
      /\ ~Resolved(psi) => UNCHANGED <<pairs, usedVars>>
  BY DEF FillMainVars, Resolved
<1>3. checker # "log" /\ HasPairs
      /\ phase' \in {"fillMainVars", "fatal"}
  BY <1>1, <1>2 DEF UnitKnown, HasPairs
<1>4. Visited = Places /\ PsisIn(Visited) = Psis
  BY <1>1, <1>2, UnitFacts DEF Parsing, Psis
<1>5. UnitKnown'
  BY <1>1, <1>2, <1>3 DEF UnitKnown, Parsing, HasPairs
<1>6. NamesKnown'
  BY <1>1, <1>2, SameNames
<1>7. ASSUME HasPairs
      PROVE  /\ psi \in Psis /\ psiList' \in Seq(Psis)
             /\ Range(psiList) = {psi} \cup Range(psiList')
             /\ psi.dataName \in DOMAIN strToND
  <2>1. psiList \in Seq(Psis)
    BY <1>1, <1>4, <1>7 DEF PsisKept, Parsing
  <2>2. /\ psi \in Psis /\ Tail(psiList) \in Seq(Psis)
        /\ Range(psiList) = {psi} \cup Range(Tail(psiList))
    BY <1>2, <2>1, HeadTailFacts
  <2> DEFINE q == psi
  <2>3. q \in PsisIn(Visited)
    BY <1>4, <2>2
  <2> HIDE DEF q
  <2>4. PICK j \in Visited : /\ HoldsPairs(j)
                             /\ \E i \in DOMAIN PairAnnots(tu[j]) :
                                  q = PsiOf(tu[j], PairAnnots(tu[j])[i])
    BY <2>3, PsiIsAt
  <2>5. q.dataName = tu[j].name
    BY <2>4 DEF PsiOf
  <2>6. q.dataName \in DOMAIN strToND
    BY <1>1, <1>7, <2>4, <2>5 DEF NamesKnown
  <2>7. QED
    BY <1>2, <2>2, <2>6 DEF q
<1>8. ASSUME HasPairs, Resolved(psi)
      PROVE  pairs' = pairs \cup {PairOf(psi)} /\ usedVars' = Table(pairs')
  <2> DEFINE data  == strToND[psi.dataName]
             check == strToND[psi.checkName]
             scl   == UsesScl(data, check, psi.clType)
  <2>1. /\ pairs' = pairs \cup {[data |-> data, check |-> check, isScl |-> scl]}
        /\ usedVars' = InsertPair(InsertPair(usedVars, data, scl), check, scl)
    BY <1>8 DEF FillMainVars, Resolved
  <2>2. PairOf(psi) = [data |-> data, check |-> check, isScl |-> scl]
    BY DEF PairOf
  <2>3. scl \in BOOLEAN
    BY DEF UsesScl
  <2>4. usedVars = Table(pairs)
    BY <1>1, <1>8 DEF PairsKnown
  <2> HIDE DEF data, check, scl
  <2>5. usedVars' = Table(pairs \cup {[data |-> data, check |-> check, isScl |-> scl]})
    BY <2>1, <2>3, <2>4, InsertedPair
  <2>6. QED
    BY <2>1, <2>2, <2>5
<1> HIDE DEF psi
<1>9. PsisKept'
  <2> SUFFICES ASSUME HasPairs PROVE PsisKept'
    BY <1>2, SameNames DEF PsisKept, Parsing
  <2>1. /\ \A q \in Psis : /\ q.checkName # NoName
                           /\ \/ q \in Range(psiList)
                              \/ Resolved(q) /\ PairOf(q) \in pairs
    BY <1>1, <1>2, <1>4 DEF PsisKept, Parsing
  <2>2. ASSUME phase' # "fatal", NEW q \in Psis
        PROVE  q \in Range(psiList') \/ (Resolved(q) /\ PairOf(q) \in pairs')
    <3>1. Resolved(psi) /\ pairs' = pairs \cup {PairOf(psi)}
      BY <1>2, <1>8, <2>2
    <3>2. Range(psiList) = {psi} \cup Range(psiList')
      BY <1>7
    <3>3. q \in Range(psiList) \/ (Resolved(q) /\ PairOf(q) \in pairs)
      BY <2>1
    <3>4. CASE q = psi
      BY <3>1, <3>4
    <3>5. CASE q # psi
      BY <3>1, <3>2, <3>3, <3>5
    <3>6. QED
      BY <3>4, <3>5
  <2>3. PsisIn(Visited)' = Psis
    BY <1>2, <1>4, SameNames
  <2>4. phase' \notin Parsing \ {"fillMainVars"} /\ (phase' # "fatal" => phase' \in Parsing)
    BY <1>3 DEF Parsing
  <2>5. \A q : (Resolved(q)' <=> Resolved(q)) /\ PairOf(q)' = PairOf(q)
    BY <1>2, SameNames
  <2>6. QED
    BY <1>7, <2>1, <2>2, <2>3, <2>4, <2>5 DEF PsisKept, Parsing
<1>10. PairsKnown'
  <2> SUFFICES ASSUME HasPairs PROVE PairsKnown'
    BY <1>2, SameNames DEF PairsKnown
  <2>1. /\ \A p \in pairs : \E q \in Psis : Resolved(q) /\ p = PairOf(q)
        /\ usedVars = Table(pairs)
    BY <1>1, <1>2 DEF PairsKnown, Parsing
  <2>2. \A q : (Resolved(q)' <=> Resolved(q)) /\ PairOf(q)' = PairOf(q)
    BY <1>2, SameNames
  <2>3. Psis' = Psis
    BY <1>2, SameNames
  <2>4. \A p \in pairs' : \E q \in Psis : Resolved(q) /\ p = PairOf(q)
    BY <1>2, <1>7, <1>8, <2>1
  <2>5. usedVars' = Table(pairs')
    BY <1>2, <1>8, <2>1
  <2>6. Table(pairs') = Table(pairs)'
    BY DEF Table, VarsIn, FlagsIn
  <2>7. phase' # "traverse"
    BY <1>3
  <2>8. QED
    BY <2>2, <2>3, <2>4, <2>5, <2>6, <2>7 DEF PairsKnown
<1>11. FunctionsKnown' /\ UnitsKnown'
  <2>1. FunctionsKnown'
    BY <1>2, <1>3 DEF FunctionsKnown
  <2>2. UnitsKnown'
    BY <1>1, <1>2, <1>3 DEF UnitsKnown
  <2>3. QED
    BY <2>1, <2>2
<1>12. FatalKnown'
  <2> SUFFICES ASSUME phase' = "fatal" PROVE CannotParse
    BY <1>2, SameNames DEF FatalKnown
  <2>1. ~Resolved(psi)
    BY <1>2
  <2>2. HasPairs
    BY <1>3
  <2>3. psi.checkName \notin DOMAIN strToND
    BY <1>7, <2>1, <2>2 DEF Resolved
  <2>4. \A j \in Places : HoldsPairs(j) => tu[j].name # psi.checkName
    BY <1>1, <1>4, <2>2, <2>3 DEF NamesKnown
  <2>5. QED
    BY <1>1, <1>7, <2>2, <2>4, BadPair
<1>13. QED
  BY <1>5, <1>6, <1>9, <1>10, <1>11, <1>12 DEF IInv

\* fillMainVars is over, and its tables stay.
LEMMA SameTables ==
  ASSUME IInv, UNCHANGED <<tu, checker, pos, strToND, psiList, usedVars, pairs>>,
         phase \in Parsing, HasPairs => psiList = <<>>,
         phase' \in Parsing \cup {"fatal"}, phase' # "fillMainVars",
         phase' = "autoFindFunctions" => checker # "log",
         phase' = "fatal" => CannotParse /\ ~HasPairs
  PROVE  UnitKnown' /\ NamesKnown' /\ PsisKept' /\ PairsKnown' /\ FatalKnown'
<1>1. UnitKnown /\ NamesKnown /\ PsisKept /\ PairsKnown
  BY DEF IInv
<1>2. UnitKnown'
  BY <1>1 DEF UnitKnown, Parsing
<1>3. /\ NamesKnown'
      /\ PsisIn(Visited)' = PsisIn(Visited) /\ Psis' = Psis
      /\ HasPairs' <=> HasPairs
      /\ CannotParse' <=> CannotParse
      /\ \A psi : Resolved(psi)' <=> Resolved(psi)
      /\ \A psi : PairOf(psi)' = PairOf(psi)
  BY <1>1, SameNames
<1>4. PsisKept'
  <2> SUFFICES ASSUME HasPairs PROVE PsisKept'
    BY <1>3 DEF PsisKept
  <2>1. phase # "fatal"
    BY DEF Parsing
  <2>2. /\ psiList \in Seq(PsisIn(Visited))
        /\ \A psi \in PsisIn(Visited) :
             /\ psi.checkName # NoName
             /\ \/ psi \in Range(psiList)
                \/ Resolved(psi) /\ PairOf(psi) \in pairs
    BY <1>1, <2>1 DEF PsisKept
  <2>3. phase' \in Parsing
    OBVIOUS
  <2>4. QED
    BY <1>3, <2>2, <2>3 DEF PsisKept
<1>5. PairsKnown'
  <2> SUFFICES ASSUME HasPairs PROVE PairsKnown'
    BY <1>3 DEF PairsKnown
  <2>1. /\ \A p \in pairs : \E psi \in Psis : Resolved(psi) /\ p = PairOf(psi)
        /\ usedVars = Table(pairs)
    BY <1>1 DEF PairsKnown
  <2>2. Table(pairs)' = Table(pairs)
    BY DEF Table, VarsIn, FlagsIn
  <2>3. phase' # "traverse"
    BY DEF Parsing
  <2>4. QED
    BY <1>3, <2>1, <2>2, <2>3 DEF PairsKnown
<1>6. FatalKnown'
  BY <1>3 DEF FatalKnown
<1>7. QED
  BY <1>2, <1>3, <1>4, <1>5, <1>6

LEMMA FinishMainVarsStep == ASSUME IInv, FinishMainVars PROVE IInv'
<1>1. /\ phase = "fillMainVars" /\ psiList = <<>> /\ phase' = "autoFindFunctions"
      /\ UNCHANGED <<tu, checker, pos, functions, strToND, psiList, usedVars,
                     pairs, units>>
  BY DEF FinishMainVars
<1>2. UnitKnown /\ FunctionsKnown /\ UnitsKnown
  BY DEF IInv
<1>3. checker # "log"
  BY <1>1, <1>2 DEF UnitKnown, HasPairs
<1>4. UnitKnown' /\ NamesKnown' /\ PsisKept' /\ PairsKnown' /\ FatalKnown'
  BY <1>1, <1>3, SameTables DEF Parsing
<1>5. FunctionsKnown'
  BY <1>1, <1>3 DEF FunctionsKnown
<1>6. UnitsKnown'
  BY <1>1, <1>2 DEF UnitsKnown
<1>7. QED
  BY <1>4, <1>5, <1>6 DEF IInv

LEMMA AutoFindFunctionsStep == ASSUME IInv, AutoFindFunctions PROVE IInv'
<1>1. /\ phase = "autoFindFunctions" /\ phase' = "fillTrackMap"
      /\ UNCHANGED <<tu, checker, pos, strToND, psiList, usedVars, pairs, units>>
  BY DEF AutoFindFunctions
<1>2. UnitKnown /\ UnitsKnown /\ PsisKept
  BY DEF IInv
<1>3. checker # "log" /\ (HasPairs => psiList = <<>>)
  BY <1>1, <1>2 DEF UnitKnown, PsisKept, Parsing
<1>4. UnitKnown' /\ NamesKnown' /\ PsisKept' /\ PairsKnown' /\ FatalKnown'
  BY <1>1, <1>3, SameTables DEF Parsing
<1>5. FunctionsKnown'
  BY <1>1, <1>3 DEF FunctionsKnown
<1>6. UnitsKnown'
  BY <1>1, <1>2 DEF UnitsKnown
<1>7. QED
  BY <1>4, <1>5, <1>6 DEF IInv

LEMMA FillTrackMapStep == ASSUME IInv, FillTrackMap PROVE IInv'
<1>1. /\ phase = "fillTrackMap" /\ checker # "main"
      /\ UNCHANGED <<tu, checker, pos, functions, strToND, psiList, usedVars, pairs>>
      /\ phase' \in {"fillTrackMap", "fatal"}
      /\ checker = "log" /\ functions["tx_begin"] = {} => units' = units
      /\ functions["analyzed"] # {}
      /\ phase' = "fatal" => checker = "log" /\ functions["tx_begin"] = {}
  BY DEF FillTrackMap
<1>2. UnitKnown /\ UnitsKnown /\ PsisKept /\ FunctionsKnown
  BY DEF IInv
<1>3. HasPairs => psiList = <<>>
  BY <1>1, <1>2 DEF PsisKept, Parsing
<1>4. Visited = Places
  BY <1>1, <1>2, UnitFacts DEF Parsing
<1>5. ASSUME phase' = "fatal"
      PROVE  CannotParse /\ ~HasPairs
  <2>1. checker = "log" /\ functions["tx_begin"] = {}
    BY <1>1, <1>5
  <2>2. functions = [s \in FunctionSets |-> DeclaredIn(Places, s)]
    BY <1>2, <1>4, <2>1 DEF FunctionsKnown
  <2> DEFINE begins == {d \in Decls("function") : d.name = "tx_begin"}
             ends   == {d \in Decls("function") : d.name = "tx_end"}
  <2>3. begins = {}
    BY <1>2, <2>1, <2>2, TxModeFacts
  <2>4. DeclaredIn(Places, "analyzed") # {}
    BY <1>1, <2>2 DEF FunctionSets
  <2>5. PICK j \in Places : tu[j].kind = "function" /\ BelongsTo(tu[j], "analyzed")
    BY <2>4 DEF DeclaredIn
  <2>6. "LogCode" \in tu[j].annots
    BY <2>1, <2>5 DEF BelongsTo, IsAnnotated, AnalyzeAnnotation
  <2>7. tu[j] \in Decls("function")
    BY <1>2, <2>5, UnitFacts DEF Decls
  <2>8. QED
    BY <2>1, <2>3, <2>6, <2>7 DEF CannotParse, HasPairs
<1>6. UnitKnown' /\ NamesKnown' /\ PsisKept' /\ PairsKnown' /\ FatalKnown'
  <2>1. phase \in Parsing /\ phase' \in Parsing \cup {"fatal"}
    BY <1>1 DEF Parsing
  <2>2. QED
    BY <1>1, <1>3, <1>5, <2>1, SameTables
<1>7. FunctionsKnown'
  BY <1>1, <1>2, SameSets DEF Parsing
<1>8. UnitsKnown'
  BY <1>1 DEF UnitsKnown
<1>9. QED
  BY <1>6, <1>7, <1>8 DEF IInv

LEMMA FillTrackVarsStep == ASSUME IInv, FillTrackVars PROVE IInv'
<1>1. /\ phase = "fillTrackMap" /\ checker = "main" /\ phase' = phase
      /\ UNCHANGED <<tu, checker, pos, functions, strToND, psiList, usedVars, pairs>>
  BY DEF FillTrackVars
<1>2. UnitKnown /\ UnitsKnown /\ PsisKept /\ FunctionsKnown
  BY DEF IInv
<1>3. HasPairs => psiList = <<>>
  BY <1>1, <1>2 DEF PsisKept, Parsing
<1>4. UnitKnown' /\ NamesKnown' /\ PsisKept' /\ PairsKnown' /\ FatalKnown'
  BY <1>1, <1>3, SameTables DEF Parsing
<1>5. FunctionsKnown'
  BY <1>1 DEF FunctionsKnown
<1>6. UnitsKnown'
  <2>1. PICK fd, nds, kinds :
          /\ fd \in functions["analyzed"]
          /\ nds = {nd \in GetNDs(fd) : IsUsedVar(nd)}
          /\ \A nd \in nds : kinds[nd] \in KindsOfLast(PairList(nd))
          /\ units' = Put(units, fd, [vars |-> nds, funcs |-> {}, kinds |-> kinds])
    BY DEF FillTrackVars
  <2>2. \A nd \in nds : nd \in DOMAIN usedVars
    BY <1>1, <2>1 DEF IsUsedVar, HasPairs
  <2> DEFINE new == [vars |-> nds, funcs |-> {}, kinds |-> kinds]
  <2>3. new.vars = nds /\ new.kinds = kinds
    OBVIOUS
  <2> HIDE DEF new
  <2>4. /\ DOMAIN units' = DOMAIN units \cup {fd}
        /\ \A f \in DOMAIN units' : units'[f] = IF f = fd THEN new ELSE units[f]
    BY <2>1 DEF Put, new
  <2>5. \A f \in DOMAIN units' : \A v \in units'[f].vars :
          /\ v \in DOMAIN usedVars
          /\ units'[f].kinds[v] \in KindsOfLast(PairList(v))
    BY <1>1, <1>2, <2>1, <2>2, <2>3, <2>4 DEF UnitsKnown
  <2>6. \A v : KindsOfLast(PairList(v))' = KindsOfLast(PairList(v))
    BY <1>1 DEF KindsOfLast, PairList
  <2>7. QED
    BY <1>1, <2>5, <2>6 DEF UnitsKnown
<1>7. QED
  BY <1>4, <1>5, <1>6 DEF IInv

LEMMA FinishTrackMapStep == ASSUME IInv, FinishTrackMap PROVE IInv'
<1>1. /\ phase = "fillTrackMap" /\ phase' = "done"
      /\ functions["analyzed"] \subseteq DOMAIN units
      /\ UNCHANGED <<tu, checker, pos, functions, strToND, psiList, usedVars,
                     pairs, units>>
  BY DEF FinishTrackMap
<1>2. UnitKnown /\ UnitsKnown /\ PsisKept /\ FunctionsKnown
  BY DEF IInv
<1>3. HasPairs => psiList = <<>>
  BY <1>1, <1>2 DEF PsisKept, Parsing
<1>4. UnitKnown' /\ NamesKnown' /\ PsisKept' /\ PairsKnown' /\ FatalKnown'
  BY <1>1, <1>3, SameTables DEF Parsing
<1>5. FunctionsKnown'
  BY <1>1, <1>2, SameSets DEF Parsing
<1>6. UnitsKnown'
  <2>1. \A v : KindsOfLast(PairList(v))' = KindsOfLast(PairList(v))
    BY <1>1 DEF KindsOfLast, PairList
  <2>2. QED
    BY <1>1, <1>2, <2>1 DEF UnitsKnown
<1>7. QED
  BY <1>4, <1>5, <1>6 DEF IInv

LEMMA StutterStep == ASSUME IInv, UNCHANGED vars PROVE IInv'
<1>1. UNCHANGED <<tu, checker, phase, pos, functions, strToND, psiList, usedVars,
                  pairs, units>>
  BY DEF vars
<1>2. /\ UnitKnown /\ NamesKnown /\ PsisKept /\ PairsKnown /\ FunctionsKnown
      /\ UnitsKnown /\ FatalKnown
  BY DEF IInv
<1>3. /\ NamesKnown'
      /\ PsisIn(Visited)' = PsisIn(Visited) /\ Psis' = Psis
      /\ HasPairs' <=> HasPairs
      /\ CannotParse' <=> CannotParse
      /\ \A psi : Resolved(psi)' <=> Resolved(psi)
      /\ \A psi : PairOf(psi)' = PairOf(psi)
  BY <1>1, <1>2, SameNames
<1>4. UnitKnown'
  BY <1>1, <1>2, <1>3 DEF UnitKnown
<1>5. PsisKept'
  BY <1>1, <1>2, <1>3 DEF PsisKept
<1>6. PairsKnown'
  <2>1. Table(pairs)' = Table(pairs)
    BY <1>1 DEF Table, VarsIn, FlagsIn
  <2>2. QED
    BY <1>1, <1>2, <1>3, <2>1 DEF PairsKnown
<1>7. FunctionsKnown'
  <2>1. checker = "log" /\ phase' \in Parsing => phase \in Parsing
    BY <1>1
  <2>2. QED
    BY <1>1, <1>2, <2>1, SameSets
<1>8. UnitsKnown'
  <2>1. \A v : KindsOfLast(PairList(v))' = KindsOfLast(PairList(v))
    BY <1>1 DEF KindsOfLast, PairList
  <2>2. QED
    BY <1>1, <1>2, <2>1 DEF UnitsKnown
<1>9. FatalKnown'
  BY <1>1, <1>2, <1>3 DEF FatalKnown
<1>10. QED
  BY <1>3, <1>4, <1>5, <1>6, <1>7, <1>8, <1>9 DEF IInv

LEMMA InitKnown == ASSUME Init PROVE IInv
<1>1. /\ tu \in TranslationUnits /\ checker \in Checkers /\ phase = "traverse"
      /\ pos = 1 /\ functions = [s \in FunctionSets |-> {}] /\ strToND = [n \in {} |-> NoDecl]
      /\ psiList = <<>> /\ pairs = {}
      /\ usedVars = [v \in {} |-> [isDcl |-> FALSE, isScl |-> FALSE]]
      /\ units = [f \in {} |-> [vars |-> {}, funcs |-> {}]]
  BY DEF Init
<1>2. tu \in Seq(Range(tu)) /\ checker \in AllCheckers
  BY <1>1, UnitsAssumption DEF IsUnit
<1>3. Len(tu) \in Nat
  BY <1>2
<1>4. UnitKnown
  BY <1>1, <1>2, <1>3 DEF UnitKnown, Parsing
<1>5. Visited = {}
  BY <1>1 DEF Visited
<1>6. PsisIn(Visited) = {}
  BY <1>5 DEF PsisIn
<1>7. DOMAIN strToND = {} /\ DOMAIN units = {}
  BY <1>1
<1>8. NamesKnown
  BY <1>5, <1>7 DEF NamesKnown
<1>9. PsisKept
  <2>1. psiList \in Seq(PsisIn(Visited))
    BY <1>1
  <2>2. QED
    BY <1>1, <1>6, <2>1 DEF PsisKept, Parsing
<1>10. PairsKnown
  <2>1. VarsIn(pairs) = {}
    BY <1>1 DEF VarsIn
  <2>2. usedVars = Table(pairs)
    BY <1>1, <2>1 DEF Table
  <2>3. QED
    BY <1>1, <2>2 DEF PairsKnown, Parsing
<1>11. FunctionsKnown
  <2>1. \A s : DeclaredIn(Visited, s) = {}
    BY <1>5 DEF DeclaredIn
  <2>2. functions = [s \in FunctionSets |-> DeclaredIn(Visited, s)]
    BY <1>1, <2>1
  <2>3. QED
    BY <1>1, <1>7, <2>2 DEF FunctionsKnown, Parsing
<1>12. UnitsKnown
  BY <1>1, <1>7 DEF UnitsKnown
<1>13. FatalKnown
  BY <1>1 DEF FatalKnown
<1>14. QED
  BY <1>4, <1>8, <1>9, <1>10, <1>11, <1>12, <1>13 DEF IInv

\* What holds at every step of a parser's constructor, for all units: the
\* names, annotations, pairs, functions and units found so far are those of
\* the declarations visited.
THEOREM Invariant == Spec => []IInv
<1>1. Init => IInv
  BY InitKnown
<1>2. IInv /\ [Next]_vars => IInv'
  BY FunctionStep, FieldStep, RecordStep, FinishTraverseStep, FillMainVarsStep,
     FinishMainVarsStep, AutoFindFunctionsStep, FillTrackMapStep,
     FillTrackVarsStep, FinishTrackMapStep, StutterStep DEF Next
<1>3. QED
  BY <1>1, <1>2, PTL DEF Spec

-----------------------------------------------------------------------------
(* FatalExplained *)

LEMMA DoneCanParse == ASSUME IInv, phase = "done" PROVE ~CannotParse
<1> SUFFICES ASSUME CannotParse PROVE FALSE
  OBVIOUS
<1>1. UnitKnown /\ NamesKnown /\ PsisKept /\ FunctionsKnown /\ UnitsKnown
  BY DEF IInv
<1>2. Visited = Places
  BY <1>1, UnitFacts DEF Parsing
<1>3. CASE HasPairs
  <2>1. PICK psi \in Psis :
          \/ psi.checkName = NoName
          \/ \A j \in Places : HoldsPairs(j) => tu[j].name # psi.checkName
    BY <1>1, <1>3, NoBadPair
  <2>2. /\ psiList = <<>> /\ psi \in PsisIn(Visited)
        /\ psi.checkName # NoName
        /\ psi \in Range(psiList) \/ Resolved(psi)
    BY <1>1, <1>2, <1>3, <2>1 DEF PsisKept, Parsing, Psis
  <2>3. Range(psiList) = {}
    BY <2>2 DEF Range
  <2>4. psi.checkName \in DOMAIN strToND
    BY <2>2, <2>3 DEF Resolved
  <2>5. QED
    BY <1>1, <1>2, <1>3, <2>1, <2>2, <2>4 DEF NamesKnown
<1>4. CASE checker = "log"
  <2> DEFINE begins == {d \in Decls("function") : d.name = "tx_begin"}
             ends   == {d \in Decls("function") : d.name = "tx_end"}
  <2>1. functions = [s \in FunctionSets |-> DeclaredIn(Places, s)]
    BY <1>1, <1>2, <1>4 DEF FunctionsKnown
  <2>2. /\ TxModeAsserts <=> /\ begins # {} /\ ends # {}
                             /\ Cardinality(begins \cup ends) > 2
        /\ functions["tx_begin"] = {} <=> begins = {}
    BY <1>1, <1>4, <2>1, TxModeFacts
  <2>3. \/ TxModeAsserts
        \/ begins = {} /\ \E d \in Decls("function") : "LogCode" \in d.annots
    BY <1>4, <2>2 DEF CannotParse, HasPairs
  <2>4. ~TxModeAsserts
    BY <1>1, <1>4 DEF FunctionsKnown, Parsing
  <2>5. PICK d \in Decls("function") : "LogCode" \in d.annots
    BY <2>3, <2>4
  <2>6. DOMAIN units = {}
    BY <1>1, <1>4, <2>2, <2>3, <2>4 DEF FunctionsKnown
  <2>7. PICK j \in Places : d = tu[j] /\ tu[j].kind = "function"
    BY <1>1, <2>5, UnitFacts DEF Decls
  <2>8. BelongsTo(tu[j], "analyzed")
    BY <1>4, <2>5, <2>7 DEF BelongsTo, IsAnnotated, AnalyzeAnnotation
  <2>9. tu[j].fd \in functions["analyzed"]
    BY <2>1, <2>7, <2>8 DEF DeclaredIn, FunctionSets
  <2>10. QED
    BY <1>1, <2>6, <2>9 DEF UnitsKnown
<1>5. QED
  BY <1>3, <1>4 DEF CannotParse

\* The front end gives up exactly on programs it cannot parse, whatever the
\* program and the checker: the error of addAnnotated or getNDFromStr, the
\* assertion of setTxMode, or the read past the end in getTxFunction.
THEOREM Fatal == Spec => []FatalExplained
<1>1. IInv => FatalExplained
  BY DoneCanParse DEF FatalExplained, IInv, FatalKnown
<1>2. QED
  BY <1>1, Invariant, PTL

-----------------------------------------------------------------------------
(* TablesExact *)

\* The PairInfo of an annotation, in terms of the unit alone
Annotated(d, a) ==
  [data  |-> Named(d.name), check |-> Named(a.check),
   isScl |-> UsesScl(Named(d.name), Named(a.check), a.clType)]

LEMMA AnnotatedIs ==
  ASSUME UnitKnown
  PROVE  \A p : p \in AnnotatedPairs <=>
           \E j \in Places : /\ HoldsPairs(j)
                             /\ \E i \in DOMAIN PairAnnots(tu[j]) :
                                  p = Annotated(tu[j], PairAnnots(tu[j])[i])
<1>1. AnnotatedPairs = UNION {{Annotated(d, a) : a \in Range(PairAnnots(d))} :
                              d \in Decls("field") \cup Decls("record")}
  BY DEF AnnotatedPairs, Annotated
<1>2. Decls("field") \cup Decls("record") =
        {tu[j] : j \in {k \in Places : HoldsPairs(k)}}
  BY PairDecls
<1>3. \A d : Range(PairAnnots(d)) = {PairAnnots(d)[i] : i \in DOMAIN PairAnnots(d)}
  BY DEF Range
<1> DEFINE decls == Decls("field") \cup Decls("record")
<1> HIDE DEF decls
<1>4. ASSUME NEW p
      PROVE  p \in AnnotatedPairs <=>
               \E d \in decls : \E i \in DOMAIN PairAnnots(d) :
                 p = Annotated(d, PairAnnots(d)[i])
  BY <1>1, <1>3 DEF decls
<1>5. QED
  BY <1>2, <1>4 DEF decls

LEMMA PairIsAnnotated ==
  ASSUME UnitKnown, NamesKnown, HasPairs, phase = "done", NEW d, NEW a,
         Resolved(PsiOf(d, a))
  PROVE  PairOf(PsiOf(d, a)) = Annotated(d, a)
<1>1. Visited = Places
  BY UnitFacts DEF Parsing
<1>2. ASSUME NEW n \in DOMAIN strToND
      PROVE  strToND[n] = Named(n)
  <2>1. PICK j \in Visited : LastOf(j, n, Visited) /\ strToND[n] = tu[j].nd
    BY DEF NamesKnown
  <2>2. LastOf(j, n, Places)
    BY <1>1, <2>1
  <2>3. QED
    BY <2>1, <2>2, NamedIs
<1> DEFINE psi == PsiOf(d, a)
<1>3. psi.dataName = d.name /\ psi.checkName = a.check /\ psi.clType = a.clType
  BY DEF PsiOf
<1>4. psi.dataName \in DOMAIN strToND /\ psi.checkName \in DOMAIN strToND
  BY DEF Resolved
<1> HIDE DEF psi
<1>5. strToND[psi.dataName] = Named(d.name) /\ strToND[psi.checkName] = Named(a.check)
  BY <1>2, <1>3, <1>4
<1>6. PairOf(psi) = Annotated(d, a)
  BY <1>3, <1>5 DEF PairOf, Annotated
<1>7. QED
  BY <1>6 DEF psi

LEMMA AllPairs ==
  ASSUME IInv, HasPairs, phase = "done"
  PROVE  pairs = AnnotatedPairs /\ \A p \in pairs : p.isScl \in BOOLEAN
<1>1. UnitKnown /\ NamesKnown /\ PsisKept /\ PairsKnown
  BY DEF IInv
<1>2. Visited = Places /\ PsisIn(Visited) = Psis
  BY <1>1, UnitFacts DEF Parsing, Psis
<1>3. \A p \in pairs : \E psi \in Psis : Resolved(psi) /\ p = PairOf(psi)
  BY <1>1 DEF PairsKnown, Parsing
<1>4. ASSUME NEW psi \in Psis
      PROVE  Resolved(psi) /\ PairOf(psi) \in pairs
  <2>1. psiList = <<>>
    BY <1>1 DEF PsisKept, Parsing
  <2>2. Range(psiList) = {}
    BY <2>1 DEF Range
  <2>3. QED
    BY <1>1, <1>2, <2>2 DEF PsisKept
<1>5. ASSUME NEW p \in pairs
      PROVE  p \in AnnotatedPairs /\ p.isScl \in BOOLEAN
  <2>1. PICK psi \in Psis : Resolved(psi) /\ p = PairOf(psi)
    BY <1>3
  <2>2. PICK j \in Places : /\ HoldsPairs(j)
                            /\ \E i \in DOMAIN PairAnnots(tu[j]) :
                                 psi = PsiOf(tu[j], PairAnnots(tu[j])[i])
    BY PsiIsAt DEF Psis
  <2>3. PICK i \in DOMAIN PairAnnots(tu[j]) : psi = PsiOf(tu[j], PairAnnots(tu[j])[i])
    BY <2>2
  <2>4. p = Annotated(tu[j], PairAnnots(tu[j])[i])
    BY <1>1, <2>1, <2>3, PairIsAnnotated
  <2>5. p \in AnnotatedPairs
    BY <1>1, <2>2, <2>4, AnnotatedIs
  <2>6. p.isScl = UsesScl(Named(tu[j].name), Named(PairAnnots(tu[j])[i].check),
                          PairAnnots(tu[j])[i].clType)
    BY <2>4 DEF Annotated
  <2>7. p.isScl \in BOOLEAN
    BY <2>6 DEF UsesScl
  <2>8. QED
    BY <2>5, <2>7
<1>6. ASSUME NEW p \in AnnotatedPairs
      PROVE  p \in pairs
  <2>1. PICK j \in Places : /\ HoldsPairs(j)
                            /\ \E i \in DOMAIN PairAnnots(tu[j]) :
                                 p = Annotated(tu[j], PairAnnots(tu[j])[i])
    BY <1>1, AnnotatedIs
  <2>2. PICK i \in DOMAIN PairAnnots(tu[j]) :
          p = Annotated(tu[j], PairAnnots(tu[j])[i])
    BY <2>1
  <2> DEFINE psi == PsiOf(tu[j], PairAnnots(tu[j])[i])
  <2>3. psi \in Psis
    BY <2>1, AnnotIsPsi DEF Psis
  <2>4. Resolved(psi) /\ PairOf(psi) \in pairs
    <3> HIDE DEF psi
    <3>1. QED
      BY <1>4, <2>3
  <2>5. PairOf(psi) = p
    BY <1>1, <2>2, <2>4, PairIsAnnotated
  <2>6. QED
    BY <2>4, <2>5
<1>7. QED
  BY <1>5, <1>6

LEMMA GlobalsAre ==
  /\ Globals!UsedVars = VarsIn(AnnotatedPairs)
  /\ \A v : Globals!GetDsclInfo(v) = FlagsIn(AnnotatedPairs, v)
<1>1. Globals!UsedVars = VarsIn(AnnotatedPairs)
  BY DEF Globals!UsedVars, VarsIn
<1>2. ASSUME NEW v
      PROVE  Globals!GetDsclInfo(v) = FlagsIn(AnnotatedPairs, v)
  <2> DEFINE ps    == AnnotatedPairs
             infos == {p \in ps : v \in {p.data, p.check}}
  <2>1. Globals!GetDsclInfo(v) = [isDcl |-> \E p \in infos : ~p.isScl,
                                  isScl |-> \E p \in infos : p.isScl]
    BY DEF Globals!GetDsclInfo, Globals!GetPairInfoSet
  <2> HIDE DEF ps
  <2>2. /\ (\E p \in infos : ~p.isScl) <=>
             \E p \in ps : v \in {p.data, p.check} /\ ~p.isScl
        /\ (\E p \in infos : p.isScl) <=>
             \E p \in ps : v \in {p.data, p.check} /\ p.isScl
    OBVIOUS
  <2>3. [isDcl |-> \E p \in infos : ~p.isScl, isScl |-> \E p \in infos : p.isScl]
          = FlagsIn(ps, v)
    BY <2>2 DEF FlagsIn
  <2>4. QED
    BY <2>1, <2>3 DEF ps
<1>3. QED
  BY <1>1, <1>2

\* MainWalker leaves the kind of some pair of the variable.
LEMMA KindOfSome ==
  ASSUME NEW ps, \A p \in ps : p.isScl \in BOOLEAN, NEW v, NEW kind, NEW info,
         kind \in KindsOfLast({p \in ps : v \in {p.data, p.check}}),
         info = FlagsIn(ps, v)
  PROVE  IF info.isDcl /\ info.isScl THEN kind.isDcl # kind.isScl ELSE kind = info
<1>1. PICK p \in ps : /\ v \in {p.data, p.check}
                      /\ kind = [isDcl |-> ~p.isScl, isScl |-> p.isScl]
  BY DEF KindsOfLast
<1> DEFINE dcl == \E q \in ps : v \in {q.data, q.check} /\ ~q.isScl
           scl == \E q \in ps : v \in {q.data, q.check} /\ q.isScl
<1>2. info = [isDcl |-> dcl, isScl |-> scl]
  BY DEF FlagsIn
<1>3. (p.isScl => scl) /\ (~p.isScl => dcl) /\ p.isScl \in BOOLEAN
  BY <1>1
<1> HIDE DEF dcl, scl
<1>4. (info.isDcl <=> dcl) /\ (info.isScl <=> scl)
  BY <1>2
<1>5. kind.isDcl # kind.isScl
  BY <1>1, <1>3
<1>6. ASSUME ~(dcl /\ scl)
      PROVE  kind = info
  <2>1. (dcl <=> ~p.isScl) /\ (scl <=> p.isScl)
    BY <1>3, <1>6
  <2>2. [isDcl |-> dcl, isScl |-> scl] = [isDcl |-> ~p.isScl, isScl |-> p.isScl]
    <3>1. (dcl = ~p.isScl) /\ (scl = p.isScl)
      BY <1>3, <2>1 DEF dcl, scl
    <3>2. QED
      BY <3>1
  <2>3. QED
    BY <1>1, <1>2, <2>2
<1>7. QED
  BY <1>4, <1>5, <1>6

\* For all units, the tables of the pair and main checker's parsers are those
\* PairGlobals derives from the set of annotated pairs (fillMainVars,
\* insertVariable, fillTrackMap).
THEOREM Tables == Spec => []TablesExact
<1>1. ASSUME IInv, HasPairs, phase = "done"
      PROVE  TablesExact
  <2>1. pairs = AnnotatedPairs /\ \A p \in pairs : p.isScl \in BOOLEAN
    BY <1>1, AllPairs
  <2>2. usedVars = Table(pairs)
    BY <1>1 DEF IInv, PairsKnown
  <2>3. DOMAIN usedVars = Globals!UsedVars
    BY <2>1, <2>2, GlobalsAre DEF Table
  <2>4. \A v \in DOMAIN usedVars : usedVars[v] = Globals!GetDsclInfo(v)
    BY <2>1, <2>2, GlobalsAre DEF Table
  <2>5. ASSUME checker = "main", NEW fd \in DOMAIN units, NEW v \in units[fd].vars,
               NEW info, info = Globals!GetDsclInfo(v)
        PROVE  IF info.isDcl /\ info.isScl
               THEN units[fd].kinds[v].isDcl # units[fd].kinds[v].isScl
               ELSE units[fd].kinds[v] = info
    <3> DEFINE kind == units[fd].kinds[v]
    <3>1. kind \in KindsOfLast({p \in pairs : v \in {p.data, p.check}})
      BY <1>1, <2>5 DEF IInv, UnitsKnown, PairList
    <3>2. info = FlagsIn(pairs, v)
      BY <2>1, <2>5, GlobalsAre
    <3> HIDE DEF kind
    <3>3. IF info.isDcl /\ info.isScl THEN kind.isDcl # kind.isScl ELSE kind = info
      BY <2>1, <3>1, <3>2, KindOfSome
    <3>4. QED
      BY <3>3 DEF kind
  <2>6. QED
    BY <2>1, <2>3, <2>4, <2>5 DEF TablesExact
<1>2. IInv => TablesExact
  BY <1>1 DEF TablesExact
<1>3. QED
  BY <1>2, Invariant, PTL

-----------------------------------------------------------------------------
(* The functions reached *)

\* In one call more
Reaching(fds) == fds \cup UNION {AnalyzedCalls(NodesOf(g)) : g \in fds}

\* The recursive function of ReachedFrom
ReachingUpTo(fds, n, reach) ==
  [i \in 0 .. n |-> IF i = 0 THEN fds ELSE Reaching(reach[i-1])]

LEMMA ReachingExists ==
  ASSUME NEW fds, NEW n \in Nat
  PROVE  \E reach : reach = ReachingUpTo(fds, n, reach)
<1> DEFINE Fails == {k \in Nat : ~\E reach : reach = ReachingUpTo(fds, k, reach)}
<1>1. SUFFICES ASSUME Fails # {} PROVE FALSE
  OBVIOUS
<1>2. PICK k \in Fails : \A j \in Fails : k <= j
  <2>1. Fails \in SUBSET Nat
    OBVIOUS
  <2> HIDE DEF Fails
  <2>2. QED
    BY <1>1, <2>1, Smallest
<1>3. k # 0
  <2>1. SUFFICES ASSUME k = 0 PROVE FALSE
    OBVIOUS
  <2> DEFINE r == [i \in 0 .. 0 |-> fds]
  <2>2. r = ReachingUpTo(fds, 0, r)
    BY DEF ReachingUpTo
  <2>3. QED
    BY <2>1, <2>2
<1>4. PICK r : r = ReachingUpTo(fds, k - 1, r)
  <2>1. k - 1 \in Nat /\ ~(k <= k - 1)
    BY <1>3
  <2>2. QED
    BY <1>2, <2>1
<1> DEFINE s == [i \in 0 .. k |-> IF i < k THEN r[i] ELSE Reaching(r[k-1])]
<1>5. s = ReachingUpTo(fds, k, s)
  <2>1. \A i \in 0 .. k - 1 : s[i] = r[i]
    OBVIOUS
  <2>2. \A i \in 0 .. k - 1 : r[i] = IF i = 0 THEN fds ELSE Reaching(r[i-1])
    BY <1>4 DEF ReachingUpTo
  <2>3. QED
    BY <1>3, <2>1, <2>2 DEF ReachingUpTo
<1>6. QED
  BY <1>5

LEMMA DeclsFinite ==
  ASSUME UnitKnown
  PROVE  /\ IsFiniteSet(Decls("function"))
         /\ Cardinality(Decls("function")) \in Nat
         /\ IsFiniteSet({d.fd : d \in Decls("function")})
         /\ Cardinality({d.fd : d \in Decls("function")})
              <= Cardinality(Decls("function"))
<1> DEFINE at == {k \in Places : tu[k].kind = "function"}
           ds == Decls("function")
           U  == {d.fd : d \in ds}
           f  == [k \in at |-> tu[k]]
           g  == [d \in ds |-> d.fd]
<1>1. Len(tu) \in Nat /\ Range(tu) = {tu[j] : j \in Places}
  BY UnitFacts
<1>2. IsFiniteSet(at)
  <2>1. IsFiniteSet(Places)
    BY <1>1, FS_Interval DEF Places
  <2>2. QED
    BY <2>1, FS_Subset
<1>3. f \in Surjection(at, ds)
  BY <1>1 DEF Decls, Surjection
<1> HIDE DEF at, ds
<1>4. g \in Surjection(ds, U)
  BY DEF Surjection
<1>5. IsFiniteSet(ds)
  BY <1>2, <1>3, FS_Surjection
<1>6. IsFiniteSet(U) /\ Cardinality(U) <= Cardinality(ds)
  BY <1>4, <1>5, FS_Surjection
<1>7. Cardinality(ds) \in Nat
  BY <1>5, FS_CardinalityType
<1>8. QED
  BY <1>5, <1>6, <1>7 DEF ds

LEMMA ReachedUnfold ==
  ASSUME UnitKnown, NEW fds
  PROVE  \E reach : LET n == Cardinality(Decls("function"))
                    IN  /\ ReachedFrom(fds) = reach[n]
                        /\ n \in Nat
                        /\ reach = ReachingUpTo(fds, n, reach)
<1> DEFINE n     == Cardinality(Decls("function"))
           reach == CHOOSE r : r = ReachingUpTo(fds, n, r)
<1>1. ReachedFrom(fds) = reach[n]
  BY DEF ReachedFrom, ReachingUpTo, Reaching
<1>2. n \in Nat
  BY DeclsFinite
<1> HIDE DEF n
<1>3. reach = ReachingUpTo(fds, n, reach)
  BY <1>2, ReachingExists
<1> HIDE DEF reach
<1>4. QED
  BY <1>1, <1>2, <1>3 DEF n

\* The functions of a unit call one another: what they reach from functions
\* of the unit is closed under calls.
LEMMA ReachedClosed ==
  ASSUME UnitKnown, NEW fds, fds \subseteq {d.fd : d \in Decls("function")}
  PROVE  /\ fds \subseteq ReachedFrom(fds)
         /\ \A g \in ReachedFrom(fds) :
              AnalyzedCalls(NodesOf(g)) \subseteq ReachedFrom(fds)
<1> DEFINE n    == Cardinality(Decls("function"))
           U    == {d.fd : d \in Decls("function")}
           next == [X \in SUBSET U |-> Reaching(X)]
<1>1. PICK reach : /\ ReachedFrom(fds) = reach[n] /\ n \in Nat
                   /\ reach = ReachingUpTo(fds, n, reach)
  BY ReachedUnfold
<1>2. \A nodes : AnalyzedCalls(nodes) \subseteq U
  BY DEF AnalyzedCalls, HasBody, Definitions
<1>3. IsFiniteSet(U) /\ Cardinality(U) <= n
  BY DeclsFinite
<1> HIDE DEF U, n
<1>4. \A X \in SUBSET U : X \subseteq Reaching(X) /\ Reaching(X) \in SUBSET U
  BY <1>2 DEF Reaching
<1>5. /\ next \in [SUBSET U -> SUBSET U]
      /\ \A X \in SUBSET U : next[X] = Reaching(X) /\ X \subseteq next[X]
  BY <1>4
<1>6. /\ reach[0] = fds
      /\ \A i \in 0 .. n : i # 0 => reach[i] = Reaching(reach[i-1])
  BY <1>1 DEF ReachingUpTo
<1>7. fds \in SUBSET U
  BY DEF U
<1> HIDE DEF next
<1>8. \A i \in 0 .. n : i # 0 /\ reach[i-1] \in SUBSET U => reach[i] = next[reach[i-1]]
  BY <1>5, <1>6
<1>9. Grows(reach, n, U, next, fds)
  BY <1>1, <1>3, <1>5, <1>6, <1>7, <1>8 DEF Grows
<1>10. /\ reach[n] \in SUBSET U /\ fds \subseteq reach[n]
       /\ next[reach[n]] = reach[n]
  BY <1>9, GrowsToEnd
<1>11. Reaching(ReachedFrom(fds)) = ReachedFrom(fds) /\ fds \subseteq ReachedFrom(fds)
  BY <1>1, <1>5, <1>10
<1>12. QED
  BY <1>11 DEF Reaching

\* It is part of any set that is closed under calls.
LEMMA ReachedLeast ==
  ASSUME UnitKnown, NEW fds, NEW X, fds \subseteq X,
         \A g \in X : AnalyzedCalls(NodesOf(g)) \subseteq X
  PROVE  ReachedFrom(fds) \subseteq X
<1> DEFINE n == Cardinality(Decls("function"))
<1>1. PICK reach : /\ ReachedFrom(fds) = reach[n] /\ n \in Nat
                   /\ reach = ReachingUpTo(fds, n, reach)
  BY ReachedUnfold
<1> HIDE DEF n
<1>2. /\ reach[0] = fds
      /\ \A i \in 0 .. n : i # 0 => reach[i] = Reaching(reach[i-1])
  BY <1>1 DEF ReachingUpTo
<1> DEFINE Bad == {i \in 0 .. n : ~(reach[i] \subseteq X)}
<1>3. Bad = {}
  <2>1. SUFFICES ASSUME Bad # {} PROVE FALSE
    OBVIOUS
  <2>2. PICK k \in Bad : \A j \in Bad : k <= j
    <3>1. Bad \in SUBSET Nat
      OBVIOUS
    <3> HIDE DEF Bad
    <3>2. QED
      BY <2>1, <3>1, Smallest
  <2>3. k \in 0 .. n /\ k # 0
    BY <1>1, <1>2
  <2>4. k - 1 \in 0 .. n /\ k - 1 \notin Bad
    BY <1>1, <2>2, <2>3
  <2>5. reach[k-1] \subseteq X
    BY <2>4
  <2>6. Reaching(reach[k-1]) \subseteq X
    BY <2>5 DEF Reaching
  <2>7. reach[k] \subseteq X
    BY <1>2, <2>3, <2>6
  <2>8. QED
    BY <2>2, <2>7
<1>4. n \in 0 .. n
  BY <1>1
<1>5. QED
  BY <1>1, <1>3, <1>4

-----------------------------------------------------------------------------
(***************************************************************************)
(* Nodes reached over edges E.  The recursive functions over nodes are     *)
(* unions over what is reached, by which they exist, recursive programs    *)
(* included.                                                               *)
(***************************************************************************)

IsEdges(E) == E \in [Nodes -> SUBSET Nodes]
ClosedUnder(E, S) == S \in SUBSET Nodes /\ \A m \in S : E[m] \subseteq S
Closure(E, n) == {m \in Nodes : \A S : ClosedUnder(E, S) /\ n \in S => m \in S}

LEMMA ClosureFacts ==
  ASSUME NEW E, IsEdges(E), NEW n \in Nodes
  PROVE  /\ n \in Closure(E, n) /\ ClosedUnder(E, Closure(E, n))
         /\ \A S : ClosedUnder(E, S) /\ n \in S => Closure(E, n) \subseteq S
BY DEF IsEdges, ClosedUnder, Closure

LEMMA ClosureUnfold ==
  ASSUME NEW E, IsEdges(E), NEW n \in Nodes
  PROVE  Closure(E, n) = {n} \cup UNION {Closure(E, m) : m \in E[n]}
<1> DEFINE S == {n} \cup UNION {Closure(E, m) : m \in E[n]}
<1>1. E[n] \subseteq Nodes
  BY DEF IsEdges
<1>2. ClosedUnder(E, S)
  <2>1. ASSUME NEW m \in S
        PROVE  m \in Nodes /\ E[m] \subseteq S
    <3>1. CASE m = n
      <4>1. \A k \in E[n] : k \in Closure(E, k)
        BY <1>1, ClosureFacts
      <4>2. QED
        BY <3>1, <4>1
    <3>2. CASE m # n
      <4>1. PICK k \in E[n] : m \in Closure(E, k)
        BY <3>2
      <4>2. ClosedUnder(E, Closure(E, k))
        BY <1>1, ClosureFacts
      <4>3. QED
        BY <4>1, <4>2 DEF ClosedUnder
    <3>3. QED
      BY <3>1, <3>2
  <2>2. QED
    BY <2>1 DEF ClosedUnder
<1>3. Closure(E, n) \subseteq S
  BY <1>2, ClosureFacts
<1>4. S \subseteq Closure(E, n)
  <2>1. n \in Closure(E, n) /\ ClosedUnder(E, Closure(E, n))
    BY ClosureFacts
  <2>2. ASSUME NEW m \in E[n]
        PROVE  Closure(E, m) \subseteq Closure(E, n)
    <3>1. m \in Nodes /\ m \in Closure(E, n)
      BY <1>1, <2>1 DEF ClosedUnder
    <3>2. QED
      BY <2>1, <3>1, ClosureFacts
  <2>3. QED
    BY <2>1, <2>2
<1>5. QED
  BY <1>3, <1>4

\* What is gathered on the way: own[m] at each node m
GatheredFrom(E, own, n) == UNION {own[m] : m \in Closure(E, n)}

LEMMA GatheredUnfold ==
  ASSUME NEW E, IsEdges(E), NEW own, NEW n \in Nodes
  PROVE  GatheredFrom(E, own, n) =
           own[n] \cup UNION {GatheredFrom(E, own, k) : k \in E[n]}
<1>1. Closure(E, n) = {n} \cup UNION {Closure(E, k) : k \in E[n]}
  BY ClosureUnfold
<1>2. ASSUME NEW x
      PROVE  x \in GatheredFrom(E, own, n) <=>
               x \in own[n] \/ \E k \in E[n] : x \in GatheredFrom(E, own, k)
  BY <1>1 DEF GatheredFrom
<1>3. QED
  BY <1>2

-----------------------------------------------------------------------------
(* A node and those below it *)

Kids(n) == {n.kids[i] : i \in DOMAIN n.kids}
KidsOf == [n \in Nodes |-> Kids(n)]

LEMMA KidsAreEdges ==
  /\ IsEdges(KidsOf)
  /\ \A n \in Nodes : \A k \in KidsOf[n] :
       Height[n] \in Nat /\ Height[k] \in Nat /\ Height[k] < Height[n]
BY NodesAssumption DEF KidsOf, Kids, IsEdges

\* The recursive function of SubNodes
BelowIn(below) ==
  [n \in Nodes |-> {n} \cup UNION {below[n.kids[i]] : i \in DOMAIN n.kids}]

LEMMA SubNodesUnfold ==
  \A n \in Nodes : SubNodes[n] = {n} \cup UNION {SubNodes[k] : k \in KidsOf[n]}
<1> DEFINE f == [n \in Nodes |-> Closure(KidsOf, n)]
           Of(g, n) == {g[n.kids[i]] : i \in DOMAIN n.kids}
<1>1. ASSUME NEW g, NEW n \in Nodes
      PROVE  Of(g, n) = {g[k] : k \in KidsOf[n]}
  <2>1. KidsOf[n] = {n.kids[i] : i \in DOMAIN n.kids}
    BY DEF KidsOf, Kids
  <2>2. QED
    BY <2>1, Zenon
<1>2. ASSUME NEW g
      PROVE  BelowIn(g) = [n \in Nodes |-> {n} \cup UNION Of(g, n)]
  BY DEF BelowIn
<1> HIDE DEF Of
<1>3. ASSUME NEW n \in Nodes
      PROVE  f[n] = {n} \cup UNION Of(f, n)
  <2>1. Closure(KidsOf, n) = {n} \cup UNION {Closure(KidsOf, k) : k \in KidsOf[n]}
    BY KidsAreEdges, ClosureUnfold
  <2>2. KidsOf[n] \subseteq Nodes
    BY KidsAreEdges DEF IsEdges
  <2>3. {Closure(KidsOf, k) : k \in KidsOf[n]} = {f[k] : k \in KidsOf[n]}
    BY <2>2
  <2>4. f[n] = Closure(KidsOf, n)
    OBVIOUS
  <2>5. QED
    BY <1>1, <2>1, <2>3, <2>4
<1>4. f = [n \in Nodes |-> f[n]]
  OBVIOUS
<1>5. SubNodes = CHOOSE g : g = BelowIn(g)
  BY DEF SubNodes, BelowIn
<1> HIDE DEF f
<1>6. f = BelowIn(f)
  BY <1>2, <1>3, <1>4
<1>7. SubNodes = BelowIn(SubNodes)
  BY <1>5, <1>6
<1>8. ASSUME NEW n \in Nodes
      PROVE  SubNodes[n] = {n} \cup UNION Of(SubNodes, n)
  BY <1>2, <1>7
<1>9. QED
  BY <1>1, <1>8

LEMMA SubNodesAre ==
  \A n \in Nodes : SubNodes[n] = Closure(KidsOf, n)
<1> DEFINE Bad == {Height[n] : n \in {m \in Nodes : SubNodes[m] # Closure(KidsOf, m)}}
<1>1. SUFFICES ASSUME Bad # {} PROVE FALSE
  OBVIOUS
<1>2. Bad \in SUBSET Nat
  BY NodesAssumption
<1>3. PICK h \in Bad : \A j \in Bad : h <= j
  <2> HIDE DEF Bad
  <2>1. QED
    BY <1>1, <1>2, Smallest
<1>4. PICK n \in Nodes : Height[n] = h /\ SubNodes[n] # Closure(KidsOf, n)
  BY <1>3
<1>5. ASSUME NEW k \in KidsOf[n]
      PROVE  SubNodes[k] = Closure(KidsOf, k)
  <2>1. k \in Nodes /\ Height[k] \in Nat /\ Height[n] \in Nat /\ Height[k] < Height[n]
    BY KidsAreEdges DEF IsEdges
  <2>2. Height[k] \notin Bad
    BY <1>2, <1>3, <1>4, <2>1
  <2>3. QED
    BY <2>1, <2>2
<1>6. {SubNodes[k] : k \in KidsOf[n]} = {Closure(KidsOf, k) : k \in KidsOf[n]}
  BY <1>5
<1>7. SubNodes[n] = {n} \cup UNION {SubNodes[k] : k \in KidsOf[n]}
  BY SubNodesUnfold
<1>8. Closure(KidsOf, n) = {n} \cup UNION {Closure(KidsOf, k) : k \in KidsOf[n]}
  BY KidsAreEdges, ClosureUnfold
<1>9. QED
  BY <1>4, <1>6, <1>7, <1>8

\* A node is higher than those below it.
LEMMA BelowIsLower ==
  ASSUME NEW n \in Nodes, NEW m \in SubNodes[n]
  PROVE  m \in Nodes /\ (m = n \/ Height[m] < Height[n])
<1> DEFINE S == {n} \cup {k \in Nodes : Height[k] < Height[n]}
<1>1. ClosedUnder(KidsOf, S)
  <2>1. ASSUME NEW k \in S, NEW l \in KidsOf[k]
        PROVE  l \in S
    <3>1. /\ k \in Nodes /\ l \in Nodes
          /\ Height[k] \in Nat /\ Height[l] \in Nat /\ Height[n] \in Nat
          /\ Height[l] < Height[k]
      BY KidsAreEdges, NodesAssumption DEF IsEdges
    <3>2. k = n \/ Height[k] < Height[n]
      OBVIOUS
    <3>3. Height[l] < Height[n]
      BY <3>1, <3>2
    <3>4. QED
      BY <3>1, <3>3
  <2>2. QED
    BY <2>1 DEF ClosedUnder
<1>2. SubNodes[n] \subseteq S
  BY <1>1, SubNodesAre, KidsAreEdges, ClosureFacts
<1>3. QED
  BY <1>2

\* What is below a node is closed under children, and no more than that.
LEMMA NodesClosed ==
  /\ \A n \in Nodes : n \in SubNodes[n] /\ ClosedUnder(KidsOf, SubNodes[n])
  /\ \A S : ClosedUnder(KidsOf, S) => \A n \in S : SubNodes[n] \subseteq S
<1>1. ASSUME NEW S, ClosedUnder(KidsOf, S), NEW n \in S
      PROVE  SubNodes[n] \subseteq S
  BY <1>1, SubNodesAre, KidsAreEdges, ClosureFacts DEF ClosedUnder
<1>2. \A n \in Nodes : n \in SubNodes[n] /\ ClosedUnder(KidsOf, SubNodes[n])
  BY SubNodesAre, KidsAreEdges, ClosureFacts
<1>3. QED
  BY <1>1, <1>2

\* The statements of a function's body
Roots(fd) == IF HasBody(fd) THEN Range(GetBody(fd)) ELSE {}

LEMMA RootsAreNodes ==
  ASSUME UnitKnown, NEW fd
  PROVE  /\ Roots(fd) \subseteq Nodes
         /\ HasBody(fd) => fd \in {d.fd : d \in Decls("function")}
         /\ NodesOf(fd) = UNION {SubNodes[s] : s \in Roots(fd)}
<1>1. ASSUME HasBody(fd)
      PROVE  Range(GetBody(fd)) \subseteq Nodes
  <2>1. PICK d \in Definitions(fd) : GetBody(fd) = d.body
    BY <1>1 DEF HasBody, GetBody
  <2>2. d \in Range(tu) /\ d.kind = "function"
    BY <2>1 DEF Definitions, Decls
  <2>3. IsDecl(d)
    BY <2>2, UnitsAssumption DEF UnitKnown, IsUnit, Range
  <2>4. \A i \in DOMAIN d.body : d.body[i] \in Nodes
    BY <2>2, <2>3 DEF IsDecl
  <2>5. QED
    BY <2>1, <2>4 DEF Range
<1>2. HasBody(fd) => fd \in {d.fd : d \in Decls("function")}
  <2>1. SUFFICES ASSUME HasBody(fd) PROVE \E d \in Decls("function") : d.fd = fd
    OBVIOUS
  <2>2. {d.fn : d \in {e \in Decls("function") : e.fd = fd}} # {}
    BY <2>1 DEF HasBody, Definitions
  <2>3. QED
    BY <2>2
<1>3. BodyNodes(GetBody(fd)) = UNION {SubNodes[s] : s \in Range(GetBody(fd))}
  BY Zenon DEF BodyNodes, Range
<1>4. QED
  BY <1>1, <1>2, <1>3 DEF Roots, NodesOf

-----------------------------------------------------------------------------
(***************************************************************************)
(* The walks of trackStmt and NDWalker                                     *)
(***************************************************************************)

\* The calls that are followed, and those whose arguments are not seen
Followed(m) ==
  m.kind = "call" /\ HasBody(m.decl) /\ (checker = "main" \/ ~IsSkipFunction(m.decl))
Hides(m) == m.kind = "call" /\ checker # "main" /\ ~Followed(m)

Walk ==
  [m \in Nodes |-> IF Hides(m) THEN {}
                   ELSE Kids(m) \cup IF Followed(m) THEN Roots(m.decl) ELSE {}]

\* The nodes the parser sees of a function
Seen(fd) == UNION {Closure(Walk, s) : s \in Roots(fd)}

LEMMA WalkFacts ==
  ASSUME UnitKnown
  PROVE  /\ IsEdges(Walk)
         /\ \A m \in Nodes : ~Hides(m) => KidsOf[m] \subseteq Walk[m]
         /\ \A m \in Nodes : Followed(m) => Roots(m.decl) \subseteq Walk[m]
<1>1. ASSUME NEW m \in Nodes
      PROVE  /\ Walk[m] \subseteq Nodes
             /\ ~Hides(m) => KidsOf[m] \subseteq Walk[m]
             /\ Followed(m) => Roots(m.decl) \subseteq Walk[m]
  <2>1. Roots(m.decl) \subseteq Nodes
    BY RootsAreNodes
  <2>2. Kids(m) = KidsOf[m] /\ KidsOf[m] \subseteq Nodes
    BY KidsAreEdges DEF IsEdges, KidsOf
  <2>3. Followed(m) => ~Hides(m)
    BY DEF Hides
  <2>4. Walk[m] = IF Hides(m) THEN {}
                  ELSE Kids(m) \cup IF Followed(m) THEN Roots(m.decl) ELSE {}
    BY DEF Walk
  <2>5. QED
    BY <2>1, <2>2, <2>3, <2>4
<1>2. Walk = [m \in Nodes |-> Walk[m]]
  BY DEF Walk
<1>3. Walk \in [Nodes -> SUBSET Nodes]
  <2> DEFINE W == Walk
  <2>1. W = [m \in Nodes |-> W[m]] /\ \A m \in Nodes : W[m] \subseteq Nodes
    BY <1>1, <1>2
  <2> HIDE DEF W
  <2>2. W \in [Nodes -> SUBSET Nodes]
    BY <2>1
  <2>3. QED
    BY <2>2 DEF W
<1>4. QED
  BY <1>1, <1>3 DEF IsEdges

LEMMA SeenFacts ==
  ASSUME UnitKnown, NEW fd
  PROVE  /\ Roots(fd) \subseteq Seen(fd) /\ Seen(fd) \subseteq Nodes
         /\ ClosedUnder(Walk, Seen(fd))
         /\ \A S : ClosedUnder(Walk, S) /\ Roots(fd) \subseteq S => Seen(fd) \subseteq S
<1>1. \A s \in Roots(fd) :
        /\ s \in Closure(Walk, s) /\ ClosedUnder(Walk, Closure(Walk, s))
        /\ \A S : ClosedUnder(Walk, S) /\ s \in S => Closure(Walk, s) \subseteq S
  BY RootsAreNodes, WalkFacts, ClosureFacts
<1>2. Roots(fd) \subseteq Seen(fd)
  BY <1>1 DEF Seen
<1>3. ClosedUnder(Walk, Seen(fd))
  BY <1>1 DEF Seen, ClosedUnder
<1>4. Seen(fd) \subseteq Nodes
  BY <1>3 DEF ClosedUnder
<1>5. ASSUME NEW S, ClosedUnder(Walk, S), Roots(fd) \subseteq S
      PROVE  Seen(fd) \subseteq S
  BY <1>1, <1>5 DEF Seen
<1>6. QED
  BY <1>2, <1>3, <1>4, <1>5

\* What the nodes of a function and of those it reaches make of a walk
LEMMA ReachedNodesFacts ==
  ASSUME UnitKnown, NEW fds, fds \subseteq {d.fd : d \in Decls("function")}
  PROVE  /\ ClosedUnder(KidsOf, ReachedNodes(fds))
         /\ \A m \in ReachedNodes(fds) :
              m.kind = "call" /\ HasBody(m.decl) /\ ~IsSkipFunction(m.decl)
              => m.decl \in ReachedFrom(fds)
         /\ \A g \in ReachedFrom(fds) : NodesOf(g) \subseteq ReachedNodes(fds)
         /\ fds \subseteq ReachedFrom(fds)
<1>1. ASSUME NEW g \in ReachedFrom(fds)
      PROVE  ClosedUnder(KidsOf, NodesOf(g))
  <2>1. NodesOf(g) = UNION {SubNodes[s] : s \in Roots(g)} /\ Roots(g) \subseteq Nodes
    BY RootsAreNodes
  <2>2. \A s \in Roots(g) : ClosedUnder(KidsOf, SubNodes[s])
    BY <2>1, NodesClosed
  <2>3. QED
    BY <2>1, <2>2 DEF ClosedUnder
<1>2. ClosedUnder(KidsOf, ReachedNodes(fds))
  BY <1>1 DEF ReachedNodes, ClosedUnder
<1>3. ASSUME NEW m \in ReachedNodes(fds),
             m.kind = "call", HasBody(m.decl), ~IsSkipFunction(m.decl)
      PROVE  m.decl \in ReachedFrom(fds)
  <2>1. PICK g \in ReachedFrom(fds) : m \in NodesOf(g)
    BY DEF ReachedNodes
  <2>2. m.decl \in AnalyzedCalls(NodesOf(g))
    BY <1>3, <2>1 DEF AnalyzedCalls
  <2>3. QED
    BY <2>1, <2>2, ReachedClosed
<1>4. QED
  BY <1>2, <1>3, ReachedClosed DEF ReachedNodes

-----------------------------------------------------------------------------
(* What the engine analyses and the parser does not see *)

\* The engine of the main parser's checker goes nowhere its walk does not.
LEMMA AllSeen ==
  ASSUME UnitKnown, checker = "main", NEW fd
  PROVE  ReachedNodes({fd}) \subseteq Seen(fd)
<1> DEFINE S == Seen(fd)
           X == {g \in {fd} \cup {d.fd : d \in Decls("function")} :
                   Roots(g) \subseteq S}
<1>1. ClosedUnder(KidsOf, S)
  <2>1. \A m \in Nodes : ~Hides(m)
    BY DEF Hides
  <2>2. S \subseteq Nodes /\ ClosedUnder(Walk, S)
    BY SeenFacts
  <2>3. \A m \in Nodes : KidsOf[m] \subseteq Walk[m]
    BY <2>1, WalkFacts
  <2>4. QED
    BY <2>2, <2>3 DEF ClosedUnder
<1>2. ASSUME NEW g, Roots(g) \subseteq S
      PROVE  NodesOf(g) \subseteq S
  <2>1. \A s \in Roots(g) : SubNodes[s] \subseteq S
    BY <1>1, <1>2, NodesClosed
  <2>2. QED
    BY <2>1, RootsAreNodes
<1>3. ASSUME NEW g \in X, NEW h \in AnalyzedCalls(NodesOf(g))
      PROVE  h \in X
  <2>1. PICK m \in NodesOf(g) : h = m.decl /\ m.kind = "call" /\ HasBody(m.decl)
    BY DEF AnalyzedCalls
  <2>2. m \in S /\ Followed(m)
    BY <1>2, <2>1 DEF Followed
  <2>3. Roots(h) \subseteq S
    BY <2>1, <2>2, SeenFacts, WalkFacts DEF ClosedUnder
  <2>4. h \in {d.fd : d \in Decls("function")}
    BY <2>1, RootsAreNodes
  <2>5. QED
    BY <2>3, <2>4
<1>4. fd \in X
  BY SeenFacts
<1>5. ReachedFrom({fd}) \subseteq X
  <2> HIDE DEF X
  <2>1. QED
    BY <1>3, <1>4, ReachedLeast
<1>6. QED
  BY <1>2, <1>5 DEF ReachedNodes

\* The other parsers see all but what is hidden in the arguments of calls
\* that are not followed.
LEMMA SeenOrHidden ==
  ASSUME UnitKnown, checker # "main", NEW fd
  PROVE  ReachedNodes({fd}) \subseteq Seen(fd) \cup Hidden(ReachedNodes({fd}))
<1> DEFINE S     == Seen(fd)
           R     == ReachedNodes({fd})
           U     == {d.fd : d \in Decls("function")}
           calls == {n \in R : n.kind = "call" /\
                       (IsSkipFunction(n.decl) \/ ~HasBody(n.decl))}
           below == UNION {SubNodes[c] \ {c} : c \in calls}
           deep  == ReachedNodes(AnalyzedCalls(below))
           H     == below \cup deep
           X     == {g \in {fd} \cup U : Roots(g) \subseteq S \cup H}
<1>1. Hidden(R) = H
  BY DEF Hidden
<1>2. CASE ~HasBody(fd)
  <2>1. NodesOf(fd) = {}
    BY <1>2 DEF NodesOf
  <2>2. AnalyzedCalls(NodesOf(fd)) \subseteq {fd}
    BY <2>1 DEF AnalyzedCalls
  <2>3. ReachedFrom({fd}) \subseteq {fd}
    BY <2>2, ReachedLeast
  <2>4. R = {}
    BY <2>1, <2>3 DEF ReachedNodes
  <2>5. QED
    BY <2>4
<1>3. CASE HasBody(fd)
  <2>1. fd \in U /\ {fd} \subseteq U
    BY <1>3, RootsAreNodes
  <2>2. /\ ClosedUnder(KidsOf, R)
        /\ \A m \in R : Followed(m) => m.decl \in ReachedFrom({fd})
        /\ \A g \in ReachedFrom({fd}) : NodesOf(g) \subseteq R
        /\ fd \in ReachedFrom({fd})
    BY <2>1, ReachedNodesFacts DEF Followed
  <2>3. ASSUME NEW g \in ReachedFrom({fd})
        PROVE  Roots(g) \subseteq R
    <3>1. \A s \in Roots(g) : s \in NodesOf(g)
      BY RootsAreNodes, NodesClosed
    <3>2. QED
      BY <2>2, <3>1
  <2>4. S \subseteq R
    <3>1. ASSUME NEW m \in R, NEW k \in Walk[m]
          PROVE  k \in R
      <4>1. m \in Nodes /\ KidsOf[m] \subseteq R
        BY <2>2 DEF ClosedUnder
      <4>2. k \in KidsOf[m] \/ (Followed(m) /\ k \in Roots(m.decl))
        BY <3>1, <4>1 DEF Walk, KidsOf
      <4>3. QED
        BY <2>2, <2>3, <4>1, <4>2
    <3>2. R \subseteq Nodes
      BY <2>2 DEF ClosedUnder
    <3>3. ClosedUnder(Walk, R)
      BY <3>1, <3>2 DEF ClosedUnder
    <3>4. QED
      BY <2>2, <2>3, <3>3, SeenFacts
  <2>5. AnalyzedCalls(below) \subseteq U
    BY RootsAreNodes DEF AnalyzedCalls
  <2>6. /\ ClosedUnder(KidsOf, deep)
        /\ \A m \in deep : Followed(m) => m.decl \in ReachedFrom(AnalyzedCalls(below))
        /\ \A g \in ReachedFrom(AnalyzedCalls(below)) : NodesOf(g) \subseteq deep
        /\ AnalyzedCalls(below) \subseteq ReachedFrom(AnalyzedCalls(below))
    <3> DEFINE B == AnalyzedCalls(below)
    <3> HIDE DEF B, below
    <3>1. B \subseteq U
      BY <2>5 DEF B
    <3>2. QED
      BY <3>1, ReachedNodesFacts DEF Followed, B
  <2>7. calls \subseteq Nodes
    BY <2>2 DEF ClosedUnder
  <2> HIDE DEF deep
  <2>8. ASSUME NEW m \in S \cup H
        PROVE  m \in Nodes /\ KidsOf[m] \subseteq S \cup H
    <3>1. CASE m \in S /\ Hides(m)
      <4>1. m \in calls
        BY <2>4, <3>1 DEF Hides, Followed
      <4>2. ClosedUnder(KidsOf, SubNodes[m]) /\ m \in SubNodes[m] /\ m \in Nodes
        BY <2>7, <4>1, NodesClosed
      <4>3. \A k \in KidsOf[m] : k \in SubNodes[m] /\ k # m
        BY <4>2, KidsAreEdges DEF ClosedUnder
      <4> HIDE DEF calls
      <4>4. QED
        BY <4>1, <4>2, <4>3
    <3>2. CASE m \in S /\ ~Hides(m)
      BY <3>2, SeenFacts, WalkFacts DEF ClosedUnder
    <3>3. CASE m \in below
      <4>1. PICK c \in calls : m \in SubNodes[c] /\ m # c
        BY <3>3
      <4>2. c \in Nodes /\ ClosedUnder(KidsOf, SubNodes[c]) /\ m \in Nodes
        BY <2>7, <4>1, NodesClosed, BelowIsLower
      <4>3. Height[m] < Height[c] /\ Height[m] \in Nat /\ Height[c] \in Nat
        BY <4>1, <4>2, BelowIsLower, NodesAssumption
      <4>4. ASSUME NEW k \in KidsOf[m]
            PROVE  k \in SubNodes[c] /\ k # c
        <5>1. k \in SubNodes[c]
          BY <4>1, <4>2 DEF ClosedUnder
        <5>2. Height[k] < Height[m] /\ Height[k] \in Nat
          BY <4>2, KidsAreEdges
        <5>3. QED
          BY <4>3, <5>1, <5>2
      <4> HIDE DEF calls
      <4>5. QED
        BY <4>2, <4>4
    <3>4. CASE m \in deep
      BY <2>6, <3>4 DEF ClosedUnder
    <3>5. QED
      BY <3>1, <3>2, <3>3, <3>4
  <2>9. ClosedUnder(KidsOf, S \cup H)
    BY <2>8 DEF ClosedUnder
  <2>10. ASSUME NEW g, Roots(g) \subseteq S \cup H
         PROVE  NodesOf(g) \subseteq S \cup H
    <3> HIDE DEF H, S
    <3>1. \A s \in Roots(g) : SubNodes[s] \subseteq S \cup H
      BY <2>9, <2>10, NodesClosed
    <3>2. QED
      BY <3>1, RootsAreNodes
  <2>11. ASSUME NEW g \in X, NEW h \in AnalyzedCalls(NodesOf(g))
         PROVE  h \in X
    <3>1. PICK m \in NodesOf(g) : h = m.decl /\ m.kind = "call" /\ HasBody(m.decl)
                                  /\ ~IsSkipFunction(m.decl)
      BY DEF AnalyzedCalls
    <3>2. m \in S \cup H /\ Followed(m)
      BY <2>10, <3>1 DEF Followed
    <3>3. h \in U
      BY <3>1, RootsAreNodes
    <3>4. CASE m \in S
      <4>1. Roots(h) \subseteq S
        BY <3>1, <3>2, <3>4, SeenFacts, WalkFacts DEF ClosedUnder
      <4>2. QED
        BY <3>3, <4>1
    <3>5. CASE m \in H
      <4>1. h \in ReachedFrom(AnalyzedCalls(below))
        <5>1. CASE m \in below
          <6> HIDE DEF below
          <6>1. h \in AnalyzedCalls(below)
            BY <3>1, <5>1 DEF AnalyzedCalls
          <6>2. QED
            BY <2>6, <6>1
        <5>2. CASE m \in deep
          BY <2>6, <3>1, <3>2, <5>2
        <5>3. QED
          BY <3>5, <5>1, <5>2
      <4>2. NodesOf(h) \subseteq deep
        BY <2>6, <4>1
      <4>3. \A s \in Roots(h) : s \in NodesOf(h)
        BY RootsAreNodes, NodesClosed
      <4>4. Roots(h) \subseteq H
        BY <4>2, <4>3
      <4>5. QED
        BY <3>3, <4>4
    <3>6. QED
      BY <3>2, <3>4, <3>5
  <2>12. fd \in X
    BY SeenFacts
  <2>13. ReachedFrom({fd}) \subseteq X
    <3> HIDE DEF X
    <3>1. QED
      BY <2>11, <2>12, ReachedLeast
  <2>14. R \subseteq S \cup H
    BY <2>10, <2>13 DEF ReachedNodes
  <2>15. QED
    BY <1>1, <2>14
<1>4. QED
  BY <1>2, <1>3

-----------------------------------------------------------------------------
(* The recursive functions of the walks *)

\* The recursive functions of TrackStmt and of WalkedNDs
TrackIn(track) ==
  [n \in Nodes |->
     LET children == JoinUnits({track[n.kids[i]] : i \in DOMAIN n.kids})
         here     == [vars |-> Mentioned(n), funcs |-> {}]
     IN  IF n.kind # "call" THEN JoinUnits({here, children})
         ELSE IF ~HasBody(n.decl) \/ IsSkipFunction(n.decl) THEN EmptyUnit
         ELSE LET body   == GetBody(n.decl)
                  callee == JoinUnits({track[body[i]] : i \in DOMAIN body})
              IN  JoinUnits({[vars |-> {}, funcs |-> {n.decl}], callee, children})]

WalkedIn(walked) ==
  [n \in Nodes |->
     LET body == CalledBody(n)
     IN  UNION ({IF n.kind = "member" THEN {n.decl} ELSE {}}
                  \cup {walked[n.kids[i]] : i \in DOMAIN n.kids}
                  \cup {walked[body[i]] : i \in DOMAIN body})]

\* What a node adds itself
OwnVars(n) == IF n.kind = "call" THEN {} ELSE Mentioned(n)
OwnFuncs(n) == IF Followed(n) THEN {n.decl} ELSE {}
OwnNDs(n) == IF n.kind = "member" THEN {n.decl} ELSE {}

\* The units joined, by the variables and the functions of each
LEMMA JoinFacts ==
  ASSUME NEW us
  PROVE  /\ JoinUnits(us).vars = UNION {u.vars : u \in us}
         /\ JoinUnits(us).funcs = UNION {u.funcs : u \in us}
         /\ JoinUnits(us) = [vars |-> JoinUnits(us).vars, funcs |-> JoinUnits(us).funcs]
BY DEF JoinUnits

\* Of a sequence of nodes
UnitsOf(track, ns) == {track[ns[i]] : i \in DOMAIN ns}

LEMMA UnitsOfAre ==
  ASSUME NEW track, NEW ns
  PROVE  UnitsOf(track, ns) = {track[k] : k \in {ns[i] : i \in DOMAIN ns}}
BY Zenon DEF UnitsOf

LEMMA TrackInIs ==
  ASSUME NEW track, NEW n \in Nodes
  PROVE  TrackIn(track)[n] =
           IF n.kind # "call"
           THEN JoinUnits({[vars |-> Mentioned(n), funcs |-> {}],
                           JoinUnits(UnitsOf(track, n.kids))})
           ELSE IF ~HasBody(n.decl) \/ IsSkipFunction(n.decl) THEN EmptyUnit
           ELSE JoinUnits({[vars |-> {}, funcs |-> {n.decl}],
                           JoinUnits(UnitsOf(track, GetBody(n.decl))),
                           JoinUnits(UnitsOf(track, n.kids))})
BY Zenon DEF TrackIn, UnitsOf

LEMMA WalkedInIs ==
  ASSUME NEW walked, NEW n \in Nodes
  PROVE  WalkedIn(walked)[n] =
           UNION ({OwnNDs(n)} \cup UnitsOf(walked, n.kids)
                              \cup UnitsOf(walked, CalledBody(n)))
BY Zenon DEF WalkedIn, UnitsOf, OwnNDs

\* A unit with these variables and functions
UnitOf(vs, fs) == [vars |-> vs, funcs |-> fs]

LEMMA JoinTwo ==
  ASSUME NEW v1, NEW f1, NEW v2, NEW f2
  PROVE  JoinUnits({UnitOf(v1, f1), UnitOf(v2, f2)}) = UnitOf(v1 \cup v2, f1 \cup f2)
<1> DEFINE a == UnitOf(v1, f1)
           b == UnitOf(v2, f2)
<1>1. a.vars = v1 /\ a.funcs = f1 /\ b.vars = v2 /\ b.funcs = f2
  BY DEF UnitOf
<1> HIDE DEF a, b
<1>2. /\ UNION {u.vars : u \in {a, b}} = a.vars \cup b.vars
      /\ UNION {u.funcs : u \in {a, b}} = a.funcs \cup b.funcs
  OBVIOUS
<1>3. JoinUnits({a, b}) = UnitOf(v1 \cup v2, f1 \cup f2)
  BY <1>1, <1>2 DEF JoinUnits, UnitOf
<1>4. QED
  BY <1>3 DEF a, b

LEMMA JoinThree ==
  ASSUME NEW v1, NEW f1, NEW v2, NEW f2, NEW v3, NEW f3
  PROVE  JoinUnits({UnitOf(v1, f1), UnitOf(v2, f2), UnitOf(v3, f3)}) =
           UnitOf(v1 \cup v2 \cup v3, f1 \cup f2 \cup f3)
<1> DEFINE a == UnitOf(v1, f1)
           b == UnitOf(v2, f2)
           c == UnitOf(v3, f3)
<1>1. /\ a.vars = v1 /\ a.funcs = f1 /\ b.vars = v2 /\ b.funcs = f2
      /\ c.vars = v3 /\ c.funcs = f3
  BY DEF UnitOf
<1> HIDE DEF a, b, c
<1>2. /\ UNION {u.vars : u \in {a, b, c}} = a.vars \cup b.vars \cup c.vars
      /\ UNION {u.funcs : u \in {a, b, c}} = a.funcs \cup b.funcs \cup c.funcs
  OBVIOUS
<1>3. JoinUnits({a, b, c}) = UnitOf(v1 \cup v2 \cup v3, f1 \cup f2 \cup f3)
  BY <1>1, <1>2 DEF JoinUnits, UnitOf
<1>4. QED
  BY <1>3 DEF a, b, c

\* What is gathered from node n on, as functions of the node
Gathered(own) == [n \in Nodes |-> GatheredFrom(Walk, own, n)]
VarsOf == [m \in Nodes |-> OwnVars(m)]
FuncsOf == [m \in Nodes |-> OwnFuncs(m)]
Tracked == [n \in Nodes |-> [vars  |-> Gathered(VarsOf)[n],
                             funcs |-> Gathered(FuncsOf)[n]]]

LEMMA GatheredIs ==
  ASSUME UnitKnown, NEW own, NEW n \in Nodes
  PROVE  Gathered(own)[n] = own[n] \cup UNION {Gathered(own)[k] : k \in Walk[n]}
<1>1. IsEdges(Walk) /\ Walk[n] \subseteq Nodes
  BY WalkFacts DEF IsEdges
<1> DEFINE G(k) == GatheredFrom(Walk, own, k)
<1>2. G(n) = own[n] \cup UNION {G(k) : k \in Walk[n]}
  BY <1>1, GatheredUnfold
<1>3. \A k \in Nodes : Gathered(own)[k] = G(k)
  BY DEF Gathered
<1> HIDE DEF G
<1>4. {Gathered(own)[k] : k \in Walk[n]} = {G(k) : k \in Walk[n]}
  BY <1>1, <1>3
<1>5. QED
  BY <1>2, <1>3, <1>4

LEMMA TrackedJoined ==
  ASSUME NEW ns, Range(ns) \subseteq Nodes
  PROVE  JoinUnits(UnitsOf(Tracked, ns)) =
           [vars  |-> UNION {Gathered(VarsOf)[k] : k \in Range(ns)},
            funcs |-> UNION {Gathered(FuncsOf)[k] : k \in Range(ns)}]
<1> DEFINE T == Tracked
           V == Gathered(VarsOf)
           F == Gathered(FuncsOf)
           K == Range(ns)
<1>1. UnitsOf(T, ns) = {T[k] : k \in K}
  <2>1. K = {ns[i] : i \in DOMAIN ns}
    BY DEF Range
  <2>2. QED
    BY <2>1, UnitsOfAre
<1>2. \A k \in K : T[k].vars = V[k] /\ T[k].funcs = F[k]
  BY DEF Tracked
<1> HIDE DEF T, V, F, K
<1>3. /\ {u.vars : u \in {T[k] : k \in K}} = {V[k] : k \in K}
      /\ {u.funcs : u \in {T[k] : k \in K}} = {F[k] : k \in K}
  BY <1>2
<1>4. JoinUnits(UnitsOf(T, ns)) = [vars  |-> UNION {V[k] : k \in K},
                                   funcs |-> UNION {F[k] : k \in K}]
  BY <1>1, <1>3 DEF JoinUnits
<1>5. QED
  BY <1>4 DEF T, V, F, K

\* trackStmt has a result: the recursive function of TrackStmt exists.
LEMMA TrackStmtUnfold ==
  ASSUME UnitKnown, checker # "main"
  PROVE  TrackStmt = TrackIn(TrackStmt)
<1>1. ASSUME NEW n \in Nodes
      PROVE  Tracked[n] = TrackIn(Tracked)[n]
  <2> DEFINE V  == Gathered(VarsOf)
             F  == Gathered(FuncsOf)
             VK == UNION {V[k] : k \in Range(n.kids)}
             FK == UNION {F[k] : k \in Range(n.kids)}
             VB == UNION {V[k] : k \in Range(GetBody(n.decl))}
             FB == UNION {F[k] : k \in Range(GetBody(n.decl))}
  <2>1. /\ Tracked[n] = [vars |-> V[n], funcs |-> F[n]]
        /\ V[n] = OwnVars(n) \cup UNION {V[k] : k \in Walk[n]}
        /\ F[n] = OwnFuncs(n) \cup UNION {F[k] : k \in Walk[n]}
    BY GatheredIs DEF Tracked, VarsOf, FuncsOf
  <2>2. /\ Range(n.kids) = Kids(n) /\ Kids(n) \subseteq Nodes
        /\ Walk[n] = IF Hides(n) THEN {}
                     ELSE Kids(n) \cup IF Followed(n) THEN Roots(n.decl) ELSE {}
    BY KidsAreEdges DEF Walk, Kids, Range, IsEdges, KidsOf
  <2>3. JoinUnits(UnitsOf(Tracked, n.kids)) = UnitOf(VK, FK)
    BY <2>2, TrackedJoined DEF UnitOf
  <2> HIDE DEF V, F
  <2>4. CASE n.kind # "call"
    <3>1. Walk[n] = Range(n.kids) /\ OwnVars(n) = Mentioned(n) /\ OwnFuncs(n) = {}
      BY <2>2, <2>4 DEF Hides, Followed, OwnVars, OwnFuncs
    <3>2. TrackIn(Tracked)[n] =
            JoinUnits({UnitOf(Mentioned(n), {}),
                       JoinUnits(UnitsOf(Tracked, n.kids))})
      BY <2>4, TrackInIs DEF UnitOf
    <3>3. V[n] = Mentioned(n) \cup VK /\ F[n] = {} \cup FK
      BY <2>1, <3>1
    <3> HIDE DEF VK, FK
    <3>4. TrackIn(Tracked)[n] = UnitOf(Mentioned(n) \cup VK, {} \cup FK)
      BY <2>3, <3>2, JoinTwo
    <3>5. QED
      BY <2>1, <3>3, <3>4 DEF UnitOf
  <2>5. CASE n.kind = "call" /\ (~HasBody(n.decl) \/ IsSkipFunction(n.decl))
    <3>1. Hides(n) /\ OwnVars(n) = {} /\ OwnFuncs(n) = {}
      BY <2>5 DEF Hides, Followed, OwnVars, OwnFuncs
    <3>2. V[n] = {} /\ F[n] = {}
      BY <2>1, <2>2, <3>1
    <3>3. TrackIn(Tracked)[n] = EmptyUnit
      BY <2>5, TrackInIs
    <3>4. QED
      BY <2>1, <3>2, <3>3 DEF EmptyUnit
  <2>6. CASE n.kind = "call" /\ HasBody(n.decl) /\ ~IsSkipFunction(n.decl)
    <3>1. Followed(n) /\ ~Hides(n) /\ OwnVars(n) = {} /\ OwnFuncs(n) = {n.decl}
      BY <2>6 DEF Hides, Followed, OwnVars, OwnFuncs
    <3>2. /\ Range(GetBody(n.decl)) \subseteq Nodes
          /\ Walk[n] = Range(n.kids) \cup Range(GetBody(n.decl))
      <4>1. Roots(n.decl) = Range(GetBody(n.decl)) /\ Roots(n.decl) \subseteq Nodes
        BY <2>6, RootsAreNodes DEF Roots
      <4>2. QED
        BY <2>2, <3>1, <4>1
    <3>3. JoinUnits(UnitsOf(Tracked, GetBody(n.decl))) = UnitOf(VB, FB)
      BY <3>2, TrackedJoined DEF V, F, UnitOf
    <3>4. /\ V[n] = {} \cup VB \cup VK
          /\ F[n] = {n.decl} \cup FB \cup FK
      <4>1. /\ UNION {V[k] : k \in Walk[n]} = VB \cup VK
            /\ UNION {F[k] : k \in Walk[n]} = FB \cup FK
        BY <3>2
      <4>2. QED
        BY <2>1, <3>1, <4>1
    <3>5. TrackIn(Tracked)[n] =
            JoinUnits({UnitOf({}, {n.decl}),
                       JoinUnits(UnitsOf(Tracked, GetBody(n.decl))),
                       JoinUnits(UnitsOf(Tracked, n.kids))})
      BY <2>6, TrackInIs DEF UnitOf
    <3> HIDE DEF VK, FK, VB, FB
    <3> DEFINE none   == {}
               self   == {n.decl}
               callee == UnitOf(none, self)
               body   == JoinUnits(UnitsOf(Tracked, GetBody(n.decl)))
               kids   == JoinUnits(UnitsOf(Tracked, n.kids))
    <3>6. /\ body = UnitOf(VB, FB) /\ kids = UnitOf(VK, FK)
          /\ TrackIn(Tracked)[n] = JoinUnits({callee, body, kids})
          /\ V[n] = none \cup VB \cup VK /\ F[n] = self \cup FB \cup FK
      BY <2>3, <3>3, <3>4, <3>5
    <3> HIDE DEF none, self, body, kids
    <3>7. JoinUnits({callee, UnitOf(VB, FB), UnitOf(VK, FK)}) =
            UnitOf(none \cup VB \cup VK, self \cup FB \cup FK)
      BY JoinThree
    <3> HIDE DEF callee
    <3>8. TrackIn(Tracked)[n] = UnitOf(none \cup VB \cup VK, self \cup FB \cup FK)
      BY <3>6, <3>7
    <3>9. QED
      BY <2>1, <3>6, <3>8 DEF UnitOf
  <2>7. QED
    BY <2>4, <2>5, <2>6
<1>2. Tracked = TrackIn(Tracked)
  <2>1. Tracked = [n \in Nodes |-> Tracked[n]]
    BY DEF Tracked
  <2>2. TrackIn(Tracked) = [n \in Nodes |-> TrackIn(Tracked)[n]]
    BY DEF TrackIn
  <2>3. QED
    BY <1>1, <2>1, <2>2
<1>3. TrackStmt = CHOOSE g : g = TrackIn(g)
  BY DEF TrackStmt, TrackIn
<1>4. QED
  BY <1>2, <1>3

\* NDWalker has a result too.
LEMMA WalkedNDsUnfold ==
  ASSUME UnitKnown, checker = "main"
  PROVE  WalkedNDs = WalkedIn(WalkedNDs)
<1> DEFINE own == [m \in Nodes |-> OwnNDs(m)]
           G   == Gathered(own)
<1>1. ASSUME NEW n \in Nodes
      PROVE  G[n] = WalkedIn(G)[n]
  <2>1. G[n] = OwnNDs(n) \cup UNION {G[k] : k \in Walk[n]}
    <3>1. own[n] = OwnNDs(n)
      OBVIOUS
    <3> HIDE DEF own
    <3>2. QED
      BY <3>1, GatheredIs
  <2>2. Range(CalledBody(n)) = IF Followed(n) THEN Roots(n.decl) ELSE {}
    BY DEF CalledBody, Followed, Roots, NoBody, Range
  <2>3. Walk[n] = Range(n.kids) \cup Range(CalledBody(n))
    BY <2>2 DEF Walk, Hides, Kids, Range
  <2> HIDE DEF G
  <2>4. ASSUME NEW ns
        PROVE  UnitsOf(G, ns) = {G[k] : k \in Range(ns)}
    <3>1. Range(ns) = {ns[i] : i \in DOMAIN ns}
      BY DEF Range
    <3>2. QED
      BY <3>1, UnitsOfAre
  <2> DEFINE K == Range(n.kids)
             B == Range(CalledBody(n))
  <2>5. UnitsOf(G, n.kids) = {G[k] : k \in K} /\ UnitsOf(G, CalledBody(n)) = {G[k] : k \in B}
    BY <2>4
  <2>6. WalkedIn(G)[n] = UNION ({OwnNDs(n)} \cup UnitsOf(G, n.kids)
                                            \cup UnitsOf(G, CalledBody(n)))
    BY WalkedInIs
  <2>7. G[n] = OwnNDs(n) \cup UNION {G[k] : k \in K \cup B}
    BY <2>1, <2>3
  <2> HIDE DEF K, B
  <2>8. QED
    BY <2>5, <2>6, <2>7
<1>2. G = WalkedIn(G)
  <2>1. G = [n \in Nodes |-> G[n]]
    BY DEF Gathered
  <2>2. WalkedIn(G) = [n \in Nodes |-> WalkedIn(G)[n]]
    BY DEF WalkedIn
  <2>3. QED
    BY <1>1, <2>1, <2>2
<1>3. WalkedNDs = CHOOSE g : g = WalkedIn(g)
  BY DEF WalkedNDs, WalkedIn
<1> HIDE DEF G
<1>4. QED
  BY <1>2, <1>3

\* What is nowhere lost on the way from a node is there at its start.
LEMMA NothingLost ==
  ASSUME NEW E, IsEdges(E), NEW own, NEW all,
         \A n \in Nodes : own[n] \subseteq all[n],
         \A n \in Nodes : \A k \in E[n] : all[k] \subseteq all[n],
         NEW n \in Nodes, NEW m \in Closure(E, n)
  PROVE  own[m] \subseteq all[n]
<1> DEFINE S == {k \in Nodes : all[k] \subseteq all[n]}
<1>1. ClosedUnder(E, S)
  BY DEF ClosedUnder, IsEdges
<1>2. Closure(E, n) \subseteq S
  BY <1>1, ClosureFacts
<1>3. m \in Nodes /\ all[m] \subseteq all[n]
  BY <1>2
<1>4. QED
  BY <1>3

\* trackStmt finds all variables of the nodes it sees.
LEMMA TrackStmtSees ==
  ASSUME UnitKnown, checker # "main", NEW n \in Nodes, NEW m \in Closure(Walk, n)
  PROVE  OwnVars(m) \subseteq TrackStmt[n].vars
<1> DEFINE T   == TrackStmt
           own == [k \in Nodes |-> OwnVars(k)]
           all == [k \in Nodes |-> T[k].vars]
<1>1. T = TrackIn(T)
  BY TrackStmtUnfold
<1> HIDE DEF T
<1>2. ASSUME NEW ns, NEW i \in DOMAIN ns
      PROVE  T[ns[i]].vars \subseteq JoinUnits(UnitsOf(T, ns)).vars
  <2>1. T[ns[i]] \in UnitsOf(T, ns)
    BY Zenon DEF UnitsOf
  <2>2. QED
    BY <2>1, JoinFacts
<1>3. ASSUME NEW us, NEW u \in us
      PROVE  u.vars \subseteq JoinUnits(us).vars
  BY JoinFacts
<1>4. ASSUME NEW k \in Nodes
      PROVE  OwnVars(k) \subseteq T[k].vars
  <2>1. CASE k.kind = "call"
    BY <2>1 DEF OwnVars
  <2>2. CASE k.kind # "call"
    <3> DEFINE here == [vars |-> Mentioned(k), funcs |-> {}]
               us   == {here, JoinUnits(UnitsOf(T, k.kids))}
    <3>1. T[k] = JoinUnits(us)
      BY <1>1, <2>2, TrackInIs
    <3>2. here.vars = Mentioned(k) /\ here \in us
      OBVIOUS
    <3> HIDE DEF here, us
    <3>3. QED
      BY <1>3, <2>2, <3>1, <3>2 DEF OwnVars
  <2>3. QED
    BY <2>1, <2>2
<1>5. ASSUME NEW k \in Nodes, NEW l \in Walk[k]
      PROVE  T[l].vars \subseteq T[k].vars
  <2> DEFINE kids == JoinUnits(UnitsOf(T, k.kids))
             body == JoinUnits(UnitsOf(T, GetBody(k.decl)))
  <2>1. ~Hides(k)
    BY DEF Walk
  <2>2. l \in Kids(k) \/ (Followed(k) /\ l \in Roots(k.decl))
    BY <2>1 DEF Walk
  <2>3. l \in Kids(k) => T[l].vars \subseteq kids.vars
    BY <1>2 DEF Kids
  <2>4. Followed(k) /\ l \in Roots(k.decl) => T[l].vars \subseteq body.vars
    BY <1>2 DEF Followed, Roots, Range
  <2>5. CASE k.kind # "call"
    <3> DEFINE us == {[vars |-> Mentioned(k), funcs |-> {}], kids}
    <3>1. T[k] = JoinUnits(us)
      BY <1>1, <2>5, TrackInIs
    <3>2. kids \in us
      OBVIOUS
    <3>3. ~Followed(k)
      BY <2>5 DEF Followed
    <3> HIDE DEF kids, us
    <3>4. QED
      BY <1>3, <2>2, <2>3, <3>1, <3>2, <3>3
  <2>6. CASE k.kind = "call"
    <3> DEFINE us == {[vars |-> {}, funcs |-> {k.decl}], body, kids}
    <3>1. HasBody(k.decl) /\ ~IsSkipFunction(k.decl)
      BY <2>1, <2>6 DEF Hides, Followed
    <3>2. T[k] = JoinUnits(us)
      BY <1>1, <2>6, <3>1, TrackInIs
    <3>3. kids \in us /\ body \in us
      OBVIOUS
    <3> HIDE DEF kids, body, us
    <3>4. QED
      BY <1>3, <2>2, <2>3, <2>4, <3>2, <3>3
  <2>7. QED
    BY <2>5, <2>6
<1>6. /\ \A k \in Nodes : own[k] = OwnVars(k) /\ all[k] = T[k].vars
  OBVIOUS
<1>7. IsEdges(Walk) /\ \A k \in Nodes : Walk[k] \subseteq Nodes
  BY WalkFacts DEF IsEdges
<1> HIDE DEF own, all
<1>8. /\ \A k \in Nodes : own[k] \subseteq all[k]
      /\ \A k \in Nodes : \A l \in Walk[k] : all[l] \subseteq all[k]
  BY <1>4, <1>5, <1>6, <1>7
<1>9. own[m] \subseteq all[n] /\ m \in Nodes
  BY <1>7, <1>8, NothingLost DEF Closure
<1>10. QED
  BY <1>6, <1>9 DEF T

\* NDWalker finds all members of the nodes it sees.
LEMMA WalkedNDsSees ==
  ASSUME UnitKnown, checker = "main", NEW n \in Nodes, NEW m \in Closure(Walk, n)
  PROVE  OwnNDs(m) \subseteq WalkedNDs[n]
<1> DEFINE G   == WalkedNDs
           own == [k \in Nodes |-> OwnNDs(k)]
<1>1. G = WalkedIn(G)
  BY WalkedNDsUnfold
<1> HIDE DEF G
<1>2. ASSUME NEW k \in Nodes
      PROVE  /\ OwnNDs(k) \subseteq G[k]
             /\ \A l \in Walk[k] : G[l] \subseteq G[k]
  <2>1. G[k] = UNION ({OwnNDs(k)} \cup UnitsOf(G, k.kids) \cup UnitsOf(G, CalledBody(k)))
    BY <1>1, WalkedInIs
  <2>2. ASSUME NEW ns, NEW l \in Range(ns)
        PROVE  G[l] \in UnitsOf(G, ns)
    BY Zenon DEF UnitsOf, Range
  <2>3. \A l \in Walk[k] : l \in Range(k.kids) \/ l \in Range(CalledBody(k))
    BY DEF Walk, Followed, Hides, CalledBody, Roots, Kids, Range
  <2>4. QED
    BY <2>1, <2>2, <2>3
<1>3. \A k \in Nodes : own[k] = OwnNDs(k)
  OBVIOUS
<1>4. IsEdges(Walk) /\ \A k \in Nodes : Walk[k] \subseteq Nodes
  BY WalkFacts DEF IsEdges
<1> HIDE DEF own
<1>5. /\ \A k \in Nodes : own[k] \subseteq G[k]
      /\ \A k \in Nodes : \A l \in Walk[k] : G[l] \subseteq G[k]
  BY <1>2, <1>3
<1>6. own[m] \subseteq G[n] /\ m \in Nodes
  BY <1>4, <1>5, NothingLost DEF Closure
<1>7. QED
  BY <1>3, <1>6 DEF G

-----------------------------------------------------------------------------
(* UntrackedOnlyIfHidden *)

\* A unit has what the nodes its parser sees add to it.
UnitsTracked ==
  \A fd \in DOMAIN units :
    checker = "main" \/ ~IsSkipFunction(fd)
    => \A m \in Seen(fd) : OwnVars(m) \subseteq units[fd].vars

LEMMA TrackFunctionSees ==
  ASSUME UnitKnown, checker # "main", NEW fd, ~IsSkipFunction(fd), NEW m \in Seen(fd)
  PROVE  OwnVars(m) \subseteq TrackFunction(fd).vars
<1> DEFINE body == GetBody(fd)
           us   == {TrackStmt[body[i]] : i \in DOMAIN body}
<1>1. PICK s \in Roots(fd) : m \in Closure(Walk, s)
  BY DEF Seen
<1>2. HasBody(fd) /\ s \in Range(body) /\ s \in Nodes
  BY <1>1, RootsAreNodes DEF Roots
<1>3. TrackFunction(fd) = JoinUnits(us)
  BY <1>2 DEF TrackFunction
<1>4. TrackStmt[s] \in us
  BY <1>2, Zenon DEF Range
<1>5. OwnVars(m) \subseteq TrackStmt[s].vars
  BY <1>1, <1>2, TrackStmtSees
<1> HIDE DEF us
<1>6. QED
  BY <1>3, <1>4, <1>5, JoinFacts

LEMMA GetNDsSees ==
  ASSUME UnitKnown, checker = "main", NEW fd, NEW m \in Seen(fd)
  PROVE  OwnVars(m) \subseteq {nd \in GetNDs(fd) : IsUsedVar(nd)}
<1> DEFINE body == GetBody(fd)
           nds  == {WalkedNDs[body[i]] : i \in DOMAIN body}
<1>1. PICK s \in Roots(fd) : m \in Closure(Walk, s)
  BY DEF Seen
<1>2. HasBody(fd) /\ s \in Range(body) /\ s \in Nodes
  BY <1>1, RootsAreNodes DEF Roots
<1>3. GetNDs(fd) = UNION nds
  BY <1>2 DEF GetNDs
<1>4. WalkedNDs[s] \in nds
  BY <1>2, Zenon DEF Range
<1>5. OwnNDs(m) \subseteq WalkedNDs[s]
  BY <1>1, <1>2, WalkedNDsSees
<1>6. OwnVars(m) \subseteq {nd \in OwnNDs(m) : IsUsedVar(nd)}
  BY DEF OwnVars, OwnNDs, Mentioned, MentionedMember
<1> HIDE DEF nds
<1>7. QED
  BY <1>3, <1>4, <1>5, <1>6

\* The steps that keep all but the units
SameTablesKept == UNCHANGED <<tu, checker, functions, annotated, tracked, usedVars>>

LEMMA SameWalk ==
  ASSUME SameTablesKept
  PROVE  /\ \A fd : Seen(fd)' = Seen(fd) /\ (IsSkipFunction(fd)' <=> IsSkipFunction(fd))
         /\ \A m : OwnVars(m)' = OwnVars(m)
<1>0. /\ tu' = tu /\ checker' = checker /\ functions' = functions
      /\ annotated' = annotated /\ tracked' = tracked /\ usedVars' = usedVars
  BY DEF SameTablesKept
<1>1. \A fd : Definitions(fd)' = Definitions(fd)
  BY <1>0 DEF Definitions, Decls
<1>2. \A fd : (HasBody(fd)' <=> HasBody(fd)) /\ GetBody(fd)' = GetBody(fd)
  BY <1>1 DEF HasBody, GetBody
<1>3. \A fd : IsSkipFunction(fd)' <=> IsSkipFunction(fd)
  BY <1>0 DEF IsSkipFunction, FunctionSets
<1>4. \A fd : Roots(fd)' = Roots(fd)
  BY <1>2 DEF Roots
<1>5. \A m : (Followed(m)' <=> Followed(m)) /\ (Hides(m)' <=> Hides(m))
  BY <1>0, <1>2, <1>3 DEF Followed, Hides
<1>6. Walk' = Walk
  BY <1>4, <1>5 DEF Walk
<1>7. \A fd : Seen(fd)' = Seen(fd)
  BY <1>4, <1>6 DEF Seen
<1>8. \A m : OwnVars(m)' = OwnVars(m)
  <2>1. \A nd : IsUsedVar(nd)' <=> IsUsedVar(nd)
    BY <1>0 DEF IsUsedVar, HasPairs
  <2>2. \A m : MentionedMember(m)' = MentionedMember(m)
    BY <2>1 DEF MentionedMember
  <2>3. \A m : StoredPointer(m)' = StoredPointer(m)
    BY <1>0 DEF StoredPointer
  <2>4. QED
    BY <1>0, <2>2, <2>3 DEF OwnVars, Mentioned
<1>9. QED
  BY <1>3, <1>7, <1>8

\* One more unit that has what its nodes add
LEMMA UnitAdded ==
  ASSUME UnitsTracked, SameTablesKept, NEW fd, NEW unit,
         units' = Put(units, fd, unit),
         checker = "main" \/ ~IsSkipFunction(fd)
         => \A m \in Seen(fd) : OwnVars(m) \subseteq unit.vars
  PROVE  UnitsTracked'
<1>1. /\ DOMAIN units' = DOMAIN units \cup {fd}
      /\ \A f \in DOMAIN units' : units'[f] = IF f = fd THEN unit ELSE units[f]
  BY DEF Put
<1>2. ASSUME NEW f \in DOMAIN units', checker = "main" \/ ~IsSkipFunction(f),
             NEW m \in Seen(f)
      PROVE  OwnVars(m) \subseteq units'[f].vars
  BY <1>1, <1>2 DEF UnitsTracked
<1>3. checker' = checker
  BY DEF SameTablesKept
<1>4. QED
  BY <1>2, <1>3, SameWalk DEF UnitsTracked

LEMMA SameUnitsTracked ==
  ASSUME UnitsTracked, SameTablesKept, units' = units
  PROVE  UnitsTracked'
<1>1. checker' = checker
  BY DEF SameTablesKept
<1>2. QED
  BY <1>1, SameWalk DEF UnitsTracked

LEMMA UnitsTrackedStep ==
  ASSUME IInv, UnitsTracked, [Next]_vars
  PROVE  UnitsTracked'
<1>0. UnitKnown /\ UnitsKnown
  BY DEF IInv
<1>1. ASSUME phase \in {"traverse", "fillMainVars", "autoFindFunctions"},
             units' = units
      PROVE  UnitsTracked'
  BY <1>0, <1>1 DEF UnitsKnown, UnitsTracked
<1>2. CASE VisitFunctionDecl \/ VisitFieldDecl \/ VisitRecordDecl
  BY <1>1, <1>2 DEF VisitFunctionDecl, VisitFieldDecl, VisitRecordDecl, Visits
<1>3. CASE FinishTraverse \/ FillMainVars \/ FinishMainVars \/ AutoFindFunctions
  BY <1>1, <1>3
     DEF FinishTraverse, FillMainVars, FinishMainVars, AutoFindFunctions
<1>4. CASE FillTrackMap
  <2>1. checker # "main" /\ SameTablesKept
    BY <1>4 DEF FillTrackMap, SameTablesKept
  <2>2. CASE units' = units
    BY <2>1, <2>2, SameUnitsTracked
  <2>3. CASE units' # units
    <3>1. PICK fd : \/ units' = Put(units, fd, TrackFunction(fd))
                    \/ \E tx : units' = Put(units, fd,
                                 [TrackFunction(fd) EXCEPT !.vars = @ \cup {tx}])
      BY <1>4, <2>3 DEF FillTrackMap
    <3>2. ~IsSkipFunction(fd) => \A m \in Seen(fd) : OwnVars(m) \subseteq TrackFunction(fd).vars
      BY <1>0, <2>1, TrackFunctionSees
    <3>3. ASSUME NEW tx
          PROVE  TrackFunction(fd).vars \subseteq
                   [TrackFunction(fd) EXCEPT !.vars = @ \cup {tx}].vars
      BY DEF TrackFunction, JoinUnits, EmptyUnit
    <3>4. CASE units' = Put(units, fd, TrackFunction(fd))
      BY <2>1, <3>2, <3>4, UnitAdded
    <3>5. ASSUME NEW tx, units' = Put(units, fd,
                           [TrackFunction(fd) EXCEPT !.vars = @ \cup {tx}])
          PROVE  UnitsTracked'
      <4> DEFINE unit == [TrackFunction(fd) EXCEPT !.vars = @ \cup {tx}]
      <4>1. units' = Put(units, fd, unit)
        BY <3>5
      <4>2. TrackFunction(fd).vars \subseteq unit.vars
        BY <3>3
      <4> HIDE DEF unit
      <4>3. ~IsSkipFunction(fd) => \A m \in Seen(fd) : OwnVars(m) \subseteq unit.vars
        BY <3>2, <4>2
      <4>4. QED
        BY <2>1, <4>1, <4>3, UnitAdded
    <3>6. QED
      BY <3>1, <3>4, <3>5
  <2>4. QED
    BY <2>2, <2>3
<1>5. CASE FillTrackVars
  <2>1. checker = "main" /\ SameTablesKept
    BY <1>5 DEF FillTrackVars, SameTablesKept
  <2>2. PICK fd, nds, kinds :
          /\ nds = {nd \in GetNDs(fd) : IsUsedVar(nd)}
          /\ units' = Put(units, fd, [vars |-> nds, funcs |-> {}, kinds |-> kinds])
    BY <1>5 DEF FillTrackVars
  <2> DEFINE unit == [vars |-> nds, funcs |-> {}, kinds |-> kinds]
  <2>3. unit.vars = nds /\ units' = Put(units, fd, unit)
    BY <2>2
  <2> HIDE DEF unit
  <2>4. \A m \in Seen(fd) : OwnVars(m) \subseteq unit.vars
    BY <1>0, <2>1, <2>2, <2>3, GetNDsSees
  <2>5. QED
    BY <2>1, <2>3, <2>4, UnitAdded
<1>6. CASE FinishTrackMap \/ UNCHANGED vars
  <2>1. SameTablesKept /\ units' = units
    BY <1>6 DEF FinishTrackMap, vars, SameTablesKept
  <2>2. QED
    BY <2>1, SameUnitsTracked
<1>7. QED
  BY <1>2, <1>3, <1>4, <1>5, <1>6 DEF Next

\* A member named nd, if it names one, is in the statement.
MemberBelow(n, nd) ==
  nd # NoDecl => \E m \in SubNodes[n] : m.kind = "member" /\ m.decl = nd

\* What a statement parser finds is a variable that a node of the statement
\* mentions: the member written or flushed, or the pointer stored.
LEMMA ParsedIsMentioned ==
  ASSUME checker \in AllCheckers, NEW n \in Nodes, ParseStmt(n) # NoFunc,
         checker = "flushed" => ParseStmt(n).func = "store"
  PROVE  \E m \in SubNodes[n] : /\ ParseStmt(n).var \in OwnVars(m)
                                /\ Mentions({m}, ParseStmt(n).var)
<1> DEFINE v == ParseStmt(n).var
<1>1. ASSUME NEW func, NEW var, Func(func, var) # NoFunc
      PROVE  var # NoDecl /\ Func(func, var).var = var /\ Func(func, var).func = func
  BY <1>1 DEF Func
<1>2. ASSUME NEW k \in Nodes
      PROVE  /\ k \in SubNodes[k]
             /\ \A i \in DOMAIN k.kids : k.kids[i] \in Nodes /\ k.kids[i] \in SubNodes[k]
             /\ \A l \in SubNodes[k] : l \in Nodes /\ SubNodes[l] \subseteq SubNodes[k]
  <2>1. k \in SubNodes[k] /\ ClosedUnder(KidsOf, SubNodes[k])
    BY NodesClosed
  <2>2. \A i \in DOMAIN k.kids : k.kids[i] \in KidsOf[k]
    BY DEF KidsOf, Kids
  <2>3. SubNodes[k] \subseteq Nodes /\ KidsOf[k] \subseteq SubNodes[k]
    BY <2>1 DEF ClosedUnder
  <2>4. \A l \in SubNodes[k] : SubNodes[l] \subseteq SubNodes[k]
    BY <2>1, NodesClosed
  <2>5. QED
    BY <2>1, <2>2, <2>3, <2>4
<1>3. ASSUME NEW m \in SubNodes[n], m.kind = "member", IsUsedVar(m.decl), m.decl = v,
             checker # "flushed"
      PROVE  v \in OwnVars(m) /\ Mentions({m}, v)
  BY <1>3 DEF OwnVars, Mentioned, MentionedMember, Mentions
<1>4. MemberBelow(n, GetFieldDeclFromWrite(n))
  BY <1>2 DEF GetFieldDeclFromWrite, HasKid, MemberBelow
<1>5. MemberBelow(n, GetFieldDeclFromCall(n))
  <2> SUFFICES ASSUME GetFieldDeclFromCall(n) # NoDecl
               PROVE  \E m \in SubNodes[n] :
                        m.kind = "member" /\ m.decl = GetFieldDeclFromCall(n)
    BY DEF MemberBelow
  <2> DEFINE k1 == n.kids[1]
             k2 == k1.kids[1]
             k3 == k2.kids[1]
  <2>1. /\ 1 \in DOMAIN n.kids /\ 1 \in DOMAIN k1.kids /\ 1 \in DOMAIN k2.kids
        /\ k3.kind = "member" /\ k3.decl = GetFieldDeclFromCall(n)
    BY DEF GetFieldDeclFromCall, HasKid
  <2>2. k1 \in SubNodes[n] /\ k1 \in Nodes
    BY <1>2, <2>1
  <2> HIDE DEF k1
  <2>3. k2 \in SubNodes[k1] /\ k2 \in Nodes
    BY <1>2, <2>1, <2>2
  <2> HIDE DEF k2
  <2>4. k3 \in SubNodes[k2]
    BY <1>2, <2>1, <2>3
  <2>5. k3 \in SubNodes[n]
    BY <1>2, <2>2, <2>3, <2>4
  <2> HIDE DEF k3
  <2>6. QED
    BY <2>1, <2>5
<1>6. ASSUME NEW func, NEW nd, ParseStmt(n) = Func(func, UsedOr(nd)),
             MemberBelow(n, nd), checker # "flushed"
      PROVE  \E m \in SubNodes[n] : v \in OwnVars(m) /\ Mentions({m}, v)
  <2>1. UsedOr(nd) # NoDecl /\ v = UsedOr(nd)
    BY <1>1, <1>6
  <2>2. IsUsedVar(nd) /\ v = nd /\ nd # NoDecl
    BY <2>1 DEF UsedOr
  <2>3. PICK m \in SubNodes[n] : m.kind = "member" /\ m.decl = nd
    BY <1>6, <2>2 DEF MemberBelow
  <2> HIDE DEF v
  <2>4. QED
    BY <1>3, <1>6, <2>2, <2>3
<1>7. CASE checker = "pair"
  <2>1. ParseStmt(n) = ParsePair(n)
    BY <1>7 DEF ParseStmt
  <2>2. \/ ParseStmt(n) = Func("write", UsedOr(GetFieldDeclFromWrite(n)))
        \/ ParseStmt(n) = Func("flushfence", UsedOr(GetFieldDeclFromCall(n)))
        \/ ParseStmt(n) = Func("flush", UsedOr(GetFieldDeclFromCall(n)))
    BY <2>1 DEF ParsePair
  <2>3. QED
    BY <1>4, <1>5, <1>6, <1>7, <2>2
<1>8. CASE checker = "log"
  <2>1. ParseStmt(n) = ParseLog(n)
    BY <1>8 DEF ParseStmt
  <2>2. \/ ParseStmt(n) = Func("write", UsedOr(GetFieldDeclFromWrite(n)))
        \/ ParseStmt(n) = Func("log", UsedOr(GetFieldDeclFromCall(n)))
    BY <2>1 DEF ParseLog
  <2>3. QED
    BY <1>4, <1>5, <1>6, <1>8, <2>2
<1>9. CASE checker = "main"
  <2>1. n.kind = "member" /\ ParseStmt(n) = Func("mention", UsedOr(n.decl))
    BY <1>9 DEF ParseStmt, ParseMain
  <2>2. MemberBelow(n, n.decl)
    BY <1>2, <2>1 DEF MemberBelow
  <2>3. QED
    BY <1>6, <1>9, <2>1, <2>2
<1>10. CASE checker = "flushed"
  <2>1. ParseStmt(n) = ParseFlushed(n) /\ ParseStmt(n).func = "store"
    BY <1>10 DEF ParseStmt
  <2>2. n.kind = "assign" /\ ParseStmt(n) = ParseFlushedWrite(n)
    BY <1>1, <2>1 DEF ParseFlushed
  <2>3. /\ GetFieldDeclFromWrite(n) \in annotated /\ GetNDOfRHS(n) \in tracked
        /\ ParseStmt(n) = Func("store", GetNDOfRHS(n))
    BY <1>1, <2>1, <2>2 DEF ParseFlushedWrite
  <2>4. v = GetNDOfRHS(n)
    BY <1>1, <2>3
  <2>5. v \in OwnVars(n) /\ Mentions({n}, v)
    BY <1>10, <2>2, <2>3, <2>4 DEF OwnVars, Mentioned, StoredPointer, Mentions
  <2>6. QED
    BY <1>2, <2>5
<1>11. QED
  BY <1>7, <1>8, <1>9, <1>10 DEF AllCheckers

LEMMA TrackedOrHidden ==
  ASSUME UnitKnown, UnitsTracked
  PROVE  UntrackedOnlyIfHidden
<1> SUFFICES ASSUME NEW fd \in DOMAIN units, NEW n \in ReachedNodes({fd}),
                    ParseStmt(n) # NoFunc,
                    checker = "flushed" => ParseStmt(n).func = "store",
                    ParseStmt(n).var \notin units[fd].vars
             PROVE  /\ checker # "main"
                    /\ \/ IsSkipFunction(fd)
                       \/ Mentions(Hidden(ReachedNodes({fd})), ParseStmt(n).var)
  BY DEF UntrackedOnlyIfHidden
<1> DEFINE v == ParseStmt(n).var
           R == ReachedNodes({fd})
<1>1. PICK g \in ReachedFrom({fd}) : n \in NodesOf(g)
  BY DEF ReachedNodes
<1>2. NodesOf(g) \subseteq R
  BY <1>1 DEF ReachedNodes
<1>3. PICK s \in Roots(g) : s \in Nodes /\ n \in SubNodes[s]
  BY <1>1, RootsAreNodes
<1>4. n \in Nodes /\ SubNodes[n] \subseteq SubNodes[s]
  BY <1>3, NodesClosed DEF ClosedUnder
<1>5. SubNodes[n] \subseteq R
  <2>1. SubNodes[s] \subseteq NodesOf(g)
    BY <1>3, RootsAreNodes
  <2>2. QED
    BY <1>2, <1>4, <2>1
<1>6. PICK m \in R : v \in OwnVars(m) /\ Mentions({m}, v)
  <2>1. checker \in AllCheckers
    BY DEF UnitKnown
  <2>2. \E m \in SubNodes[n] : v \in OwnVars(m) /\ Mentions({m}, v)
    BY <1>4, <2>1, ParsedIsMentioned
  <2>3. QED
    BY <1>5, <2>2
<1> HIDE DEF v, R
<1>7. checker = "main" \/ ~IsSkipFunction(fd) => m \notin Seen(fd)
  BY <1>6 DEF UnitsTracked, v
<1>8. checker # "main"
  BY <1>6, <1>7, AllSeen DEF R
<1>9. CASE ~IsSkipFunction(fd)
  <2>1. m \in Hidden(R)
    BY <1>6, <1>7, <1>8, <1>9, SeenOrHidden DEF R
  <2>2. Mentions(Hidden(R), v)
    BY <1>6, <2>1 DEF Mentions
  <2>3. QED
    BY <1>8, <2>2 DEF R, v
<1>10. QED
  BY <1>8, <1>9

\* A statement the engine analyses in a unit changes variables the unit
\* tracks, but for those only mentioned in the arguments of calls trackStmt
\* does not follow, for all syntax trees, declarations and checkers.
THEOREM Untracked == Spec => []UntrackedOnlyIfHidden
<1>1. Init => UnitsTracked
  BY DEF Init, UnitsTracked
<1>2. IInv /\ UnitsTracked /\ [Next]_vars => UnitsTracked'
  BY UnitsTrackedStep
<1>3. IInv /\ UnitsTracked => UntrackedOnlyIfHidden
  BY TrackedOrHidden DEF IInv
<1>4. QED
  BY <1>1, <1>2, <1>3, Invariant, PTL DEF Spec

-----------------------------------------------------------------------------
(* Lines and quotients *)

LEMMA Quotient ==
  ASSUME NEW L \in Nat, L > 0, NEW n \in Nat
  PROVE  /\ n \div L \in Nat /\ n % L \in 0 .. L - 1
         /\ n = L * (n \div L) + (n % L)
<1>1. n \div L \in Nat
  OBVIOUS
<1>2. n % L \in 0 .. L - 1
  OBVIOUS
<1>3. n = L * (n \div L) + (n % L)
  OBVIOUS
<1>4. QED
  BY <1>1, <1>2, <1>3

LEMMA QuotientIs ==
  ASSUME NEW L \in Nat, L > 0, NEW q \in Nat, NEW r \in 0 .. L - 1, NEW n, n = L * q + r
  PROVE  n \div L = q
OBVIOUS

\* A later byte is on the same or a later line.
LEMMA LaterLine ==
  ASSUME NEW L \in Nat, L > 0, NEW m \in Nat, NEW n \in Nat, m <= n
  PROVE  m \div L <= n \div L
<1> DEFINE p == m \div L
           q == n \div L
<1>1. p \in Nat /\ q \in Nat /\ L * p <= m /\ n < L * q + L
  BY Quotient
<1> HIDE DEF p, q
<1>2. SUFFICES ASSUME p >= q + 1 PROVE FALSE
  BY <1>1 DEF p, q
<1>3. p - q - 1 \in Nat
  BY <1>1, <1>2
<1>4. L * (p - q - 1) >= 0
  BY <1>3
<1>5. L * (p - q - 1) = L * p - L * q - L
  BY <1>1
<1>6. QED
  BY <1>1, <1>4, <1>5

\* The byte before is on the same line but for the first one of a line.
LEMMA LineBefore ==
  ASSUME NEW L \in Nat, L > 0, NEW n \in Nat, n > 0
  PROVE  (n - 1) \div L = n \div L <=> n % L # 0
<1> DEFINE q == n \div L
           r == n % L
<1>1. q \in Nat /\ r \in 0 .. L - 1 /\ n = L * q + r
  BY Quotient
<1> HIDE DEF q, r
<1>2. ASSUME r # 0
      PROVE  (n - 1) \div L = q
  <2>1. r - 1 \in 0 .. L - 1 /\ n - 1 = L * q + (r - 1)
    BY <1>1, <1>2
  <2>2. QED
    BY <1>1, <2>1, QuotientIs
<1>3. ASSUME r = 0
      PROVE  (n - 1) \div L # q
  <2>1. SUFFICES ASSUME (n - 1) \div L = q PROVE FALSE
    OBVIOUS
  <2> DEFINE m == n - 1
             s == m % L
  <2>2. m \in Nat
    OBVIOUS
  <2> HIDE DEF m
  <2>3. m = L * (m \div L) + s /\ s \in 0 .. L - 1
    BY <2>2, Quotient
  <2>4. m \div L = q
    BY <2>1 DEF m
  <2> HIDE DEF s
  <2>5. n - 1 = L * q + s /\ s \in Nat
    BY <2>3, <2>4 DEF m
  <2>6. L * q \in Nat
    BY <1>1
  <2>7. QED
    BY <1>1, <1>3, <2>5, <2>6
<1>4. QED
  BY <1>2, <1>3 DEF q, r

\* Of two pieces of memory, one after the other, those that begin on one line
\* and are followed by one line are those on one line that do not end it.
LEMMA SameLines ==
  ASSUME NEW L \in Nat, L > 0,
         NEW b1 \in Nat, NEW e1 \in Nat, NEW b2 \in Nat, NEW e2 \in Nat,
         b1 < e1, e1 <= b2, b2 < e2
  PROVE  b1 \div L = b2 \div L /\ e1 \div L = e2 \div L
         <=> /\ b1 \div L = (e1 - 1) \div L /\ b2 \div L = (e2 - 1) \div L
             /\ b1 \div L = b2 \div L
             /\ e1 % L # 0 /\ e2 % L # 0
<1>1. /\ b1 \div L <= (e1 - 1) \div L /\ (e1 - 1) \div L <= e1 \div L
      /\ e1 \div L <= b2 \div L
      /\ b2 \div L <= (e2 - 1) \div L /\ (e2 - 1) \div L <= e2 \div L
  BY LaterLine
<1>2. /\ (e1 - 1) \div L = e1 \div L <=> e1 % L # 0
      /\ (e2 - 1) \div L = e2 \div L <=> e2 % L # 0
  BY LineBefore
<1>3. /\ b1 \div L \in Nat /\ e1 \div L \in Nat /\ b2 \div L \in Nat
      /\ e2 \div L \in Nat /\ (e1 - 1) \div L \in Nat /\ (e2 - 1) \div L \in Nat
  BY Quotient
<1> DEFINE x1 == b1 \div L
           x2 == b2 \div L
           y1 == e1 \div L
           y2 == e2 \div L
           z1 == (e1 - 1) \div L
           z2 == (e2 - 1) \div L
           f1 == e1 % L # 0
           f2 == e2 % L # 0
<1>4. /\ x1 <= z1 /\ z1 <= y1 /\ y1 <= x2 /\ x2 <= z2 /\ z2 <= y2
      /\ x1 \in Nat /\ x2 \in Nat /\ y1 \in Nat /\ y2 \in Nat
      /\ z1 \in Nat /\ z2 \in Nat
      /\ (z1 = y1 <=> f1) /\ (z2 = y2 <=> f2)
  BY <1>1, <1>2, <1>3
<1> HIDE DEF x1, x2, y1, y2, z1, z2, f1, f2
<1>5. x1 = x2 /\ y1 = y2 <=> x1 = z1 /\ x2 = z2 /\ x1 = x2 /\ f1 /\ f2
  BY <1>4
<1>6. QED
  BY <1>5 DEF x1, x2, y1, y2, z1, z2, f1, f2

-----------------------------------------------------------------------------
(* Sums of sizes *)

\* Every field has a size.
HasSizes(rd) ==
  /\ Len(rd.fields) \in Nat /\ DOMAIN rd.fields = 1 .. Len(rd.fields)
  /\ \A i \in DOMAIN rd.fields : rd.fields[i].size \in Nat

\* The recursive function of Current
Sums(rd, n, sum) ==
  [j \in 0 .. n |-> IF j = 0 THEN 0 ELSE sum[j-1] + rd.fields[j].size]

LEMMA SumsExist ==
  ASSUME NEW rd, NEW n \in Nat
  PROVE  \E sum : sum = Sums(rd, n, sum)
<1> DEFINE Fails == {k \in Nat : ~\E sum : sum = Sums(rd, k, sum)}
<1>1. SUFFICES ASSUME Fails # {} PROVE FALSE
  OBVIOUS
<1>2. PICK k \in Fails : \A j \in Fails : k <= j
  <2>1. Fails \in SUBSET Nat
    OBVIOUS
  <2> HIDE DEF Fails
  <2>2. QED
    BY <1>1, <2>1, Smallest
<1>3. k # 0
  <2>1. SUFFICES ASSUME k = 0 PROVE FALSE
    OBVIOUS
  <2> DEFINE s == [j \in 0 .. 0 |-> 0]
  <2>2. s = Sums(rd, 0, s)
    BY DEF Sums
  <2>3. QED
    BY <2>1, <2>2
<1>4. PICK s : s = Sums(rd, k - 1, s)
  <2>1. k - 1 \in Nat /\ ~(k <= k - 1)
    BY <1>3
  <2>2. QED
    BY <1>2, <2>1
<1> DEFINE last   == s[k-1] + rd.fields[k].size
           longer == [j \in 0 .. k |-> IF j < k THEN s[j] ELSE last]
<1>5. longer = Sums(rd, k, longer)
  <2>1. \A j \in 0 .. k - 1 : longer[j] = s[j]
    OBVIOUS
  <2>2. \A j \in 0 .. k - 1 :
          s[j] = IF j = 0 THEN 0 ELSE s[j-1] + rd.fields[j].size
    BY <1>4 DEF Sums
  <2>3. longer[k] = last
    OBVIOUS
  <2>4. QED
    BY <1>3, <2>1, <2>2, <2>3 DEF Sums
<1>6. QED
  BY <1>5

LEMMA SumsAgree ==
  ASSUME NEW rd, NEW n \in Nat, NEW f, f = Sums(rd, n, f),
         NEW m \in Nat, NEW g, g = Sums(rd, m, g),
         NEW i \in 0 .. n, i <= m
  PROVE  f[i] = g[i]
<1> DEFINE Differ == {j \in 0 .. n : j <= m /\ f[j] # g[j]}
<1>1. SUFFICES ASSUME Differ # {} PROVE FALSE
  OBVIOUS
<1>2. PICK k \in Differ : \A j \in Differ : k <= j
  <2>1. Differ \in SUBSET Nat
    OBVIOUS
  <2> HIDE DEF Differ
  <2>2. QED
    BY <1>1, <2>1, Smallest
<1>3. /\ \A j \in 0 .. n : f[j] = IF j = 0 THEN 0 ELSE f[j-1] + rd.fields[j].size
      /\ \A j \in 0 .. m : g[j] = IF j = 0 THEN 0 ELSE g[j-1] + rd.fields[j].size
  BY DEF Sums
<1>4. k # 0
  BY <1>2, <1>3
<1>5. k - 1 \in 0 .. n /\ k - 1 <= m /\ k - 1 \notin Differ
  BY <1>2, <1>4
<1>6. f[k-1] = g[k-1]
  BY <1>5
<1>7. QED
  BY <1>2, <1>3, <1>4, <1>6

\* The sums do not depend on how many there are.
LEMMA CurrentIs ==
  ASSUME NEW rd, NEW n \in Nat, NEW f, f = Sums(rd, n, f), NEW i \in 0 .. n
  PROVE  Current(rd, i) = f[i]
<1> DEFINE g == CHOOSE sum : sum = Sums(rd, i, sum)
<1>1. Current(rd, i) = g[i]
  BY DEF Current, Sums
<1>2. g = Sums(rd, i, g)
  BY SumsExist
<1> HIDE DEF g
<1>3. QED
  BY <1>1, <1>2, SumsAgree

LEMMA CurrentUnfold ==
  ASSUME NEW rd, HasSizes(rd)
  PROVE  /\ Current(rd, 0) = 0
         /\ \A i \in DOMAIN rd.fields :
              Current(rd, i) = Current(rd, i-1) + rd.fields[i].size
<1> DEFINE n == Len(rd.fields)
<1>1. PICK f : f = Sums(rd, n, f)
  BY SumsExist DEF HasSizes
<1>2. \A i \in 0 .. n : Current(rd, i) = f[i]
  BY <1>1, CurrentIs DEF HasSizes
<1>3. \A j \in 0 .. n : f[j] = IF j = 0 THEN 0 ELSE f[j-1] + rd.fields[j].size
  BY <1>1 DEF Sums
<1>4. n \in Nat /\ DOMAIN rd.fields = 1 .. n
  BY DEF HasSizes
<1> HIDE DEF n
<1>5. Current(rd, 0) = 0
  BY <1>2, <1>3, <1>4
<1>6. ASSUME NEW i \in 1 .. n
      PROVE  Current(rd, i) = Current(rd, i-1) + rd.fields[i].size
  <2>1. i \in 0 .. n /\ i - 1 \in 0 .. n /\ i # 0
    BY <1>4
  <2>2. QED
    BY <1>2, <1>3, <2>1
<1>7. QED
  BY <1>4, <1>5, <1>6

\* The places of the fields, one after the other
LEMMA PlacesInOrder ==
  ASSUME NEW rd, HasSizes(rd), IsRecordValid(rd)
  PROVE  /\ \A i \in 0 .. Len(rd.fields) : Current(rd, i) \in Nat
         /\ \A i \in DOMAIN rd.fields : Current(rd, i-1) < Current(rd, i)
         /\ \A j \in 0 .. Len(rd.fields) :
              \A i \in 0 .. j : Current(rd, i) <= Current(rd, j)
<1> DEFINE n    == Len(rd.fields)
           c(i) == Current(rd, i)
           s(i) == rd.fields[i].size
<1>1. n \in Nat /\ \A i \in 1 .. n : s(i) \in Nat /\ s(i) > 0
  BY DEF HasSizes, IsRecordValid
<1>2. c(0) = 0 /\ \A i \in 1 .. n : c(i) = c(i-1) + s(i)
  BY CurrentUnfold DEF HasSizes
<1>3. DOMAIN rd.fields = 1 .. n
  BY DEF HasSizes
<1> HIDE DEF n, c, s
<1>4. \A i \in 0 .. n : c(i) \in Nat
  <2> DEFINE Bad == {i \in 0 .. n : c(i) \notin Nat}
  <2>1. SUFFICES ASSUME Bad # {} PROVE FALSE
    OBVIOUS
  <2>2. PICK k \in Bad : \A j \in Bad : k <= j
    <3>1. Bad \in SUBSET Nat
      BY <1>1
    <3> HIDE DEF Bad
    <3>2. QED
      BY <2>1, <3>1, Smallest
  <2>3. k \in 1 .. n
    BY <1>1, <1>2, <2>2
  <2>4. k - 1 \in 0 .. n /\ k - 1 \notin Bad
    BY <1>1, <2>2, <2>3
  <2>5. c(k-1) \in Nat /\ s(k) \in Nat /\ c(k) = c(k-1) + s(k)
    BY <1>1, <1>2, <2>3, <2>4
  <2>6. QED
    BY <2>2, <2>5
<1>5. \A i \in 1 .. n : c(i-1) < c(i)
  <2>1. SUFFICES ASSUME NEW i \in 1 .. n PROVE c(i-1) < c(i)
    OBVIOUS
  <2>2. i - 1 \in 0 .. n
    BY <1>1
  <2>3. c(i-1) \in Nat /\ s(i) \in Nat /\ s(i) > 0 /\ c(i) = c(i-1) + s(i)
    BY <1>1, <1>2, <1>4, <2>2
  <2>4. QED
    BY <2>3
<1>6. ASSUME NEW i \in 0 .. n
      PROVE  \A j \in i .. n : c(i) <= c(j)
  <2> DEFINE Bad == {j \in i .. n : ~(c(i) <= c(j))}
  <2>1. SUFFICES ASSUME Bad # {} PROVE FALSE
    OBVIOUS
  <2>2. PICK k \in Bad : \A j \in Bad : k <= j
    <3>1. Bad \in SUBSET Nat
      BY <1>1
    <3> HIDE DEF Bad
    <3>2. QED
      BY <2>1, <3>1, Smallest
  <2>3. k # i
    BY <1>1, <1>4, <2>2
  <2>4. k \in 1 .. n /\ k - 1 \in i .. n /\ k - 1 \notin Bad
    BY <1>1, <2>2, <2>3
  <2>5. c(i) <= c(k-1) /\ c(k-1) < c(k)
    BY <1>5, <2>4
  <2>6. c(i) \in Nat /\ c(k-1) \in Nat /\ c(k) \in Nat
    <3>1. k \in 0 .. n /\ k - 1 \in 0 .. n
      BY <1>1, <2>4
    <3>2. QED
      BY <1>4, <3>1
  <2>7. QED
    BY <2>2, <2>5, <2>6
<1>7. \A j \in 0 .. n : \A i \in 0 .. j : c(i) <= c(j)
  <2>1. SUFFICES ASSUME NEW j \in 0 .. n, NEW i \in 0 .. j PROVE c(i) <= c(j)
    OBVIOUS
  <2>2. i \in 0 .. n /\ j \in i .. n
    BY <1>1
  <2>3. QED
    BY <1>6, <2>2
<1>8. QED
  BY <1>3, <1>4, <1>5, <1>7 DEF n, c

-----------------------------------------------------------------------------
(* Pairs of one record *)

\* The record's fields are other declarations than itself, each once.
OwnFields(rd) ==
  /\ \A i \in DOMAIN rd.fields : rd.fields[i].nd # rd.nd
  /\ \A i, j \in DOMAIN rd.fields : rd.fields[i].nd = rd.fields[j].nd => i = j

LEMMA ClNosOf ==
  ASSUME NEW rd, HasSizes(rd), OwnFields(rd), NEW i \in DOMAIN rd.fields
  PROVE  GetClNos(rd, rd.fields[i].nd)
           = ClNos(Current(rd, i-1) \div CacheLineSize,
                   Current(rd, i) \div CacheLineSize)
<1> DEFINE nd == rd.fields[i].nd
           k  == CHOOSE j \in DOMAIN rd.fields : rd.fields[j].nd = nd
<1>1. k = i
  BY DEF OwnFields
<1>2. nd # rd.nd
  BY DEF OwnFields
<1>3. GetClNos(rd, nd) = ClNos(EndCl(rd, k-1), EndCl(rd, k))
  BY <1>2 DEF GetClNos
<1>4. EndCl(rd, i) = Current(rd, i) \div CacheLineSize
  BY DEF EndCl, HasSizes
<1>5. EndCl(rd, i-1) = Current(rd, i-1) \div CacheLineSize
  <2>1. CASE i - 1 = 0
    <3>1. Current(rd, i-1) = 0
      BY <2>1, CurrentUnfold
    <3>2. 0 \div CacheLineSize = 0
      BY CacheLineAssumption, QuotientIs
    <3>3. QED
      BY <2>1, <3>1, <3>2 DEF EndCl
  <2>2. CASE i - 1 # 0
    BY <2>2 DEF EndCl
  <2>3. QED
    BY <2>1, <2>2
<1> HIDE DEF k
<1>6. QED
  BY <1>1, <1>3, <1>4, <1>5

\* For two fields, what isScl answers is so.
LEMMA SclIsExact ==
  ASSUME NEW rd, HasSizes(rd), OwnFields(rd), IsRecordValid(rd), IsRDAligned(rd),
         ~HasPadding(rd),
         NEW i \in DOMAIN rd.fields, NEW j \in DOMAIN rd.fields, i < j
  PROVE  /\ IsScl(rd, rd.fields[i].nd, rd, rd.fields[j].nd)
            <=> ShareALine(rd, i, j) /\ ~EndsItsLine(rd, i) /\ ~EndsItsLine(rd, j)
         /\ IsScl(rd, rd.fields[j].nd, rd, rd.fields[i].nd)
            <=> ShareALine(rd, j, i) /\ ~EndsItsLine(rd, j) /\ ~EndsItsLine(rd, i)
<1> DEFINE L  == CacheLineSize
           b1 == Current(rd, i-1)
           e1 == Current(rd, i)
           b2 == Current(rd, j-1)
           e2 == Current(rd, j)
           n  == Len(rd.fields)
<1>1. L \in Nat /\ L > 0
  BY CacheLineAssumption
<1>2. n \in Nat /\ DOMAIN rd.fields = 1 .. n
  BY DEF HasSizes
<1>3. b1 \in Nat /\ e1 \in Nat /\ b2 \in Nat /\ e2 \in Nat
  <2>1. i \in 0 .. n /\ i - 1 \in 0 .. n /\ j \in 0 .. n /\ j - 1 \in 0 .. n
    BY <1>2
  <2>2. QED
    BY <2>1, PlacesInOrder
<1>4. b1 < e1 /\ b2 < e2
  BY PlacesInOrder
<1>5. e1 <= b2
  <2>1. j - 1 \in 0 .. n /\ i \in 0 .. j - 1
    BY <1>2
  <2>2. QED
    BY <2>1, PlacesInOrder
<1>6. Offset(rd, i) = b1 /\ Offset(rd, j) = b2
  BY DEF HasPadding
<1>7. e1 = b1 + rd.fields[i].size /\ e2 = b2 + rd.fields[j].size
  BY CurrentUnfold
<1>8. /\ GetClNos(rd, rd.fields[i].nd) = ClNos(b1 \div L, e1 \div L)
      /\ GetClNos(rd, rd.fields[j].nd) = ClNos(b2 \div L, e2 \div L)
  BY ClNosOf
<1>9. /\ FirstLine(rd, i) = b1 \div L /\ LastLine(rd, i) = (e1 - 1) \div L
      /\ FirstLine(rd, j) = b2 \div L /\ LastLine(rd, j) = (e2 - 1) \div L
      /\ EndsItsLine(rd, i) <=> e1 % L = 0
      /\ EndsItsLine(rd, j) <=> e2 % L = 0
  <2> HIDE DEF b1, b2, e1, e2
  <2>1. FirstLine(rd, i) = b1 \div L /\ FirstLine(rd, j) = b2 \div L
    BY <1>6 DEF FirstLine
  <2>2. LastLine(rd, i) = (e1 - 1) \div L /\ LastLine(rd, j) = (e2 - 1) \div L
    <3> DEFINE s1 == rd.fields[i].size
               s2 == rd.fields[j].size
    <3>1. s1 \in Nat /\ s2 \in Nat /\ e1 = b1 + s1 /\ e2 = b2 + s2
      BY <1>7 DEF HasSizes
    <3> HIDE DEF s1, s2
    <3>2. b1 + s1 - 1 = e1 - 1 /\ b2 + s2 - 1 = e2 - 1
      BY <1>3, <3>1
    <3>3. LastLine(rd, i) = (b1 + s1 - 1) \div L /\ LastLine(rd, j) = (b2 + s2 - 1) \div L
      BY <1>6 DEF LastLine, s1, s2
    <3>4. QED
      BY <3>2, <3>3
  <2>3. EndsItsLine(rd, i) <=> e1 % L = 0
    BY <1>6, <1>7 DEF EndsItsLine
  <2>4. EndsItsLine(rd, j) <=> e2 % L = 0
    BY <1>6, <1>7 DEF EndsItsLine
  <2>5. QED
    BY <2>1, <2>2, <2>3, <2>4
<1>10. b1 \div L = b2 \div L /\ e1 \div L = e2 \div L
       <=> /\ b1 \div L = (e1 - 1) \div L /\ b2 \div L = (e2 - 1) \div L
           /\ b1 \div L = b2 \div L
           /\ e1 % L # 0 /\ e2 % L # 0
  <2> HIDE DEF L, b1, b2, e1, e2
  <2>1. QED
    BY <1>1, <1>3, <1>4, <1>5, SameLines
<1> DEFINE x == GetClNos(rd, rd.fields[i].nd)
           y == GetClNos(rd, rd.fields[j].nd)
<1>11. x = y <=> b1 \div L = b2 \div L /\ e1 \div L = e2 \div L
  BY <1>8 DEF ClNos
<1>12. /\ IsScl(rd, rd.fields[i].nd, rd, rd.fields[j].nd) <=> x = y
       /\ IsScl(rd, rd.fields[j].nd, rd, rd.fields[i].nd) <=> y = x
  BY DEF IsScl
<1>13. /\ ShareALine(rd, i, j) <=>
            /\ b1 \div L = (e1 - 1) \div L /\ b2 \div L = (e2 - 1) \div L
            /\ b1 \div L = b2 \div L
       /\ ShareALine(rd, j, i) <=> ShareALine(rd, i, j)
  BY <1>9 DEF ShareALine
<1> HIDE DEF x, y, b1, b2, e1, e2, L
<1>14. QED
  BY <1>9, <1>10, <1>11, <1>12, <1>13

\* A record and its fields, as the assumption on units has them
LEMMA RecordFacts ==
  ASSUME tu \in TranslationUnits, NEW rd \in Decls("record")
  PROVE  /\ HasSizes(rd) /\ OwnFields(rd)
         /\ \A i \in DOMAIN rd.fields : GetRDFromAny(rd.fields[i].nd) = rd
<1> DEFINE ds == Decls("field") \cup Decls("record")
<1>1. rd \in Range(tu) /\ rd.kind = "record" /\ rd \in ds
  BY DEF Decls
<1>2. /\ IsRecord(tu, rd)
      /\ \A d, e \in {c \in Range(tu) : c.kind \in {"field", "record"}} :
           d.nd = e.nd => d = e
  BY <1>1, RecordsAssumption DEF HasRecords
<1>3. \A d, e \in ds : d.nd = e.nd => d = e
  BY <1>2 DEF Decls
<1>4. rd.fields \in Seq(Range(rd.fields))
  BY <1>2 DEF IsRecord
<1>5. HasSizes(rd)
  <2>1. Len(rd.fields) \in Nat /\ DOMAIN rd.fields = 1 .. Len(rd.fields)
    BY <1>4
  <2>2. QED
    BY <1>2, <2>1 DEF IsRecord, HasSizes
<1>6. ASSUME NEW i \in DOMAIN rd.fields
      PROVE  \E d \in ds : /\ d.kind = "field" /\ d.record = rd.nd
                          /\ d.nd = rd.fields[i].nd
  BY <1>2 DEF IsRecord, Decls
<1> HIDE DEF ds
<1>7. ASSUME NEW i \in DOMAIN rd.fields
      PROVE  /\ rd.fields[i].nd # rd.nd
             /\ GetRDFromAny(rd.fields[i].nd) = rd
  <2> DEFINE nd == rd.fields[i].nd
  <2>1. PICK d \in ds : d.kind = "field" /\ d.record = rd.nd /\ d.nd = nd
    BY <1>6
  <2> HIDE DEF nd
  <2>2. nd # rd.nd
    BY <1>1, <1>3, <2>1
  <2> DEFINE c == CHOOSE r \in ds : r.nd = nd
  <2>3. c = d
    BY <1>3, <2>1
  <2> DEFINE o == CHOOSE r \in Decls("record") : r.nd = d.record
  <2>4. o = rd
    <3>1. rd \in Decls("record") /\ rd.nd = d.record
      BY <2>1
    <3>2. o \in Decls("record") /\ o.nd = rd.nd
      BY <3>1
    <3>3. o \in ds
      BY <3>2 DEF ds
    <3>4. QED
      BY <1>1, <1>3, <3>2, <3>3
  <2>5. GetRDFromAny(nd) = IF c.kind = "record" THEN c
                           ELSE CHOOSE r \in Decls("record") : r.nd = c.record
    BY DEF GetRDFromAny, ds
  <2> HIDE DEF c
  <2>6. GetRDFromAny(nd) = o
    BY <2>1, <2>3, <2>5
  <2>7. QED
    BY <2>2, <2>4, <2>6 DEF nd
<1>8. OwnFields(rd)
  BY <1>2, <1>7 DEF IsRecord, OwnFields
<1>9. QED
  BY <1>5, <1>7, <1>8

\* Of a pair annotated unk and never scl, AutoCl decides.
LEMMA AutoDecides ==
  ASSUME NEW data, NEW check, NEW p,
         p = [data |-> data, check |-> check, isScl |-> TRUE],
         "unk" \in ClTypes(data, check), "scl" \notin ClTypes(data, check)
  PROVE  p \in AnnotatedPairs
         <=> IsScl(GetRDFromAny(data), data, GetRDFromAny(check), check)
<1> DEFINE ds   == Decls("field") \cup Decls("record")
           auto == IsScl(GetRDFromAny(data), data, GetRDFromAny(check), check)
<1>1. AnnotatedPairs = UNION {{Annotated(d, a) : a \in Range(PairAnnots(d))} :
                              d \in ds}
  BY DEF AnnotatedPairs, Annotated
<1>2. ClTypes(data, check) =
        UNION {{a.clType : a \in {b \in Range(PairAnnots(d)) :
                                    Named(b.check) = check}} :
               d \in {e \in ds : Named(e.name) = data}}
  BY DEF ClTypes
<1> HIDE DEF ds
<1>3. \A q : q \in AnnotatedPairs <=>
        \E d \in ds : \E a \in Range(PairAnnots(d)) : q = Annotated(d, a)
  BY <1>1
<1>4. \A t : t \in ClTypes(data, check) <=>
        \E d \in ds : \E a \in Range(PairAnnots(d)) :
          Named(d.name) = data /\ Named(a.check) = check /\ t = a.clType
  BY <1>2
<1>5. ASSUME p \in AnnotatedPairs
      PROVE  auto
  <2>1. PICK d, a : d \in ds /\ a \in Range(PairAnnots(d)) /\ p = Annotated(d, a)
    BY <1>3, <1>5
  <2> DEFINE x == Named(d.name)
             y == Named(a.check)
             u == UsesScl(x, y, a.clType)
  <2>2. p = [data |-> x, check |-> y, isScl |-> u]
    BY <2>1 DEF Annotated
  <2> HIDE DEF x, y, u
  <2>3. x = data /\ y = check /\ u = TRUE
    BY <2>2
  <2>4. a.clType \in ClTypes(data, check)
    BY <1>4, <2>1, <2>3 DEF x, y
  <2>5. UsesScl(data, check, a.clType)
    BY <2>3 DEF u
  <2>6. QED
    BY <2>4, <2>5 DEF UsesScl
<1>6. ASSUME auto
      PROVE  p \in AnnotatedPairs
  <2>1. PICK d, a : /\ d \in ds /\ a \in Range(PairAnnots(d))
                    /\ Named(d.name) = data /\ Named(a.check) = check
                    /\ a.clType = "unk"
    BY <1>4
  <2> DEFINE u == UsesScl(data, check, a.clType)
  <2>2. u
    BY <1>6, <2>1 DEF UsesScl
  <2>3. u \in BOOLEAN
    BY DEF UsesScl
  <2>4. Annotated(d, a) = [data |-> data, check |-> check, isScl |-> u]
    BY <2>1 DEF Annotated
  <2> HIDE DEF u
  <2>5. Annotated(d, a) = p
    BY <2>2, <2>3, <2>4
  <2>6. QED
    BY <1>3, <2>1, <2>5
<1>7. QED
  BY <1>5, <1>6

\* A pair of two fields that says neither scl nor dcl is taken to be on one line
\* exactly when it is and neither field ends the line, for records of any number
\* of fields and lines of any size (AutoCl::isScl, createRD).
THEOREM Lines == Spec => []AutoClExact
<1>1. ASSUME IInv, HasPairs, phase = "done"
      PROVE  AutoClExact
  <2>1. pairs = AnnotatedPairs
    BY <1>1, AllPairs
  <2>2. tu \in TranslationUnits
    BY <1>1 DEF IInv, UnitKnown
  <2>3. ASSUME NEW rd \in Decls("record"),
               NEW i \in DOMAIN rd.fields, NEW j \in DOMAIN rd.fields,
               IsRecordValid(rd), ~HasPadding(rd), IsRDAligned(rd), i # j,
               NEW data, data = rd.fields[i].nd,
               NEW check, check = rd.fields[j].nd,
               "unk" \in ClTypes(data, check), "scl" \notin ClTypes(data, check)
        PROVE  [data |-> data, check |-> check, isScl |-> TRUE] \in pairs
               <=> /\ ShareALine(rd, i, j)
                   /\ ~EndsItsLine(rd, i) /\ ~EndsItsLine(rd, j)
    <3>1. HasSizes(rd) /\ OwnFields(rd)
      BY <2>2, <2>3, RecordFacts
    <3>2. GetRDFromAny(data) = rd /\ GetRDFromAny(check) = rd
      BY <2>2, <2>3, RecordFacts
    <3>3. [data |-> data, check |-> check, isScl |-> TRUE] \in pairs
          <=> IsScl(rd, data, rd, check)
      BY <2>1, <2>3, <3>2, AutoDecides
    <3>4. i < j \/ j < i
      BY <2>3, <3>1 DEF HasSizes
    <3>5. IsScl(rd, data, rd, check)
          <=> ShareALine(rd, i, j) /\ ~EndsItsLine(rd, i) /\ ~EndsItsLine(rd, j)
      <4>1. CASE i < j
        BY <2>3, <3>1, <4>1, SclIsExact
      <4>2. CASE j < i
        BY <2>3, <3>1, <4>2, SclIsExact
      <4>3. QED
        BY <3>4, <4>1, <4>2
    <3>6. QED
      BY <3>3, <3>5
  <2>4. QED
    BY <2>3 DEF AutoClExact
<1>2. IInv => AutoClExact
  BY <1>1 DEF AutoClExact
<1>3. QED
  BY <1>2, Invariant, PTL
=============================================================================
