-------------------------- MODULE GlobalParserProofs --------------------------
(***************************************************************************)
(* The functions below an analysed one: what the global parsers reach in   *)
(* as many calls as the program has functions is closed under calls, and   *)
(* the least such set.  For every program with finitely many functions.    *)
(***************************************************************************)
EXTENDS GlobalParser, Sequences, WellFoundedInduction, FiniteSetTheorems, TLAPS

Reached(p, f, g) == g \in ReachFrom(p, {f})

\* A set of numbers has a smallest one.
LEMMA Smallest ==
  ASSUME NEW T \in SUBSET Nat, T # {}
  PROVE  \E n \in T : \A m \in T : n <= m
<1> DEFINE T2 == {0 .. n : n \in T}
           R == StrictSubsetOrdering(Nat)
<1>1. T2 \subseteq FiniteSubsetsOf(Nat) /\ T2 # {}
  <2>1. \A n \in T : IsFiniteSet(0 .. n)
    BY FS_Interval
  <2>2. \A n \in T : 0 .. n \in FiniteSubsetsOf(Nat)
    BY <2>1 DEF FiniteSubsetsOf
  <2>3. QED
    BY <2>2
<1>2. IsWellFoundedOn(R, FiniteSubsetsOf(Nat))
  BY FS_StrictSubsetOrderingWellFounded
<1> HIDE DEF T2, R
<1>3. PICK X \in T2 : \A Y \in T2 : ~(<<Y, X>> \in R)
  BY <1>1, <1>2, WFMin
<1>4. PICK n \in T : X = 0 .. n
  BY DEF T2
<1>5. \A m \in T : n <= m
  <2>1. SUFFICES ASSUME NEW m \in T, m < n PROVE FALSE
    BY <1>4
  <2>2. 0 .. m \in T2 /\ 0 .. m \subseteq 0 .. n /\ n \notin 0 .. m
    BY <2>1 DEF T2
  <2>3. <<0 .. m, 0 .. n>> \in R
    BY <2>2 DEF R, StrictSubsetOrdering
  <2>4. QED
    BY <1>3, <1>4, <2>2, <2>3
<1>6. QED
  BY <1>5

\* One call further, from the functions fs
Further(p, fs) == fs \cup ((UNION {Calls(p, g) : g \in fs}) \cap DOMAIN p)

\* The recursive function of Reach
ReachUpTo(p, fs, n, r) ==
  [i \in 0 .. n |-> IF i = 0 THEN fs ELSE Further(p, r[i-1])]

LEMMA ReachUnfold ==
  ASSUME NEW p, NEW fs, NEW n
  PROVE  Reach(p, fs, n) = (CHOOSE r : r = ReachUpTo(p, fs, n, r))[n]
BY DEF Reach, ReachUpTo, Further

LEMMA ReachExists ==
  ASSUME NEW p, NEW fs, NEW n \in Nat
  PROVE  \E r : r = ReachUpTo(p, fs, n, r)
<1> DEFINE Fails == {k \in Nat : ~\E r : r = ReachUpTo(p, fs, k, r)}
<1>1. SUFFICES ASSUME Fails # {} PROVE FALSE
  OBVIOUS
<1>2. PICK k \in Fails : \A j \in Fails : k <= j
  <2>1. Fails \in SUBSET Nat
    OBVIOUS
  <2> HIDE DEF Fails
  <2>2. QED
    BY <1>1, <2>1, Smallest
<1>3. k # 0
  <2>1. SUFFICES ASSUME k = 0 PROVE FALSE
    OBVIOUS
  <2> DEFINE r == [i \in 0 .. 0 |-> fs]
  <2>2. r = ReachUpTo(p, fs, 0, r)
    BY DEF ReachUpTo
  <2>3. QED
    BY <2>1, <2>2
<1>4. PICK r : r = ReachUpTo(p, fs, k - 1, r)
  <2>1. k - 1 \in Nat /\ ~(k <= k - 1)
    BY <1>3
  <2>2. QED
    BY <1>2, <2>1
<1> DEFINE s == [i \in 0 .. k |-> IF i < k THEN r[i] ELSE Further(p, r[k-1])]
<1>5. s = ReachUpTo(p, fs, k, s)
  <2>1. \A i \in 0 .. k - 1 : s[i] = r[i]
    OBVIOUS
  <2>2. \A i \in 0 .. k - 1 : r[i] = IF i = 0 THEN fs ELSE Further(p, r[i-1])
    BY <1>4 DEF ReachUpTo
  <2>3. QED
    BY <1>3, <2>1, <2>2 DEF ReachUpTo
<1>6. QED
  BY <1>5

\* In n steps, which take every subset of U to one it is part of, fs grows as
\* far as it can.
Grows(reach, n, U, next, fs) ==
  /\ n \in Nat /\ IsFiniteSet(U) /\ Cardinality(U) <= n
  /\ next \in [SUBSET U -> SUBSET U]
  /\ \A X \in SUBSET U : X \subseteq next[X]
  /\ fs \in SUBSET U /\ reach[0] = fs
  /\ \A i \in 0 .. n : i # 0 /\ reach[i-1] \in SUBSET U =>
                       reach[i] = next[reach[i-1]]

LEMMA GrowsToEnd ==
  ASSUME NEW reach, NEW n, NEW U, NEW next, NEW fs, Grows(reach, n, U, next, fs)
  PROVE  /\ reach[n] \in SUBSET U /\ fs \subseteq reach[n]
         /\ next[reach[n]] = reach[n]
<1> USE DEF Grows
<1>1. \A i \in 0 .. n : reach[i] \in SUBSET U /\ fs \subseteq reach[i]
  <2> DEFINE Bad == {i \in 0 .. n : ~(reach[i] \in SUBSET U /\ fs \subseteq reach[i])}
  <2>1. SUFFICES ASSUME Bad # {} PROVE FALSE
    OBVIOUS
  <2>2. PICK k \in Bad : \A j \in Bad : k <= j
    <3>1. Bad \in SUBSET Nat
      OBVIOUS
    <3> HIDE DEF Bad
    <3>2. QED
      BY <2>1, <3>1, Smallest
  <2>3. k # 0
    OBVIOUS
  <2>4. k - 1 \in 0 .. n /\ k - 1 \notin Bad
    BY <2>2, <2>3
  <2>5. reach[k] = next[reach[k-1]]
    BY <2>3, <2>4
  <2>6. QED
    BY <2>4, <2>5
<1>2. \E j \in 0 .. n : next[reach[j]] = reach[j]
  <2>1. SUFFICES ASSUME \A j \in 0 .. n : next[reach[j]] # reach[j]
                 PROVE  FALSE
    OBVIOUS
  <2>2. Cardinality(U) \in Nat
    BY FS_CardinalityType
  <2>3. \A i \in 0 .. n : IsFiniteSet(reach[i]) /\ Cardinality(reach[i]) \in Nat
                          /\ Cardinality(reach[i]) <= Cardinality(U)
    BY <1>1, FS_Subset, FS_CardinalityType
  <2> DEFINE Bad == {i \in 0 .. n : Cardinality(reach[i]) < i}
  <2>4. Bad = {}
    <3>1. SUFFICES ASSUME Bad # {} PROVE FALSE
      OBVIOUS
    <3>2. PICK k \in Bad : \A j \in Bad : k <= j
      <4>1. Bad \in SUBSET Nat
        OBVIOUS
      <4> HIDE DEF Bad
      <4>2. QED
        BY <3>1, <4>1, Smallest
    <3>3. k # 0 /\ k \in 0 .. n /\ Cardinality(reach[k]) < k
      BY <2>3
    <3>4. k - 1 \in 0 .. n /\ ~(Cardinality(reach[k-1]) < k - 1)
      BY <3>2, <3>3
    <3>5. reach[k] = next[reach[k-1]]
      BY <1>1, <3>3, <3>4
    <3>6. reach[k-1] \subseteq reach[k] /\ reach[k-1] # reach[k]
      BY <1>1, <2>1, <3>4, <3>5
    <3>7. Cardinality(reach[k-1]) < Cardinality(reach[k])
      <4>1. IsFiniteSet(reach[k]) /\ reach[k-1] \in SUBSET reach[k]
        BY <2>3, <3>3, <3>6
      <4>2. /\ Cardinality(reach[k-1]) <= Cardinality(reach[k])
            /\ Cardinality(reach[k-1]) # Cardinality(reach[k])
        BY <3>6, <4>1, FS_Subset
      <4>3. QED
        BY <2>3, <3>3, <3>4, <4>2
    <3>8. QED
      BY <2>3, <3>3, <3>4, <3>7
  <2>5. Cardinality(reach[n]) = Cardinality(U)
    <3>1. n \in 0 .. n /\ n \notin Bad
      BY <2>4
    <3>2. QED
      BY <2>2, <2>3, <3>1
  <2>6. reach[n] = U
    <3>1. n \in 0 .. n
      OBVIOUS
    <3>2. QED
      BY <1>1, <2>5, <3>1, FS_Subset
  <2>7. next[U] = U
    <3>1. U \in SUBSET U
      OBVIOUS
    <3>2. next[U] \in SUBSET U /\ U \subseteq next[U]
      BY <3>1
    <3>3. QED
      BY <3>2
  <2>8. n \in 0 .. n
    OBVIOUS
  <2>9. QED
    BY <2>1, <2>6, <2>7, <2>8
<1>3. PICK j \in 0 .. n : next[reach[j]] = reach[j]
  BY <1>2
<1>4. \A i \in j .. n : reach[i] = reach[j]
  <2> DEFINE Bad == {i \in j .. n : reach[i] # reach[j]}
  <2>1. SUFFICES ASSUME Bad # {} PROVE FALSE
    OBVIOUS
  <2>2. PICK k \in Bad : \A i \in Bad : k <= i
    <3>1. Bad \in SUBSET Nat
      OBVIOUS
    <3> HIDE DEF Bad
    <3>2. QED
      BY <2>1, <3>1, Smallest
  <2>3. k # j /\ k \in j .. n
    OBVIOUS
  <2>4. k - 1 \in j .. n /\ k - 1 \notin Bad
    BY <2>2, <2>3
  <2>5. reach[k] = next[reach[k-1]]
    BY <1>1, <2>3, <2>4
  <2>6. QED
    BY <1>3, <2>4, <2>5
<1>5. reach[n] = reach[j] /\ n \in 0 .. n
  BY <1>4
<1>6. QED
  BY <1>1, <1>3, <1>5

\* What is reached in as many calls as there are functions is all there is.
LEMMA ReachClosed ==
  ASSUME NEW p, IsFiniteSet(DOMAIN p), NEW fs \in SUBSET DOMAIN p
  PROVE  /\ fs \subseteq ReachFrom(p, fs)
         /\ Further(p, ReachFrom(p, fs)) = ReachFrom(p, fs)
<1> DEFINE n     == Cardinality(DOMAIN p)
           reach == CHOOSE r : r = ReachUpTo(p, fs, n, r)
           next  == [X \in SUBSET DOMAIN p |-> Further(p, X)]
<1>1. n \in Nat
  BY FS_CardinalityType
<1>2. reach = ReachUpTo(p, fs, n, reach)
  BY <1>1, ReachExists
<1>3. ReachFrom(p, fs) = reach[n]
  BY ReachUnfold DEF ReachFrom
<1> HIDE DEF reach
<1>4. /\ reach[0] = fs
      /\ \A i \in 0 .. n : i # 0 => reach[i] = Further(p, reach[i-1])
  BY <1>1, <1>2 DEF ReachUpTo
<1> HIDE DEF n
<1>5. \A X \in SUBSET DOMAIN p :
        X \subseteq Further(p, X) /\ Further(p, X) \in SUBSET DOMAIN p
  BY DEF Further
<1>6. /\ next \in [SUBSET DOMAIN p -> SUBSET DOMAIN p]
      /\ \A X \in SUBSET DOMAIN p : next[X] = Further(p, X) /\ X \subseteq next[X]
  BY <1>5
<1> HIDE DEF next
<1>7. \A i \in 0 .. n : i # 0 /\ reach[i-1] \in SUBSET DOMAIN p =>
                         reach[i] = next[reach[i-1]]
  BY <1>4, <1>6
<1>8. Cardinality(DOMAIN p) <= n /\ reach[0] = fs
  BY <1>1, <1>4 DEF n
<1>9. /\ next \in [SUBSET DOMAIN p -> SUBSET DOMAIN p]
      /\ \A X \in SUBSET DOMAIN p : X \subseteq next[X]
  BY <1>6
<1>10. /\ reach[n] \in SUBSET DOMAIN p /\ fs \subseteq reach[n]
       /\ next[reach[n]] = reach[n]
  <2> DEFINE U == DOMAIN p
  <2>1. /\ IsFiniteSet(U) /\ Cardinality(U) <= n
        /\ next \in [SUBSET U -> SUBSET U]
        /\ \A X \in SUBSET U : X \subseteq next[X]
        /\ fs \in SUBSET U
        /\ \A i \in 0 .. n : i # 0 /\ reach[i-1] \in SUBSET U =>
                             reach[i] = next[reach[i-1]]
    BY <1>7, <1>8, <1>9
  <2> HIDE DEF U
  <2>2. /\ reach[n] \in SUBSET U /\ fs \subseteq reach[n]
        /\ next[reach[n]] = reach[n]
    <3>1. Grows(reach, n, U, next, fs)
      BY <1>1, <1>8, <2>1 DEF Grows
    <3>2. QED
      BY <3>1, GrowsToEnd
  <2>3. QED
    BY <2>2 DEF U
<1>11. QED
  BY <1>3, <1>6, <1>10

\* It is part of every set that is closed under calls.
LEMMA ReachLeast ==
  ASSUME NEW p, IsFiniteSet(DOMAIN p), NEW fs, NEW X,
         fs \subseteq X, Further(p, X) \subseteq X
  PROVE  ReachFrom(p, fs) \subseteq X
<1> DEFINE n     == Cardinality(DOMAIN p)
           reach == CHOOSE r : r = ReachUpTo(p, fs, n, r)
<1>1. n \in Nat
  BY FS_CardinalityType
<1>2. reach = ReachUpTo(p, fs, n, reach)
  BY <1>1, ReachExists
<1>3. ReachFrom(p, fs) = reach[n]
  BY ReachUnfold DEF ReachFrom
<1> HIDE DEF reach, n
<1>4. \A i \in 0 .. n :
        reach[i] = IF i = 0 THEN fs ELSE Further(p, reach[i-1])
  BY <1>1, <1>2 DEF ReachUpTo
<1> DEFINE Bad == {i \in 0 .. n : ~(reach[i] \subseteq X)}
<1>5. Bad = {}
  <2>1. SUFFICES ASSUME Bad # {} PROVE FALSE
    OBVIOUS
  <2>2. PICK k \in Bad : \A j \in Bad : k <= j
    <3>1. Bad \in SUBSET Nat
      OBVIOUS
    <3> HIDE DEF Bad
    <3>2. QED
      BY <2>1, <3>1, Smallest
  <2>3. k \in 0 .. n /\ k # 0
    BY <1>1, <1>4
  <2>4. k - 1 \in 0 .. n /\ k - 1 \notin Bad
    BY <1>1, <2>2, <2>3
  <2>5. reach[k-1] \subseteq X
    BY <2>4
  <2>6. Further(p, reach[k-1]) \subseteq Further(p, X)
    BY <2>5 DEF Further
  <2>7. reach[k] \subseteq X
    BY <1>4, <2>3, <2>6
  <2>8. QED
    BY <2>2, <2>7
<1>6. n \in 0 .. n
  BY <1>1
<1>7. QED
  BY <1>3, <1>5, <1>6

-----------------------------------------------------------------------------
(* The statements of a function, whose blocks are sequences over S *)

Positions(p, g, b) == 1 .. Len(p[g].elems[b])

HasBlocks(p, g, S) == p[g].elems \in [0 .. p[g].last -> Seq(S)]

LEMMA StmtsInBlocks ==
  ASSUME NEW p, NEW g, NEW S, HasBlocks(p, g, S)
  PROVE  /\ \A b \in 0 .. p[g].last : \A i \in Positions(p, g, b) :
              p[g].elems[b][i] \in Stmts(p, g)
         /\ \A s \in Stmts(p, g) : \E b \in 0 .. p[g].last :
              \E i \in Positions(p, g, b) : s = p[g].elems[b][i]
<1>1. /\ p[g].elems \in [0 .. p[g].last -> Seq(S)]
      /\ DOMAIN p[g].elems = 0 .. p[g].last
  BY DEF HasBlocks
<1>2. ASSUME NEW b \in 0 .. p[g].last
      PROVE  Range(p[g].elems[b]) =
               {p[g].elems[b][i] : i \in Positions(p, g, b)}
  <2>1. p[g].elems[b] \in Seq(S)
    BY <1>1
  <2>2. QED
    BY <2>1 DEF Range, Positions
<1>3. Stmts(p, g) = UNION {Range(p[g].elems[b]) : b \in 0 .. p[g].last}
  BY <1>1 DEF Stmts
<1>4. ASSUME NEW b \in 0 .. p[g].last, NEW i \in Positions(p, g, b)
      PROVE  p[g].elems[b][i] \in Stmts(p, g)
  BY <1>2, <1>3
<1>5. ASSUME NEW s \in Stmts(p, g)
      PROVE  \E b \in 0 .. p[g].last :
               \E i \in Positions(p, g, b) : s = p[g].elems[b][i]
  <2>1. PICK b \in 0 .. p[g].last : s \in Range(p[g].elems[b])
    BY <1>3
  <2>2. QED
    BY <1>2, <2>1
<1>6. QED
  BY <1>4, <1>5

\* A call of a function with a body stays in the unit.
LEMMA CallStaysInUnit ==
  ASSUME NEW p, IsFiniteSet(DOMAIN p), NEW f \in DOMAIN p,
         NEW g, Reached(p, f, g),
         NEW s \in Stmts(p, g), s.op = "call"
  PROVE  /\ s.callee \in Calls(p, g)
         /\ s.callee \in DOMAIN p => Reached(p, f, s.callee)
<1>1. s.callee \in Calls(p, g)
  BY DEF Calls
<1>2. ASSUME s.callee \in DOMAIN p
      PROVE  s.callee \in ReachFrom(p, {f})
  <2>1. Further(p, ReachFrom(p, {f})) = ReachFrom(p, {f})
    BY ReachClosed
  <2>2. g \in ReachFrom(p, {f})
    BY DEF Reached
  <2>3. s.callee \in Further(p, ReachFrom(p, {f}))
    BY <1>1, <1>2, <2>2 DEF Further
  <2>4. QED
    BY <2>1, <2>3
<1>3. QED
  BY <1>1, <1>2 DEF Reached

\* The unit's own function is one of it, and all have bodies.
LEMMA UnitFunctions ==
  ASSUME NEW p, IsFiniteSet(DOMAIN p), NEW f \in DOMAIN p
  PROVE  /\ Reached(p, f, f)
         /\ \A g : Reached(p, f, g) => g \in DOMAIN p
<1>1. {f} \subseteq ReachFrom(p, {f})
  BY ReachClosed
<1>2. Further(p, DOMAIN p) \subseteq DOMAIN p
  BY DEF Further
<1>3. ReachFrom(p, {f}) \subseteq DOMAIN p
  BY <1>2, ReachLeast
<1>4. QED
  BY <1>1, <1>3 DEF Reached

\* The least set of functions that holds f and what its members call
LEMMA UnitLeast ==
  ASSUME NEW p, IsFiniteSet(DOMAIN p), NEW f \in DOMAIN p, NEW X, f \in X,
         \A g \in X : \A s \in Stmts(p, g) :
           s.op = "call" /\ s.callee \in DOMAIN p => s.callee \in X
  PROVE  \A g : Reached(p, f, g) => g \in X
<1>1. Further(p, X) \subseteq X
  BY DEF Further, Calls
<1>2. {f} \subseteq X
  OBVIOUS
<1>3. ReachFrom(p, {f}) \subseteq X
  BY <1>1, <1>2, ReachLeast
<1>4. QED
  BY <1>3 DEF Reached
=============================================================================
