--------------------------- MODULE TaskDefs_proofs ---------------------------
(***************************************************************************)
(* What the searches of TaskDefs find, for any names and any routes; and   *)
(* from that its properties, for any definitions, requests and handlers.   *)
(***************************************************************************)
EXTENDS TaskDefs, FiniteSetTheorems, WellFoundedInduction, TLAPS

USE ConstantsAssumption


-----------------------------------------------------------------------------
(***************************************************************************)
(* Induction, as a statement about sets: the induction theorems of the     *)
(* library are about operators                                             *)
(***************************************************************************)
LEMMA LeastNumber ==
    ASSUME NEW T \in SUBSET Nat, T # {}
    PROVE  \E x \in T : \A y \in T : x <= y
<1>. DEFINE R == OpToRel(<, Nat)
<1>1. IsWellFoundedOn(R, Nat)
  BY NatLessThanWellFounded
<1>2. PICK x \in T : \A y \in T : ~(<<y, x>> \in R)
  <2>. HIDE DEF R
  <2>. QED BY <1>1, WFMin
<1>3. \A y \in Nat, z \in Nat : y < z => <<y, z>> \in R
  BY DEF OpToRel
<1>. HIDE DEF R
<1>4. \A y \in T : y \in Nat /\ ~(y < x)
  BY <1>2, <1>3
<1>5. ASSUME NEW y \in T PROVE x <= y
  <2>1. y \in Nat /\ x \in Nat /\ ~(y < x)
    BY <1>4
  <2>. QED BY <2>1
<1>. QED BY <1>5

LEMMA Induction ==
    ASSUME NEW S, 0 \in S, \A n \in Nat : n \in S => n + 1 \in S
    PROVE  Nat \subseteq S
<1>1. SUFFICES ASSUME Nat \ S # {} PROVE FALSE
  OBVIOUS
<1>2. PICK x \in Nat \ S : \A y \in Nat \ S : x <= y
  BY <1>1, LeastNumber
<1>3. x # 0 /\ x - 1 \in Nat /\ x - 1 + 1 = x
  BY <1>2
<1>. QED BY <1>2, <1>3

\* C has all sets if it has the empty one, and each other with one that lacks an element of it.
LEMMA SetInduction ==
    ASSUME NEW U, IsFiniteSet(U), NEW C, {} \in C,
           \A S \in SUBSET U : S # {} => \E x \in S : S \ {x} \in C => S \in C
    PROVE  SUBSET U \subseteq C
<1>. DEFINE N == {n \in Nat : \A S \in SUBSET U : Cardinality(S) = n => S \in C}
<1>0. \A S \in SUBSET U : IsFiniteSet(S)
  BY FS_Subset
<1>1. \A S \in SUBSET U : IsFiniteSet(S) /\ Cardinality(S) \in Nat
  BY <1>0, FS_CardinalityType
<1>2. 0 \in N
  <2>1. \A S \in SUBSET U : Cardinality(S) = 0 => S = {}
    BY <1>1, FS_EmptySet
  <2>. QED BY <2>1
<1>3. ASSUME NEW n \in Nat, n \in N PROVE n + 1 \in N
  <2>. SUFFICES ASSUME NEW S \in SUBSET U, Cardinality(S) = n + 1 PROVE S \in C
    OBVIOUS
  <2>1. S # {}
    <3>1. Cardinality({}) # n + 1
      BY FS_EmptySet
    <3>. QED BY <3>1
  <2>2. PICK x \in S : S \ {x} \in C => S \in C
    BY <2>1
  <2>3. Cardinality(S \ {x}) = n
    <3>1. IsFiniteSet(S)
      BY <1>0
    <3>2. Cardinality(S \ {x}) = Cardinality(S) - 1
      BY <3>1, FS_RemoveElement
    <3>. QED BY <3>2
  <2>. QED BY <1>3, <2>2, <2>3
<1>. HIDE DEF N
<1>4. Nat \subseteq N
  BY <1>2, <1>3, Induction
<1>. QED BY <1>1, <1>4 DEF N

-----------------------------------------------------------------------------
(***************************************************************************)
(* What Reach computes: the least closed set                               *)
(***************************************************************************)
N == Cardinality(Name)

LEMMA NameCount == N \in Nat
BY FS_CardinalityType DEF N

Wider(arcs, S) == S \cup {m \in Name : \E n \in S : <<n, m>> \in arcs}
IsLevel(L, arcs, start) == L = [k \in 0..N |-> IF k = 0 THEN start ELSE Wider(arcs, L[k - 1])]

LEMMA LevelsExist ==
    ASSUME NEW arcs, NEW start
    PROVE  \E L : IsLevel(L, arcs, start)
<1>. DEFINE Upto(n, L) == L = [k \in 0..n |-> IF k = 0 THEN start ELSE Wider(arcs, L[k - 1])]
            S == {n \in Nat : \E L : Upto(n, L)}
<1>1. 0 \in S
  <2>. DEFINE L == [k \in 0..0 |-> start]
  <2>1. Upto(0, L)
    OBVIOUS
  <2>. QED BY <2>1
<1>2. ASSUME NEW n \in Nat, n \in S PROVE n + 1 \in S
  <2>1. PICK L : Upto(n, L)
    BY <1>2
  <2>. DEFINE M == [k \in 0..(n + 1) |-> IF k = n + 1 THEN Wider(arcs, L[n]) ELSE L[k]]
  <2>2. \A k \in 0..n : M[k] = L[k]
    OBVIOUS
  <2>3. \A k \in 0..n : L[k] = IF k = 0 THEN start ELSE Wider(arcs, L[k - 1])
    BY <2>1
  <2>4. ASSUME NEW k \in 0..(n + 1)
        PROVE  M[k] = IF k = 0 THEN start ELSE Wider(arcs, M[k - 1])
    <3>1. CASE k = n + 1
      BY <2>2, <3>1
    <3>2. CASE k \in 0..n /\ k # 0
      <4>1. k - 1 \in 0..n
        BY <3>2
      <4>. QED BY <2>2, <2>3, <3>2, <4>1
    <3>3. CASE k = 0
      BY <2>2, <2>3, <3>3
    <3>. QED BY <3>1, <3>2, <3>3
  <2>5. Upto(n + 1, M)
    <3>1. M = [k \in 0..(n + 1) |-> M[k]]
      OBVIOUS
    <3>2. [k \in 0..(n + 1) |-> M[k]]
          = [k \in 0..(n + 1) |-> IF k = 0 THEN start ELSE Wider(arcs, M[k - 1])]
      <4>. HIDE DEF M
      <4>. QED BY <2>4
    <3>. QED BY <3>1, <3>2
  <2>6. \E H : Upto(n + 1, H)
    <3>. HIDE DEF M
    <3>. QED BY <2>5
  <2>. QED BY <2>6
<1>. HIDE DEF S
<1>3. N \in S
  BY <1>1, <1>2, Induction, NameCount
<1>. QED BY <1>3 DEF S, IsLevel

LEMMA ReachIsLevel ==
    ASSUME NEW arcs, NEW start
    PROVE  \E L : IsLevel(L, arcs, start) /\ Reach(arcs, start) = L[N]
<1>. DEFINE L == CHOOSE L : IsLevel(L, arcs, start)
<1>1. IsLevel(L, arcs, start)
  BY LevelsExist
<1>2. Reach(arcs, start) = L[N]
  BY DEF Reach, IsLevel, Wider, N
<1>. QED BY <1>1, <1>2

Closed(arcs, B) == \A n \in B : After(arcs, n) \subseteq B

LEMMA LevelSteps ==
    ASSUME NEW arcs, NEW start, NEW L, IsLevel(L, arcs, start)
    PROVE  L[0] = start /\ \A k \in Nat : k + 1 <= N => L[k + 1] = Wider(arcs, L[k])
<1>1. \A k \in 0..N : L[k] = IF k = 0 THEN start ELSE Wider(arcs, L[k - 1])
  BY DEF IsLevel
<1>2. 0 \in 0..N
  BY NameCount
<1>3. ASSUME NEW k \in Nat, k + 1 <= N PROVE L[k + 1] = Wider(arcs, L[k])
  <2>1. k + 1 \in 0..N /\ k + 1 # 0 /\ k + 1 - 1 = k
    BY <1>3, NameCount
  <2>. QED BY <1>1, <2>1
<1>. QED BY <1>1, <1>2, <1>3

LEMMA ReachLeast ==
    ASSUME NEW arcs, NEW start, NEW B, start \subseteq B, Closed(arcs, B)
    PROVE  Reach(arcs, start) \subseteq B
<1>1. PICK L : IsLevel(L, arcs, start) /\ Reach(arcs, start) = L[N]
  BY ReachIsLevel
<1>. DEFINE S == {k \in Nat : k <= N => L[k] \subseteq B}
<1>2. 0 \in S
  BY <1>1, LevelSteps
<1>3. ASSUME NEW k \in Nat, k \in S PROVE k + 1 \in S
  <2>. SUFFICES ASSUME k + 1 <= N PROVE L[k + 1] \subseteq B
    OBVIOUS
  <2>1. L[k] \subseteq B
    BY <1>3, NameCount
  <2>2. L[k + 1] = Wider(arcs, L[k])
    BY <1>1, LevelSteps
  <2>. QED BY <2>1, <2>2 DEF Wider, Closed, After
<1>4. N \in S
  <2>. HIDE DEF S
  <2>. QED BY <1>2, <1>3, Induction, NameCount
<1>. QED BY <1>1, <1>4, NameCount

LEMMA ReachContains ==
    ASSUME NEW arcs, NEW start \in SUBSET Name
    PROVE  start \subseteq Reach(arcs, start) /\ Reach(arcs, start) \subseteq Name
<1>1. PICK L : IsLevel(L, arcs, start) /\ Reach(arcs, start) = L[N]
  BY ReachIsLevel
<1>. DEFINE S == {k \in Nat : k <= N => start \subseteq L[k]}
<1>2. 0 \in S
  BY <1>1, LevelSteps
<1>3. ASSUME NEW k \in Nat, k \in S PROVE k + 1 \in S
  <2>. SUFFICES ASSUME k + 1 <= N PROVE start \subseteq L[k + 1]
    OBVIOUS
  <2>1. start \subseteq L[k]
    BY <1>3, NameCount
  <2>2. L[k + 1] = Wider(arcs, L[k])
    BY <1>1, LevelSteps
  <2>. QED BY <2>1, <2>2 DEF Wider
<1>4. N \in S
  <2>. HIDE DEF S
  <2>. QED BY <1>2, <1>3, Induction, NameCount
<1>5. start \subseteq Reach(arcs, start)
  BY <1>1, <1>4, NameCount
<1>6. Closed(arcs, Name)
  BY DEF Closed, After
<1>. QED BY <1>5, <1>6, ReachLeast

\* A level that is not closed has one name more than the one before.
LEMMA ReachClosed ==
    ASSUME NEW arcs, NEW start \in SUBSET Name
    PROVE  Closed(arcs, Reach(arcs, start))
<1>1. PICK L : IsLevel(L, arcs, start) /\ Reach(arcs, start) = L[N]
  BY ReachIsLevel
<1>. DEFINE Grown(k) == /\ L[k] \subseteq Name
                        /\ Closed(arcs, L[k]) \/ Cardinality(L[k]) >= k
            S == {k \in Nat : k <= N => Grown(k)}
<1>2. 0 \in S
  <2>1. L[0] = start
    BY <1>1, LevelSteps
  <2>2. IsFiniteSet(start)
    BY FS_Subset
  <2>3. Cardinality(start) \in Nat
    BY <2>2, FS_CardinalityType
  <2>. QED BY <2>1, <2>3
<1>3. ASSUME NEW k \in Nat, k \in S PROVE k + 1 \in S
  <2>. SUFFICES ASSUME k + 1 <= N PROVE Grown(k + 1)
    OBVIOUS
  <2>1. Grown(k)
    BY <1>3, NameCount
  <2>2. L[k + 1] = Wider(arcs, L[k])
    BY <1>1, LevelSteps
  <2>3. L[k + 1] \subseteq Name /\ L[k] \subseteq L[k + 1]
    BY <2>1, <2>2 DEF Wider
  <2>4. CASE Closed(arcs, L[k])
    <3>1. L[k + 1] = L[k]
      BY <2>2, <2>4 DEF Wider, Closed, After
    <3>. QED BY <2>3, <2>4, <3>1
  <2>5. CASE ~Closed(arcs, L[k])
    <3>1. PICK n \in L[k] : ~(After(arcs, n) \subseteq L[k])
      BY <2>5 DEF Closed
    <3>2. PICK m \in Name : m \in L[k + 1] /\ m \notin L[k]
      BY <2>2, <3>1 DEF Wider, After
    <3>3. IsFiniteSet(L[k]) /\ IsFiniteSet(L[k + 1])
      BY <2>1, <2>3, FS_Subset
    <3>4. IsFiniteSet(L[k] \cup {m}) /\ Cardinality(L[k] \cup {m}) = Cardinality(L[k]) + 1
      BY <3>2, <3>3, FS_AddElement
    <3>5. Cardinality(L[k] \cup {m}) <= Cardinality(L[k + 1])
      <4>1. L[k] \cup {m} \in SUBSET L[k + 1]
        BY <2>3, <3>2
      <4>. QED BY <3>3, <4>1, FS_Subset
    <3>6. Cardinality(L[k]) \in Nat /\ Cardinality(L[k + 1]) \in Nat
      BY <3>3, FS_CardinalityType
    <3>7. Cardinality(L[k]) >= k
      BY <2>1, <2>5
    <3>8. Cardinality(L[k + 1]) >= k + 1
      BY <3>4, <3>5, <3>6, <3>7
    <3>. QED BY <2>3, <3>8
  <2>. QED BY <2>4, <2>5
<1>4. N \in S
  <2>. HIDE DEF S
  <2>. QED BY <1>2, <1>3, Induction, NameCount
<1>5. Grown(N)
  BY <1>4, NameCount
<1>6. CASE Cardinality(L[N]) >= N
  <2>1. L[N] \in SUBSET Name
    BY <1>5
  <2>2. Cardinality(L[N]) <= Cardinality(Name) /\ (Cardinality(Name) = Cardinality(L[N]) => Name = L[N])
    BY <2>1, FS_Subset
  <2>3. IsFiniteSet(L[N])
    BY <2>1, FS_Subset
  <2>4. Cardinality(L[N]) \in Nat
    BY <2>3, FS_CardinalityType
  <2>5. L[N] = Name
    BY <1>6, <2>2, <2>4, NameCount DEF N
  <2>. QED BY <1>1, <2>5 DEF Closed, After
<1>. QED BY <1>1, <1>5, <1>6

LEMMA ReachWithin ==
    ASSUME NEW arcs, NEW narrow, narrow \subseteq arcs, NEW S, NEW start \in SUBSET Name, S \subseteq start
    PROVE  Reach(narrow, S) \subseteq Reach(arcs, start)
<1>1. S \subseteq Reach(arcs, start)
  BY ReachContains
<1>2. Closed(narrow, Reach(arcs, start))
  BY ReachClosed DEF Closed, After
<1>. QED BY <1>1, <1>2, ReachLeast

-----------------------------------------------------------------------------
(***************************************************************************)
(* Graphs without cycles                                                   *)
(***************************************************************************)
LEMMA AfterIsName == ASSUME NEW arcs, NEW n PROVE After(arcs, n) \in SUBSET Name
BY DEF After

LEMMA FewerArcs ==
    ASSUME NEW arcs, NEW narrow, narrow \subseteq arcs, NoCycle(arcs)
    PROVE  NoCycle(narrow)
<1>. SUFFICES ASSUME NEW n \in Name PROVE n \notin Reach(narrow, After(narrow, n))
  BY DEF NoCycle
<1>1. After(narrow, n) \subseteq After(arcs, n)
  BY DEF After
<1>2. Reach(narrow, After(narrow, n)) \subseteq Reach(arcs, After(arcs, n))
  BY <1>1, AfterIsName, ReachWithin
<1>. QED BY <1>2 DEF NoCycle

\* One more arc makes a cycle if its end leads to its start, and not otherwise.
LEMMA OneMoreArc ==
    ASSUME NEW arcs, NoCycle(arcs), NEW d \in Name, NEW e \in Name
    PROVE  NoCycle(arcs \cup {<<e, d>>}) <=> e \notin Reach(arcs, {d})
<1>. DEFINE more == arcs \cup {<<e, d>>}
            D == Reach(arcs, {d})
<1>1. {d} \subseteq D /\ D \subseteq Name /\ Closed(arcs, D)
  BY ReachContains, ReachClosed
<1>2. \A n \in Name : After(more, n) = After(arcs, n) \cup (IF n = e THEN {d} ELSE {})
  BY DEF After
<1>3. ASSUME e \in D PROVE ~NoCycle(more)
  <2>1. D \subseteq Reach(more, After(more, e))
    <3>1. {d} \subseteq After(more, e)
      BY <1>2
    <3>. QED BY <3>1, AfterIsName, ReachWithin
  <2>. QED BY <1>3, <2>1 DEF NoCycle
<1>4. ASSUME e \notin D, NEW n \in Name PROVE n \notin Reach(more, After(more, n))
  <2>. DEFINE B == Reach(arcs, After(arcs, n))
  <2>1. After(arcs, n) \subseteq B /\ B \subseteq Name /\ Closed(arcs, B) /\ n \notin B
    BY AfterIsName, ReachContains, ReachClosed DEF NoCycle
  <2>. HIDE DEF B, D
  <2>2. CASE n \in D
    <3>1. B \subseteq D
      <4>1. After(arcs, n) \subseteq D
        BY <1>1, <2>2 DEF Closed
      <4>. QED BY <1>1, <4>1, ReachLeast DEF B
    <3>2. Closed(more, B)
      BY <1>2, <1>4, <2>1, <3>1 DEF Closed
    <3>3. After(more, n) \subseteq B
      BY <1>2, <1>4, <2>1, <2>2
    <3>. QED BY <2>1, <3>2, <3>3, ReachLeast
  <2>3. CASE n \notin D
    <3>1. Closed(more, B \cup D)
      BY <1>1, <1>2, <2>1 DEF Closed
    <3>2. After(more, n) \subseteq B \cup D
      BY <1>1, <1>2, <2>1
    <3>3. Reach(more, After(more, n)) \subseteq B \cup D
      BY <3>1, <3>2, ReachLeast
    <3>. QED BY <2>1, <2>3, <3>3
  <2>. QED BY <2>2, <2>3
<1>. QED BY <1>3, <1>4 DEF NoCycle

\* What a search downstream and one upstream find of each other.
LEMMA BothWays ==
    ASSUME NEW down, NEW up, \A m, n \in Name : <<m, n>> \in down <=> <<n, m>> \in up,
           NEW d \in Name, NEW e \in Name, e \in Reach(down, {d})
    PROVE  d \in Reach(up, {e})
<1>. DEFINE U == Reach(up, {e})
<1>1. e \in U /\ U \subseteq Name /\ Closed(up, U)
  BY ReachContains, ReachClosed
<1>2. SUFFICES ASSUME d \notin U PROVE FALSE
  OBVIOUS
<1>. HIDE DEF U
<1>3. Closed(down, Name \ U)
  BY <1>1 DEF Closed, After
<1>4. Reach(down, {d}) \subseteq Name \ U
  BY <1>2, <1>3, ReachLeast
<1>. QED BY <1>1, <1>4

\* Nodes under other names.
LEMMA OtherNames ==
    ASSUME NEW arcs, NoCycle(arcs), NEW new \in Name, NEW old \in Name,
           NEW others,
           \A m, n \in Name : <<m, n>> \in others =>
               /\ m # old /\ n # old
               /\ <<IF m = new THEN old ELSE m, IF n = new THEN old ELSE n>> \in arcs
    PROVE  NoCycle(others)
<1>. SUFFICES ASSUME NEW n \in Name PROVE n \notin Reach(others, After(others, n))
  BY DEF NoCycle
<1>. DEFINE Was(m) == IF m = new THEN old ELSE m
            B == Reach(arcs, After(arcs, Was(n)))
            C == {m \in Name : m # old /\ Was(m) \in B}
<1>1. After(arcs, Was(n)) \subseteq B /\ B \subseteq Name /\ Closed(arcs, B) /\ Was(n) \notin B
  BY AfterIsName, ReachContains, ReachClosed DEF NoCycle
<1>. HIDE DEF B
<1>2. Closed(others, C)
  BY <1>1 DEF Closed, After
<1>3. After(others, n) \subseteq C
  BY <1>1 DEF After
<1>4. Reach(others, After(others, n)) \subseteq C
  BY <1>2, <1>3, ReachLeast
<1>. QED BY <1>1, <1>4

-----------------------------------------------------------------------------
(***************************************************************************)
(* Loops over sets                                                         *)
(***************************************************************************)
Pick(s) == CHOOSE x \in s : TRUE
Iterates(g, F, b, D) == g = [s \in D |-> IF s = {} THEN b ELSE F[<<Pick(s), g[s \ {Pick(s)}]>>]]

LEMMA PickIn == ASSUME NEW s, s # {} PROVE Pick(s) \in s
BY DEF Pick

LEMMA IterationExists ==
    ASSUME NEW F, NEW b, NEW S, IsFiniteSet(S)
    PROVE  \E g : Iterates(g, F, b, SUBSET S)
<1>. DEFINE Small(n) == {s \in SUBSET S : Cardinality(s) <= n}
            M == {n \in Nat : \E g : Iterates(g, F, b, Small(n))}
<1>0. \A s \in SUBSET S : IsFiniteSet(s)
  BY FS_Subset
<1>1. \A s \in SUBSET S : Cardinality(s) \in Nat
  BY <1>0, FS_CardinalityType
<1>2. ASSUME NEW s \in SUBSET S, s # {}
      PROVE  Cardinality(s \ {Pick(s)}) = Cardinality(s) - 1 /\ s \ {Pick(s)} \in SUBSET S
  BY <1>0, <1>2, PickIn, FS_RemoveElement
<1>3. 0 \in M
  <2>. DEFINE g == [s \in Small(0) |-> b]
  <2>1. \A s \in Small(0) : s = {}
    BY <1>0, <1>1, FS_EmptySet
  <2>2. Iterates(g, F, b, Small(0))
    BY <2>1 DEF Iterates
  <2>. QED BY <2>2
<1>4. ASSUME NEW n \in Nat, n \in M PROVE n + 1 \in M
  <2>1. PICK g : Iterates(g, F, b, Small(n))
    BY <1>4
  <2>2. \A s \in Small(n) : g[s] = IF s = {} THEN b ELSE F[<<Pick(s), g[s \ {Pick(s)}]>>]
    BY <2>1 DEF Iterates
  <2>. DEFINE h == [s \in Small(n + 1) |-> IF s \in Small(n) THEN g[s] ELSE F[<<Pick(s), g[s \ {Pick(s)}]>>]]
  <2>3. Small(n) \subseteq Small(n + 1)
    BY <1>1
  <2>4. ASSUME NEW s \in Small(n + 1), s # {} PROVE s \ {Pick(s)} \in Small(n)
    BY <1>1, <1>2, <2>4
  <2>5. {} \in Small(n)
    BY FS_EmptySet
  <2>. HIDE DEF Small
  <2>6. \A s \in Small(n + 1) : h[s] = IF s = {} THEN b ELSE F[<<Pick(s), h[s \ {Pick(s)}]>>]
    BY <2>2, <2>3, <2>4, <2>5
  <2>7. h = [s \in Small(n + 1) |-> h[s]]
    OBVIOUS
  <2>8. [s \in Small(n + 1) |-> h[s]]
        = [s \in Small(n + 1) |-> IF s = {} THEN b ELSE F[<<Pick(s), h[s \ {Pick(s)}]>>]]
    <3>. HIDE DEF h
    <3>. QED BY <2>6
  <2>9. Iterates(h, F, b, Small(n + 1))
    <3>. HIDE DEF h
    <3>. QED BY <2>7, <2>8 DEF Iterates
  <2>10. \E H : Iterates(H, F, b, Small(n + 1))
    <3>. HIDE DEF h
    <3>. QED BY <2>9
  <2>. QED BY <2>10
<1>5. Cardinality(S) \in M
  <2>. HIDE DEF M
  <2>. QED BY <1>1, <1>3, <1>4, Induction
<1>6. Small(Cardinality(S)) = SUBSET S
  <2>1. \A s \in SUBSET S : Cardinality(s) <= Cardinality(S)
    BY FS_Subset
  <2>. QED BY <2>1
<1>. QED BY <1>5, <1>6

\* What holds of nothing and the start, and goes on holding with one element more, holds
\* of all elements and the result.
LEMMA LoopKeeps ==
    ASSUME NEW F, NEW b, NEW S, IsFiniteSet(S), NEW I, <<{}, b>> \in I,
           \A s \in SUBSET S : \A x \in s : \A r : <<s \ {x}, r>> \in I => <<s, F[<<x, r>>]>> \in I
    PROVE  <<S, Loop(F, b, S)>> \in I
<1>. DEFINE g == CHOOSE g : Iterates(g, F, b, SUBSET S)
<1>1. Iterates(g, F, b, SUBSET S)
  BY IterationExists
<1>2. Loop(F, b, S) = g[S]
  BY DEF Loop, FoldSet, MapThenFoldSet, Iterates, Pick
<1>. HIDE DEF g
<1>3. \A s \in SUBSET S : g[s] = IF s = {} THEN b ELSE F[<<Pick(s), g[s \ {Pick(s)}]>>]
  BY <1>1 DEF Iterates
<1>. DEFINE C == {s \in SUBSET S : <<s, g[s]>> \in I}
<1>4. {} \in C
  BY <1>3
<1>5. ASSUME NEW s \in SUBSET S, s # {} PROVE \E x \in s : s \ {x} \in C => s \in C
  <2>1. Pick(s) \in s
    BY <1>5, PickIn
  <2>2. s \ {Pick(s)} \in C => s \in C
    BY <1>3, <2>1
  <2>. HIDE DEF C
  <2>. QED BY <2>1, <2>2
<1>6. SUBSET S \subseteq C
  <2>. HIDE DEF C
  <2>. QED BY <1>4, <1>5, SetInduction
<1>. QED BY <1>2, <1>6

-----------------------------------------------------------------------------
(***************************************************************************)
(* The server's search finds the cycles                                    *)
(***************************************************************************)
Named(taskDefs) == \A t \in taskDefs : t.name \in Name /\ t.from \subseteq Name /\ t.to \subseteq Name

LEMMA EdgesAreArcs ==
    ASSUME NEW taskDefs, Named(taskDefs), NEW n \in Name
    PROVE  Edges(taskDefs, n) = After(Arcs(taskDefs), n)
BY DEF Named, Edges, After, Arcs

\* Nodes whose arcs stay among them, and no cycle there: what a search has done with.
Good(arcs, B) == Closed(arcs, B) /\ \A n \in B : n \notin Reach(arcs, After(arcs, n))

\* Calls there are (at most d deep), and what they return.
Callable(arcs, d, c) ==
    /\ c \in Calls
    /\ c[1] \notin c[2] /\ c[3] \subseteq c[2] /\ Cardinality(Name \ c[2]) <= d
    /\ Good(arcs, c[2] \ c[3])
    /\ \A p \in c[3] : c[1] \in Reach(arcs, After(arcs, p))
Answers(arcs, c, r) ==
    /\ r \in Search /\ c[2] \cup {c[1]} \subseteq r.visited
    /\ ~r.cyclic => Good(arcs, r.visited \ c[3])
    /\ r.cyclic => ~NoCycle(arcs)
Serves(arcs, d, util) == \A c : Callable(arcs, d, c) => Answers(arcs, c, util[c])

NextUtil(taskDefs, util) ==
    [c \in Calls |-> Loop(Neighbor(util, c[3] \cup {c[1]}),
                          [cyclic |-> FALSE, visited |-> c[2] \cup {c[1]}],
                          Edges(taskDefs, c[1]))]
NoUtil == [c \in Calls |-> [cyclic |-> TRUE, visited |-> Name]]
IsUtil(U, taskDefs) == U = [k \in 0..N |-> IF k = 0 THEN NoUtil ELSE NextUtil(taskDefs, U[k - 1])]

LEMMA UtilExists == ASSUME NEW taskDefs PROVE \E U : IsUtil(U, taskDefs)
<1>. DEFINE Upto(n, L) == L = [k \in 0..n |-> IF k = 0 THEN NoUtil ELSE NextUtil(taskDefs, L[k - 1])]
            S == {n \in Nat : \E L : Upto(n, L)}
<1>1. 0 \in S
  <2>. DEFINE L == [k \in 0..0 |-> NoUtil]
  <2>1. Upto(0, L)
    OBVIOUS
  <2>. QED BY <2>1
<1>2. ASSUME NEW n \in Nat, n \in S PROVE n + 1 \in S
  <2>1. PICK L : Upto(n, L)
    BY <1>2
  <2>. DEFINE M == [k \in 0..(n + 1) |-> IF k = n + 1 THEN NextUtil(taskDefs, L[n]) ELSE L[k]]
  <2>2. \A k \in 0..n : M[k] = L[k]
    OBVIOUS
  <2>3. \A k \in 0..n : L[k] = IF k = 0 THEN NoUtil ELSE NextUtil(taskDefs, L[k - 1])
    BY <2>1
  <2>4. ASSUME NEW k \in 0..(n + 1)
        PROVE  M[k] = IF k = 0 THEN NoUtil ELSE NextUtil(taskDefs, M[k - 1])
    <3>1. CASE k = n + 1
      BY <2>2, <3>1
    <3>2. CASE k \in 0..n /\ k # 0
      <4>1. k - 1 \in 0..n
        BY <3>2
      <4>. QED BY <2>2, <2>3, <3>2, <4>1
    <3>3. CASE k = 0
      BY <2>2, <2>3, <3>3
    <3>. QED BY <3>1, <3>2, <3>3
  <2>5. Upto(n + 1, M)
    <3>1. M = [k \in 0..(n + 1) |-> M[k]]
      OBVIOUS
    <3>2. [k \in 0..(n + 1) |-> M[k]]
          = [k \in 0..(n + 1) |-> IF k = 0 THEN NoUtil ELSE NextUtil(taskDefs, M[k - 1])]
      <4>. HIDE DEF M
      <4>. QED BY <2>4
    <3>. QED BY <3>1, <3>2
  <2>6. \E H : Upto(n + 1, H)
    <3>. HIDE DEF M
    <3>. QED BY <2>5
  <2>. QED BY <2>6
<1>. HIDE DEF S
<1>3. N \in S
  BY <1>1, <1>2, Induction, NameCount
<1>. QED BY <1>3 DEF S, IsUtil

LEMMA CyclicUtilIsUtil ==
    ASSUME NEW taskDefs
    PROVE  \E U : IsUtil(U, taskDefs) /\ CyclicUtil(taskDefs) = U[N]
<1>. DEFINE U == CHOOSE U : IsUtil(U, taskDefs)
<1>1. IsUtil(U, taskDefs)
  BY UtilExists
<1>2. CyclicUtil(taskDefs) = U[N]
  BY DEF CyclicUtil, IsUtil, NextUtil, NoUtil, N
<1>. QED BY <1>1, <1>2

\* A node all of whose arcs lead to nodes done with is done with.
LEMMA GoodGrows ==
    ASSUME NEW arcs, NEW B, Good(arcs, B), NEW n, After(arcs, n) \subseteq B, n \notin B
    PROVE  Good(arcs, B \cup {n})
<1>1. Closed(arcs, B \cup {n})
  BY DEF Good, Closed
<1>2. Reach(arcs, After(arcs, n)) \subseteq B
  BY ReachLeast DEF Good
<1>. QED BY <1>1, <1>2 DEF Good

\* One neighbour more.
Midway(arcs, c, r) ==
    /\ r \in Search /\ ~r.cyclic /\ c[2] \cup {c[1]} \subseteq r.visited
    /\ Good(arcs, r.visited \ (c[3] \cup {c[1]}))
Further(arcs, c, m, r, q) ==
    /\ q \in Search /\ r.visited \cup {m} \subseteq q.visited
    /\ ~q.cyclic => m \notin c[3] \cup {c[1]} /\ Good(arcs, q.visited \ (c[3] \cup {c[1]}))
    /\ q.cyclic => ~NoCycle(arcs)

LEMMA OneNeighbor ==
    ASSUME NEW arcs, NEW d \in Nat, NEW util, Serves(arcs, d, util),
           NEW c, Callable(arcs, d + 1, c)
    PROVE  \A r : \A m \in After(arcs, c[1]) :
               Midway(arcs, c, r) => Further(arcs, c, m, r, Neighbor(util, c[3] \cup {c[1]})[<<m, r>>])
<1>. SUFFICES ASSUME NEW r, NEW m \in After(arcs, c[1]), Midway(arcs, c, r),
                     NEW q, q = Neighbor(util, c[3] \cup {c[1]})[<<m, r>>]
              PROVE  Further(arcs, c, m, r, q)
  OBVIOUS
<1>0. r \in Search /\ ~r.cyclic /\ c[2] \cup {c[1]} \subseteq r.visited /\ Good(arcs, r.visited \ (c[3] \cup {c[1]}))
  BY DEF Midway
<1>. DEFINE n == c[1]
            path == c[3] \cup {c[1]}
<1>1. n \in Name /\ c[2] \subseteq Name /\ path \subseteq r.visited /\ m \in Name /\ n \notin c[2]
  BY <1>0 DEF Callable, Calls, After
<1>2. r.visited \subseteq Name /\ r.cyclic \in BOOLEAN
  BY <1>0 DEF Search
<1>3. After(arcs, n) \subseteq Reach(arcs, After(arcs, n))
  <2>1. After(arcs, n) \in SUBSET Name
    BY AfterIsName
  <2>. QED BY <2>1, ReachContains
<1>4. \A p \in path : m \in Reach(arcs, After(arcs, p))
  <2>1. m \in Reach(arcs, After(arcs, n))
    BY <1>3
  <2>2. ASSUME NEW p \in c[3] PROVE m \in Reach(arcs, After(arcs, p))
    <3>1. Closed(arcs, Reach(arcs, After(arcs, p)))
      BY AfterIsName, ReachClosed
    <3>. QED BY <3>1 DEF Callable, Closed
  <2>. QED BY <2>1, <2>2
<1>5. q = IF m \notin r.visited THEN util[<<m, r.visited, path>>] ELSE [r EXCEPT !.cyclic = m \in path]
  BY <1>0, <1>1 DEF Neighbor
<1>6. CASE m \notin r.visited
  <2>. DEFINE b == <<m, r.visited, path>>
  <2>1. b \in Calls
    BY <1>1, <1>2 DEF Calls
  <2>2. Cardinality(Name \ r.visited) <= d
    <3>1. IsFiniteSet(Name \ c[2]) /\ IsFiniteSet(Name \ r.visited)
      BY FS_Subset
    <3>2. n \in Name \ c[2] /\ Name \ r.visited \in SUBSET ((Name \ c[2]) \ {n})
      BY <1>0, <1>1
    <3>. DEFINE A == Name \ c[2]
    <3>. HIDE DEF A
    <3>3. IsFiniteSet(A \ {n}) /\ Cardinality(A \ {n}) = Cardinality(A) - 1
      <4>1. IsFiniteSet(A) /\ n \in A
        BY <3>1, <3>2 DEF A
      <4>2. IsFiniteSet(A \ {n})
        BY <4>1, FS_RemoveElement
      <4>3. Cardinality(A \ {n}) = Cardinality(A) - 1
        BY <4>1, FS_RemoveElement
      <4>. QED BY <4>2, <4>3
    <3>4. Cardinality(Name \ r.visited) <= Cardinality(A \ {n})
      BY <3>2, <3>3, FS_Subset DEF A
    <3>5. Cardinality(A) \in Nat /\ Cardinality(Name \ r.visited) \in Nat
      BY <3>1, FS_CardinalityType DEF A
    <3>6. Cardinality(A) <= d + 1
      BY DEF Callable, A
    <3>. QED BY <3>3, <3>4, <3>5, <3>6
  <2>3. b[1] = m /\ b[2] = r.visited /\ b[3] = path
    OBVIOUS
  <2>. HIDE DEF b
  <2>4. Callable(arcs, d, b)
    BY <1>0, <1>1, <1>4, <1>6, <2>1, <2>2, <2>3 DEF Callable
  <2>5. Answers(arcs, b, util[b])
    BY <2>4 DEF Serves
  <2>6. q = util[b]
    BY <1>5, <1>6 DEF b
  <2>. QED BY <1>1, <1>6, <2>3, <2>5, <2>6 DEF Answers, Further
<1>7. CASE m \in r.visited
  <2>1. q = [r EXCEPT !.cyclic = m \in path]
    BY <1>5, <1>7
  <2>2. q \in Search /\ q.visited = r.visited /\ (q.cyclic <=> m \in path)
    <3>. DEFINE in == m \in path
    <3>1. in \in BOOLEAN
      OBVIOUS
    <3>2. q = [r EXCEPT !.cyclic = in]
      BY <2>1
    <3>. HIDE DEF in
    <3>3. q \in Search /\ q.visited = r.visited /\ q.cyclic = in
      BY <1>0, <3>1, <3>2 DEF Search
    <3>. QED BY <3>3 DEF in
  <2>3. m \in path => ~NoCycle(arcs)
    BY <1>1, <1>4 DEF NoCycle
  <2>. QED BY <1>0, <1>7, <2>2, <2>3 DEF Further
<1>. QED BY <1>6, <1>7

LEMMA UtilServes ==
    ASSUME NEW taskDefs, Named(taskDefs), NEW d \in Nat, NEW util, Serves(Arcs(taskDefs), d, util)
    PROVE  Serves(Arcs(taskDefs), d + 1, NextUtil(taskDefs, util))
<1>. DEFINE arcs == Arcs(taskDefs)
<1>. HIDE DEF arcs
<1>. SUFFICES ASSUME NEW c, Callable(arcs, d + 1, c) PROVE Answers(arcs, c, NextUtil(taskDefs, util)[c])
  BY DEF Serves, arcs
<1>0. Serves(arcs, d, util)
  BY DEF arcs
<1>. DEFINE n == c[1]
            path == c[3] \cup {c[1]}
            S == Edges(taskDefs, c[1])
            b == [cyclic |-> FALSE, visited |-> c[2] \cup {c[1]}]
            F == Neighbor(util, c[3] \cup {c[1]})
            I == {q \in (SUBSET S) \X Search :
                    /\ c[2] \cup {n} \subseteq q[2].visited
                    /\ ~q[2].cyclic => /\ q[1] \subseteq q[2].visited \ path
                                       /\ Good(arcs, q[2].visited \ path)
                    /\ q[2].cyclic => ~NoCycle(arcs)}
<1>1. n \in Name /\ c[2] \subseteq Name /\ c[3] \subseteq c[2] /\ n \notin c[2] /\ Good(arcs, c[2] \ c[3]) /\ c \in Calls
  BY DEF Callable, Calls
<1>2. S = After(arcs, n) /\ S \subseteq Name /\ IsFiniteSet(S)
  <2>1. S = After(arcs, n)
    BY <1>1, EdgesAreArcs DEF arcs
  <2>2. S \in SUBSET Name
    BY <2>1, AfterIsName
  <2>. QED BY <2>1, <2>2, FS_Subset
<1>3. NextUtil(taskDefs, util)[c] = Loop(F, b, S)
  BY <1>1 DEF NextUtil
<1>4. <<{}, b>> \in I
  <2>1. b \in Search /\ ~b.cyclic /\ b.visited = c[2] \cup {n}
    BY <1>1 DEF Search
  <2>2. b.visited \ path = c[2] \ c[3]
    BY <1>1, <2>1
  <2>. HIDE DEF b
  <2>. QED BY <1>1, <2>1, <2>2
<1>5. ASSUME NEW s \in SUBSET S, NEW m \in s, NEW r, <<s \ {m}, r>> \in I
      PROVE  <<s, F[<<m, r>>]>> \in I
  <2>1. /\ r \in Search /\ c[2] \cup {n} \subseteq r.visited
        /\ ~r.cyclic => s \ {m} \subseteq r.visited \ path /\ Good(arcs, r.visited \ path)
        /\ r.cyclic => ~NoCycle(arcs)
    BY <1>5
  <2>2. CASE r.cyclic
    <3>1. F[<<m, r>>] = r
      BY <1>2, <2>1, <2>2 DEF Neighbor
    <3>. QED BY <2>1, <2>2, <3>1
  <2>3. CASE ~r.cyclic
    <3>. DEFINE q == F[<<m, r>>]
    <3>1. /\ q \in Search /\ r.visited \cup {m} \subseteq q.visited
          /\ ~q.cyclic => m \notin path /\ Good(arcs, q.visited \ path)
          /\ q.cyclic => ~NoCycle(arcs)
      <4>1. m \in After(arcs, c[1]) /\ Midway(arcs, c, r)
        BY <1>2, <2>1, <2>3 DEF Midway
      <4>2. Further(arcs, c, m, r, q)
        BY <1>0, <4>1, OneNeighbor
      <4>. HIDE DEF q, F
      <4>. QED BY <4>2 DEF Further
    <3>. HIDE DEF q, F
    <3>2. <<s, q>> \in I
      BY <2>1, <2>3, <3>1
    <3>. QED BY <3>2 DEF q
  <2>4. r.cyclic \in BOOLEAN
    BY <2>1 DEF Search
  <2>. QED BY <2>2, <2>3, <2>4
<1>. DEFINE R == Loop(F, b, S)
<1>6. <<S, R>> \in I
  <2>. HIDE DEF I, F, b, S
  <2>1. \A s \in SUBSET S : \A x \in s : \A r : <<s \ {x}, r>> \in I => <<s, F[<<x, r>>]>> \in I
    BY <1>5
  <2>2. IsFiniteSet(S)
    BY <1>2
  <2>. QED BY <1>4, <2>1, <2>2, LoopKeeps
<1>. HIDE DEF R, F, b
<1>7. /\ R \in Search /\ c[2] \cup {n} \subseteq R.visited
      /\ ~R.cyclic => S \subseteq R.visited \ path /\ Good(arcs, R.visited \ path)
      /\ R.cyclic => ~NoCycle(arcs)
  BY <1>6
<1>8. ASSUME ~R.cyclic PROVE Good(arcs, R.visited \ c[3])
  <2>1. Good(arcs, (R.visited \ path) \cup {n})
    BY <1>2, <1>7, <1>8, GoodGrows
  <2>2. (R.visited \ path) \cup {n} = R.visited \ c[3]
    BY <1>1, <1>7
  <2>. QED BY <2>1, <2>2
<1>9. NextUtil(taskDefs, util)[c] = R
  BY <1>3 DEF R, F, b
<1>. QED BY <1>7, <1>8, <1>9 DEF Answers

LEMMA CyclicUtilServes ==
    ASSUME NEW taskDefs, Named(taskDefs)
    PROVE  Serves(Arcs(taskDefs), N, CyclicUtil(taskDefs))
<1>1. PICK U : IsUtil(U, taskDefs) /\ CyclicUtil(taskDefs) = U[N]
  BY CyclicUtilIsUtil
<1>. DEFINE arcs == Arcs(taskDefs)
            S == {k \in Nat : k <= N => Serves(arcs, k, U[k])}
<1>. HIDE DEF arcs
<1>2. 0 \in S
  <2>. SUFFICES ASSUME NEW c, Callable(arcs, 0, c) PROVE FALSE
    BY DEF Serves
  <2>1. IsFiniteSet(Name \ c[2]) /\ c[1] \in Name \ c[2]
    BY FS_Subset DEF Callable, Calls
  <2>2. Cardinality(Name \ c[2]) \in Nat /\ Cardinality(Name \ c[2]) <= 0
    BY <2>1, FS_CardinalityType DEF Callable
  <2>3. Cardinality(Name \ c[2]) # 0
    BY <2>1, FS_EmptySet
  <2>. QED BY <2>2, <2>3
<1>3. ASSUME NEW k \in Nat, k \in S PROVE k + 1 \in S
  <2>. SUFFICES ASSUME k + 1 <= N PROVE Serves(arcs, k + 1, U[k + 1])
    OBVIOUS
  <2>1. k \in 0..N /\ k + 1 \in 0..N /\ k + 1 # 0 /\ k + 1 - 1 = k
    BY NameCount
  <2>2. U[k + 1] = NextUtil(taskDefs, U[k])
    BY <1>1, <2>1 DEF IsUtil
  <2>3. Serves(arcs, k, U[k])
    BY <1>3, <2>1
  <2>4. Serves(arcs, k + 1, NextUtil(taskDefs, U[k]))
    BY <2>3, UtilServes DEF arcs
  <2>. QED BY <2>2, <2>4
<1>4. N \in S
  <2>. HIDE DEF S
  <2>. QED BY <1>2, <1>3, Induction, NameCount
<1>. QED BY <1>1, <1>4, NameCount DEF arcs

\* A definition of any size: isJobDefCyclical finds a cycle if there is one, and none if not.
THEOREM SearchExact ==
    ASSUME NEW taskDefs, Named(taskDefs)
    PROVE  IsCyclic(taskDefs) <=> ~Acyclic(taskDefs)
<1>. DEFINE arcs == Arcs(taskDefs)
            util == CyclicUtil(taskDefs)
            S == Nodes(taskDefs)
            b == [cyclic |-> FALSE, visited |-> {}]
            F == [c \in Name \X Search |->
                    IF c[2].cyclic \/ c[1] \in c[2].visited THEN c[2] ELSE util[<<c[1], c[2].visited, {}>>]]
            I == {q \in (SUBSET S) \X Search :
                    /\ ~q[2].cyclic => q[1] \subseteq q[2].visited /\ Good(arcs, q[2].visited)
                    /\ q[2].cyclic => ~NoCycle(arcs)}
<1>1. Serves(arcs, N, util)
  BY CyclicUtilServes
<1>2. S \subseteq Name /\ IsFiniteSet(S)
  <2>1. S \in SUBSET Name
    BY DEF Named, Nodes
  <2>. QED BY <2>1, FS_Subset
<1>3. \A n \in Name : n \notin S => After(arcs, n) \subseteq S
  BY DEF After, Arcs, Nodes
<1>. HIDE DEF arcs, util, S
<1>4. <<{}, b>> \in I
  <2>1. b \in Search /\ ~b.cyclic /\ b.visited = {}
    BY DEF Search
  <2>2. Good(arcs, {})
    BY DEF Good, Closed
  <2>. HIDE DEF b
  <2>. QED BY <2>1, <2>2
<1>5. ASSUME NEW s \in SUBSET S, NEW m \in s, NEW r, <<s \ {m}, r>> \in I
      PROVE  <<s, F[<<m, r>>]>> \in I
  <2>1. /\ r \in Search
        /\ ~r.cyclic => s \ {m} \subseteq r.visited /\ Good(arcs, r.visited)
        /\ r.cyclic => ~NoCycle(arcs)
    BY <1>5
  <2>2. r.cyclic \in BOOLEAN /\ r.visited \in SUBSET Name /\ m \in Name
    BY <1>2, <2>1 DEF Search
  <2>3. F[<<m, r>>] = IF r.cyclic \/ m \in r.visited THEN r ELSE util[<<m, r.visited, {}>>]
    BY <2>1, <2>2
  <2>. HIDE DEF F
  <2>4. CASE r.cyclic \/ m \in r.visited
    BY <2>1, <2>3, <2>4
  <2>5. CASE ~r.cyclic /\ m \notin r.visited
    <3>. DEFINE c == <<m, r.visited, {}>>
    <3>1. c \in Calls /\ c[1] = m /\ c[2] = r.visited /\ c[3] = {}
      BY <2>2 DEF Calls
    <3>. HIDE DEF c
    <3>2. Cardinality(Name \ r.visited) <= N
      <4>1. Name \ r.visited \in SUBSET Name
        OBVIOUS
      <4>. QED BY <4>1, FS_Subset DEF N
    <3>3. r.visited \ {} = r.visited
      OBVIOUS
    <3>4. Callable(arcs, N, c)
      BY <2>1, <2>5, <3>1, <3>2, <3>3 DEF Callable
    <3>5. Answers(arcs, c, util[c])
      BY <1>1, <3>4 DEF Serves
    <3>. DEFINE q == util[c]
    <3>6. q.visited \ {} = q.visited
      OBVIOUS
    <3>7. /\ q \in Search /\ r.visited \cup {m} \subseteq q.visited
          /\ ~q.cyclic => Good(arcs, q.visited)
          /\ q.cyclic => ~NoCycle(arcs)
      BY <3>1, <3>5, <3>6 DEF Answers
    <3>8. F[<<m, r>>] = q
      BY <2>3, <2>5 DEF c
    <3>. HIDE DEF q
    <3>. QED BY <2>1, <2>5, <3>7, <3>8
  <2>. QED BY <2>4, <2>5
<1>. DEFINE R == Loop(F, b, S)
<1>6. <<S, R>> \in I
  <2>. HIDE DEF I, F, b
  <2>1. \A s \in SUBSET S : \A x \in s : \A r : <<s \ {x}, r>> \in I => <<s, F[<<x, r>>]>> \in I
    BY <1>5
  <2>2. IsFiniteSet(S)
    BY <1>2
  <2>. QED BY <1>4, <2>1, <2>2, LoopKeeps
<1>7. IsCyclic(taskDefs) = R.cyclic
  BY DEF IsCyclic, util, S
<1>. HIDE DEF R
<1>8. /\ R \in Search
      /\ ~R.cyclic => S \subseteq R.visited /\ Good(arcs, R.visited)
      /\ R.cyclic => ~NoCycle(arcs)
  BY <1>6
<1>9. ASSUME ~R.cyclic, NEW n \in Name PROVE n \notin Reach(arcs, After(arcs, n))
  <2>1. CASE n \in R.visited
    BY <1>8, <1>9, <2>1 DEF Good
  <2>2. CASE n \notin R.visited
    <3>1. After(arcs, n) \subseteq R.visited
      BY <1>3, <1>8, <1>9, <2>2
    <3>2. Reach(arcs, After(arcs, n)) \subseteq R.visited
      BY <1>8, <1>9, <3>1, ReachLeast DEF Good
    <3>. QED BY <2>2, <3>2
  <2>. QED BY <2>1, <2>2
<1>10. R.cyclic \in BOOLEAN
  BY <1>8 DEF Search
<1>. QED BY <1>7, <1>8, <1>9, <1>10 DEF Acyclic, NoCycle, arcs

-----------------------------------------------------------------------------
(***************************************************************************)
(* Types                                                                   *)
(***************************************************************************)
Doc == [id : Def \cup {0}, name : Name \cup {NoName}, from : SUBSET Name, to : SUBSET Name]

\* A request to change a name has one.
Proper(u) == "name" \in u.keys => u.data.name \in Name

Frame ==
    [id : Def \cup {0}, keys : SUBSET Key, data : TaskDef, old : Name \cup {NoName}, rewrites : SUBSET Doc,
     accepted : BOOLEAN, victim : Def \cup {0}, unlinks : SUBSET Request]

TypeInv ==
    /\ def \in [Def -> TaskDef]
    /\ sent \subseteq Request /\ \A r \in sent : Proper(r)
    /\ pc \in [Handler -> Steps]
    /\ frame \in [Handler -> Frame]
    /\ \A h \in Handler : Proper(frame[h]) /\ \A u \in frame[h].unlinks : Proper(u)
    /\ requests \in 0..MaxRequests /\ history \subseteq {"overlap", "unchecked"}

LEMMA NoZero == 0 \notin Def /\ 0 \notin Name
OBVIOUS

LEMMA NoDefType == NoDef \in TaskDef /\ NoDef.name = NoName /\ NoDef.from = {} /\ NoDef.to = {}
BY DEF NoDef, TaskDef

LEMMA EmptyFrameType ==
    /\ EmptyFrame \in Frame /\ EmptyFrame.keys = {} /\ EmptyFrame.unlinks = {}
    /\ Proper(EmptyFrame)
BY NoDefType DEF EmptyFrame, Frame, Proper

LEMMA ReadType ==
    ASSUME TypeInv, NEW S, S \subseteq Existing
    PROVE  /\ \A t \in Read(S) : /\ t \in Doc /\ t.id \in S /\ t.name \in Name
                                 /\ t.name = def[t.id].name /\ t.from = def[t.id].from /\ t.to = def[t.id].to
           /\ Read(S) \subseteq Doc /\ Named(Read(S))
<1>1. ASSUME NEW d \in S
      PROVE  /\ def[d].name \in Name /\ def[d].from \subseteq Name /\ def[d].to \subseteq Name /\ d \in Def
  BY DEF TypeInv, TaskDef, Existing
<1>2. ASSUME NEW t \in Read(S)
      PROVE  /\ t \in Doc /\ t.id \in S /\ t.name \in Name
             /\ t.name = def[t.id].name /\ t.from = def[t.id].from /\ t.to = def[t.id].to
  <2>1. PICK d \in S : t = [id |-> d, name |-> def[d].name, from |-> def[d].from, to |-> def[d].to]
    BY DEF Read
  <2>. QED BY <1>1, <2>1 DEF Doc
<1>3. \A t \in Read(S) : t.name \in Name /\ t.from \subseteq Name /\ t.to \subseteq Name
  BY <1>2 DEF Doc
<1>. QED BY <1>2, <1>3 DEF Named

LEMMA UpdateType ==
    ASSUME NEW d \in Def, NEW keys \in SUBSET Key, NEW data \in TaskDef,
           "name" \in keys => data.name \in Name
    PROVE  Update(d, keys, data) \in Request /\ Proper(Update(d, keys, data))
BY DEF Update, Request, Proper

LEMMA RoutesOnlyType ==
    ASSUME NEW d \in Def, NEW S \in SUBSET Name
    PROVE  /\ [NoDef EXCEPT !.from = S] \in TaskDef /\ [NoDef EXCEPT !.to = S] \in TaskDef
           /\ Update(d, {"from"}, [NoDef EXCEPT !.from = S]) \in Request
           /\ Proper(Update(d, {"from"}, [NoDef EXCEPT !.from = S]))
           /\ Update(d, {"to"}, [NoDef EXCEPT !.to = S]) \in Request
           /\ Proper(Update(d, {"to"}, [NoDef EXCEPT !.to = S]))
<1>1. [NoDef EXCEPT !.from = S] \in TaskDef /\ [NoDef EXCEPT !.to = S] \in TaskDef
  BY NoDefType DEF TaskDef
<1>2. {"from"} \in SUBSET Key /\ {"to"} \in SUBSET Key /\ "name" \notin {"from"} /\ "name" \notin {"to"}
  BY DEF Key
<1>. QED BY <1>1, <1>2, UpdateType

LEMMA InitTypes == Init => TypeInv
<1>. SUFFICES ASSUME Init PROVE TypeInv
  OBVIOUS
<1>1. def \in [Def -> TaskDef]
  <2>. DEFINE Drawn(S, E, inbound) ==
                [d \in Def |->
                     IF d \notin S THEN NoDef
                     ELSE [name |-> d,
                           from |-> {u \in S : inbound /\ <<u, d>> \in E},
                           to   |-> {u \in S : ~inbound /\ <<d, u>> \in E}]]
  <2>0. PICK S \in SUBSET (Def \cap Name) :
            \E E \in SUBSET {e \in S \X S : e[1] # e[2]}, inbound \in BOOLEAN : def = Drawn(S, E, inbound)
    <3>1. \E S \in SUBSET (Def \cap Name) : \E E \in SUBSET {e \in S \X S : e[1] # e[2]}, inbound \in BOOLEAN :
             def = Drawn(S, E, inbound) /\ InOrder(Read(Existing))
      BY Zenon DEF Init
    <3>. HIDE DEF Drawn
    <3>. QED BY <3>1
  <2>11. PICK E, inbound : def = Drawn(S, E, inbound)
    <3>. HIDE DEF Drawn
    <3>. QED BY <2>0
  <2>2. ASSUME NEW d \in S
        PROVE  [name |-> d, from |-> {u \in S : inbound /\ <<u, d>> \in E},
                            to   |-> {u \in S : ~inbound /\ <<d, u>> \in E}] \in TaskDef
    <3>1. d \in Name /\ {u \in S : inbound /\ <<u, d>> \in E} \in SUBSET Name
                     /\ {u \in S : ~inbound /\ <<d, u>> \in E} \in SUBSET Name
      OBVIOUS
    <3>. QED BY <3>1 DEF TaskDef
  <2>. QED BY <2>11, <2>2, NoDefType
<1>2. pc \in [Handler -> Steps]
  BY DEF Init, Steps
<1>3. frame \in [Handler -> Frame] /\ \A h \in Handler : frame[h] = EmptyFrame
  BY EmptyFrameType DEF Init
<1>4. 0 \in 0..MaxRequests
  OBVIOUS
<1>. QED BY <1>1, <1>2, <1>3, <1>4, EmptyFrameType DEF TypeInv, Init

LEMMA ImageFinite ==
    ASSUME NEW S, IsFiniteSet(S), NEW f, DOMAIN f = S
    PROVE  IsFiniteSet({f[x] : x \in S})
<1>. DEFINE T == {f[x] : x \in S}
            g == [x \in S |-> f[x]]
<1>1. g \in Surjection(S, T)
  BY DEF Surjection
<1>. HIDE DEF T, g
<1>2. IsFiniteSet(T)
  BY <1>1, FS_Surjection
<1>. QED BY <1>2 DEF T

\* Requests that are sent.
LEMMA SendTypes ==
    ASSUME TypeInv, NEW R, NEW how, Send(R, how), IsFiniteSet(R), how \subseteq {"unchecked"},
           \A r \in R : r \in Request /\ Proper(r)
    PROVE  TypeInv'
<1>1. sent' \subseteq Request /\ \A r \in sent' : Proper(r)
  BY DEF TypeInv, Send
<1>2. history' \subseteq {"overlap", "unchecked"}
  BY DEF TypeInv, Send
<1>3. requests' \in 0..MaxRequests
  <2>1. Cardinality(R) \in Nat
    BY FS_CardinalityType
  <2>. QED BY <2>1 DEF TypeInv, Send
<1>4. UNCHANGED <<def, pc, frame>>
  BY DEF Send
<1>. QED BY <1>1, <1>2, <1>3, <1>4 DEF TypeInv, Proper

LEMMA SendOneTypes ==
    ASSUME TypeInv, NEW r, NEW how, Send({r}, how), how \subseteq {"unchecked"}, r \in Request, Proper(r)
    PROVE  TypeInv'
<1>1. IsFiniteSet({r}) /\ \A q \in {r} : q \in Request /\ Proper(q)
  BY FS_Singleton
<1>. QED BY <1>1, SendTypes

LEMMA UsersTypes ==
    ASSUME TypeInv, Users
    PROVE  TypeInv'
<1>0. \A d \in Existing : d \in Def /\ def[d] \in TaskDef /\ def[d].name \in Name /\ def[d].from \in SUBSET Name /\ def[d].to \in SUBSET Name
  BY DEF TypeInv, TaskDef, Existing
<1>1. ASSUME SaveNewTaskDef PROVE TypeInv'
  <2>1. PICK n \in Name : Send({[op |-> "create", id |-> 0, keys |-> Key, data |-> [NoDef EXCEPT !.name = n]]}, {})
    BY <1>1 DEF SaveNewTaskDef
  <2>. DEFINE r == [op |-> "create", id |-> 0, keys |-> Key, data |-> [NoDef EXCEPT !.name = n]]
  <2>2. [NoDef EXCEPT !.name = n] \in TaskDef /\ [NoDef EXCEPT !.name = n].name = n
    BY NoDefType DEF TaskDef, NoDef
  <2>3. r \in Request /\ Proper(r)
    BY <2>2 DEF Request, Proper
  <2>. HIDE DEF r
  <2>5. Send({r}, {})
    BY <2>1 DEF r
  <2>. QED BY <2>3, <2>5, SendOneTypes
<1>2. ASSUME EditInbound PROVE TypeInv'
  <2>1. PICK d \in Existing, S \in SUBSET Name : Send({Update(d, {"from"}, [NoDef EXCEPT !.from = S])}, {})
    <3>1. PICK d, e \in Existing :
             \/ Send({Update(d, {"from"}, [NoDef EXCEPT !.from = def[d].from \cup {def[e].name}])}, {})
             \/ Send({Update(d, {"from"}, [NoDef EXCEPT !.from = def[d].from \ {def[e].name}])}, {})
      BY <1>2 DEF EditInbound
    <3>2. def[d].from \cup {def[e].name} \in SUBSET Name /\ def[d].from \ {def[e].name} \in SUBSET Name
      BY <1>0
    <3>. QED BY <3>1, <3>2
  <2>. DEFINE r == Update(d, {"from"}, [NoDef EXCEPT !.from = S])
  <2>2. r \in Request /\ Proper(r)
    BY <1>0, RoutesOnlyType
  <2>. HIDE DEF r
  <2>4. Send({r}, {})
    BY <2>1 DEF r
  <2>. QED BY <2>2, <2>4, SendOneTypes
<1>3. ASSUME EditOutbound PROVE TypeInv'
  <2>1. PICK d \in Existing, S \in SUBSET Name : Send({Update(d, {"to"}, [NoDef EXCEPT !.to = S])}, {})
    <3>1. PICK d, e \in Existing :
             \/ Send({Update(d, {"to"}, [NoDef EXCEPT !.to = def[d].to \cup {def[e].name}])}, {})
             \/ Send({Update(d, {"to"}, [NoDef EXCEPT !.to = def[d].to \ {def[e].name}])}, {})
      BY <1>3 DEF EditOutbound
    <3>2. def[d].to \cup {def[e].name} \in SUBSET Name /\ def[d].to \ {def[e].name} \in SUBSET Name
      BY <1>0
    <3>. QED BY <3>1, <3>2
  <2>. DEFINE r == Update(d, {"to"}, [NoDef EXCEPT !.to = S])
  <2>2. r \in Request /\ Proper(r)
    BY <1>0, RoutesOnlyType
  <2>. HIDE DEF r
  <2>4. Send({r}, {})
    BY <2>1 DEF r
  <2>. QED BY <2>2, <2>4, SendOneTypes
<1>4. ASSUME RouteAllTo PROVE TypeInv'
  <2>1. PICK d \in Existing :
          Send({Update(e, {"to"}, [NoDef EXCEPT !.to = def[e].to \cup {def[d].name}]) : e \in Existing \ {d}}, {"unchecked"})
    BY <1>4 DEF RouteAllTo
  <2>. DEFINE r(e) == Update(e, {"to"}, [NoDef EXCEPT !.to = def[e].to \cup {def[d].name}])
              R == {r(e) : e \in Existing \ {d}}
  <2>2. ASSUME NEW e \in Existing PROVE r(e) \in Request /\ Proper(r(e))
    <3>1. def[e].to \cup {def[d].name} \in SUBSET Name /\ e \in Def
      BY <1>0
    <3>. QED BY <3>1, RoutesOnlyType
  <2>3. IsFiniteSet(R)
    <3>1. Existing \ {d} \in SUBSET Def
      BY DEF Existing
    <3>2. IsFiniteSet(Existing \ {d})
      BY <3>1, FS_Subset
    <3>. DEFINE f == [e \in Existing \ {d} |-> r(e)]
    <3>3. R = {f[e] : e \in Existing \ {d}} /\ DOMAIN f = Existing \ {d}
      OBVIOUS
    <3>. HIDE DEF f, R
    <3>. QED BY <3>2, <3>3, ImageFinite
  <2>4. \A q \in R : q \in Request /\ Proper(q)
    <3>. HIDE DEF r
    <3>. QED BY <2>2
  <2>5. Send(R, {"unchecked"})
    BY <2>1
  <2>. HIDE DEF R
  <2>. QED BY <2>3, <2>4, <2>5, SendTypes
<1>5. ASSUME Rename PROVE TypeInv'
  <2>1. PICK d \in Existing, n \in Name, how \in SUBSET {"unchecked"} : Send({Update(d, Key, [def[d] EXCEPT !.name = n])}, how)
    BY <1>5 DEF Rename
  <2>. DEFINE r == Update(d, Key, [def[d] EXCEPT !.name = n])
  <2>2. [def[d] EXCEPT !.name = n] \in TaskDef /\ [def[d] EXCEPT !.name = n].name = n
    BY <1>0 DEF TaskDef
  <2>3. r \in Request /\ Proper(r)
    BY <1>0, <2>2, UpdateType
  <2>. HIDE DEF r
  <2>5. Send({r}, how)
    BY <2>1 DEF r
  <2>. QED BY <2>3, <2>5, SendOneTypes
<1>6. ASSUME DeleteTask \/ RunJob PROVE TypeInv'
  <2>1. PICK d \in Def \cup {0}, op \in {"delete", "job"} : Send({[op |-> op, id |-> d, keys |-> {}, data |-> NoDef]}, {})
    BY <1>0, <1>6 DEF DeleteTask, RunJob
  <2>. DEFINE r == [op |-> op, id |-> d, keys |-> {}, data |-> NoDef]
  <2>2. r \in Request /\ Proper(r)
    BY NoDefType DEF Request, Proper
  <2>. HIDE DEF r
  <2>4. Send({r}, {})
    BY <2>1 DEF r
  <2>. QED BY <2>2, <2>4, SendOneTypes
<1>. QED BY <1>1, <1>2, <1>3, <1>4, <1>5, <1>6 DEF Users

LEMMA GoTypes ==
    ASSUME TypeInv, NEW h \in Handler, NEW next \in Steps, NEW f \in Frame, Proper(f),
           \A u \in f.unlinks : Proper(u), Go(h, next, f)
    PROVE  /\ pc' \in [Handler -> Steps] /\ frame' \in [Handler -> Frame]
           /\ \A k \in Handler : Proper(frame'[k]) /\ \A u \in frame'[k].unlinks : Proper(u)
<1>. DEFINE g == IF next = "idle" THEN EmptyFrame ELSE f
<1>1. g \in Frame /\ Proper(g) /\ \A u \in g.unlinks : Proper(u)
  BY EmptyFrameType
<1>2. pc' = [pc EXCEPT ![h] = next] /\ frame' = [frame EXCEPT ![h] = g]
  BY DEF Go
<1>. HIDE DEF g
<1>3. \A k \in Handler : frame'[k] = IF k = h THEN g ELSE frame[k]
  BY <1>2 DEF TypeInv
<1>4. frame' \in [Handler -> Frame] /\ pc' \in [Handler -> Steps]
  BY <1>1, <1>2 DEF TypeInv
<1>. QED BY <1>1, <1>3, <1>4 DEF TypeInv

LEMMA ThrowTypes ==
    ASSUME TypeInv, NEW h \in Handler, Throw(h)
    PROVE  /\ pc' \in [Handler -> Steps] /\ frame' \in [Handler -> Frame]
           /\ \A k \in Handler : Proper(frame'[k]) /\ \A u \in frame'[k].unlinks : Proper(u)
<1>1. Go(h, "idle", EmptyFrame)
  BY DEF Throw
<1>2. "idle" \in Steps /\ \A u \in EmptyFrame.unlinks : Proper(u)
  BY EmptyFrameType DEF Steps
<1>. QED BY <1>1, <1>2, EmptyFrameType, GoTypes

\* The rest of the state keeps its type, and the handlers' as above.
Local(h) ==
    \E next \in Steps, f \in Frame : Proper(f) /\ (\A u \in f.unlinks : Proper(u)) /\ Go(h, next, f)

LEMMA LocalTypes ==
    ASSUME TypeInv, NEW h \in Handler, Local(h) \/ Throw(h),
           def' \in [Def -> TaskDef], sent' \subseteq sent, UNCHANGED <<requests, history>>
    PROVE  TypeInv'
<1>1. /\ pc' \in [Handler -> Steps] /\ frame' \in [Handler -> Frame]
      /\ \A k \in Handler : Proper(frame'[k]) /\ \A u \in frame'[k].unlinks : Proper(u)
  <2>1. CASE Local(h)
    <3>1. PICK next \in Steps, f \in Frame : Proper(f) /\ (\A u \in f.unlinks : Proper(u)) /\ Go(h, next, f)
      BY <2>1 DEF Local
    <3>. QED BY <3>1, GoTypes
  <2>. QED BY <2>1, ThrowTypes
<1>2. sent' \subseteq Request /\ \A r \in sent' : Proper(r)
  BY DEF TypeInv
<1>. QED BY <1>1, <1>2 DEF TypeInv, Proper

LEMMA FrameOf ==
    ASSUME TypeInv, NEW h \in Handler
    PROVE  /\ frame[h] \in Frame /\ Proper(frame[h]) /\ \A u \in frame[h].unlinks : Proper(u)
           /\ frame[h].data \in TaskDef /\ frame[h].data.from \in SUBSET Name /\ frame[h].data.to \in SUBSET Name
           /\ def \in [Def -> TaskDef] /\ \A d \in Def : def[d] \in TaskDef
BY DEF TypeInv, Frame, TaskDef

LEMMA GoIsLocal ==
    ASSUME TypeInv, NEW h \in Handler, NEW next, next \in Steps, Go(h, next, frame[h])
    PROVE  Local(h)
BY FrameOf DEF Local

LEMMA ReplacedType ==
    ASSUME TypeInv, NEW h \in Handler
    PROVE  /\ Replaced(h, Read(Existing)) \subseteq Doc /\ Named(Replaced(h, Read(Existing)))
           /\ \A t \in Replaced(h, Read(Existing)) : t.name \in Name
<1>1. \A t \in Read(Existing) : t \in Doc /\ t.name \in Name
  BY ReadType
<1>2. ASSUME NEW t \in Replaced(h, Read(Existing)) PROVE t \in Doc /\ t.name \in Name
  <2>1. PICK u \in Read(Existing) : t = IF u.id # frame[h].id THEN u
                                        ELSE [u EXCEPT !.from = frame[h].data.from, !.to = frame[h].data.to]
    BY DEF Replaced
  <2>2. frame[h].data.from \in SUBSET Name /\ frame[h].data.to \in SUBSET Name
    BY FrameOf
  <2>. QED BY <1>1, <2>1, <2>2 DEF Doc
<1>3. \A t \in Replaced(h, Read(Existing)) : t.from \subseteq Name /\ t.to \subseteq Name
  BY <1>2 DEF Doc
<1>. QED BY <1>2, <1>3 DEF Named

LEMMA RewrittenType ==
    ASSUME NEW taskDefs, taskDefs \subseteq Doc, NEW old, NEW new \in Name
    PROVE  Rewritten(taskDefs, old, new) \subseteq Doc
<1>. SUFFICES ASSUME NEW t \in Rewritten(taskDefs, old, new) PROVE t \in Doc
  OBVIOUS
<1>1. PICK u \in taskDefs : t = [u EXCEPT !.from = RenameIn(u.from, old, new), !.to = RenameIn(u.to, old, new)]
  BY DEF Rewritten
<1>2. \A S \in SUBSET Name : RenameIn(S, old, new) \in SUBSET Name
  BY DEF RenameIn
<1>3. u \in Doc /\ u.from \in SUBSET Name /\ u.to \in SUBSET Name
  BY DEF Doc
<1>4. RenameIn(u.from, old, new) \in SUBSET Name /\ RenameIn(u.to, old, new) \in SUBSET Name
  BY <1>2, <1>3
<1>. QED BY <1>1, <1>3, <1>4 DEF Doc

LEMMA UnlinksType ==
    ASSUME TypeInv, NEW name
    PROVE  /\ Unlinks(Read(Existing), name) \subseteq Request
           /\ \A u \in Unlinks(Read(Existing), name) : Proper(u)
<1>. SUFFICES ASSUME NEW u \in Unlinks(Read(Existing), name) PROVE u \in Request /\ Proper(u)
  OBVIOUS
<1>1. PICK t \in Read(Existing) : \/ u = Update(t.id, {"to"}, [NoDef EXCEPT !.to = t.to \ {name}])
                                  \/ u = Update(t.id, {"from"}, [NoDef EXCEPT !.from = t.from \ {name}])
  BY DEF Unlinks
<1>2. t.id \in Def /\ t.to \ {name} \in SUBSET Name /\ t.from \ {name} \in SUBSET Name
  BY ReadType DEF Doc, Existing
<1>. QED BY <1>1, <1>2, RoutesOnlyType

LEMMA HandleTypes ==
    ASSUME TypeInv, NEW h \in Handler, Handle(h)
    PROVE  TypeInv'
<1>. DEFINE f == frame[h]
<1>0. /\ f \in Frame /\ Proper(f) /\ \A u \in f.unlinks : Proper(u)
      /\ f.data \in TaskDef /\ def \in [Def -> TaskDef] /\ \A d \in Def : def[d] \in TaskDef
  BY FrameOf
<1>1. ASSUME Receive(h) PROVE TypeInv'
  <2>1. PICK r \in sent :
           Go(h, CASE r.op = "create" -> "create" [] r.op = "update" -> "find"
                   [] r.op = "delete" -> "delete" [] r.op = "job" -> "createjob",
              [EmptyFrame EXCEPT !.id = r.id, !.keys = r.keys, !.data = r.data,
                                 !.victim = IF r.op = "delete" THEN r.id ELSE 0])
           /\ sent' = sent \ {r}
    BY <1>1 DEF Receive
  <2>2. r \in Request /\ Proper(r)
    BY DEF TypeInv
  <2>. DEFINE g == [EmptyFrame EXCEPT !.id = r.id, !.keys = r.keys, !.data = r.data,
                                      !.victim = IF r.op = "delete" THEN r.id ELSE 0]
  <2>3. /\ r.id \in Def \cup {0} /\ r.keys \in SUBSET Key /\ r.data \in TaskDef
        /\ (IF r.op = "delete" THEN r.id ELSE 0) \in Def \cup {0}
    BY <2>2 DEF Request
  <2>4. g \in Frame /\ g.keys = r.keys /\ g.data = r.data /\ g.unlinks = {}
    BY <2>3, EmptyFrameType DEF Frame, EmptyFrame
  <2>5. Proper(g) /\ \A u \in g.unlinks : Proper(u)
    BY <2>2, <2>4 DEF Proper
  <2>. HIDE DEF g
  <2>6. \E next \in Steps : Go(h, next, g)
    <3>1. r.op \in {"create", "update", "delete", "job"}
      BY <2>2 DEF Request
    <3>2. \/ Go(h, "create", g) \/ Go(h, "find", g) \/ Go(h, "delete", g) \/ Go(h, "createjob", g)
      BY <2>1, <3>1 DEF g
    <3>. QED BY <3>2 DEF Steps
  <2>7. Local(h)
    BY <2>4, <2>5, <2>6 DEF Local
  <2>. QED BY <1>0, <1>1, <2>1, <2>7, LocalTypes DEF Receive
<1>2. ASSUME CheckCreate(h) PROVE TypeInv'
  <2>1. Go(h, "insert", f) \/ Go(h, "idle", f)
    BY <1>2 DEF CheckCreate
  <2>2. Local(h)
    BY <2>1, GoIsLocal DEF Steps
  <2>. QED BY <1>0, <1>2, <2>2, LocalTypes DEF CheckCreate
<1>3. ASSUME Insert(h) PROVE TypeInv'
  <2>1. Local(h)
    BY <1>3, GoIsLocal DEF Insert, Steps
  <2>2. def' \in [Def -> TaskDef]
    BY <1>0, <1>3 DEF Insert
  <2>. QED BY <1>3, <2>1, <2>2, LocalTypes DEF Insert
<1>4. ASSUME FindTaskDef(h) PROVE TypeInv'
  <2>1. Local(h) \/ Throw(h)
    <3>1. CASE f.id \in Existing
      <4>. DEFINE g == [f EXCEPT !.old = def[f.id].name]
      <4>1. def[f.id].name \in Name \cup {NoName}
        BY <1>0, <3>1 DEF Existing, TaskDef
      <4>2. g \in Frame /\ g.keys = f.keys /\ g.data = f.data /\ g.unlinks = f.unlinks
        BY <1>0, <4>1 DEF Frame
      <4>3. Proper(g) /\ \A u \in g.unlinks : Proper(u)
        BY <1>0, <4>2 DEF Proper
      <4>4. Go(h, "check", g)
        BY <1>4, <3>1 DEF FindTaskDef
      <4>. HIDE DEF g
      <4>. QED BY <4>2, <4>3, <4>4 DEF Local, Steps
    <3>2. CASE f.id \notin Existing
      BY <1>4, <3>2 DEF FindTaskDef
    <3>. QED BY <3>1, <3>2
  <2>. QED BY <1>0, <1>4, <2>1, LocalTypes DEF FindTaskDef
<1>5. ASSUME CheckUpdate(h) PROVE TypeInv'
  <2>. DEFINE taskDefs == Replaced(h, Read(Existing))
              renames == "name" \in f.keys /\ f.data.name # f.old
              rewrites == IF renames THEN Rewritten(taskDefs, f.old, f.data.name) ELSE {}
              g == [f EXCEPT !.rewrites = rewrites, !.accepted = Accepted(taskDefs)]
  <2>1. Go(h, "rewrite", g) \/ Go(h, "write", g) \/ Throw(h)
    BY <1>5 DEF CheckUpdate
  <2>2. rewrites \in SUBSET Doc
    BY <1>0, ReplacedType, RewrittenType DEF Proper
  <2>3. Accepted(taskDefs) \in BOOLEAN
    BY DEF Accepted
  <2>. DEFINE a == Accepted(taskDefs)
  <2>. HIDE DEF a, rewrites
  <2>4. [f EXCEPT !.rewrites = rewrites, !.accepted = a] \in Frame
    BY <1>0, <2>2, <2>3 DEF Frame, a
  <2>5. g \in Frame /\ g.keys = f.keys /\ g.data = f.data /\ g.unlinks = f.unlinks
    <3>1. g \in Frame
      BY <2>4 DEF a
    <3>2. g.keys = f.keys /\ g.data = f.data /\ g.unlinks = f.unlinks
      BY <1>0 DEF Frame
    <3>. QED BY <3>1, <3>2
  <2>6. Proper(g) /\ \A u \in g.unlinks : Proper(u)
    BY <1>0, <2>5 DEF Proper
  <2>. HIDE DEF g
  <2>7. Local(h) \/ Throw(h)
    BY <2>1, <2>5, <2>6 DEF Local, Steps
  <2>. QED BY <1>0, <1>5, <2>7, LocalTypes DEF CheckUpdate
<1>6. ASSUME Rewrite(h) PROVE TypeInv'
  <2>1. PICK t \in f.rewrites :
           /\ def' = IF t.id \in Existing THEN [def EXCEPT ![t.id].from = t.from, ![t.id].to = t.to] ELSE def
           /\ \/ Go(h, "rewrite", [f EXCEPT !.rewrites = f.rewrites \ {t}])
              \/ Go(h, "write", [f EXCEPT !.rewrites = {}])
              \/ Throw(h)
    BY <1>6 DEF Rewrite
  <2>2. def' \in [Def -> TaskDef]
    <3>1. t.from \in SUBSET Name /\ t.to \in SUBSET Name
      BY <1>0 DEF Frame, Doc
    <3>. QED BY <1>0, <2>1, <3>1 DEF TaskDef
  <2>3. ASSUME NEW next \in Steps, NEW S \in SUBSET f.rewrites, Go(h, next, [f EXCEPT !.rewrites = S])
        PROVE  Local(h)
    <3>. DEFINE g == [f EXCEPT !.rewrites = S]
    <3>1. g \in Frame /\ g.keys = f.keys /\ g.data = f.data /\ g.unlinks = f.unlinks
      BY <1>0 DEF Frame
    <3>2. Proper(g) /\ \A u \in g.unlinks : Proper(u)
      BY <1>0, <3>1 DEF Proper
    <3>3. Go(h, next, g)
      BY <2>3
    <3>. HIDE DEF g
    <3>. QED BY <3>1, <3>2, <3>3 DEF Local
  <2>4. Local(h) \/ Throw(h)
    <3>1. f.rewrites \ {t} \in SUBSET f.rewrites /\ {} \in SUBSET f.rewrites /\ "rewrite" \in Steps /\ "write" \in Steps
      BY DEF Steps
    <3>. QED BY <2>1, <2>3, <3>1
  <2>. QED BY <1>6, <2>2, <2>4, LocalTypes DEF Rewrite
<1>7. ASSUME Write(h) PROVE TypeInv'
  <2>1. \/ f.id \in Existing /\ (Go(h, "unlink", f) \/ Go(h, "idle", f))
        \/ Throw(h) /\ UNCHANGED def
    BY <1>7 DEF Write
  <2>2. Local(h) \/ Throw(h)
    BY <2>1, GoIsLocal DEF Steps
  <2>3. def' \in [Def -> TaskDef]
    <3>1. CASE f.id \in Existing
      <4>. DEFINE w == [name |-> IF "name" \in f.keys THEN f.data.name ELSE def[f.id].name,
                        from |-> IF "from" \in f.keys THEN f.data.from ELSE def[f.id].from,
                        to   |-> IF "to"   \in f.keys THEN f.data.to   ELSE def[f.id].to]
      <4>1. def' = [def EXCEPT ![f.id] = w]
        BY <1>7, <3>1 DEF Write
      <4>2. w \in TaskDef
        BY <1>0, <3>1 DEF TaskDef, Existing
      <4>. HIDE DEF w
      <4>. QED BY <1>0, <4>1, <4>2
    <3>2. CASE f.id \notin Existing
      BY <1>0, <1>7, <3>2 DEF Write
    <3>. QED BY <3>1, <3>2
  <2>. QED BY <1>7, <2>2, <2>3, LocalTypes DEF Write
<1>8. ASSUME FindVictim(h) PROVE TypeInv'
  <2>1. Local(h) \/ Throw(h)
    <3>1. CASE f.victim \in Existing
      <4>. DEFINE g == [f EXCEPT !.old = def[f.victim].name]
      <4>1. def[f.victim].name \in Name \cup {NoName}
        BY <1>0, <3>1 DEF Existing, TaskDef
      <4>2. g \in Frame /\ g.keys = f.keys /\ g.data = f.data /\ g.unlinks = f.unlinks
        BY <1>0, <4>1 DEF Frame
      <4>3. Proper(g) /\ \A u \in g.unlinks : Proper(u)
        BY <1>0, <4>2 DEF Proper
      <4>4. Go(h, "references", g)
        BY <1>8, <3>1 DEF FindVictim
      <4>. HIDE DEF g
      <4>. QED BY <4>2, <4>3, <4>4 DEF Local, Steps
    <3>2. CASE f.victim \notin Existing
      BY <1>8, <3>2 DEF FindVictim
    <3>. QED BY <3>1, <3>2
  <2>. QED BY <1>0, <1>8, <2>1, LocalTypes DEF FindVictim
<1>9. ASSUME ListReferences(h) PROVE TypeInv'
  <2>. DEFINE U == Unlinks(Read(Existing), f.old)
              g == [f EXCEPT !.unlinks = U]
  <2>1. U \in SUBSET Request /\ \A u \in U : Proper(u)
    BY UnlinksType
  <2>2. Go(h, "unlink", g)
    BY <1>9 DEF ListReferences
  <2>. HIDE DEF U
  <2>3. g \in Frame /\ g.keys = f.keys /\ g.data = f.data /\ g.unlinks = U
    BY <1>0, <2>1 DEF Frame
  <2>4. Proper(g) /\ \A u \in g.unlinks : Proper(u)
    BY <1>0, <2>1, <2>3 DEF Proper
  <2>. HIDE DEF g
  <2>5. Local(h)
    BY <2>2, <2>3, <2>4 DEF Local, Steps
  <2>. QED BY <1>0, <1>9, <2>5, LocalTypes DEF ListReferences
<1>10. ASSUME Unlink(h) PROVE TypeInv'
  <2>1. CASE f.unlinks = {}
    <3>1. Go(h, "remove", f)
      BY <1>10, <2>1 DEF Unlink
    <3>2. Local(h)
      BY <3>1, GoIsLocal DEF Steps
    <3>. QED BY <1>0, <1>10, <3>2, LocalTypes DEF Unlink
  <2>2. CASE f.unlinks # {}
    <3>1. PICK u \in f.unlinks : Go(h, "find", [f EXCEPT !.unlinks = f.unlinks \ {u}, !.id = u.id,
                                                         !.keys = u.keys, !.data = u.data])
      BY <1>10, <2>2 DEF Unlink
    <3>. DEFINE g == [f EXCEPT !.unlinks = f.unlinks \ {u}, !.id = u.id, !.keys = u.keys, !.data = u.data]
    <3>2. u \in Request /\ Proper(u)
      BY <1>0 DEF Frame
    <3>3. g \in Frame /\ g.keys = u.keys /\ g.data = u.data /\ g.unlinks = f.unlinks \ {u}
      BY <1>0, <3>2 DEF Frame, Request
    <3>4. Proper(g) /\ \A v \in g.unlinks : Proper(v)
      BY <1>0, <3>2, <3>3 DEF Proper
    <3>5. Go(h, "find", g)
      BY <3>1
    <3>. HIDE DEF g
    <3>6. Local(h)
      BY <3>3, <3>4, <3>5 DEF Local, Steps
    <3>. QED BY <1>0, <1>10, <3>6, LocalTypes DEF Unlink
  <2>. QED BY <2>1, <2>2
<1>11. ASSUME Remove(h) PROVE TypeInv'
  <2>1. Local(h)
    BY <1>11, GoIsLocal DEF Remove, Steps
  <2>2. def' \in [Def -> TaskDef]
    BY <1>0, <1>11, NoDefType DEF Remove
  <2>. QED BY <1>11, <2>1, <2>2, LocalTypes DEF Remove
<1>12. ASSUME CreateJob(h) PROVE TypeInv'
  <2>1. Local(h)
    BY <1>12, GoIsLocal DEF CreateJob, Steps
  <2>. QED BY <1>0, <1>12, <2>1, LocalTypes DEF CreateJob
<1>. QED BY <1>1, <1>2, <1>3, <1>4, <1>5, <1>6, <1>7, <1>8, <1>9, <1>10, <1>11, <1>12 DEF Handle

LEMMA TypesStep == TypeInv /\ [Next]_vars => TypeInv'
<1>. SUFFICES ASSUME TypeInv, [Next]_vars PROVE TypeInv'
  OBVIOUS
<1>1. CASE UNCHANGED vars
  BY <1>1 DEF vars, TypeInv, Proper
<1>2. CASE Users
  BY <1>2, UsersTypes
<1>3. CASE \E h \in Handler : Handle(h)
  BY <1>3, HandleTypes
<1>. QED BY <1>1, <1>2, <1>3 DEF Next

LEMMA TypesImplied == TypeInv => TypeOK
BY DEF TypeInv, TypeOK, Frame

\* Templates, requests and jobs keep their types in every reachable state: a handler of a rename
\* or a delete leaves only templates with names, routes to names, and bodies of requests.
THEOREM TypeCorrect == Spec => []TypeOK
<1>1. Spec => []TypeInv
  BY InitTypes, TypesStep, PTL DEF Spec
<1>. QED BY <1>1, TypesImplied, PTL

-----------------------------------------------------------------------------
(***************************************************************************)
(* Jobs                                                                    *)
(***************************************************************************)
LEMMA ReadFinite == ASSUME NEW S, S \subseteq Existing PROVE IsFiniteSet(Read(S))
<1>. DEFINE f == [d \in S |-> [id |-> d, name |-> def[d].name, from |-> def[d].from, to |-> def[d].to]]
<1>1. Read(S) = {f[d] : d \in S} /\ DOMAIN f = S
  BY DEF Read
<1>2. IsFiniteSet(S)
  BY FS_Subset DEF Existing
<1>. HIDE DEF f
<1>. QED BY <1>1, <1>2, ImageFinite

\* What the server accepts has no cycle, if there is more than one task.
LEMMA AcceptedIsAcyclic ==
    ASSUME NEW taskDefs, Named(taskDefs), IsFiniteSet(taskDefs), Accepted(taskDefs), Cardinality(taskDefs) > 1
    PROVE  Acyclic(taskDefs)
<1>1. Cardinality(taskDefs) \in Nat
  BY FS_CardinalityType
<1>2. ~IsCyclic(taskDefs)
  BY <1>1 DEF Accepted
<1>. QED BY <1>2, SearchExact

\* JobGraphAcyclic: createJobFromJobDef builds no job of several tasks that wait for each
\* other, however edits overlap, of any definitions.
THEOREM JobsAcyclic == Spec => []JobGraphAcyclic
<1>1. Init => JobGraphAcyclic
  BY FS_EmptySet DEF Init, JobGraphAcyclic
<1>2. TypeInv /\ JobGraphAcyclic /\ [Next]_vars => JobGraphAcyclic'
  <2>. SUFFICES ASSUME TypeInv, JobGraphAcyclic, [Next]_vars PROVE JobGraphAcyclic'
    OBVIOUS
  <2>1. CASE job' = job
    BY <2>1 DEF JobGraphAcyclic
  <2>2. ASSUME NEW h \in Handler, CreateJob(h) PROVE JobGraphAcyclic'
    <3>1. CASE Accepted(Read(Existing))
      <4>1. job' = Read(Existing)
        BY <2>2, <3>1 DEF CreateJob
      <4>2. Cardinality(Read(Existing)) > 1 => Acyclic(Read(Existing))
        BY <3>1, ReadType, ReadFinite, AcceptedIsAcyclic
      <4>. DEFINE T == Read(Existing)
      <4>3. Cardinality(job') > 1 => Acyclic(job')
        <5>. HIDE DEF T
        <5>. QED BY <4>1, <4>2 DEF T
      <4>. QED BY <4>3 DEF JobGraphAcyclic
    <3>2. CASE ~Accepted(Read(Existing))
      <4>1. job' = job
        BY <2>2, <3>2 DEF CreateJob
      <4>. QED BY <4>1 DEF JobGraphAcyclic
    <3>. QED BY <3>1, <3>2
  <2>3. CASE Users
    <3>1. job' = job
      BY <2>3 DEF Users, SaveNewTaskDef, EditInbound, EditOutbound, RouteAllTo, Rename, DeleteTask, RunJob, Send
    <3>. QED BY <2>1, <3>1
  <2>4. ASSUME NEW h \in Handler, Handle(h), ~CreateJob(h) PROVE JobGraphAcyclic'
    <3>1. job' = job
      BY <2>4 DEF Handle, Receive, CheckCreate, Insert, FindTaskDef, CheckUpdate, Rewrite, Write,
                  FindVictim, ListReferences, Unlink, Remove
    <3>. QED BY <2>1, <3>1
  <2>5. CASE UNCHANGED vars
    BY <2>1, <2>5 DEF vars
  <2>. QED BY <2>2, <2>3, <2>4, <2>5 DEF Next
<1>3. Spec => []TypeInv
  BY InitTypes, TypesStep, PTL DEF Spec
<1>. QED BY <1>1, <1>2, <1>3, PTL DEF Spec

-----------------------------------------------------------------------------
(***************************************************************************)
(* The designer's rule                                                     *)
(***************************************************************************)
LEMMA DesignerArcs ==
    ASSUME NEW taskDefs, Named(taskDefs), RoutesResolve(taskDefs),
           NEW m \in Name, NEW n \in Name
    PROVE  /\ n \in Downstream(taskDefs, m) <=> n \in Reach(Arcs(taskDefs), {m})
           /\ m \in Upstream(taskDefs, n) <=> n \in Reach(Arcs(taskDefs), {m})
<1>. DEFINE arcs == Arcs(taskDefs)
            down == {a \in Name \X Name : \E t \in taskDefs :
                       t.name = a[2] /\ (a[1] \in t.from \/ \E u \in taskDefs : u.name = a[1] /\ a[2] \in u.to)}
            up == {a \in Name \X Name : \E t \in taskDefs :
                       t.name = a[2] /\ (a[1] \in t.to \/ \E u \in taskDefs : u.name = a[1] /\ a[2] \in u.from)}
<1>0. \A t \in taskDefs : \A x \in t.from \cup t.to : \E u \in taskDefs : u.name = x
  BY DEF RoutesResolve, Nodes
<1>1. down = arcs
  <2>1. ASSUME NEW a \in Name \X Name PROVE a \in down <=> a \in arcs
    BY <1>0 DEF Arcs
  <2>2. down \subseteq Name \X Name /\ arcs \subseteq Name \X Name
    BY DEF Arcs
  <2>. HIDE DEF down, arcs
  <2>. QED BY <2>1, <2>2
<1>2. \A x, y \in Name : <<x, y>> \in up <=> <<y, x>> \in arcs
  BY <1>0 DEF Arcs
<1>3. Downstream(taskDefs, m) = Reach(down, {m}) /\ Upstream(taskDefs, n) = Reach(up, {n})
  BY DEF Downstream, Upstream
<1>. HIDE DEF arcs, down, up
<1>4. n \in Reach(arcs, {m}) => m \in Reach(up, {n})
  BY <1>2, BothWays
<1>5. m \in Reach(up, {n}) => n \in Reach(arcs, {m})
  <2>1. \A x, y \in Name : <<x, y>> \in arcs <=> <<y, x>> \in up
    BY <1>2
  <2>2. \A x, y \in Name : <<x, y>> \in up <=> <<y, x>> \in arcs
    BY <1>2
  <2>. QED BY <2>2, BothWays
<1>. QED BY <1>1, <1>3, <1>4, <1>5 DEF arcs

LEMMA TwoOrMore ==
    ASSUME NEW S, IsFiniteSet(S), NEW x \in S, NEW y \in S, x # y
    PROVE  ~(Cardinality(S) < 2)
<1>1. IsFiniteSet({x}) /\ Cardinality({x}) = 1
  BY FS_Singleton
<1>2. IsFiniteSet({x} \cup {y}) /\ Cardinality({x} \cup {y}) = 2
  <2>1. IsFiniteSet({x} \cup {y})
    BY <1>1, FS_AddElement
  <2>2. Cardinality({x} \cup {y}) = Cardinality({x}) + 1
    BY <1>1, FS_AddElement
  <2>. QED BY <1>1, <2>1, <2>2
<1>3. {x} \cup {y} \in SUBSET S
  OBVIOUS
<1>4. Cardinality({x} \cup {y}) <= Cardinality(S)
  BY <1>3, FS_Subset
<1>5. Cardinality(S) \in Nat
  BY FS_CardinalityType
<1>. QED BY <1>2, <1>4, <1>5

\* DesignerRuleExact, for any definitions: what getTasksDownstream keeps the user from
\* adding is just what isJobDefCyclical would refuse.
LEMMA RuleExact == TypeInv => DesignerRuleExact
<1>. DEFINE T == Read(Existing)
            With(d, n) == {IF t.id = d THEN [t EXCEPT !.from = @ \cup {n}] ELSE t : t \in T}
<1>. SUFFICES ASSUME TypeInv, InOrder(T), NEW d \in Existing, NEW e \in Existing, d # e
              PROVE  LET illegal == def[e].name \in Downstream(T, def[d].name)
                     IN  /\ illegal <=> ~Accepted(With(d, def[e].name))
                         /\ illegal <=> def[d].name \in Upstream(T, def[e].name)
  BY DEF DesignerRuleExact
<1>. DEFINE m == def[d].name
            n == def[e].name
            W == With(d, n)
<1>0. /\ \A t \in T : /\ t \in Doc /\ t.id \in Existing /\ t.name \in Name
                      /\ t.name = def[t.id].name /\ t.from = def[t.id].from /\ t.to = def[t.id].to
      /\ Named(T) /\ IsFiniteSet(T)
  BY ReadType, ReadFinite
<1>1. NamesUnique(T) /\ RoutesResolve(T) /\ NoCycle(Arcs(T))
  BY DEF InOrder, Acyclic
<1>2. ASSUME NEW x \in Existing PROVE \E t \in T : t.id = x
  <2>. DEFINE t == [id |-> x, name |-> def[x].name, from |-> def[x].from, to |-> def[x].to]
  <2>1. t \in T /\ t.id = x
    BY DEF Read
  <2>. HIDE DEF t
  <2>. QED BY <2>1
<1>3. m \in Name /\ n \in Name /\ (\E t \in T : t.id = e /\ t.name = n) /\ (\E t \in T : t.id = d /\ t.name = m)
  BY <1>0, <1>2
<1>. HIDE DEF T, m, n
<1>4. \A t \in T : t.name = m => t.id = d
  BY <1>1, <1>3 DEF NamesUnique
<1>. DEFINE g == [t \in T |-> IF t.id = d THEN [t EXCEPT !.from = @ \cup {n}] ELSE t]
<1>5. W = {g[t] : t \in T} /\ DOMAIN g = T
  OBVIOUS
<1>6. \A t \in T : /\ g[t].name = t.name /\ g[t].to = t.to /\ g[t].id = t.id
                   /\ g[t].from = IF t.id = d THEN t.from \cup {n} ELSE t.from
  BY <1>0 DEF Doc
<1>7. IsFiniteSet(W)
  <2>. HIDE DEF g, W
  <2>. QED BY <1>0, <1>5, ImageFinite
<1>. HIDE DEF g, W
<1>8. Nodes(W) = Nodes(T) /\ Named(W)
  <2>1. Nodes(W) = Nodes(T)
    <3>1. ASSUME NEW w \in W PROVE w.name \in Nodes(T)
      <4>1. PICK t \in T : w = g[t]
        BY <1>5
      <4>2. w.name = t.name
        BY <1>6, <4>1
      <4>. QED BY <4>2 DEF Nodes
    <3>2. \A t \in T : g[t] \in W /\ g[t].name = t.name
      BY <1>5, <1>6
    <3>3. \A t \in T : t.name \in Nodes(W)
      BY <3>2 DEF Nodes
    <3>4. Nodes(W) \subseteq Nodes(T)
      BY <3>1 DEF Nodes
    <3>5. Nodes(T) \subseteq Nodes(W)
      BY <3>3 DEF Nodes
    <3>. QED BY <3>4, <3>5
  <2>2. ASSUME NEW w \in W PROVE w.name \in Name /\ w.from \subseteq Name /\ w.to \subseteq Name
    <3>1. PICK t \in T : w = g[t]
      BY <1>5
    <3>2. t.name \in Name /\ t.from \subseteq Name /\ t.to \subseteq Name
      BY <1>0 DEF Named
    <3>3. w.name = t.name /\ w.to = t.to /\ w.from = IF t.id = d THEN t.from \cup {n} ELSE t.from
      BY <1>6, <3>1
    <3>. QED BY <1>3, <3>2, <3>3
  <2>. QED BY <2>1, <2>2 DEF Named
<1>9. ~Dangling(W)
  <2>. SUFFICES ASSUME NEW w \in W PROVE w.to \subseteq Nodes(T)
    BY <1>8 DEF Dangling
  <2>1. PICK t \in T : w = g[t]
    BY <1>5
  <2>. QED BY <1>1, <1>6, <2>1 DEF RoutesResolve
<1>10. ~(Cardinality(W) < 2)
  <2>1. PICK x \in T, y \in T : x.id = d /\ y.id = e
    BY <1>3
  <2>2. g[x] \in W /\ g[y] \in W /\ g[x] # g[y]
    BY <1>5, <1>6, <2>1
  <2>. QED BY <1>7, <2>2, TwoOrMore
<1>11. Accepted(W) <=> NoCycle(Arcs(W))
  BY <1>8, <1>9, <1>10, SearchExact DEF Accepted, Acyclic
<1>12. Arcs(W) = Arcs(T) \cup {<<n, m>>}
  <2>1. ASSUME NEW a \in Name \X Name
        PROVE  a \in Arcs(W) <=> a \in Arcs(T) \/ a = <<n, m>>
    <3>1. a \in Arcs(W) <=> \E w \in W : (w.name = a[2] /\ a[1] \in w.from) \/ (w.name = a[1] /\ a[2] \in w.to)
      BY DEF Arcs
    <3>2. a \in Arcs(W) <=> \E t \in T : (g[t].name = a[2] /\ a[1] \in g[t].from) \/ (g[t].name = a[1] /\ a[2] \in g[t].to)
      BY <1>5, <3>1
    <3>3. a \in Arcs(W) <=> \E t \in T : \/ t.name = a[2] /\ (a[1] \in t.from \/ (t.id = d /\ a[1] = n))
                                         \/ t.name = a[1] /\ a[2] \in t.to
      <4>1. \A t \in T : /\ (g[t].name = a[2] /\ a[1] \in g[t].from)
                             <=> (t.name = a[2] /\ (a[1] \in t.from \/ (t.id = d /\ a[1] = n)))
                         /\ (g[t].name = a[1] /\ a[2] \in g[t].to)
                             <=> (t.name = a[1] /\ a[2] \in t.to)
        BY <1>6
      <4>. QED BY <3>2, <4>1
    <3>4. a \in Arcs(T) <=> \E t \in T : (t.name = a[2] /\ a[1] \in t.from) \/ (t.name = a[1] /\ a[2] \in t.to)
      BY DEF Arcs
    <3>5. (\E t \in T : t.name = a[2] /\ t.id = d /\ a[1] = n) <=> a[1] = n /\ a[2] = m
      <4>1. \A t \in T : t.id = d => t.name = m
        BY <1>0 DEF m
      <4>. QED BY <1>3, <4>1
    <3>6. a = <<n, m>> <=> a[1] = n /\ a[2] = m
      OBVIOUS
    <3>. QED BY <3>3, <3>4, <3>5, <3>6
  <2>2. Arcs(W) \subseteq Name \X Name /\ Arcs(T) \cup {<<n, m>>} \subseteq Name \X Name
    BY <1>3 DEF Arcs
  <2>. QED BY <2>1, <2>2
<1>13. NoCycle(Arcs(W)) <=> n \notin Reach(Arcs(T), {m})
  BY <1>1, <1>3, <1>12, OneMoreArc
<1>14. /\ n \in Downstream(T, m) <=> n \in Reach(Arcs(T), {m})
       /\ m \in Upstream(T, n) <=> n \in Reach(Arcs(T), {m})
  BY <1>0, <1>1, <1>3, DesignerArcs
<1>15. /\ n \in Downstream(T, m) <=> ~Accepted(W)
       /\ n \in Downstream(T, m) <=> m \in Upstream(T, n)
  BY <1>11, <1>13, <1>14
<1>. QED BY <1>15 DEF m, n, W

\* Whenever the templates are in good order, an arc is one that the designer would not offer
\* (canAddFrom and canAddTo of JobDesigner.vue) exactly when isJobDefCyclical would refuse it.
THEOREM DesignerAndServerAgree == Spec => []DesignerRuleExact
<1>1. Spec => []TypeInv
  BY InitTypes, TypesStep, PTL DEF Spec
<1>. QED BY <1>1, RuleExact, PTL

-----------------------------------------------------------------------------
(***************************************************************************)
(* Documents in good order, and what keeps them so                         *)
(***************************************************************************)
Here(D) == {d \in Def : D[d].name # NoName}
Docs(D) == {[id |-> d, name |-> D[d].name, from |-> D[d].from, to |-> D[d].to] : d \in Here(D)}

ArcsIn(D) ==
    {a \in Name \X Name : \E d \in Here(D) : \/ D[d].name = a[2] /\ a[1] \in D[d].from
                                             \/ D[d].name = a[1] /\ a[2] \in D[d].to}
Resolved(D, S) == \A n \in S : \E e \in Here(D) : D[e].name = n
Orderly(D) ==
    /\ \A d, e \in Here(D) : D[d].name = D[e].name => d = e
    /\ \A d \in Here(D) : Resolved(D, D[d].from) /\ Resolved(D, D[d].to)
    /\ NoCycle(ArcsIn(D))

Documents == [Def -> TaskDef]

LEMMA AreDocs == Existing = Here(def) /\ Read(Existing) = Docs(def)
BY DEF Existing, Here, Read, Docs

LEMMA DocsAre ==
    ASSUME NEW D \in Documents
    PROVE  /\ \A t \in Docs(D) : /\ t \in Doc /\ t.id \in Here(D)
                                 /\ t.name = D[t.id].name /\ t.from = D[t.id].from /\ t.to = D[t.id].to
           /\ \A d \in Here(D) : \E t \in Docs(D) : t.id = d
           /\ \A d \in Here(D) : /\ d \in Def /\ D[d].name \in Name
                                 /\ D[d].from \in SUBSET Name /\ D[d].to \in SUBSET Name
           /\ Named(Docs(D)) /\ IsFiniteSet(Docs(D))
<1>1. ASSUME NEW d \in Here(D)
      PROVE  d \in Def /\ D[d].name \in Name /\ D[d].from \in SUBSET Name /\ D[d].to \in SUBSET Name
  BY DEF Documents, TaskDef, Here
<1>. DEFINE f == [d \in Here(D) |-> [id |-> d, name |-> D[d].name, from |-> D[d].from, to |-> D[d].to]]
<1>2. Docs(D) = {f[d] : d \in Here(D)} /\ DOMAIN f = Here(D)
  BY DEF Docs
<1>3. \A d \in Here(D) : /\ f[d] \in Doc /\ f[d].id = d
                         /\ f[d].name = D[d].name /\ f[d].from = D[d].from /\ f[d].to = D[d].to
  BY <1>1 DEF Doc
<1>. HIDE DEF f
<1>4. IsFiniteSet(Docs(D))
  <2>1. IsFiniteSet(Here(D))
    BY FS_Subset DEF Here
  <2>. QED BY <1>2, <2>1, ImageFinite
<1>5. ASSUME NEW t \in Docs(D)
      PROVE  /\ t \in Doc /\ t.id \in Here(D)
             /\ t.name = D[t.id].name /\ t.from = D[t.id].from /\ t.to = D[t.id].to
  <2>1. PICK d \in Here(D) : t = f[d]
    BY <1>2
  <2>. QED BY <1>3, <2>1
<1>6. ASSUME NEW d \in Here(D) PROVE \E t \in Docs(D) : t.id = d
  <2>1. f[d] \in Docs(D) /\ f[d].id = d
    BY <1>2, <1>3
  <2>. QED BY <2>1
<1>7. Named(Docs(D))
  BY <1>1, <1>5 DEF Named
<1>. QED BY <1>1, <1>4, <1>5, <1>6, <1>7

LEMMA ArcsAre == ASSUME NEW D \in Documents PROVE Arcs(Docs(D)) = ArcsIn(D)
<1>1. ASSUME NEW a \in Name \X Name PROVE a \in Arcs(Docs(D)) <=> a \in ArcsIn(D)
  <2>1. ASSUME a \in Arcs(Docs(D)) PROVE a \in ArcsIn(D)
    <3>1. PICK t \in Docs(D) : \/ t.name = a[2] /\ a[1] \in t.from
                               \/ t.name = a[1] /\ a[2] \in t.to
      BY <2>1 DEF Arcs
    <3>. QED BY <3>1, DocsAre DEF ArcsIn
  <2>2. ASSUME a \in ArcsIn(D) PROVE a \in Arcs(Docs(D))
    <3>1. PICK d \in Here(D) : \/ D[d].name = a[2] /\ a[1] \in D[d].from
                               \/ D[d].name = a[1] /\ a[2] \in D[d].to
      BY <2>2 DEF ArcsIn
    <3>2. PICK t \in Docs(D) : t.id = d
      BY DocsAre
    <3>. QED BY <3>1, <3>2, DocsAre DEF Arcs
  <2>. QED BY <2>1, <2>2
<1>. QED BY <1>1 DEF Arcs, ArcsIn

LEMMA OrderIs == ASSUME NEW D \in Documents PROVE Orderly(D) <=> InOrder(Docs(D))
<1>. USE DocsAre
<1>1. NamesUnique(Docs(D)) <=> \A d, e \in Here(D) : D[d].name = D[e].name => d = e
  <2>1. ASSUME NamesUnique(Docs(D)), NEW d \in Here(D), NEW e \in Here(D), D[d].name = D[e].name PROVE d = e
    <3>1. PICK t \in Docs(D), u \in Docs(D) : t.id = d /\ u.id = e
      OBVIOUS
    <3>. QED BY <2>1, <3>1 DEF NamesUnique
  <2>2. ASSUME \A d, e \in Here(D) : D[d].name = D[e].name => d = e PROVE NamesUnique(Docs(D))
    BY <2>2 DEF NamesUnique
  <2>. QED BY <2>1, <2>2
<1>2. \A n : n \in Nodes(Docs(D)) <=> \E e \in Here(D) : D[e].name = n
  <2>1. \A n \in Nodes(Docs(D)) : \E e \in Here(D) : D[e].name = n
    BY DEF Nodes
  <2>2. ASSUME NEW e \in Here(D) PROVE D[e].name \in Nodes(Docs(D))
    <3>1. PICK t \in Docs(D) : t.id = e
      OBVIOUS
    <3>. QED BY <3>1 DEF Nodes
  <2>. QED BY <2>1, <2>2
<1>3. RoutesResolve(Docs(D)) <=> \A d \in Here(D) : Resolved(D, D[d].from) /\ Resolved(D, D[d].to)
  <2>1. ASSUME RoutesResolve(Docs(D)), NEW d \in Here(D) PROVE Resolved(D, D[d].from) /\ Resolved(D, D[d].to)
    <3>1. PICK t \in Docs(D) : t.id = d
      OBVIOUS
    <3>2. t.from \cup t.to \subseteq Nodes(Docs(D))
      BY <2>1 DEF RoutesResolve
    <3>3. t.from = D[d].from /\ t.to = D[d].to
      BY <3>1
    <3>. QED BY <1>2, <3>2, <3>3 DEF Resolved
  <2>2. ASSUME \A d \in Here(D) : Resolved(D, D[d].from) /\ Resolved(D, D[d].to),
               NEW t \in Docs(D)
        PROVE  t.from \cup t.to \subseteq Nodes(Docs(D))
    <3>1. t.id \in Here(D) /\ t.from = D[t.id].from /\ t.to = D[t.id].to
      OBVIOUS
    <3>2. Resolved(D, t.from) /\ Resolved(D, t.to)
      BY <2>2, <3>1
    <3>. QED BY <1>2, <3>2 DEF Resolved
  <2>. QED BY <2>1, <2>2 DEF RoutesResolve
<1>4. NoCycle(ArcsIn(D)) <=> Acyclic(Docs(D))
  BY ArcsAre DEF Acyclic
<1>. QED BY <1>1, <1>3, <1>4 DEF Orderly, InOrder

LEMMA OrderAccepted == ASSUME NEW D \in Documents, Orderly(D) PROVE Accepted(Docs(D))
<1>1. InOrder(Docs(D)) /\ Named(Docs(D))
  BY OrderIs, DocsAre
<1>2. ~Dangling(Docs(D))
  BY <1>1 DEF InOrder, RoutesResolve, Dangling
<1>3. ~IsCyclic(Docs(D))
  BY <1>1, SearchExact DEF InOrder
<1>. QED BY <1>2, <1>3 DEF Accepted

\* A task does not wait for itself.
LEMMA NoSelfRoute ==
    ASSUME NEW D \in Documents, Orderly(D), NEW d \in Here(D)
    PROVE  D[d].name \notin D[d].from \cup D[d].to
<1>1. D[d].name \in Name
  BY DocsAre
<1>2. D[d].name \notin After(ArcsIn(D), D[d].name)
  <2>1. After(ArcsIn(D), D[d].name) \in SUBSET Name
    BY AfterIsName
  <2>2. After(ArcsIn(D), D[d].name) \subseteq Reach(ArcsIn(D), After(ArcsIn(D), D[d].name))
    BY <2>1, ReachContains
  <2>. QED BY <1>1, <2>2 DEF Orderly, NoCycle
<1>3. <<D[d].name, D[d].name>> \notin ArcsIn(D)
  BY <1>1, <1>2 DEF After
<1>. QED BY <1>1, <1>3 DEF ArcsIn

\* Other routes between the same tasks.
LEMMA OtherRoutes ==
    ASSUME NEW D \in Documents, Orderly(D), NEW E \in Documents,
           \A d \in Def : E[d].name = D[d].name,
           \A d \in Here(D) : Resolved(D, E[d].from) /\ Resolved(D, E[d].to),
           NoCycle(ArcsIn(E))
    PROVE  Orderly(E)
<1>1. Here(E) = Here(D)
  BY DEF Here
<1>2. \A d \in Here(E) : E[d].name = D[d].name
  BY DEF Here
<1>3. \A S : Resolved(D, S) => Resolved(E, S)
  BY <1>1, <1>2 DEF Resolved
<1>. QED BY <1>1, <1>2, <1>3 DEF Orderly

LEMMA FewerRoutes ==
    ASSUME NEW D \in Documents, Orderly(D), NEW E \in Documents,
           \A d \in Def : E[d].name = D[d].name /\ E[d].from \subseteq D[d].from /\ E[d].to \subseteq D[d].to
    PROVE  Orderly(E)
<1>1. \A d \in Here(D) : Resolved(D, E[d].from) /\ Resolved(D, E[d].to)
  BY DEF Orderly, Resolved, Here
<1>2. ArcsIn(E) \subseteq ArcsIn(D)
  BY DEF ArcsIn, Here
<1>3. NoCycle(ArcsIn(E))
  BY <1>2, FewerArcs DEF Orderly
<1>. QED BY <1>1, <1>3, OtherRoutes

\* The documents after an update, and after a renaming with all that belongs to it.
Written(D, id, keys, data) ==
    [D EXCEPT ![id] = [name |-> IF "name" \in keys THEN data.name ELSE D[id].name,
                       from |-> IF "from" \in keys THEN data.from ELSE D[id].from,
                       to   |-> IF "to"   \in keys THEN data.to   ELSE D[id].to]]
Renamed(D, id, old, new) ==
    [d \in Def |-> IF d = id THEN [D[d] EXCEPT !.name = new]
                   ELSE IF D[d].name = NoName THEN D[d]
                   ELSE [D[d] EXCEPT !.from = RenameIn(@, old, new), !.to = RenameIn(@, old, new)]]

LEMMA WrittenIs ==
    ASSUME NEW D \in Documents, NEW id \in Def, NEW keys, NEW data \in TaskDef
    PROVE  /\ Written(D, id, keys, data) \in Documents
           /\ \A d \in Def : d # id => Written(D, id, keys, data)[d] = D[d]
           /\ Written(D, id, keys, data)[id].name = IF "name" \in keys THEN data.name ELSE D[id].name
           /\ Written(D, id, keys, data)[id].from = IF "from" \in keys THEN data.from ELSE D[id].from
           /\ Written(D, id, keys, data)[id].to = IF "to" \in keys THEN data.to ELSE D[id].to
<1>. DEFINE w == [name |-> IF "name" \in keys THEN data.name ELSE D[id].name,
                  from |-> IF "from" \in keys THEN data.from ELSE D[id].from,
                  to   |-> IF "to"   \in keys THEN data.to   ELSE D[id].to]
<1>1. w \in TaskDef
  BY DEF TaskDef, Documents
<1>2. Written(D, id, keys, data) = [D EXCEPT ![id] = w]
  BY DEF Written
<1>3. /\ w.name = (IF "name" \in keys THEN data.name ELSE D[id].name)
      /\ w.from = (IF "from" \in keys THEN data.from ELSE D[id].from)
      /\ w.to = (IF "to" \in keys THEN data.to ELSE D[id].to)
  OBVIOUS
<1>. HIDE DEF w
<1>4. [D EXCEPT ![id] = w] \in Documents /\ [D EXCEPT ![id] = w][id] = w /\ \A d \in Def : d # id => [D EXCEPT ![id] = w][d] = D[d]
  BY <1>1 DEF Documents
<1>. QED BY <1>2, <1>3, <1>4

RouteChange(D, u) ==
    /\ u.keys = {"from"} \/ u.keys = {"to"}
    /\ u.id \in Here(D) /\ Orderly(Written(D, u.id, u.keys, u.data))

LEMMA OnlyFrom == "from" \in {"from"} /\ "to" \notin {"from"} /\ "name" \notin {"from"}
OBVIOUS
LEMMA OnlyTo == "to" \in {"to"} /\ "from" \notin {"to"} /\ "name" \notin {"to"}
OBVIOUS

\* A box cleared.
LEMMA ClearedFrom ==
    ASSUME NEW D \in Documents, Orderly(D), NEW d \in Here(D), NEW n
    PROVE  RouteChange(D, Update(d, {"from"}, [NoDef EXCEPT !.from = D[d].from \ {n}]))
<1>. DEFINE data == [NoDef EXCEPT !.from = D[d].from \ {n}]
            E == Written(D, d, {"from"}, data)
<1>1. d \in Def /\ D[d].from \ {n} \in SUBSET Name
  BY DocsAre
<1>2. data \in TaskDef /\ data.from = D[d].from \ {n}
  BY <1>1, RoutesOnlyType DEF NoDef
<1>. HIDE DEF data
<1>3. /\ E \in Documents /\ \A x \in Def : x # d => E[x] = D[x]
      /\ E[d].name = D[d].name /\ E[d].from = D[d].from \ {n} /\ E[d].to = D[d].to
  BY <1>1, <1>2, OnlyFrom, WrittenIs
<1>4. Orderly(E)
  <2>. HIDE DEF E
  <2>1. \A x \in Def : E[x].name = D[x].name /\ E[x].from \subseteq D[x].from /\ E[x].to \subseteq D[x].to
    BY <1>3
  <2>. QED BY <1>3, <2>1, FewerRoutes
<1>. QED BY <1>4 DEF RouteChange, Update, data

LEMMA ClearedTo ==
    ASSUME NEW D \in Documents, Orderly(D), NEW d \in Here(D), NEW n
    PROVE  RouteChange(D, Update(d, {"to"}, [NoDef EXCEPT !.to = D[d].to \ {n}]))
<1>. DEFINE data == [NoDef EXCEPT !.to = D[d].to \ {n}]
            E == Written(D, d, {"to"}, data)
<1>1. d \in Def /\ D[d].to \ {n} \in SUBSET Name
  BY DocsAre
<1>2. data \in TaskDef /\ data.to = D[d].to \ {n}
  BY <1>1, RoutesOnlyType DEF NoDef
<1>. HIDE DEF data
<1>3. /\ E \in Documents /\ \A x \in Def : x # d => E[x] = D[x]
      /\ E[d].name = D[d].name /\ E[d].from = D[d].from /\ E[d].to = D[d].to \ {n}
  BY <1>1, <1>2, OnlyTo, WrittenIs
<1>4. Orderly(E)
  <2>. HIDE DEF E
  <2>1. \A x \in Def : E[x].name = D[x].name /\ E[x].from \subseteq D[x].from /\ E[x].to \subseteq D[x].to
    BY <1>3
  <2>. QED BY <1>3, <2>1, FewerRoutes
<1>. QED BY <1>4 DEF RouteChange, Update, data

\* A box ticked: the designer's rule keeps the new route from closing a cycle.
LEMMA OneRouteMore ==
    ASSUME NEW D \in Documents, Orderly(D), NEW E \in Documents, NEW d \in Here(D), NEW e \in Here(D),
           \A x \in Def : x # d => E[x] = D[x],
           E[d].name = D[d].name,
           \/ E[d].from = D[d].from \cup {D[e].name} /\ E[d].to = D[d].to
           \/ E[d].from = D[d].from /\ E[d].to = D[d].to \cup {D[e].name},
           NEW a, NEW b, {a, b} = {D[d].name, D[e].name}, b \notin Reach(ArcsIn(D), {a}),
           ArcsIn(E) \subseteq ArcsIn(D) \cup {<<b, a>>}
    PROVE  Orderly(E)
<1>1. a \in Name /\ b \in Name
  <2>1. D[d].name \in Name /\ D[e].name \in Name
    BY DocsAre
  <2>2. a \in {D[d].name, D[e].name} /\ b \in {D[d].name, D[e].name}
    OBVIOUS
  <2>. QED BY <2>1, <2>2
<1>2. NoCycle(ArcsIn(D) \cup {<<b, a>>})
  BY <1>1, OneMoreArc DEF Orderly
<1>3. NoCycle(ArcsIn(E))
  BY <1>2, FewerArcs
<1>4. \A x \in Def : E[x].name = D[x].name
  OBVIOUS
<1>5. \A x \in Here(D) : Resolved(D, E[x].from) /\ Resolved(D, E[x].to)
  <2>1. \A x \in Here(D) : Resolved(D, D[x].from) /\ Resolved(D, D[x].to) /\ x \in Def
    BY DEF Orderly, Here
  <2>2. Resolved(D, {D[e].name})
    BY DEF Resolved
  <2>3. \A S, T : Resolved(D, S) /\ Resolved(D, T) => Resolved(D, S \cup T)
    BY DEF Resolved
  <2>4. ASSUME NEW x \in Here(D), x # d PROVE Resolved(D, E[x].from) /\ Resolved(D, E[x].to)
    BY <2>1, <2>4
  <2>5. Resolved(D, E[d].from) /\ Resolved(D, E[d].to)
    BY <2>1, <2>2, <2>3
  <2>. QED BY <2>4, <2>5
<1>. QED BY <1>3, <1>4, <1>5, OtherRoutes

LEMMA TickedFrom ==
    ASSUME NEW D \in Documents, Orderly(D), NEW d \in Here(D), NEW e \in Here(D),
           D[e].name \notin Downstream(Docs(D), D[d].name)
    PROVE  RouteChange(D, Update(d, {"from"}, [NoDef EXCEPT !.from = D[d].from \cup {D[e].name}]))
<1>. DEFINE n == D[e].name
            m == D[d].name
            data == [NoDef EXCEPT !.from = D[d].from \cup {n}]
            E == Written(D, d, {"from"}, data)
<1>1. d \in Def /\ m \in Name /\ n \in Name /\ D[d].from \cup {n} \in SUBSET Name
  BY DocsAre
<1>2. data \in TaskDef /\ data.from = D[d].from \cup {n}
  BY <1>1, RoutesOnlyType DEF NoDef
<1>. HIDE DEF data
<1>3. /\ E \in Documents /\ \A x \in Def : x # d => E[x] = D[x]
      /\ E[d].name = m /\ E[d].from = D[d].from \cup {n} /\ E[d].to = D[d].to
  BY <1>1, <1>2, OnlyFrom, WrittenIs
<1>. HIDE DEF E
<1>4. n \notin Reach(ArcsIn(D), {m})
  <2>1. RoutesResolve(Docs(D)) /\ Named(Docs(D))
    BY OrderIs, DocsAre DEF InOrder
  <2>. QED BY <1>1, <2>1, DesignerArcs, ArcsAre
<1>5. ArcsIn(E) \subseteq ArcsIn(D) \cup {<<n, m>>}
  <2>. SUFFICES ASSUME NEW a \in ArcsIn(E) PROVE a \in ArcsIn(D) \/ a = <<n, m>>
    OBVIOUS
  <2>1. a \in Name \X Name
    BY DEF ArcsIn
  <2>2. PICK x \in Here(E) : \/ E[x].name = a[2] /\ a[1] \in E[x].from
                             \/ E[x].name = a[1] /\ a[2] \in E[x].to
    BY DEF ArcsIn
  <2>3. x \in Here(D)
    BY <1>3, <2>2 DEF Here
  <2>4. CASE x # d
    <3>1. E[x] = D[x]
      BY <1>3, <2>3, <2>4 DEF Here
    <3>. QED BY <2>1, <2>2, <2>3, <3>1 DEF ArcsIn
  <2>5. CASE x = d
    <3>1. \/ m = a[2] /\ a[1] \in D[d].from \cup {n}
          \/ m = a[1] /\ a[2] \in D[d].to
      BY <1>3, <2>2, <2>5
    <3>2. CASE m = a[2] /\ a[1] = n
      BY <2>1, <3>2
    <3>3. CASE (m = a[2] /\ a[1] \in D[d].from) \/ (m = a[1] /\ a[2] \in D[d].to)
      BY <2>1, <3>3 DEF ArcsIn
    <3>. QED BY <3>1, <3>2, <3>3
  <2>. QED BY <2>4, <2>5
<1>6. {m, n} = {D[d].name, D[e].name}
  OBVIOUS
<1>7. Orderly(E)
  BY <1>3, <1>4, <1>5, <1>6, OneRouteMore
<1>. QED BY <1>7 DEF RouteChange, Update, data, E

LEMMA TickedTo ==
    ASSUME NEW D \in Documents, Orderly(D), NEW d \in Here(D), NEW e \in Here(D),
           D[e].name \notin Upstream(Docs(D), D[d].name)
    PROVE  RouteChange(D, Update(d, {"to"}, [NoDef EXCEPT !.to = D[d].to \cup {D[e].name}]))
<1>. DEFINE n == D[e].name
            m == D[d].name
            data == [NoDef EXCEPT !.to = D[d].to \cup {n}]
            E == Written(D, d, {"to"}, data)
<1>1. d \in Def /\ m \in Name /\ n \in Name /\ D[d].to \cup {n} \in SUBSET Name
  BY DocsAre
<1>2. data \in TaskDef /\ data.to = D[d].to \cup {n}
  BY <1>1, RoutesOnlyType DEF NoDef
<1>. HIDE DEF data
<1>3. /\ E \in Documents /\ \A x \in Def : x # d => E[x] = D[x]
      /\ E[d].name = m /\ E[d].to = D[d].to \cup {n} /\ E[d].from = D[d].from
  BY <1>1, <1>2, OnlyTo, WrittenIs
<1>. HIDE DEF E
<1>4. m \notin Reach(ArcsIn(D), {n})
  <2>1. RoutesResolve(Docs(D)) /\ Named(Docs(D))
    BY OrderIs, DocsAre DEF InOrder
  <2>. QED BY <1>1, <2>1, DesignerArcs, ArcsAre
<1>5. ArcsIn(E) \subseteq ArcsIn(D) \cup {<<m, n>>}
  <2>. SUFFICES ASSUME NEW a \in ArcsIn(E) PROVE a \in ArcsIn(D) \/ a = <<m, n>>
    OBVIOUS
  <2>1. a \in Name \X Name
    BY DEF ArcsIn
  <2>2. PICK x \in Here(E) : \/ E[x].name = a[2] /\ a[1] \in E[x].from
                             \/ E[x].name = a[1] /\ a[2] \in E[x].to
    BY DEF ArcsIn
  <2>3. x \in Here(D)
    BY <1>3, <2>2 DEF Here
  <2>4. CASE x # d
    <3>1. E[x] = D[x]
      BY <1>3, <2>3, <2>4 DEF Here
    <3>. QED BY <2>1, <2>2, <2>3, <3>1 DEF ArcsIn
  <2>5. CASE x = d
    <3>1. \/ m = a[2] /\ a[1] \in D[d].from
          \/ m = a[1] /\ a[2] \in D[d].to \cup {n}
      BY <1>3, <2>2, <2>5
    <3>2. CASE m = a[1] /\ a[2] = n
      BY <2>1, <3>2
    <3>3. CASE (m = a[2] /\ a[1] \in D[d].from) \/ (m = a[1] /\ a[2] \in D[d].to)
      BY <2>1, <3>3 DEF ArcsIn
    <3>. QED BY <3>1, <3>2, <3>3
  <2>. QED BY <2>4, <2>5
<1>6. {n, m} = {D[d].name, D[e].name}
  OBVIOUS
<1>7. Orderly(E)
  BY <1>3, <1>4, <1>5, <1>6, OneRouteMore
<1>. QED BY <1>7 DEF RouteChange, Update, data, E

\* A new task has no routes yet.
LEMMA OneTaskMore ==
    ASSUME NEW D \in Documents, Orderly(D), NEW d \in Def, d \notin Here(D),
           NEW data \in TaskDef, data.name \in Name, data.from = {}, data.to = {},
           \A e \in Here(D) : D[e].name # data.name
    PROVE  Orderly([D EXCEPT ![d] = data])
<1>. DEFINE E == [D EXCEPT ![d] = data]
<1>1. E[d] = data /\ \A x \in Def : x # d => E[x] = D[x]
  BY DEF Documents
<1>. HIDE DEF E
<1>2. Here(E) = Here(D) \cup {d}
  BY <1>1, NoZero DEF Here, NoName
<1>3. \A x, y \in Here(E) : E[x].name = E[y].name => x = y
  BY <1>1, <1>2 DEF Orderly, Here
<1>4. \A x \in Here(E) : Resolved(E, E[x].from) /\ Resolved(E, E[x].to)
  <2>1. \A S : Resolved(D, S) => Resolved(E, S)
    BY <1>1, <1>2 DEF Resolved, Here
  <2>2. \A x \in Here(D) : E[x] = D[x]
    BY <1>1 DEF Here
  <2>3. Resolved(E, {})
    BY DEF Resolved
  <2>. QED BY <1>1, <1>2, <2>1, <2>2, <2>3 DEF Orderly
<1>5. ArcsIn(E) \subseteq ArcsIn(D)
  BY <1>1, <1>2 DEF ArcsIn, Here
<1>6. NoCycle(ArcsIn(E))
  BY <1>5, FewerArcs DEF Orderly
<1>. QED BY <1>3, <1>4, <1>6 DEF Orderly, E

-----------------------------------------------------------------------------
(***************************************************************************)
(* Renaming                                                                *)
(***************************************************************************)
LEMMA SameDocuments ==
    ASSUME NEW D \in Documents, NEW E \in Documents,
           \A d \in Def : D[d].name = E[d].name /\ D[d].from = E[d].from /\ D[d].to = E[d].to
    PROVE  D = E
<1>1. ASSUME NEW d \in Def PROVE D[d] = E[d]
  <2>1. D[d] \in TaskDef /\ E[d] \in TaskDef
    BY DEF Documents
  <2>. QED BY <2>1 DEF TaskDef
<1>2. D = [d \in Def |-> D[d]] /\ E = [d \in Def |-> E[d]]
  BY DEF Documents
<1>3. [d \in Def |-> D[d]] = [d \in Def |-> E[d]]
  BY <1>1
<1>. QED BY <1>2, <1>3

LEMMA RenamedIs ==
    ASSUME NEW D \in Documents, NEW id \in Def, NEW old, NEW new \in Name
    PROVE  /\ Renamed(D, id, old, new) \in Documents
           /\ \A d \in Def : LET r == Renamed(D, id, old, new)[d]
                                 kept == d = id \/ D[d].name = NoName
                             IN  /\ r.name = IF d = id THEN new ELSE D[d].name
                                 /\ r.from = IF kept THEN D[d].from ELSE RenameIn(D[d].from, old, new)
                                 /\ r.to = IF kept THEN D[d].to ELSE RenameIn(D[d].to, old, new)
<1>1. ASSUME NEW d \in Def
      PROVE  LET r == Renamed(D, id, old, new)[d]
                 kept == d = id \/ D[d].name = NoName
             IN  /\ r \in TaskDef
                 /\ r.name = IF d = id THEN new ELSE D[d].name
                 /\ r.from = IF kept THEN D[d].from ELSE RenameIn(D[d].from, old, new)
                 /\ r.to = IF kept THEN D[d].to ELSE RenameIn(D[d].to, old, new)
  <2>1. D[d] \in TaskDef
    BY DEF Documents
  <2>2. RenameIn(D[d].from, old, new) \in SUBSET Name /\ RenameIn(D[d].to, old, new) \in SUBSET Name
    BY <2>1 DEF TaskDef, RenameIn
  <2>. DEFINE S == RenameIn(D[d].from, old, new)
              T == RenameIn(D[d].to, old, new)
  <2>3. Renamed(D, id, old, new)[d] = IF d = id THEN [D[d] EXCEPT !.name = new]
                                      ELSE IF D[d].name = NoName THEN D[d]
                                      ELSE [D[d] EXCEPT !.from = S, !.to = T]
    BY <2>1 DEF Renamed, TaskDef
  <2>. HIDE DEF S, T
  <2>4. S \in SUBSET Name /\ T \in SUBSET Name
    BY <2>2 DEF S, T
  <2>. DEFINE r == Renamed(D, id, old, new)[d]
  <2>. HIDE DEF r
  <2>5. r = IF d = id THEN [D[d] EXCEPT !.name = new]
            ELSE IF D[d].name = NoName THEN D[d]
            ELSE [D[d] EXCEPT !.from = S, !.to = T]
    BY <2>3 DEF r
  <2>6. CASE d = id
    BY <2>1, <2>5, <2>6 DEF TaskDef, r
  <2>7. CASE d # id /\ D[d].name = NoName
    BY <2>1, <2>5, <2>7 DEF r
  <2>8. CASE d # id /\ D[d].name # NoName
    <3>1. r \in TaskDef /\ r.name = D[d].name /\ r.from = S /\ r.to = T
      BY <2>1, <2>4, <2>5, <2>8 DEF TaskDef
    <3>. QED BY <2>8, <3>1 DEF r, S, T
  <2>. QED BY <2>6, <2>7, <2>8
<1>2. Renamed(D, id, old, new) = [d \in Def |-> Renamed(D, id, old, new)[d]]
  BY DEF Renamed
<1>. DEFINE R == Renamed(D, id, old, new)
<1>. HIDE DEF R
<1>3. R \in Documents
  <2>1. \A d \in Def : R[d] \in TaskDef
    BY <1>1 DEF R
  <2>2. R = [d \in Def |-> R[d]]
    BY <1>2 DEF R
  <2>. QED BY <2>1, <2>2 DEF Documents
<1>. QED BY <1>1, <1>3 DEF R

\* A task under a new name, in routes too.
LEMMA RenamedOrderly ==
    ASSUME NEW D \in Documents, Orderly(D), NEW id \in Here(D), NEW new \in Name,
           \A d \in Here(D) : D[d].name # new
    PROVE  Orderly(Renamed(D, id, D[id].name, new))
<1>. DEFINE old == D[id].name
            R == Renamed(D, id, old, new)
<1>0. /\ id \in Def /\ old \in Name /\ old # new
      /\ \A d \in Here(D) : /\ d \in Def /\ D[d] \in TaskDef /\ D[d].name # NoName
                            /\ D[d].from \in SUBSET Name /\ D[d].to \in SUBSET Name
  <2>1. \A d \in Def : D[d] \in TaskDef
    BY DEF Documents
  <2>. QED BY <2>1, DocsAre DEF Here
<1>1. /\ R \in Documents
      /\ R[id].name = new /\ R[id].from = D[id].from /\ R[id].to = D[id].to
      /\ \A d \in Here(D) : d # id => /\ R[d].name = D[d].name
                                      /\ R[d].from = RenameIn(D[d].from, old, new)
                                      /\ R[d].to = RenameIn(D[d].to, old, new)
      /\ \A d \in Def : d \notin Here(D) => R[d].name = D[d].name
  <2>1. /\ R \in Documents
        /\ \A d \in Def : LET kept == d = id \/ D[d].name = NoName
                          IN  /\ R[d].name = IF d = id THEN new ELSE D[d].name
                              /\ R[d].from = IF kept THEN D[d].from ELSE RenameIn(D[d].from, old, new)
                              /\ R[d].to = IF kept THEN D[d].to ELSE RenameIn(D[d].to, old, new)
    BY <1>0, RenamedIs
  <2>. HIDE DEF R
  <2>2. R[id].name = new /\ R[id].from = D[id].from /\ R[id].to = D[id].to
    BY <1>0, <2>1
  <2>3. ASSUME NEW d \in Here(D), d # id
        PROVE  /\ R[d].name = D[d].name
               /\ R[d].from = RenameIn(D[d].from, old, new)
               /\ R[d].to = RenameIn(D[d].to, old, new)
    BY <1>0, <2>1, <2>3
  <2>4. ASSUME NEW d \in Def, d \notin Here(D) PROVE R[d].name = D[d].name
    BY <2>1, <2>4
  <2>. QED BY <2>1, <2>2, <2>3, <2>4
<1>. HIDE DEF R
<1>2. Here(R) = Here(D)
  <2>1. new # NoName
    BY NoZero DEF NoName
  <2>. QED BY <1>0, <1>1, <2>1 DEF Here
<1>3. \A d \in Here(D) : R[d].name = IF d = id THEN new ELSE D[d].name
  BY <1>1
<1>4. \A x, y \in Here(R) : R[x].name = R[y].name => x = y
  BY <1>2, <1>3 DEF Orderly
<1>5. \A d \in Here(D) : R[d].name # old
  BY <1>0, <1>3 DEF Orderly
<1>6. \A d \in Here(D) : /\ old \notin R[d].from \cup R[d].to
                         /\ \A n \in R[d].from : (IF n = new THEN old ELSE n) \in D[d].from
                         /\ \A n \in R[d].to : (IF n = new THEN old ELSE n) \in D[d].to
  <2>1. \A d \in Here(D) : new \notin D[d].from /\ new \notin D[d].to
    BY DEF Orderly, Resolved
  <2>2. old \notin D[id].from /\ old \notin D[id].to
    BY NoSelfRoute
  <2>3. ASSUME NEW S, new \notin S
        PROVE  old \notin RenameIn(S, old, new) /\ \A n \in RenameIn(S, old, new) : (IF n = new THEN old ELSE n) \in S
    BY <1>0, <2>3 DEF RenameIn
  <2>4. ASSUME NEW d \in Here(D), d # id
        PROVE  /\ old \notin R[d].from \cup R[d].to
               /\ \A n \in R[d].from : (IF n = new THEN old ELSE n) \in D[d].from
               /\ \A n \in R[d].to : (IF n = new THEN old ELSE n) \in D[d].to
    BY <1>1, <2>1, <2>3, <2>4
  <2>5. /\ old \notin R[id].from \cup R[id].to
        /\ \A n \in R[id].from : (IF n = new THEN old ELSE n) \in D[id].from
        /\ \A n \in R[id].to : (IF n = new THEN old ELSE n) \in D[id].to
    BY <1>1, <2>1, <2>2
  <2>. QED BY <2>4, <2>5
<1>7. ASSUME NEW S, old \notin S, NEW T, Resolved(D, T), \A n \in S : (IF n = new THEN old ELSE n) \in T
      PROVE  Resolved(R, S)
  <2>. SUFFICES ASSUME NEW n \in S PROVE \E e \in Here(D) : R[e].name = n
    BY <1>2 DEF Resolved
  <2>1. CASE n = new
    BY <1>1, <2>1
  <2>2. CASE n # new
    <3>1. PICK e \in Here(D) : D[e].name = n
      BY <1>7, <2>2 DEF Resolved
    <3>2. R[e].name = n
      BY <1>3, <1>7, <3>1
    <3>. QED BY <3>2
  <2>. QED BY <2>1, <2>2
<1>8. \A d \in Here(R) : Resolved(R, R[d].from) /\ Resolved(R, R[d].to)
  <2>. SUFFICES ASSUME NEW d \in Here(D) PROVE Resolved(R, R[d].from) /\ Resolved(R, R[d].to)
    BY <1>2
  <2>1. Resolved(D, D[d].from) /\ Resolved(D, D[d].to)
    BY DEF Orderly
  <2>2. old \notin R[d].from /\ old \notin R[d].to
    BY <1>6
  <2>3. /\ \A n \in R[d].from : (IF n = new THEN old ELSE n) \in D[d].from
        /\ \A n \in R[d].to : (IF n = new THEN old ELSE n) \in D[d].to
    BY <1>6
  <2>4. Resolved(R, R[d].from)
    BY <1>7, <2>1, <2>2, <2>3
  <2>5. Resolved(R, R[d].to)
    BY <1>7, <2>1, <2>2, <2>3
  <2>. QED BY <2>4, <2>5
<1>9. ASSUME NEW m \in Name, NEW n \in Name, <<m, n>> \in ArcsIn(R)
      PROVE  /\ m # old /\ n # old
             /\ <<IF m = new THEN old ELSE m, IF n = new THEN old ELSE n>> \in ArcsIn(D)
  <2>1. PICK d \in Here(D) : \/ R[d].name = n /\ m \in R[d].from
                             \/ R[d].name = m /\ n \in R[d].to
    BY <1>2, <1>9 DEF ArcsIn
  <2>2. (IF R[d].name = new THEN old ELSE R[d].name) = D[d].name
    BY <1>0, <1>3
  <2>3. m # old /\ n # old
    BY <1>5, <1>6, <2>1
  <2>. DEFINE p == IF m = new THEN old ELSE m
              q == IF n = new THEN old ELSE n
  <2>4. p \in Name /\ q \in Name
    BY <1>0
  <2>5. (D[d].name = q /\ p \in D[d].from) \/ (D[d].name = p /\ q \in D[d].to)
    BY <1>6, <2>1, <2>2
  <2>. HIDE DEF p, q
  <2>6. <<p, q>> \in ArcsIn(D)
    BY <2>4, <2>5 DEF ArcsIn
  <2>. QED BY <2>3, <2>6 DEF p, q
<1>10. NoCycle(ArcsIn(R))
  <2>1. NoCycle(ArcsIn(D))
    BY DEF Orderly
  <2>2. \A m, n \in Name : <<m, n>> \in ArcsIn(R) =>
               /\ m # old /\ n # old
               /\ <<IF m = new THEN old ELSE m, IF n = new THEN old ELSE n>> \in ArcsIn(D)
    BY <1>9
  <2>3. old \in Name
    BY <1>0
  <2>. HIDE DEF old
  <2>. QED BY <2>1, <2>2, <2>3, OtherNames
<1>11. Orderly(R)
  BY <1>4, <1>8, <1>10 DEF Orderly
<1>. QED BY <1>11 DEF R

\* The rewriting of one document, and the documents it is for.
Rewriting(D, d, old, new) ==
    [id |-> d, name |-> D[d].name, from |-> RenameIn(D[d].from, old, new), to |-> RenameIn(D[d].to, old, new)]
Mentions(D, d, old) == old \in D[d].from \/ old \in D[d].to

LEMMA RewritesAre ==
    ASSUME NEW D \in Documents, NEW old, NEW new \in Name
    PROVE  Rewritten(Docs(D), old, new) = {Rewriting(D, d, old, new) : d \in {d \in Here(D) : Mentions(D, d, old)}}
<1>. DEFINE Set == {Rewriting(D, d, old, new) : d \in {d \in Here(D) : Mentions(D, d, old)}}
<1>1. ASSUME NEW t \in Doc, NEW S \in SUBSET Name, NEW T \in SUBSET Name
      PROVE  [t EXCEPT !.from = S, !.to = T] = [id |-> t.id, name |-> t.name, from |-> S, to |-> T]
  <2>. DEFINE u == [t EXCEPT !.from = S, !.to = T]
              v == [id |-> t.id, name |-> t.name, from |-> S, to |-> T]
  <2>1. u \in Doc /\ u.id = t.id /\ u.name = t.name /\ u.from = S /\ u.to = T
    BY DEF Doc
  <2>2. v \in Doc /\ v.id = t.id /\ v.name = t.name /\ v.from = S /\ v.to = T
    BY DEF Doc
  <2>. HIDE DEF u, v
  <2>3. u = v
    BY <2>1, <2>2 DEF Doc
  <2>. QED BY <2>3 DEF u, v
<1>2. ASSUME NEW t \in Docs(D), old \in t.from \cup t.to
      PROVE  [t EXCEPT !.from = RenameIn(t.from, old, new), !.to = RenameIn(t.to, old, new)] \in Set
  <2>1. /\ t \in Doc /\ t.id \in Here(D)
        /\ t.name = D[t.id].name /\ t.from = D[t.id].from /\ t.to = D[t.id].to
    BY DocsAre
  <2>0. RenameIn(t.from, old, new) \in SUBSET Name /\ RenameIn(t.to, old, new) \in SUBSET Name
    BY <2>1 DEF Doc, RenameIn
  <2>2. [t EXCEPT !.from = RenameIn(t.from, old, new), !.to = RenameIn(t.to, old, new)]
        = [id |-> t.id, name |-> t.name, from |-> RenameIn(t.from, old, new), to |-> RenameIn(t.to, old, new)]
    BY <1>1, <2>0, <2>1
  <2>3. [t EXCEPT !.from = RenameIn(t.from, old, new), !.to = RenameIn(t.to, old, new)] = Rewriting(D, t.id, old, new)
    BY <2>1, <2>2 DEF Rewriting
  <2>. QED BY <1>2, <2>1, <2>3 DEF Mentions
<1>3. ASSUME NEW d \in Here(D), Mentions(D, d, old)
      PROVE  Rewriting(D, d, old, new) \in Rewritten(Docs(D), old, new)
  <2>1. PICK t \in Docs(D) : t.id = d
    BY DocsAre
  <2>2. t \in Doc /\ t.name = D[d].name /\ t.from = D[d].from /\ t.to = D[d].to
    BY <2>1, DocsAre
  <2>0. RenameIn(t.from, old, new) \in SUBSET Name /\ RenameIn(t.to, old, new) \in SUBSET Name
    BY <2>2 DEF Doc, RenameIn
  <2>3. [t EXCEPT !.from = RenameIn(t.from, old, new), !.to = RenameIn(t.to, old, new)]
        = [id |-> t.id, name |-> t.name, from |-> RenameIn(t.from, old, new), to |-> RenameIn(t.to, old, new)]
    BY <1>1, <2>0, <2>2
  <2>4. [t EXCEPT !.from = RenameIn(t.from, old, new), !.to = RenameIn(t.to, old, new)] = Rewriting(D, d, old, new)
    BY <2>1, <2>2, <2>3 DEF Rewriting
  <2>5. old \in t.from \cup t.to
    BY <1>3, <2>2 DEF Mentions
  <2>6. [t EXCEPT !.from = RenameIn(t.from, old, new), !.to = RenameIn(t.to, old, new)] \in Rewritten(Docs(D), old, new)
    BY <2>5 DEF Rewritten
  <2>. QED BY <2>4, <2>6
<1>4. Rewritten(Docs(D), old, new) \subseteq Set
  <2>. HIDE DEF Set
  <2>. QED BY <1>2 DEF Rewritten
<1>. QED BY <1>3, <1>4

\* A document is rewritten: it is no longer among those to rewrite.
\* The documents after one write of a renaming.
Stored(D, t) == [D EXCEPT ![t.id].from = t.from, ![t.id].to = t.to]

LEMMA TheRewritten ==
    ASSUME NEW D \in Documents, NEW old \in Name, NEW new \in Name,
           NEW t \in Rewritten(Docs(D), old, new)
    PROVE  \E d \in Here(D) :
              /\ Mentions(D, d, old) /\ t = Rewriting(D, d, old, new)
              /\ t.id = d /\ t.from = RenameIn(D[d].from, old, new) /\ t.to = RenameIn(D[d].to, old, new)
              /\ Stored(D, t) \in Documents /\ \A x \in Def : x # d => Stored(D, t)[x] = D[x]
              /\ Stored(D, t)[d].name = D[d].name
              /\ Stored(D, t)[d].from = t.from /\ Stored(D, t)[d].to = t.to
<1>1. PICK d \in Here(D) : Mentions(D, d, old) /\ t = Rewriting(D, d, old, new)
  BY RewritesAre
<1>2. t.id = d /\ t.from = RenameIn(D[d].from, old, new) /\ t.to = RenameIn(D[d].to, old, new)
  BY <1>1 DEF Rewriting
<1>3. d \in Def /\ D[d] \in TaskDef /\ D \in [Def -> TaskDef]
  BY DEF Here, Documents
<1>4. t.from \in SUBSET Name /\ t.to \in SUBSET Name
  BY <1>2, <1>3 DEF RenameIn, TaskDef
<1>. DEFINE S == t.from
            T == t.to
            w == [D[d] EXCEPT !.from = S, !.to = T]
            E == [D EXCEPT ![d].from = S, ![d].to = T]
<1>. HIDE DEF S, T
<1>5. S \in SUBSET Name /\ T \in SUBSET Name
  BY <1>4 DEF S, T
<1>6. w \in TaskDef /\ w.name = D[d].name /\ w.from = S /\ w.to = T
  BY <1>3, <1>5 DEF TaskDef
<1>7. E = [D EXCEPT ![d] = w]
  BY <1>3
<1>. HIDE DEF w, E
<1>8. E \in Documents /\ E[d] = w /\ \A x \in Def : x # d => E[x] = D[x]
  BY <1>3, <1>6, <1>7 DEF Documents
<1>9. [D EXCEPT ![t.id].from = t.from, ![t.id].to = t.to] = E
  BY <1>2 DEF E, S, T
<1>10. Stored(D, t) = E
  BY <1>9 DEF Stored
<1>11. w.from = t.from /\ w.to = t.to
  BY <1>6 DEF S, T
<1>. QED BY <1>1, <1>2, <1>6, <1>8, <1>10, <1>11

LEMMA OneRewritten ==
    ASSUME NEW D \in Documents, NEW id \in Here(D), NEW old \in Name, NEW new \in Name, old # new,
           ~Mentions(D, id, old),
           NEW d \in Here(D), Mentions(D, d, old), NEW t, t = Rewriting(D, d, old, new),
           NEW E \in Documents, \A x \in Def : x # d => E[x] = D[x],
           E[d].name = D[d].name,
           E[d].from = RenameIn(D[d].from, old, new), E[d].to = RenameIn(D[d].to, old, new)
    PROVE  /\ E[id] = D[id] /\ Here(E) = Here(D)
           /\ Rewritten(Docs(E), old, new) = Rewritten(Docs(D), old, new) \ {t}
           /\ Renamed(E, id, old, new) = Renamed(D, id, old, new)
<1>. DEFINE S == RenameIn(D[d].from, old, new)
            T == RenameIn(D[d].to, old, new)
<1>1. Mentions(D, d, old) /\ t = Rewriting(D, d, old, new)
  OBVIOUS
<1>2. t.id = d /\ d # id
  BY <1>1 DEF Rewriting
<1>3. d \in Def /\ id \in Def /\ \A x \in Def : D[x] \in TaskDef
  BY DEF Here, Documents
<1>5. old \notin S /\ old \notin T
  BY DEF RenameIn
<1>6. RenameIn(S, old, new) = S /\ RenameIn(T, old, new) = T
  BY <1>5 DEF RenameIn
<1>8. \A x \in Def : x # d => E[x] = D[x]
  OBVIOUS
<1>9. E[d].name = D[d].name /\ E[d].from = S /\ E[d].to = T
  OBVIOUS
<1>10. E \in Documents
  OBVIOUS
<1>. HIDE DEF S, T
<1>11. Here(E) = Here(D)
  BY <1>8, <1>9 DEF Here
<1>12. {x \in Here(E) : Mentions(E, x, old)} = {x \in Here(D) : Mentions(D, x, old)} \ {d}
  <2>1. \A x \in Here(D) : x # d => (Mentions(E, x, old) <=> Mentions(D, x, old))
    BY <1>8 DEF Mentions, Here
  <2>2. ~Mentions(E, d, old)
    BY <1>5, <1>9 DEF Mentions
  <2>. QED BY <1>11, <2>1, <2>2
<1>13. \A x \in Here(D) : x # d => Rewriting(E, x, old, new) = Rewriting(D, x, old, new) /\ Rewriting(D, x, old, new) # t
  <2>1. \A x : Rewriting(D, x, old, new).id = x
    BY DEF Rewriting
  <2>2. ASSUME NEW x \in Here(D), x # d PROVE Rewriting(E, x, old, new) = Rewriting(D, x, old, new)
    <3>1. E[x] = D[x]
      BY <1>8, <2>2 DEF Here
    <3>. QED BY <3>1 DEF Rewriting
  <2>. QED BY <1>2, <2>1, <2>2
<1>14. Rewritten(Docs(E), old, new) = Rewritten(Docs(D), old, new) \ {t}
  <2>. DEFINE M == {x \in Here(D) : Mentions(D, x, old)}
  <2>1. Rewritten(Docs(D), old, new) = {Rewriting(D, x, old, new) : x \in M}
    BY RewritesAre
  <2>. DEFINE K == {x \in Here(E) : Mentions(E, x, old)}
  <2>2. Rewritten(Docs(E), old, new) = {Rewriting(E, x, old, new) : x \in K}
    BY <1>10, RewritesAre
  <2>3. K = M \ {d} /\ (\A x \in M : x \in Here(D)) /\ d \in M
    BY <1>1, <1>12
  <2>4. t = Rewriting(D, d, old, new)
    BY <1>1
  <2>. HIDE DEF M, K
  <2>5. \A x \in K : x \in M /\ Rewriting(E, x, old, new) = Rewriting(D, x, old, new) /\ Rewriting(D, x, old, new) # t
    BY <1>13, <2>3
  <2>6. ASSUME NEW u \in Rewritten(Docs(E), old, new) PROVE u \in Rewritten(Docs(D), old, new) \ {t}
    BY <2>1, <2>2, <2>5
  <2>7. ASSUME NEW u \in Rewritten(Docs(D), old, new), u # t PROVE u \in Rewritten(Docs(E), old, new)
    <3>1. PICK x \in M : u = Rewriting(D, x, old, new)
      BY <2>1
    <3>2. x \in K
      BY <2>3, <2>4, <2>7, <3>1
    <3>3. Rewriting(E, x, old, new) = u
      BY <2>5, <3>1, <3>2
    <3>. QED BY <2>2, <3>2, <3>3
  <2>. QED BY <2>6, <2>7
<1>15. Renamed(E, id, old, new) = Renamed(D, id, old, new)
  <2>. DEFINE RE == Renamed(E, id, old, new)
              RD == Renamed(D, id, old, new)
  <2>1. /\ RD \in Documents
        /\ \A x \in Def : LET kept == x = id \/ D[x].name = NoName
                          IN  /\ RD[x].name = IF x = id THEN new ELSE D[x].name
                              /\ RD[x].from = IF kept THEN D[x].from ELSE RenameIn(D[x].from, old, new)
                              /\ RD[x].to = IF kept THEN D[x].to ELSE RenameIn(D[x].to, old, new)
    BY <1>3, RenamedIs
  <2>2. /\ RE \in Documents
        /\ \A x \in Def : LET kept == x = id \/ E[x].name = NoName
                          IN  /\ RE[x].name = IF x = id THEN new ELSE E[x].name
                              /\ RE[x].from = IF kept THEN E[x].from ELSE RenameIn(E[x].from, old, new)
                              /\ RE[x].to = IF kept THEN E[x].to ELSE RenameIn(E[x].to, old, new)
    BY <1>3, <1>10, RenamedIs
  <2>. HIDE DEF RE, RD
  <2>3. ASSUME NEW x \in Def PROVE RE[x].name = RD[x].name /\ RE[x].from = RD[x].from /\ RE[x].to = RD[x].to
    <3>1. CASE x # d
      <4>1. E[x] = D[x]
        BY <1>8, <3>1
      <4>2. CASE x = id
        BY <2>1, <2>2, <4>1, <4>2
      <4>3. CASE x # id /\ D[x].name = NoName
        BY <2>1, <2>2, <4>1, <4>3
      <4>4. CASE x # id /\ D[x].name # NoName
        <5>1. RD[x].name = D[x].name /\ RD[x].from = RenameIn(D[x].from, old, new) /\ RD[x].to = RenameIn(D[x].to, old, new)
          BY <2>1, <4>4
        <5>2. RE[x].name = E[x].name /\ RE[x].from = RenameIn(E[x].from, old, new) /\ RE[x].to = RenameIn(E[x].to, old, new)
          BY <2>2, <4>1, <4>4
        <5>. QED BY <4>1, <5>1, <5>2
      <4>. QED BY <4>2, <4>3, <4>4
    <3>2. CASE x = d
      <4>1. d # id /\ D[d].name # NoName /\ E[d].name # NoName
        BY <1>2, <1>9 DEF Here
      <4>2. RE[d].name = E[d].name /\ RE[d].from = RenameIn(S, old, new) /\ RE[d].to = RenameIn(T, old, new)
        BY <1>3, <1>9, <2>2, <4>1
      <4>3. RD[d].name = D[d].name /\ RD[d].from = RenameIn(D[d].from, old, new) /\ RD[d].to = RenameIn(D[d].to, old, new)
        BY <1>3, <2>1, <4>1
      <4>. QED BY <1>6, <1>9, <3>2, <4>2, <4>3 DEF S, T
    <3>. QED BY <3>1, <3>2
  <2>4. RE = RD
    BY <2>1, <2>2, <2>3, SameDocuments
  <2>. QED BY <2>4 DEF RE, RD
<1>16. E[id] = D[id]
  BY <1>2, <1>3, <1>8
<1>. QED BY <1>11, <1>14, <1>15, <1>16

LEMMA AllKeysWritten ==
    ASSUME NEW D \in Documents, NEW id \in Def, NEW data \in TaskDef
    PROVE  LET W == Written(D, id, Key, data)
           IN  /\ W \in Documents /\ \A d \in Def : d # id => W[d] = D[d]
               /\ W[id].name = data.name /\ W[id].from = data.from /\ W[id].to = data.to
<1>1. "name" \in Key /\ "from" \in Key /\ "to" \in Key
  BY DEF Key
<1>. QED BY <1>1, WrittenIs

\* No document is left to rewrite: with the name of the task itself, the renaming is done.
LEMMA AllRewritten ==
    ASSUME NEW D \in Documents, NEW id \in Here(D), NEW old \in Name, NEW data \in TaskDef, data.name \in Name,
           data.from = D[id].from, data.to = D[id].to, Rewritten(Docs(D), old, data.name) = {}
    PROVE  Renamed(D, id, old, data.name) = Written(D, id, Key, data)
<1>. DEFINE R == Renamed(D, id, old, data.name)
            W == Written(D, id, Key, data)
<1>1. ASSUME NEW d \in Here(D) PROVE ~Mentions(D, d, old)
  <2>1. Mentions(D, d, old) => Rewriting(D, d, old, data.name) \in Rewritten(Docs(D), old, data.name)
    <3>1. Rewritten(Docs(D), old, data.name) = {Rewriting(D, x, old, data.name) : x \in {x \in Here(D) : Mentions(D, x, old)}}
      BY RewritesAre
    <3>. QED BY <3>1
  <2>. QED BY <2>1
<1>2. id \in Def /\ \A x \in Def : D[x] \in TaskDef
  BY DEF Here, Documents
<1>3. /\ R \in Documents
      /\ \A d \in Def : LET kept == d = id \/ D[d].name = NoName
                        IN  /\ R[d].name = IF d = id THEN data.name ELSE D[d].name
                            /\ R[d].from = IF kept THEN D[d].from ELSE RenameIn(D[d].from, old, data.name)
                            /\ R[d].to = IF kept THEN D[d].to ELSE RenameIn(D[d].to, old, data.name)
  <2>. DEFINE new == data.name
  <2>1. new \in Name
    OBVIOUS
  <2>2. R = Renamed(D, id, old, new)
    OBVIOUS
  <2>. HIDE DEF new, R
  <2>3. /\ R \in Documents
        /\ \A d \in Def : LET kept == d = id \/ D[d].name = NoName
                          IN  /\ R[d].name = IF d = id THEN new ELSE D[d].name
                              /\ R[d].from = IF kept THEN D[d].from ELSE RenameIn(D[d].from, old, new)
                              /\ R[d].to = IF kept THEN D[d].to ELSE RenameIn(D[d].to, old, new)
    BY <1>2, <2>1, <2>2, RenamedIs
  <2>. QED BY <2>3 DEF new
<1>4. /\ W \in Documents
      /\ \A d \in Def : d # id => W[d] = D[d]
      /\ W[id].name = data.name /\ W[id].from = data.from /\ W[id].to = data.to
  BY <1>2, AllKeysWritten
<1>. HIDE DEF R, W
<1>5. ASSUME NEW d \in Def PROVE R[d].name = W[d].name /\ R[d].from = W[d].from /\ R[d].to = W[d].to
  <2>1. CASE d = id
    BY <1>3, <1>4, <2>1
  <2>2. CASE d # id /\ D[d].name = NoName
    BY <1>3, <1>4, <2>2
  <2>3. CASE d # id /\ D[d].name # NoName
    <3>1. RenameIn(D[d].from, old, data.name) = D[d].from /\ RenameIn(D[d].to, old, data.name) = D[d].to
      BY <1>1, <2>3 DEF RenameIn, Mentions, Here
    <3>. QED BY <1>3, <1>4, <2>3, <3>1
  <2>. QED BY <2>1, <2>2, <2>3
<1>6. R = W
  BY <1>3, <1>4, <1>5, SameDocuments
<1>. QED BY <1>6 DEF R, W

-----------------------------------------------------------------------------
(***************************************************************************)
(* Deleting                                                                *)
(***************************************************************************)
UnlinkTo(D, d, name) == Update(d, {"to"}, [NoDef EXCEPT !.to = D[d].to \ {name}])
UnlinkFrom(D, d, name) == Update(d, {"from"}, [NoDef EXCEPT !.from = D[d].from \ {name}])

LEMMA UnlinksAre ==
    ASSUME NEW D \in Documents, NEW name
    PROVE  \A u : u \in Unlinks(Docs(D), name) <=>
               \E d \in Here(D) : \/ name \in D[d].to /\ u = UnlinkTo(D, d, name)
                                  \/ name \in D[d].from /\ u = UnlinkFrom(D, d, name)
<1>1. ASSUME NEW u \in Unlinks(Docs(D), name)
      PROVE  \E d \in Here(D) : \/ name \in D[d].to /\ u = UnlinkTo(D, d, name)
                                \/ name \in D[d].from /\ u = UnlinkFrom(D, d, name)
  <2>1. PICK t \in Docs(D) : \/ name \in t.to /\ u = Update(t.id, {"to"}, [NoDef EXCEPT !.to = t.to \ {name}])
                             \/ name \in t.from /\ u = Update(t.id, {"from"}, [NoDef EXCEPT !.from = t.from \ {name}])
    BY DEF Unlinks
  <2>2. t.id \in Here(D) /\ t.from = D[t.id].from /\ t.to = D[t.id].to
    BY DocsAre
  <2>. QED BY <2>1, <2>2 DEF UnlinkTo, UnlinkFrom
<1>2. ASSUME NEW d \in Here(D)
      PROVE  /\ name \in D[d].to => UnlinkTo(D, d, name) \in Unlinks(Docs(D), name)
             /\ name \in D[d].from => UnlinkFrom(D, d, name) \in Unlinks(Docs(D), name)
  <2>1. PICK t \in Docs(D) : t.id = d
    BY DocsAre
  <2>2. t.from = D[d].from /\ t.to = D[d].to
    BY <2>1, DocsAre
  <2>3. /\ name \in t.to => Update(t.id, {"to"}, [NoDef EXCEPT !.to = t.to \ {name}]) \in Unlinks(Docs(D), name)
        /\ name \in t.from => Update(t.id, {"from"}, [NoDef EXCEPT !.from = t.from \ {name}]) \in Unlinks(Docs(D), name)
    BY DEF Unlinks
  <2>. QED BY <2>1, <2>2, <2>3 DEF UnlinkTo, UnlinkFrom
<1>. QED BY <1>1, <1>2

LEMMA UnlinkFields ==
    ASSUME NEW D, NEW d, NEW name
    PROVE  /\ UnlinkTo(D, d, name).id = d /\ UnlinkTo(D, d, name).keys = {"to"}
           /\ UnlinkTo(D, d, name).data.to = D[d].to \ {name}
           /\ UnlinkFrom(D, d, name).id = d /\ UnlinkFrom(D, d, name).keys = {"from"}
           /\ UnlinkFrom(D, d, name).data.from = D[d].from \ {name}
<1>1. [NoDef EXCEPT !.to = D[d].to \ {name}].to = D[d].to \ {name}
  BY DEF NoDef
<1>2. [NoDef EXCEPT !.from = D[d].from \ {name}].from = D[d].from \ {name}
  BY DEF NoDef
<1>. QED BY <1>1, <1>2 DEF UnlinkTo, UnlinkFrom, Update

\* The effect of an update of a deletion.
Unlinked(D, E, name) ==
    /\ E \in Documents /\ Orderly(E) /\ \A x \in Def : E[x].name = D[x].name

LEMMA OneUnlinkedTo ==
    ASSUME NEW D \in Documents, Orderly(D), NEW name, NEW d \in Here(D), name \in D[d].to
    PROVE  LET u == UnlinkTo(D, d, name)
               E == Written(D, u.id, u.keys, u.data)
           IN  /\ Unlinked(D, E, name)
               /\ \A v : v \in Unlinks(Docs(E), name) <=> v \in Unlinks(Docs(D), name) /\ v # u
<1>. DEFINE u == UnlinkTo(D, d, name)
            E == Written(D, u.id, u.keys, u.data)
<1>1. u.id = d /\ u.keys = {"to"} /\ u.data.to = D[d].to \ {name}
  BY UnlinkFields
<1>2. d \in Def /\ u.data \in TaskDef
  <2>1. d \in Def /\ D[d].to \ {name} \in SUBSET Name
    BY DocsAre
  <2>2. [NoDef EXCEPT !.to = D[d].to \ {name}] \in TaskDef
    BY <2>1, RoutesOnlyType
  <2>. QED BY <2>1, <2>2 DEF UnlinkTo, Update
<1>3. Orderly(E)
  BY ClearedTo DEF RouteChange, UnlinkTo
<1>. HIDE DEF u
<1>4. /\ E \in Documents /\ \A x \in Def : x # d => E[x] = D[x]
      /\ E[d].name = D[d].name /\ E[d].from = D[d].from /\ E[d].to = D[d].to \ {name}
  BY <1>1, <1>2, OnlyTo, WrittenIs
<1>. HIDE DEF E
<1>5. \A x \in Def : E[x].name = D[x].name /\ E[x].from = D[x].from
  BY <1>4
<1>6. Here(E) = Here(D)
  BY <1>5 DEF Here
<1>7. \A x \in Here(D) : /\ UnlinkFrom(E, x, name) = UnlinkFrom(D, x, name)
                         /\ name \in E[x].from <=> name \in D[x].from
                         /\ name \in E[x].to <=> name \in D[x].to /\ x # d
                         /\ x # d => UnlinkTo(E, x, name) = UnlinkTo(D, x, name)
  <2>1. \A x \in Here(D) : x \in Def /\ E[x].from = D[x].from
    BY <1>5 DEF Here
  <2>2. \A x \in Here(D) : x # d => E[x] = D[x]
    BY <1>4 DEF Here
  <2>3. name \notin E[d].to
    BY <1>4
  <2>. QED BY <2>1, <2>2, <2>3 DEF UnlinkFrom, UnlinkTo
<1>8. \A x : UnlinkFrom(D, x, name) # u /\ (UnlinkTo(D, x, name) = u => x = d)
  <2>1. {"to"} # {"from"}
    OBVIOUS
  <2>. QED BY <1>1, <2>1, UnlinkFields
<1>9. \A v : v \in Unlinks(Docs(D), name) <=>
               \E x \in Here(D) : \/ name \in D[x].to /\ v = UnlinkTo(D, x, name)
                                  \/ name \in D[x].from /\ v = UnlinkFrom(D, x, name)
  BY UnlinksAre
<1>10. \A v : v \in Unlinks(Docs(E), name) <=>
               \E x \in Here(D) : \/ name \in D[x].to /\ x # d /\ v = UnlinkTo(D, x, name)
                                  \/ name \in D[x].from /\ v = UnlinkFrom(D, x, name)
  <2>1. \A v : v \in Unlinks(Docs(E), name) <=>
               \E x \in Here(D) : \/ name \in E[x].to /\ v = UnlinkTo(E, x, name)
                                  \/ name \in E[x].from /\ v = UnlinkFrom(E, x, name)
    BY <1>4, <1>6, UnlinksAre
  <2>. QED BY <1>7, <2>1
<1>11. UnlinkTo(D, d, name) = u
  BY DEF u
<1>12. ASSUME NEW v PROVE v \in Unlinks(Docs(E), name) <=> v \in Unlinks(Docs(D), name) /\ v # u
  BY <1>8, <1>9, <1>10, <1>11
<1>13. Unlinked(D, E, name)
  BY <1>3, <1>4, <1>5 DEF Unlinked
<1>. QED BY <1>12, <1>13 DEF E, u

LEMMA OneUnlinkedFrom ==
    ASSUME NEW D \in Documents, Orderly(D), NEW name, NEW d \in Here(D), name \in D[d].from
    PROVE  LET u == UnlinkFrom(D, d, name)
               E == Written(D, u.id, u.keys, u.data)
           IN  /\ Unlinked(D, E, name)
               /\ \A v : v \in Unlinks(Docs(E), name) <=> v \in Unlinks(Docs(D), name) /\ v # u
<1>. DEFINE u == UnlinkFrom(D, d, name)
            E == Written(D, u.id, u.keys, u.data)
<1>1. u.id = d /\ u.keys = {"from"} /\ u.data.from = D[d].from \ {name}
  BY UnlinkFields
<1>2. d \in Def /\ u.data \in TaskDef
  <2>1. d \in Def /\ D[d].from \ {name} \in SUBSET Name
    BY DocsAre
  <2>2. [NoDef EXCEPT !.from = D[d].from \ {name}] \in TaskDef
    BY <2>1, RoutesOnlyType
  <2>. QED BY <2>1, <2>2 DEF UnlinkFrom, Update
<1>3. Orderly(E)
  BY ClearedFrom DEF RouteChange, UnlinkFrom
<1>. HIDE DEF u
<1>4. /\ E \in Documents /\ \A x \in Def : x # d => E[x] = D[x]
      /\ E[d].name = D[d].name /\ E[d].to = D[d].to /\ E[d].from = D[d].from \ {name}
  BY <1>1, <1>2, OnlyFrom, WrittenIs
<1>. HIDE DEF E
<1>5. \A x \in Def : E[x].name = D[x].name /\ E[x].to = D[x].to
  BY <1>4
<1>6. Here(E) = Here(D)
  BY <1>5 DEF Here
<1>7. \A x \in Here(D) : /\ UnlinkTo(E, x, name) = UnlinkTo(D, x, name)
                         /\ name \in E[x].to <=> name \in D[x].to
                         /\ name \in E[x].from <=> name \in D[x].from /\ x # d
                         /\ x # d => UnlinkFrom(E, x, name) = UnlinkFrom(D, x, name)
  <2>1. \A x \in Here(D) : x \in Def /\ E[x].to = D[x].to
    BY <1>5 DEF Here
  <2>2. \A x \in Here(D) : x # d => E[x] = D[x]
    BY <1>4 DEF Here
  <2>3. name \notin E[d].from
    BY <1>4
  <2>. QED BY <2>1, <2>2, <2>3 DEF UnlinkFrom, UnlinkTo
<1>8. \A x : UnlinkTo(D, x, name) # u /\ (UnlinkFrom(D, x, name) = u => x = d)
  <2>1. {"to"} # {"from"}
    OBVIOUS
  <2>. QED BY <1>1, <2>1, UnlinkFields
<1>9. \A v : v \in Unlinks(Docs(D), name) <=>
               \E x \in Here(D) : \/ name \in D[x].to /\ v = UnlinkTo(D, x, name)
                                  \/ name \in D[x].from /\ v = UnlinkFrom(D, x, name)
  BY UnlinksAre
<1>10. \A v : v \in Unlinks(Docs(E), name) <=>
               \E x \in Here(D) : \/ name \in D[x].to /\ v = UnlinkTo(D, x, name)
                                  \/ name \in D[x].from /\ x # d /\ v = UnlinkFrom(D, x, name)
  <2>1. \A v : v \in Unlinks(Docs(E), name) <=>
               \E x \in Here(D) : \/ name \in E[x].to /\ v = UnlinkTo(E, x, name)
                                  \/ name \in E[x].from /\ v = UnlinkFrom(E, x, name)
    BY <1>4, <1>6, UnlinksAre
  <2>. QED BY <1>7, <2>1
<1>11. UnlinkFrom(D, d, name) = u
  BY DEF u
<1>12. ASSUME NEW v PROVE v \in Unlinks(Docs(E), name) <=> v \in Unlinks(Docs(D), name) /\ v # u
  BY <1>8, <1>9, <1>10, <1>11
<1>13. Unlinked(D, E, name)
  BY <1>3, <1>4, <1>5 DEF Unlinked
<1>. QED BY <1>12, <1>13 DEF E, u

LEMMA OneUnlinked ==
    ASSUME NEW D \in Documents, Orderly(D), NEW name, NEW u \in Unlinks(Docs(D), name)
    PROVE  /\ u.id \in Here(D) /\ (u.keys = {"from"} \/ u.keys = {"to"})
           /\ LET E == Written(D, u.id, u.keys, u.data)
              IN  /\ Unlinked(D, E, name)
                  /\ Unlinks(Docs(E), name) = Unlinks(Docs(D), name) \ {u}
<1>1. PICK d \in Here(D) : \/ name \in D[d].to /\ u = UnlinkTo(D, d, name)
                           \/ name \in D[d].from /\ u = UnlinkFrom(D, d, name)
  BY UnlinksAre
<1>. DEFINE E == Written(D, u.id, u.keys, u.data)
<1>2. /\ Unlinked(D, E, name)
      /\ \A v : v \in Unlinks(Docs(E), name) <=> v \in Unlinks(Docs(D), name) /\ v # u
  BY <1>1, OneUnlinkedTo, OneUnlinkedFrom
<1>. HIDE DEF E
<1>3. Unlinks(Docs(E), name) = Unlinks(Docs(D), name) \ {u}
  BY <1>2
<1>4. u.id \in Here(D) /\ (u.keys = {"from"} \/ u.keys = {"to"})
  BY <1>1, UnlinkFields
<1>. QED BY <1>2, <1>3, <1>4 DEF E

LEMMA OneTaskLess ==
    ASSUME NEW D \in Documents, Orderly(D), NEW v \in Here(D), Unlinks(Docs(D), D[v].name) = {}
    PROVE  Orderly([D EXCEPT ![v] = NoDef])
<1>. DEFINE E == [D EXCEPT ![v] = NoDef]
            n == D[v].name
<1>1. \A d \in Here(D) : n \notin D[d].from /\ n \notin D[d].to
  <2>1. \A u : ~ \E d \in Here(D) : \/ n \in D[d].to /\ u = UnlinkTo(D, d, n)
                                    \/ n \in D[d].from /\ u = UnlinkFrom(D, d, n)
    BY UnlinksAre
  <2>. QED BY <2>1
<1>2. E[v] = NoDef /\ \A x \in Def : x # v => E[x] = D[x]
  BY DEF Documents, Here
<1>. HIDE DEF E
<1>3. Here(E) = Here(D) \ {v} /\ \A x \in Here(E) : E[x] = D[x]
  BY <1>2, NoDefType DEF Here
<1>4. \A x, y \in Here(E) : E[x].name = E[y].name => x = y
  BY <1>3 DEF Orderly
<1>5. ASSUME NEW x \in Here(E) PROVE Resolved(E, E[x].from) /\ Resolved(E, E[x].to)
  <2>1. x \in Here(D) /\ E[x] = D[x] /\ Resolved(D, D[x].from) /\ Resolved(D, D[x].to)
    BY <1>3 DEF Orderly
  <2>2. n \notin E[x].from /\ n \notin E[x].to
    BY <1>1, <2>1
  <2>3. ASSUME NEW S, n \notin S, Resolved(D, S) PROVE Resolved(E, S)
    <3>. SUFFICES ASSUME NEW m \in S PROVE \E e \in Here(E) : E[e].name = m
      BY DEF Resolved
    <3>1. PICK e \in Here(D) : D[e].name = m
      BY <2>3 DEF Resolved
    <3>2. e # v
      BY <2>3, <3>1
    <3>. QED BY <1>3, <3>1, <3>2
  <2>. QED BY <2>1, <2>2, <2>3
<1>6. ArcsIn(E) \subseteq ArcsIn(D)
  BY <1>3 DEF ArcsIn
<1>7. NoCycle(ArcsIn(E))
  BY <1>6, FewerArcs DEF Orderly
<1>. QED BY <1>4, <1>5, <1>7 DEF Orderly, E

-----------------------------------------------------------------------------
(***************************************************************************)
(* One request after the other                                             *)
(***************************************************************************)
\* Another name for a task, and nothing else.
NameChange(D, u) ==
    /\ u.keys = Key /\ u.id \in Here(D) /\ Orderly(D)
    /\ u.data.from = D[u.id].from /\ u.data.to = D[u.id].to
    /\ u.data.name \in Name /\ \A d \in Here(D) : D[d].name # u.data.name

Bare(data) == data.name \in Name /\ data.from = {} /\ data.to = {}

\* What the designer sends.
Ready(D, r) ==
    \/ r.op = "create" /\ Bare(r.data)
    \/ r.op = "update" /\ (RouteChange(D, r) \/ NameChange(D, r))
    \/ r.op \in {"delete", "job"}

\* The updates a deletion has still to make: those its victim's name is left in.
Left(D, f) == Unlinks(Docs(D), D[f.victim].name)
Unlinking(D, f) ==
    /\ f.victim \in Here(D)
    /\ Update(f.id, f.keys, f.data) \in Left(D, f)
    /\ f.unlinks = Left(D, f) \ {Update(f.id, f.keys, f.data)}
Renaming(D, f) ==
    /\ f.accepted /\ f.keys = Key /\ f.id \in Here(D) /\ f.old = D[f.id].name
    /\ f.data.from = D[f.id].from /\ f.data.to = D[f.id].to
    /\ f.data.name \in Name /\ f.data.name # f.old
    /\ f.rewrites = Rewritten(Docs(D), f.old, f.data.name)
    /\ ~Mentions(D, f.id, f.old)
    /\ Orderly(Renamed(D, f.id, f.old, f.data.name))

\* What holds while a handler is at work, at each step.
UnderWay(D, p, f) ==
    /\ p \in {"delete", "createjob"} => Orderly(D)
    /\ p = "create" => Orderly(D) /\ Bare(f.data)
    /\ p = "insert" => Orderly(D) /\ Bare(f.data) /\ \A d \in Here(D) : D[d].name # f.data.name
    /\ p = "references" => Orderly(D) /\ f.victim \in Here(D) /\ f.old = D[f.victim].name
    /\ p = "unlink" => Orderly(D) /\ f.victim \in Here(D) /\ f.unlinks = Left(D, f)
    /\ p = "remove" => Orderly(D) /\ f.victim \in Here(D) /\ Left(D, f) = {}
    /\ p \in {"find", "check", "write"} /\ f.victim # 0 => Orderly(D) /\ Unlinking(D, f)
    /\ p \in {"find", "check"} /\ f.victim = 0 =>
           /\ Orderly(D) /\ (RouteChange(D, f) \/ NameChange(D, f))
           /\ p = "check" => f.old = D[f.id].name
    /\ p = "rewrite" => f.victim = 0 /\ Renaming(D, f)
    /\ p = "write" /\ f.victim = 0 => f.id \in Here(D) /\ Orderly(Written(D, f.id, f.keys, f.data))

\* While users wait for their answers, one request is under way at a time; the documents
\* are in good order at rest.
OneAtATime ==
    /\ Idle => Orderly(def)
    /\ \A r \in sent : sent = {r} /\ (\A h \in Handler : pc[h] = "idle") /\ Orderly(def) /\ Ready(def, r)
    /\ \A h \in Handler : pc[h] # "idle" =>
           sent = {} /\ (\A k \in Handler : k # h => pc[k] = "idle") /\ UnderWay(def, pc[h], frame[h])
OrderInv == history = {} => OneAtATime

LEMMA OrderImplied == TypeInv /\ OrderInv => EditsKeepOrder
<1>. SUFFICES ASSUME TypeInv, OrderInv, Idle, history = {} PROVE InOrder(Read(Existing))
  BY DEF EditsKeepOrder
<1>1. Orderly(def) /\ def \in Documents
  BY DEF OrderInv, OneAtATime, TypeInv, Documents
<1>. QED BY <1>1, OrderIs, AreDocs

LEMMA InitOrder == Init => OrderInv
<1>. SUFFICES ASSUME Init PROVE OneAtATime
  BY DEF OrderInv
<1>1. def \in Documents
  BY InitTypes DEF TypeInv, Documents
<1>2. InOrder(Read(Existing))
  BY DEF Init
<1>3. Orderly(def)
  BY <1>1, <1>2, OrderIs, AreDocs
<1>4. sent = {} /\ \A h \in Handler : pc[h] = "idle"
  BY DEF Init
<1>. QED BY <1>3, <1>4 DEF OneAtATime

\* A request is sent.
LEMMA SendOrder ==
    ASSUME TypeInv, OrderInv, NEW r, NEW how, Send({r}, how), history' = {}, Orderly(def) => Ready(def, r)
    PROVE  OneAtATime'
<1>1. history = {} /\ Idle
  BY DEF Send
<1>2. Orderly(def)
  BY <1>1 DEF OrderInv, OneAtATime
<1>3. sent = {} /\ \A h \in Handler : pc[h] = "idle"
  BY <1>1 DEF Idle
<1>4. sent' = {r} /\ pc' = pc /\ def' = def
  BY <1>3 DEF Send
<1>5. \A h \in Handler : pc'[h] = "idle"
  BY <1>3, <1>4
<1>6. ~ (sent' = {})
  BY <1>4
<1>. QED BY <1>2, <1>4, <1>5, <1>6 DEF OneAtATime, Idle

LEMMA UsersOrder ==
    ASSUME TypeInv, OrderInv, Users, history' = {}
    PROVE  OneAtATime'
<1>0. def \in Documents /\ Existing = Here(def) /\ Read(Existing) = Docs(def)
  BY AreDocs DEF TypeInv, Documents
<1>1. CASE SaveNewTaskDef
  <2>1. PICK n \in Name : Send({[op |-> "create", id |-> 0, keys |-> Key, data |-> [NoDef EXCEPT !.name = n]]}, {})
    BY <1>1 DEF SaveNewTaskDef
  <2>. DEFINE r == [op |-> "create", id |-> 0, keys |-> Key, data |-> [NoDef EXCEPT !.name = n]]
  <2>2. Bare([NoDef EXCEPT !.name = n])
    BY DEF Bare, NoDef
  <2>3. r.op = "create" /\ r.data = [NoDef EXCEPT !.name = n]
    OBVIOUS
  <2>4. Ready(def, r)
    <3>. HIDE DEF r
    <3>. QED BY <2>2, <2>3 DEF Ready
  <2>5. Send({r}, {})
    BY <2>1
  <2>. HIDE DEF r
  <2>. QED BY <2>4, <2>5, SendOrder
<1>2. CASE EditInbound
  <2>1. PICK d \in Here(def), e \in Here(def) :
           \/ /\ def[e].name \notin Downstream(Docs(def), def[d].name)
              /\ Send({Update(d, {"from"}, [NoDef EXCEPT !.from = def[d].from \cup {def[e].name}])}, {})
           \/ Send({Update(d, {"from"}, [NoDef EXCEPT !.from = def[d].from \ {def[e].name}])}, {})
    BY <1>0, <1>2 DEF EditInbound
  <2>2. ASSUME NEW data, Send({Update(d, {"from"}, data)}, {}), Orderly(def) => RouteChange(def, Update(d, {"from"}, data))
        PROVE  OneAtATime'
    <3>1. Orderly(def) => Ready(def, Update(d, {"from"}, data))
      BY <2>2 DEF Ready, Update
    <3>. QED BY <2>2, <3>1, SendOrder
  <2>. QED BY <1>0, <2>1, <2>2, TickedFrom, ClearedFrom
<1>3. CASE EditOutbound
  <2>1. PICK d \in Here(def), e \in Here(def) :
           \/ /\ def[e].name \notin Upstream(Docs(def), def[d].name)
              /\ Send({Update(d, {"to"}, [NoDef EXCEPT !.to = def[d].to \cup {def[e].name}])}, {})
           \/ Send({Update(d, {"to"}, [NoDef EXCEPT !.to = def[d].to \ {def[e].name}])}, {})
    BY <1>0, <1>3 DEF EditOutbound
  <2>2. ASSUME NEW data, Send({Update(d, {"to"}, data)}, {}), Orderly(def) => RouteChange(def, Update(d, {"to"}, data))
        PROVE  OneAtATime'
    <3>1. Orderly(def) => Ready(def, Update(d, {"to"}, data))
      BY <2>2 DEF Ready, Update
    <3>. QED BY <2>2, <3>1, SendOrder
  <2>. QED BY <1>0, <2>1, <2>2, TickedTo, ClearedTo
<1>4. CASE RouteAllTo
  <2>1. "unchecked" \in history'
    BY <1>4 DEF RouteAllTo, Send
  <2>. QED BY <2>1
<1>5. CASE Rename
  <2>1. PICK d \in Here(def), n \in Name :
           \/ n \notin Nodes(Docs(def)) /\ Send({Update(d, Key, [def[d] EXCEPT !.name = n])}, {})
           \/ Send({Update(d, Key, [def[d] EXCEPT !.name = n])}, {"unchecked"})
    BY <1>0, <1>5 DEF Rename
  <2>2. n \notin Nodes(Docs(def)) /\ Send({Update(d, Key, [def[d] EXCEPT !.name = n])}, {})
    BY <2>1 DEF Send
  <2>. DEFINE data == [def[d] EXCEPT !.name = n]
              r == Update(d, Key, data)
  <2>3. data.name = n /\ data.from = def[d].from /\ data.to = def[d].to
    BY <1>0 DEF Documents, TaskDef, Here
  <2>4. \A e \in Here(def) : def[e].name # n
    <3>. SUFFICES ASSUME NEW e \in Here(def) PROVE def[e].name \in Nodes(Docs(def))
      BY <2>2
    <3>1. PICK t \in Docs(def) : t.id = e
      BY <1>0, DocsAre
    <3>. QED BY <1>0, <3>1, DocsAre DEF Nodes
  <2>. HIDE DEF data
  <2>5. r.op = "update" /\ r.keys = Key /\ r.id = d /\ r.data = data
    BY DEF Update
  <2>. HIDE DEF r
  <2>6. Orderly(def) => Ready(def, r)
    BY <2>3, <2>4, <2>5 DEF Ready, NameChange
  <2>7. Send({r}, {})
    BY <2>2 DEF r, data
  <2>. QED BY <2>6, <2>7, SendOrder
<1>6. CASE DeleteTask \/ RunJob
  <2>1. PICK d \in Def \cup {0}, op \in {"delete", "job"} : Send({[op |-> op, id |-> d, keys |-> {}, data |-> NoDef]}, {})
    BY <1>0, <1>6 DEF DeleteTask, RunJob, Here
  <2>. DEFINE r == [op |-> op, id |-> d, keys |-> {}, data |-> NoDef]
  <2>2. r.op \in {"delete", "job"}
    OBVIOUS
  <2>3. Send({r}, {})
    BY <2>1
  <2>. HIDE DEF r
  <2>4. Ready(def, r)
    BY <2>2 DEF Ready
  <2>. QED BY <2>3, <2>4, SendOrder
<1>. QED BY <1>1, <1>2, <1>3, <1>4, <1>5, <1>6 DEF Users

\* A handler goes on, or answers.
LEMMA Onward ==
    ASSUME TypeInv, NEW h \in Handler, \A k \in Handler : k # h => pc[k] = "idle", sent' = {},
           NEW next, NEW g, Go(h, next, g),
           next = "idle" => Orderly(def'), next # "idle" => UnderWay(def', next, g)
    PROVE  OneAtATime'
<1>1. pc' = [pc EXCEPT ![h] = next] /\ frame' = [frame EXCEPT ![h] = IF next = "idle" THEN EmptyFrame ELSE g]
  BY DEF Go
<1>2. pc'[h] = next /\ (\A k \in Handler : k # h => pc'[k] = "idle") /\ (next # "idle" => frame'[h] = g)
  BY <1>1 DEF TypeInv
<1>3. (Idle)' => Orderly(def')
  BY <1>2 DEF Idle
<1>4. ASSUME NEW k \in Handler, pc'[k] # "idle"
      PROVE  (\A l \in Handler : l # k => pc'[l] = "idle") /\ UnderWay(def', pc'[k], frame'[k])
  BY <1>2, <1>4
<1>. QED BY <1>3, <1>4 DEF OneAtATime

LEMMA Answered ==
    ASSUME TypeInv, NEW h \in Handler, \A k \in Handler : k # h => pc[k] = "idle", sent' = {},
           NEW g, Go(h, "idle", g), Orderly(def')
    PROVE  OneAtATime'
BY Onward

LEMMA Thrown ==
    ASSUME TypeInv, NEW h \in Handler, \A k \in Handler : k # h => pc[k] = "idle", sent' = {},
           Throw(h), Orderly(def')
    PROVE  OneAtATime'
BY Answered DEF Throw

\* The frame with one field changed.
LEMMA FrameFields ==
    ASSUME NEW f \in Frame
    PROVE  /\ \A x : LET g == [f EXCEPT !.old = x]
                     IN  /\ g.id = f.id /\ g.keys = f.keys /\ g.data = f.data /\ g.old = x
                         /\ g.victim = f.victim /\ g.unlinks = f.unlinks
           /\ \A x, y : LET g == [f EXCEPT !.rewrites = x, !.accepted = y]
                        IN  /\ g.id = f.id /\ g.keys = f.keys /\ g.data = f.data /\ g.old = f.old
                            /\ g.victim = f.victim /\ g.unlinks = f.unlinks /\ g.rewrites = x /\ g.accepted = y
           /\ \A x : LET g == [f EXCEPT !.rewrites = x]
                     IN  /\ g.id = f.id /\ g.keys = f.keys /\ g.data = f.data /\ g.old = f.old
                         /\ g.victim = f.victim /\ g.unlinks = f.unlinks /\ g.rewrites = x /\ g.accepted = f.accepted
           /\ \A x : LET g == [f EXCEPT !.unlinks = x]
                     IN  g.victim = f.victim /\ g.unlinks = x
           /\ \A x, i, y, z : LET g == [f EXCEPT !.unlinks = x, !.id = i, !.keys = y, !.data = z]
                              IN  /\ g.id = i /\ g.keys = y /\ g.data = z
                                  /\ g.victim = f.victim /\ g.unlinks = x
BY DEF Frame

LEMMA CheckedName ==
    ASSUME TypeInv, NEW h \in Handler, NameChange(def, frame[h])
    PROVE  Replaced(h, Read(Existing)) = Docs(def)
<1>. DEFINE f == frame[h]
<1>1. ASSUME NEW t \in Docs(def)
      PROVE  (IF t.id # f.id THEN t ELSE [t EXCEPT !.from = f.data.from, !.to = f.data.to]) = t
  <2>1. def \in Documents
    BY DEF TypeInv, Documents
  <2>2. t \in Doc /\ t.from = def[t.id].from /\ t.to = def[t.id].to
    BY <2>1, DocsAre
  <2>3. f.data.from = def[f.id].from /\ f.data.to = def[f.id].to
    BY DEF NameChange
  <2>4. t.id = f.id => f.data.from = t.from /\ f.data.to = t.to
    BY <2>2, <2>3
  <2>5. [t EXCEPT !.from = t.from, !.to = t.to] = t
    BY <2>2 DEF Doc
  <2>. QED BY <2>4, <2>5
<1>2. Replaced(h, Read(Existing))
      = {IF t.id # f.id THEN t ELSE [t EXCEPT !.from = f.data.from, !.to = f.data.to] : t \in Docs(def)}
  BY AreDocs DEF Replaced
<1>. DEFINE G(t) == IF t.id # f.id THEN t ELSE [t EXCEPT !.from = f.data.from, !.to = f.data.to]
<1>3. Replaced(h, Read(Existing)) = {G(t) : t \in Docs(def)}
  BY <1>2
<1>4. \A t \in Docs(def) : G(t) = t
  BY <1>1
<1>. HIDE DEF G
<1>. QED BY <1>3, <1>4

\* One write of a renaming.
LEMMA RewriteEffect ==
    ASSUME NEW D \in Documents, NEW id \in Here(D), NEW old \in Name, NEW new \in Name, old # new,
           ~Mentions(D, id, old), NEW t \in Rewritten(Docs(D), old, new)
    PROVE  /\ t.id \in Here(D) /\ Stored(D, t) \in Documents
           /\ Stored(D, t)[id] = D[id] /\ Here(Stored(D, t)) = Here(D)
           /\ Rewritten(Docs(Stored(D, t)), old, new) = Rewritten(Docs(D), old, new) \ {t}
           /\ Renamed(Stored(D, t), id, old, new) = Renamed(D, id, old, new)
<1>. DEFINE E == Stored(D, t)
<1>1. PICK d \in Here(D) :
         /\ Mentions(D, d, old) /\ t = Rewriting(D, d, old, new)
         /\ t.id = d /\ t.from = RenameIn(D[d].from, old, new) /\ t.to = RenameIn(D[d].to, old, new)
         /\ E \in Documents /\ \A x \in Def : x # d => E[x] = D[x]
         /\ E[d].name = D[d].name /\ E[d].from = t.from /\ E[d].to = t.to
  BY TheRewritten
<1>. HIDE DEF E
<1>2. E[d].from = RenameIn(D[d].from, old, new) /\ E[d].to = RenameIn(D[d].to, old, new)
  BY <1>1
<1>3. /\ E[id] = D[id] /\ Here(E) = Here(D)
      /\ Rewritten(Docs(E), old, new) = Rewritten(Docs(D), old, new) \ {t}
      /\ Renamed(E, id, old, new) = Renamed(D, id, old, new)
  BY <1>1, <1>2, OneRewritten
<1>. QED BY <1>1, <1>3 DEF E

LEMMA HandleOrder ==
    ASSUME TypeInv, OrderInv, NEW h \in Handler, Handle(h), history' = {}
    PROVE  OneAtATime'
<1>. DEFINE f == frame[h]
<1>0. /\ f \in Frame /\ f.data \in TaskDef /\ f.victim \in Def \cup {0} /\ Proper(f)
      /\ def \in Documents /\ Existing = Here(def) /\ Read(Existing) = Docs(def)
  BY FrameOf, AreDocs DEF Documents, Frame
<1>1. history = {} /\ OneAtATime
  <2>1. history' = history
    BY DEF Handle, Receive, CheckCreate, Insert, FindTaskDef, CheckUpdate, Rewrite, Write,
           FindVictim, ListReferences, Unlink, Remove, CreateJob
  <2>. QED BY <2>1 DEF OrderInv
<1>2. CASE Receive(h)
  <2>1. PICK r \in sent :
           /\ Go(h, CASE r.op = "create" -> "create" [] r.op = "update" -> "find"
                      [] r.op = "delete" -> "delete" [] r.op = "job" -> "createjob",
                 [EmptyFrame EXCEPT !.id = r.id, !.keys = r.keys, !.data = r.data,
                                    !.victim = IF r.op = "delete" THEN r.id ELSE 0])
           /\ sent' = sent \ {r} /\ def' = def
    BY <1>2 DEF Receive
  <2>2. sent = {r} /\ (\A k \in Handler : pc[k] = "idle") /\ Orderly(def) /\ Ready(def, r)
    BY <1>1 DEF OneAtATime
  <2>3. sent' = {}
    BY <2>1, <2>2
  <2>. DEFINE g == [EmptyFrame EXCEPT !.id = r.id, !.keys = r.keys, !.data = r.data,
                                      !.victim = IF r.op = "delete" THEN r.id ELSE 0]
  <2>4. g.id = r.id /\ g.keys = r.keys /\ g.data = r.data /\ g.victim = IF r.op = "delete" THEN r.id ELSE 0
    BY DEF EmptyFrame
  <2>. HIDE DEF g
  <2>5. r.op \in {"create", "update", "delete", "job"}
    BY DEF TypeInv, Request
  <2>6. CASE r.op = "create"
    <3>1. Go(h, "create", g) /\ UnderWay(def', "create", g)
      BY <2>1, <2>2, <2>4, <2>6 DEF g, UnderWay, Ready
    <3>. QED BY <2>2, <2>3, <3>1, Onward
  <2>7. CASE r.op = "update"
    <3>1. RouteChange(def, g) \/ NameChange(def, g)
      BY <2>2, <2>4, <2>7 DEF Ready, RouteChange, NameChange
    <3>2. Go(h, "find", g) /\ UnderWay(def', "find", g)
      BY <2>1, <2>2, <2>4, <2>7, <3>1 DEF g, UnderWay
    <3>. QED BY <2>2, <2>3, <3>2, Onward
  <2>8. CASE r.op = "delete"
    <3>1. Go(h, "delete", g) /\ UnderWay(def', "delete", g)
      BY <2>1, <2>2, <2>8 DEF g, UnderWay
    <3>. QED BY <2>2, <2>3, <3>1, Onward
  <2>9. CASE r.op = "job"
    <3>1. Go(h, "createjob", g) /\ UnderWay(def', "createjob", g)
      BY <2>1, <2>2, <2>9 DEF g, UnderWay
    <3>. QED BY <2>2, <2>3, <3>1, Onward
  <2>. QED BY <2>5, <2>6, <2>7, <2>8, <2>9
<1>3. CASE ~Receive(h)
  <2>0. pc[h] # "idle" /\ sent' = sent
    BY <1>3 DEF Handle, CheckCreate, Insert, FindTaskDef, CheckUpdate, Rewrite, Write,
                FindVictim, ListReferences, Unlink, Remove, CreateJob
  <2>1. sent' = {} /\ (\A k \in Handler : k # h => pc[k] = "idle") /\ UnderWay(def, pc[h], f)
    BY <1>1, <2>0 DEF OneAtATime
  <2>2. CASE CheckCreate(h)
    <3>. DEFINE others == {[t EXCEPT !.to = {}] : t \in Docs(def)}
    <3>1. pc[h] = "create" /\ def' = def
      BY <2>2 DEF CheckCreate
    <3>2. Orderly(def) /\ Bare(f.data)
      BY <2>1, <3>1 DEF UnderWay
    <3>3. Go(h, "idle", f) \/ (f.data.name \notin Nodes(others) /\ Go(h, "insert", f))
      BY <1>0, <2>2 DEF CheckCreate
    <3>4. ASSUME f.data.name \notin Nodes(others), NEW d \in Here(def) PROVE def[d].name # f.data.name
      <4>1. PICK t \in Docs(def) : t.id = d
        BY <1>0, DocsAre
      <4>2. t \in Doc /\ t.name = def[d].name
        BY <1>0, <4>1, DocsAre
      <4>3. [t EXCEPT !.to = {}] \in others /\ [t EXCEPT !.to = {}].name = t.name
        BY <4>2 DEF Doc
      <4>4. t.name \in Nodes(others)
        <5>. HIDE DEF others
        <5>. QED BY <4>3 DEF Nodes
      <4>. QED BY <3>4, <4>2, <4>4
    <3>5. ASSUME f.data.name \notin Nodes(others), Go(h, "insert", f) PROVE OneAtATime'
      <4>1. UnderWay(def', "insert", f)
        BY <3>1, <3>2, <3>4, <3>5 DEF UnderWay
      <4>. QED BY <2>1, <3>5, <4>1, Onward
    <3>6. Go(h, "idle", f) => OneAtATime'
      BY <2>1, <3>1, <3>2, Answered
    <3>. QED BY <3>3, <3>5, <3>6
  <2>3. CASE Insert(h)
    <3>1. PICK d \in Def \ Existing : def' = [def EXCEPT ![d] = f.data]
      BY <2>3 DEF Insert
    <3>2. Orderly(def) /\ Bare(f.data) /\ \A e \in Here(def) : def[e].name # f.data.name
      BY <2>1, <2>3 DEF UnderWay, Insert
    <3>3. Orderly([def EXCEPT ![d] = f.data])
      BY <1>0, <3>2, OneTaskMore DEF Bare
    <3>4. Orderly(def')
      BY <3>1, <3>3
    <3>. QED BY <2>1, <2>3, <3>4, Answered DEF Insert
  <2>4. CASE FindTaskDef(h)
    <3>1. pc[h] = "find" /\ def' = def /\ Orderly(def)
      BY <2>1, <2>4 DEF FindTaskDef, UnderWay
    <3>2. CASE f.id \notin Existing
      BY <2>1, <2>4, <3>1, <3>2, Thrown DEF FindTaskDef
    <3>3. CASE f.id \in Existing
      <4>. DEFINE g == [f EXCEPT !.old = def[f.id].name]
      <4>1. Go(h, "check", g)
        BY <2>4, <3>3 DEF FindTaskDef
      <4>2. /\ g.id = f.id /\ g.keys = f.keys /\ g.data = f.data /\ g.old = def[f.id].name
            /\ g.victim = f.victim /\ g.unlinks = f.unlinks
        BY <1>0, FrameFields
      <4>. HIDE DEF g
      <4>3. UnderWay(def, "find", f)
        BY <2>1, <3>1
      <4>4. f.victim # 0 => Unlinking(def, g)
        BY <4>2, <4>3 DEF UnderWay, Unlinking, Left
      <4>5. f.victim = 0 => RouteChange(def, g) \/ NameChange(def, g)
        BY <4>2, <4>3 DEF UnderWay, RouteChange, NameChange
      <4>6. UnderWay(def', "check", g)
        BY <3>1, <4>2, <4>4, <4>5 DEF UnderWay
      <4>. QED BY <2>1, <4>1, <4>6, Onward
    <3>. QED BY <3>2, <3>3
  <2>5. CASE CheckUpdate(h)
    <3>. DEFINE taskDefs == Replaced(h, Docs(def))
                renames == "name" \in f.keys /\ f.data.name # f.old
                rewrites == IF renames THEN Rewritten(taskDefs, f.old, f.data.name) ELSE {}
                accepted == Accepted(taskDefs)
                g == [f EXCEPT !.rewrites = rewrites, !.accepted = accepted]
    <3>1. pc[h] = "check" /\ def' = def /\ Orderly(def) /\ UnderWay(def, "check", f)
      BY <2>1, <2>5 DEF CheckUpdate, UnderWay
    <3>2. \/ rewrites # {} /\ Go(h, "rewrite", g)
          \/ rewrites = {} /\ accepted /\ Go(h, "write", g)
          \/ Throw(h)
      BY <1>0, <2>5 DEF CheckUpdate
    <3>3. /\ g.id = f.id /\ g.keys = f.keys /\ g.data = f.data /\ g.old = f.old
          /\ g.victim = f.victim /\ g.unlinks = f.unlinks /\ g.rewrites = rewrites /\ g.accepted = accepted
      BY <1>0, FrameFields
    <3>. HIDE DEF g, rewrites, accepted
    <3>4. ASSUME f.victim # 0 PROVE rewrites = {} /\ UnderWay(def', "write", g)
      <4>1. Unlinking(def, f)
        BY <3>1, <3>4 DEF UnderWay
      <4>2. f.keys = {"from"} \/ f.keys = {"to"}
        <5>. DEFINE u == Update(f.id, f.keys, f.data)
        <5>1. u \in Unlinks(Docs(def), def[f.victim].name) /\ u.keys = f.keys
          BY <4>1 DEF Unlinking, Left, Update
        <5>. HIDE DEF u
        <5>. QED BY <1>0, <3>1, <5>1, OneUnlinked
      <4>3. rewrites = {}
        BY <4>2 DEF rewrites
      <4>4. Unlinking(def, g)
        BY <3>3, <4>1 DEF Unlinking, Left
      <4>. QED BY <3>1, <3>3, <3>4, <4>3, <4>4 DEF UnderWay
    <3>5. ASSUME f.victim = 0, RouteChange(def, f) PROVE rewrites = {} /\ UnderWay(def', "write", g)
      <4>1. f.keys = {"from"} \/ f.keys = {"to"}
        BY <3>5 DEF RouteChange
      <4>2. rewrites = {}
        BY <4>1 DEF rewrites
      <4>3. g.id \in Here(def') /\ Orderly(Written(def', g.id, g.keys, g.data))
        BY <3>1, <3>3, <3>5 DEF RouteChange
      <4>. QED BY <3>3, <3>5, <4>2, <4>3 DEF UnderWay
    <3>6. ASSUME f.victim = 0, NameChange(def, f)
          PROVE  /\ accepted /\ UnderWay(def', "rewrite", g)
                 /\ rewrites = {} => UnderWay(def', "write", g)
      <4>1. taskDefs = Docs(def)
        BY <1>0, <3>6, CheckedName
      <4>2. accepted
        BY <1>0, <3>1, <4>1, OrderAccepted DEF accepted
      <4>3. f.old = def[f.id].name /\ f.id \in Here(def) /\ f.keys = Key
            /\ f.data.name \in Name /\ f.data.from = def[f.id].from /\ f.data.to = def[f.id].to
            /\ f.data.name # f.old /\ \A d \in Here(def) : def[d].name # f.data.name
        BY <3>1, <3>6 DEF UnderWay, NameChange
      <4>4. renames
        BY <4>3 DEF Key
      <4>5. rewrites = Rewritten(Docs(def), f.old, f.data.name)
        BY <4>1, <4>4 DEF rewrites
      <4>6. Orderly(Renamed(def, f.id, f.old, f.data.name))
        BY <1>0, <3>1, <4>3, RenamedOrderly
      <4>7. ~Mentions(def, f.id, f.old)
        BY <1>0, <3>1, <4>3, NoSelfRoute DEF Mentions
      <4>8. Renaming(def', g)
        BY <3>1, <3>3, <4>2, <4>3, <4>5, <4>6, <4>7 DEF Renaming
      <4>9. ASSUME rewrites = {} PROVE UnderWay(def', "write", g)
        <5>1. f.old \in Name
          BY <1>0, <4>3, DocsAre
        <5>2. Renamed(def, f.id, f.old, f.data.name) = Written(def, f.id, Key, f.data)
          BY <1>0, <4>3, <4>5, <4>9, <5>1, AllRewritten
        <5>3. g.id \in Here(def') /\ Orderly(Written(def', g.id, g.keys, g.data))
          BY <3>1, <3>3, <4>3, <4>6, <5>2
        <5>. QED BY <3>3, <3>6, <5>3 DEF UnderWay
      <4>. QED BY <3>3, <3>6, <4>2, <4>8, <4>9 DEF UnderWay
    <3>7. f.victim = 0 => RouteChange(def, f) \/ NameChange(def, f)
      BY <3>1 DEF UnderWay
    <3>8. (rewrites # {} => UnderWay(def', "rewrite", g)) /\ (rewrites = {} => UnderWay(def', "write", g))
      BY <3>4, <3>5, <3>6, <3>7
    <3>9. Throw(h) => OneAtATime'
      BY <2>1, <3>1, Thrown
    <3>10. Go(h, "rewrite", g) /\ UnderWay(def', "rewrite", g) => OneAtATime'
      BY <2>1, Onward
    <3>11. Go(h, "write", g) /\ UnderWay(def', "write", g) => OneAtATime'
      BY <2>1, Onward
    <3>. QED BY <3>2, <3>8, <3>9, <3>10, <3>11
  <2>6. CASE Rewrite(h)
    <3>1. PICK t \in f.rewrites :
             /\ def' = IF t.id \in Existing THEN [def EXCEPT ![t.id].from = t.from, ![t.id].to = t.to] ELSE def
             /\ LET left == f.rewrites \ {t}
                IN  \/ left # {} /\ Go(h, "rewrite", [f EXCEPT !.rewrites = left])
                    \/ left = {} /\ f.accepted /\ Go(h, "write", [f EXCEPT !.rewrites = {}])
                    \/ left = {} /\ ~f.accepted /\ Throw(h)
      BY <2>6 DEF Rewrite
    <3>2. f.victim = 0 /\ Renaming(def, f)
      BY <2>1, <2>6 DEF Rewrite, UnderWay
    <3>. DEFINE left == f.rewrites \ {t}
                new == f.data.name
                E == Stored(def, t)
                g == [f EXCEPT !.rewrites = left]
    <3>3. f.id \in Here(def) /\ f.old \in Name /\ new \in Name /\ f.old # new
          /\ ~Mentions(def, f.id, f.old) /\ t \in Rewritten(Docs(def), f.old, new) /\ f.accepted
          /\ f.rewrites = Rewritten(Docs(def), f.old, new)
      BY <1>0, <3>2, DocsAre DEF Renaming
    <3>4. f.id \in Here(def) /\ f.old \in Name /\ f.data.name \in Name /\ f.old # f.data.name
          /\ ~Mentions(def, f.id, f.old) /\ t \in Rewritten(Docs(def), f.old, f.data.name) /\ def \in Documents
      BY <1>0, <3>3
    <3>5. /\ t.id \in Here(def)
          /\ E \in Documents /\ E[f.id] = def[f.id] /\ Here(E) = Here(def)
          /\ Rewritten(Docs(E), f.old, f.data.name) = Rewritten(Docs(def), f.old, f.data.name) \ {t}
          /\ Renamed(E, f.id, f.old, f.data.name) = Renamed(def, f.id, f.old, f.data.name)
      <4>. DEFINE i == f.id
                  o == f.old
      <4>1. i \in Here(def) /\ o \in Name /\ new \in Name /\ o # new
            /\ ~Mentions(def, i, o) /\ t \in Rewritten(Docs(def), o, new) /\ def \in Documents
        BY <3>4
      <4>2. /\ t.id \in Here(def)
            /\ E \in Documents /\ E[i] = def[i] /\ Here(E) = Here(def)
            /\ Rewritten(Docs(E), o, new) = Rewritten(Docs(def), o, new) \ {t}
            /\ Renamed(E, i, o, new) = Renamed(def, i, o, new)
        <5>. HIDE DEF i, o, new, f
        <5>. QED BY <4>1, RewriteEffect
      <4>. HIDE DEF E
      <4>. QED BY <4>2 DEF i, o, new
    <3>15. def' = E
      BY <1>0, <3>1, <3>5 DEF Stored
    <3>6. /\ g.id = f.id /\ g.keys = f.keys /\ g.data = f.data /\ g.old = f.old
          /\ g.victim = f.victim /\ g.rewrites = left /\ g.accepted = f.accepted
      BY <1>0, FrameFields
    <3>7. \/ left # {} /\ Go(h, "rewrite", g)
          \/ left = {} /\ Go(h, "write", g)
      BY <3>1, <3>3
    <3>. HIDE DEF E, g, new
    <3>8. /\ E[f.id] = def[f.id] /\ Here(E) = Here(def)
          /\ Rewritten(Docs(E), f.old, new) = Rewritten(Docs(def), f.old, new) \ {t}
          /\ Renamed(E, f.id, f.old, new) = Renamed(def, f.id, f.old, new)
      BY <3>5 DEF new
    <3>9. left = Rewritten(Docs(E), f.old, new)
      BY <3>3, <3>8
    <3>. HIDE DEF left
    <3>10. Renaming(E, g)
      <4>1. ~Mentions(E, f.id, f.old)
        BY <3>3, <3>8 DEF Mentions
      <4>. QED BY <3>2, <3>6, <3>8, <3>9, <4>1 DEF Renaming, new
    <3>11. UnderWay(E, "rewrite", g)
      BY <3>2, <3>6, <3>10 DEF UnderWay
    <3>12. ASSUME left = {} PROVE UnderWay(E, "write", g)
      <4>1. /\ f.id \in Here(E) /\ f.data.from = E[f.id].from /\ f.data.to = E[f.id].to /\ f.keys = Key
            /\ Orderly(Renamed(E, f.id, f.old, f.data.name)) /\ Rewritten(Docs(E), f.old, f.data.name) = {}
        BY <3>2, <3>8, <3>9, <3>12 DEF Renaming, new
      <4>2. Renamed(E, f.id, f.old, f.data.name) = Written(E, f.id, Key, f.data)
        <5>1. E \in Documents /\ f.id \in Here(E) /\ f.old \in Name /\ f.data \in TaskDef /\ f.data.name \in Name
          BY <1>0, <3>4, <3>5, <4>1
        <5>. HIDE DEF f
        <5>. QED BY <4>1, <5>1, AllRewritten
      <4>3. g.id \in Here(E) /\ Orderly(Written(E, g.id, g.keys, g.data))
        BY <3>6, <4>1, <4>2
      <4>. QED BY <3>2, <3>6, <4>3 DEF UnderWay
    <3>13. Go(h, "rewrite", g) => OneAtATime'
      BY <2>1, <3>15, <3>11, Onward
    <3>14. left = {} /\ Go(h, "write", g) => OneAtATime'
      BY <2>1, <3>15, <3>12, Onward
    <3>. QED BY <3>7, <3>13, <3>14
  <2>7. CASE Write(h)
    <3>. DEFINE E == Written(def, f.id, f.keys, f.data)
    <3>1. pc[h] = "write" /\ UnderWay(def, "write", f)
      BY <2>1, <2>7 DEF Write
    <3>2. CASE f.victim = 0
      <4>1. f.id \in Here(def) /\ Orderly(E)
        BY <3>1, <3>2 DEF UnderWay
      <4>2. def' = E /\ Go(h, "idle", f)
        BY <1>0, <2>7, <3>2, <4>1 DEF Write, Written
      <4>. HIDE DEF E
      <4>3. Orderly(def')
        BY <4>1, <4>2
      <4>. QED BY <2>1, <4>2, <4>3, Answered
    <3>3. CASE f.victim # 0
      <4>. DEFINE u == Update(f.id, f.keys, f.data)
                  name == def[f.victim].name
      <4>1. Unlinking(def, f) /\ Orderly(def)
        BY <3>1, <3>3 DEF UnderWay
      <4>2. u.id = f.id /\ u.keys = f.keys /\ u.data = f.data
        BY DEF Update
      <4>3. u \in Unlinks(Docs(def), name) /\ f.unlinks = Unlinks(Docs(def), name) \ {u} /\ f.victim \in Here(def)
        BY <4>1 DEF Unlinking, Left
      <4>. HIDE DEF u
      <4>4. /\ f.id \in Here(def) /\ Unlinked(def, E, name)
            /\ Unlinks(Docs(E), name) = Unlinks(Docs(def), name) \ {u}
        BY <1>0, <4>1, <4>2, <4>3, OneUnlinked
      <4>5. def' = E /\ Go(h, "unlink", f)
        BY <1>0, <2>7, <3>3, <4>4 DEF Write, Written
      <4>. HIDE DEF E
      <4>6. E[f.victim].name = name /\ f.victim \in Here(E) /\ Orderly(E)
        BY <4>3, <4>4 DEF Unlinked, Here
      <4>7. f.unlinks = Left(E, f)
        BY <4>3, <4>4, <4>6 DEF Left
      <4>8. UnderWay(def', "unlink", f)
        BY <4>5, <4>6, <4>7 DEF UnderWay
      <4>. QED BY <2>1, <4>5, <4>8, Onward
    <3>. QED BY <3>2, <3>3
  <2>8. CASE FindVictim(h)
    <3>1. pc[h] = "delete" /\ def' = def /\ Orderly(def)
      BY <2>1, <2>8 DEF FindVictim, UnderWay
    <3>2. CASE f.victim \notin Existing
      BY <2>1, <2>8, <3>1, <3>2, Thrown DEF FindVictim
    <3>3. CASE f.victim \in Existing
      <4>. DEFINE g == [f EXCEPT !.old = def[f.victim].name]
      <4>1. Go(h, "references", g)
        BY <2>8, <3>3 DEF FindVictim
      <4>2. g.old = def[f.victim].name /\ g.victim = f.victim
        BY <1>0, FrameFields
      <4>. HIDE DEF g
      <4>3. UnderWay(def', "references", g)
        BY <1>0, <3>1, <3>3, <4>2 DEF UnderWay
      <4>. QED BY <2>1, <4>1, <4>3, Onward
    <3>. QED BY <3>2, <3>3
  <2>9. CASE ListReferences(h)
    <3>1. pc[h] = "references" /\ def' = def /\ Orderly(def) /\ f.victim \in Here(def) /\ f.old = def[f.victim].name
      BY <2>1, <2>9 DEF ListReferences, UnderWay
    <3>. DEFINE U == Unlinks(Docs(def), f.old)
                g == [f EXCEPT !.unlinks = U]
    <3>2. Go(h, "unlink", g)
      BY <1>0, <2>9 DEF ListReferences
    <3>3. g.victim = f.victim /\ g.unlinks = U
      BY <1>0, FrameFields
    <3>. HIDE DEF g
    <3>4. UnderWay(def', "unlink", g)
      BY <3>1, <3>3 DEF UnderWay, Left
    <3>. QED BY <2>1, <3>2, <3>4, Onward
  <2>10. CASE Unlink(h)
    <3>1. pc[h] = "unlink" /\ def' = def /\ Orderly(def) /\ f.victim \in Here(def) /\ f.unlinks = Left(def, f)
      BY <2>1, <2>10 DEF Unlink, UnderWay
    <3>2. CASE f.unlinks = {}
      <4>1. Go(h, "remove", f)
        BY <2>10, <3>2 DEF Unlink
      <4>2. UnderWay(def', "remove", f)
        BY <3>1, <3>2 DEF UnderWay
      <4>. QED BY <2>1, <4>1, <4>2, Onward
    <3>3. CASE f.unlinks # {}
      <4>1. PICK u \in f.unlinks : Go(h, "find", [f EXCEPT !.unlinks = f.unlinks \ {u}, !.id = u.id,
                                                           !.keys = u.keys, !.data = u.data])
        BY <2>10, <3>3 DEF Unlink
      <4>. DEFINE g == [f EXCEPT !.unlinks = f.unlinks \ {u}, !.id = u.id, !.keys = u.keys, !.data = u.data]
      <4>2. g.id = u.id /\ g.keys = u.keys /\ g.data = u.data /\ g.victim = f.victim /\ g.unlinks = f.unlinks \ {u}
        BY <1>0, FrameFields
      <4>3. Go(h, "find", g)
        BY <4>1
      <4>. HIDE DEF g
      <4>4. Update(u.id, u.keys, u.data) = u
        <5>1. PICK d \in Here(def) : \/ u = UnlinkTo(def, d, def[f.victim].name)
                                     \/ u = UnlinkFrom(def, d, def[f.victim].name)
          BY <1>0, <3>1, UnlinksAre DEF Left
        <5>. QED BY <5>1 DEF Update, UnlinkTo, UnlinkFrom
      <4>5. g.victim # 0
        BY <3>1, <4>2, NoZero DEF Here
      <4>6. Unlinking(def, g)
        BY <3>1, <4>2, <4>4 DEF Unlinking, Left
      <4>7. UnderWay(def', "find", g)
        BY <3>1, <4>5, <4>6 DEF UnderWay
      <4>. QED BY <2>1, <4>3, <4>7, Onward
    <3>. QED BY <3>2, <3>3
  <2>11. CASE Remove(h)
    <3>1. Orderly(def) /\ f.victim \in Here(def) /\ Left(def, f) = {}
      BY <2>1, <2>11 DEF Remove, UnderWay
    <3>2. Orderly([def EXCEPT ![f.victim] = NoDef])
      BY <1>0, <3>1, OneTaskLess DEF Left
    <3>3. Orderly(def')
      BY <2>11, <3>2 DEF Remove
    <3>. QED BY <2>1, <2>11, <3>3, Answered DEF Remove
  <2>12. CASE CreateJob(h)
    <3>1. Orderly(def')
      BY <2>1, <2>12 DEF CreateJob, UnderWay
    <3>. QED BY <2>1, <2>12, <3>1, Answered DEF CreateJob
  <2>. QED BY <1>3, <2>2, <2>3, <2>4, <2>5, <2>6, <2>7, <2>8, <2>9, <2>10, <2>11, <2>12 DEF Handle
<1>. QED BY <1>2, <1>3

LEMMA OrderStep == TypeInv /\ OrderInv /\ [Next]_vars => OrderInv'
<1>. SUFFICES ASSUME TypeInv, OrderInv, [Next]_vars, history' = {} PROVE OneAtATime'
  BY DEF OrderInv
<1>1. CASE Users
  BY <1>1, UsersOrder
<1>2. CASE \E h \in Handler : Handle(h)
  BY <1>2, HandleOrder
<1>3. CASE UNCHANGED vars
  <2>1. OneAtATime
    BY <1>3 DEF vars, OrderInv
  <2>2. UNCHANGED <<def, sent, pc, frame>>
    BY <1>3 DEF vars
  <2>. QED BY <2>1, <2>2 DEF OneAtATime, Idle
<1>. QED BY <1>1, <1>2, <1>3 DEF Next

\* EditsKeepOrder, for any definitions and names and however many requests one after the
\* other: what the designer offers, and the service does with it, step by step.
THEOREM EditsInOrder == Spec => []EditsKeepOrder
<1>1. Spec => []TypeInv
  BY InitTypes, TypesStep, PTL DEF Spec
<1>2. Spec => []OrderInv
  BY <1>1, InitOrder, OrderStep, PTL DEF Spec
<1>. QED BY <1>1, <1>2, OrderImplied, PTL
=============================================================================
