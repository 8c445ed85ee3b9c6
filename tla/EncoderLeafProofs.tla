------------------------- MODULE EncoderLeafProofs -------------------------
(***************************************************************************)
(* The leaves of a JSON value, for values of any shape and depth, and the  *)
(* paths that lead to them.                                                *)
(*                                                                         *)
(* Leaves and the walk of Get are recursive functions.  That they are what *)
(* their definitions say (LeavesDef, GetDef), and what is so of all their  *)
(* values, is shown by taking a counterexample of the least depth.         *)
(***************************************************************************)
EXTENDS EncoderProofs, FiniteSetTheorems

-----------------------------------------------------------------------------
(***************************************************************************)
(* Least elements                                                          *)
(***************************************************************************)

\* A set of numbers that is not empty has a least one.
LEMMA LeastNumber ==
  ASSUME NEW S \in SUBSET Nat, S # {}
  PROVE  \E x \in S : \A y \in S : x <= y
<1>1. PICK x \in S : \A y \in S : ~(<<y, x>> \in OpToRel(<, Nat))
  BY WFMin, NatLessThanWellFounded
<1>2. \A y \in S : ~(y < x)
  BY <1>1 DEF OpToRel
<1>3. \A y \in S : x <= y
  BY <1>2
<1> QED
  BY <1>3

\* A set that has a place whenever it has all those that are less deep has every place.
LEMMA ByDepth ==
  ASSUME NEW P,
         \A n \in Places : (\A c \in Places : Depth[c.value] < Depth[n.value] => c \in P) => n \in P
  PROVE  \A n \in Places : n \in P
<1> SUFFICES ASSUME \E n \in Places : n \notin P
             PROVE  FALSE
  OBVIOUS
<1> DEFINE Bad == {n \in Places : n \notin P}
           Depths == {Depth[n.value] : n \in Bad}
<1>1. \A n \in Places : n.value \in Values /\ Depth[n.value] \in Nat
  BY ValuesAssumption DEF Places
<1>2. Depths \in SUBSET Nat /\ Depths # {}
  BY <1>1
<1>3. PICK d \in Depths : \A e \in Depths : d <= e
  BY <1>2, LeastNumber
<1>4. PICK n \in Bad : d = Depth[n.value]
  BY <1>3
<1>5. \A c \in Places : Depth[c.value] < Depth[n.value] => c \in P
  <2> SUFFICES ASSUME NEW c \in Places, Depth[c.value] < Depth[n.value], c \notin P
               PROVE  FALSE
    OBVIOUS
  <2>1. Depth[c.value] \in Depths
    OBVIOUS
  <2>2. d <= Depth[c.value]
    BY <1>3, <2>1
  <2>3. d \in Nat /\ Depth[c.value] \in Nat /\ Depth[c.value] < d
    BY <1>1, <1>4
  <2> QED
    BY <2>2, <2>3
<1> QED
  BY <1>4, <1>5

-----------------------------------------------------------------------------
(***************************************************************************)
(* Places and their leaves                                                 *)
(***************************************************************************)

\* A place, from its parts.
LEMMA PlaceType ==
  ASSUME NEW name \in Seq(STRING), NEW k \in Seq(STRING), NEW v \in Values
  PROVE  /\ Place(name, k, v) \in Places
         /\ Place(name, k, v).name = name
         /\ Place(name, k, v).key = k
         /\ Place(name, k, v).value = v
  BY DEF Place, Places

\* The parts of a place.
LEMMA PlaceParts ==
  ASSUME NEW n \in Places
  PROVE  n.name \in Seq(STRING) /\ n.key \in Seq(STRING) /\ n.value \in Values
  BY DEF Places

\* What can be said of a field of an object.
LEMMA ObjectParts ==
  ASSUME NEW v \in Values, KindOf[v] = "object", NEW k \in DOMAIN FieldsOf[v]
  PROVE  k \in Seq(STRING) /\ FieldsOf[v][k] \in Values /\ Depth[FieldsOf[v][k]] < Depth[v]
  BY ValuesAssumption

\* And of an element, with its index.
LEMMA ArrayParts ==
  ASSUME NEW v \in Values, KindOf[v] = "array", NEW i \in DOMAIN ElementsOf[v]
  PROVE  /\ ElementsOf[v][i] \in Values /\ Depth[ElementsOf[v][i]] < Depth[v]
         /\ Index(i - 1) \in Seq(STRING)
<1>1. ElementsOf[v] \in Seq(Values) /\ Depth[ElementsOf[v][i]] < Depth[v] /\ Numeral[i - 1] \in STRING
  BY ValuesAssumption
<1>2. \A s \in STRING : <<s>> \in Seq(STRING)
  OBVIOUS
<1> QED
  BY <1>1, <1>2 DEF Index

\* What is below a place is less deep.
LEMMA BelowType ==
  ASSUME NEW n \in Places, ~IsLeaf(n.value), NEW dots, NEW c \in Below(n, dots)
  PROVE  c \in Places /\ Depth[c.value] < Depth[n.value]
<1>1. n.name \in Seq(STRING) /\ n.value \in Values
  BY PlaceParts
<1>2. CASE KindOf[n.value] = "object"
  <2>1. PICK k \in DOMAIN FieldsOf[n.value] : c = Place(n.name \o k, k, FieldsOf[n.value][k])
    BY <1>2 DEF Below, Keys
  <2>2. k \in Seq(STRING) /\ FieldsOf[n.value][k] \in Values /\ Depth[FieldsOf[n.value][k]] < Depth[n.value]
    BY <1>1, <1>2, ObjectParts
  <2> DEFINE name == n.name \o k
             w == FieldsOf[n.value][k]
  <2>3. name \in Seq(STRING) /\ k \in Seq(STRING) /\ w \in Values /\ c = Place(name, k, w)
    BY <1>1, <2>1, <2>2
  <2> HIDE DEF name, w
  <2>4. c \in Places /\ c.value = w
    BY <2>3, PlaceType
  <2> QED
    BY <2>2, <2>4 DEF w
<1>3. CASE KindOf[n.value] # "object"
  <2>1. KindOf[n.value] = "array"
    BY <1>3 DEF IsLeaf
  <2>2. PICK i \in DOMAIN ElementsOf[n.value] :
          c = Place(n.name \o Index(i - 1), <<>>, ElementsOf[n.value][i])
    BY <1>3 DEF Below, Objects
  <2>3. /\ ElementsOf[n.value][i] \in Values /\ Depth[ElementsOf[n.value][i]] < Depth[n.value]
        /\ Index(i - 1) \in Seq(STRING)
    BY <1>1, <2>1, ArrayParts
  <2> DEFINE name == n.name \o Index(i - 1)
             w == ElementsOf[n.value][i]
             k == <<>>
  <2>4. name \in Seq(STRING) /\ k \in Seq(STRING) /\ w \in Values /\ c = Place(name, k, w)
    BY <1>1, <2>2, <2>3
  <2> HIDE DEF name, w, k
  <2>5. c \in Places /\ c.value = w
    BY <2>4, PlaceType
  <2> QED
    BY <2>3, <2>5 DEF w
<1> QED
  BY <1>2, <1>3

\* The body of the function in Leaves.
LeavesFrom(f, n, dots) == IF IsLeaf(n.value) THEN {n} ELSE UNION {f[c] : c \in Below(n, dots)}

\* It only looks at what is below.
LEMMA OnlyBelow ==
  ASSUME NEW f, NEW g, NEW dots, NEW n \in Places,
         ~IsLeaf(n.value) => \A c \in Below(n, dots) : f[c] = g[c]
  PROVE  LeavesFrom(f, n, dots) = LeavesFrom(g, n, dots)
  BY DEF LeavesFrom

\* f is the function for all places less deep than d.
Solves(f, d, dots) == f = [n \in {m \in Places : Depth[m.value] < d} |-> LeavesFrom(f, n, dots)]

\* Its value at one place.
LEMMA SolvesAt ==
  ASSUME NEW f, NEW d, NEW dots, Solves(f, d, dots), NEW n \in Places, Depth[n.value] < d
  PROVE  f[n] = LeavesFrom(f, n, dots)
<1> DEFINE D == {m \in Places : Depth[m.value] < d}
<1>1. n \in D
  OBVIOUS
<1>2. f = [m \in D |-> LeavesFrom(f, m, dots)]
  BY DEF Solves
<1> HIDE DEF D
<1>3. \A h, F : h = [m \in D |-> F[m]] => h[n] = F[n]
  BY <1>1
<1> QED
  BY <1>1, <1>2, Zenon

\* Two of them agree where they are defined.
LEMMA SolutionsAgree ==
  ASSUME NEW f, NEW g, NEW d \in Nat, NEW e \in Nat, NEW dots, Solves(f, d, dots), Solves(g, e, dots)
  PROVE  \A n \in Places : Depth[n.value] < d /\ Depth[n.value] < e => f[n] = g[n]
<1> DEFINE P == {n \in Places : Depth[n.value] < d /\ Depth[n.value] < e => f[n] = g[n]}
<1>1. ASSUME NEW n \in Places, \A c \in Places : Depth[c.value] < Depth[n.value] => c \in P
      PROVE  n \in P
  <2> SUFFICES ASSUME Depth[n.value] < d, Depth[n.value] < e
               PROVE  f[n] = g[n]
    BY <1>1
  <2>1. ASSUME ~IsLeaf(n.value), NEW c \in Below(n, dots)
        PROVE  f[c] = g[c]
    <3>1. c \in Places /\ Depth[c.value] < Depth[n.value]
      BY <2>1, BelowType
    <3>2. Depth[c.value] \in Nat /\ Depth[n.value] \in Nat
      BY <3>1, PlaceParts, ValuesAssumption
    <3>3. c \in P
      BY <1>1, <3>1
    <3> QED
      BY <3>1, <3>2, <3>3
  <2>2. LeavesFrom(f, n, dots) = LeavesFrom(g, n, dots)
    BY <2>1, OnlyBelow
  <2> QED
    BY <2>2, SolvesAt
<1> HIDE DEF P
<1>2. \A n \in Places : n \in P
  BY <1>1, ByDepth
<1> QED
  BY <1>2 DEF P

\* There is one for every depth.
LEMMA SolutionsExist ==
  ASSUME NEW dots
  PROVE  \A d \in Nat : \E f : Solves(f, d, dots)
<1> DEFINE Bad == {d \in Nat : ~(\E f : Solves(f, d, dots))}
<1> SUFFICES ASSUME Bad # {} PROVE FALSE
  OBVIOUS
<1>1. PICK d \in Bad : \A e \in Bad : d <= e
  BY LeastNumber
<1>2. d # 0
  <2> SUFFICES ASSUME d = 0 PROVE FALSE
    OBVIOUS
  <2>1. {m \in Places : Depth[m.value] < 0} = {}
    BY PlaceParts, ValuesAssumption
  <2> DEFINE f == [n \in {} |-> {}]
  <2>2. f = [n \in {m \in Places : Depth[m.value] < 0} |-> LeavesFrom(f, n, dots)]
    BY <2>1
  <2> QED
    BY <2>2 DEF Solves
<1>3. d - 1 \in Nat /\ d - 1 \notin Bad
  BY <1>1, <1>2
<1>4. PICK f : Solves(f, d - 1, dots)
  BY <1>3
<1> DEFINE g == [n \in {m \in Places : Depth[m.value] < d} |-> LeavesFrom(f, n, dots)]
<1>5. ASSUME NEW n \in Places, Depth[n.value] < d
      PROVE  LeavesFrom(f, n, dots) = LeavesFrom(g, n, dots)
  <2>1. ASSUME ~IsLeaf(n.value), NEW c \in Below(n, dots)
        PROVE  f[c] = g[c]
    <3>1. c \in Places /\ Depth[c.value] < Depth[n.value]
      BY <2>1, BelowType
    <3>2. Depth[c.value] \in Nat /\ Depth[n.value] \in Nat
      BY <3>1, PlaceParts, ValuesAssumption
    <3>3. Depth[c.value] < d - 1 /\ Depth[c.value] < d
      BY <1>1, <1>5, <3>2, <3>1
    <3>4. f[c] = LeavesFrom(f, c, dots)
      BY <1>4, <3>1, <3>3, SolvesAt
    <3> QED
      BY <3>1, <3>3, <3>4
  <2> QED
    BY <2>1, OnlyBelow
<1>6. g = [n \in {m \in Places : Depth[m.value] < d} |-> LeavesFrom(g, n, dots)]
  BY <1>5
<1> QED
  BY <1>1, <1>6 DEF Solves

\* Leaves is what its definition says.
LEMMA LeavesDef ==
  ASSUME NEW dots, NEW n \in Places
  PROVE  Leaves(dots)[n] = LeavesFrom(Leaves(dots), n, dots)
<1> DEFINE S(d) == CHOOSE f : Solves(f, d, dots)
           D(m) == Depth[m.value] + 1
           h == [m \in Places |-> S(D(m))[m]]
<1>1. \A m \in Places : D(m) \in Nat /\ Depth[m.value] \in Nat
  BY PlaceParts, ValuesAssumption
<1>2. \A d \in Nat : Solves(S(d), d, dots)
  BY SolutionsExist
<1> HIDE DEF S
<1>3. ASSUME NEW m \in Places
      PROVE  h[m] = LeavesFrom(h, m, dots)
  <2>1. Solves(S(D(m)), D(m), dots) /\ Depth[m.value] < D(m)
    BY <1>1, <1>2
  <2>2. h[m] = LeavesFrom(S(D(m)), m, dots)
    BY <2>1, SolvesAt
  <2>3. ASSUME ~IsLeaf(m.value), NEW c \in Below(m, dots)
        PROVE  S(D(m))[c] = h[c]
    <3>1. c \in Places /\ Depth[c.value] < Depth[m.value]
      BY <2>3, BelowType
    <3>2. Depth[c.value] < D(m) /\ Depth[c.value] < D(c) /\ D(c) \in Nat /\ D(m) \in Nat
      BY <1>1, <3>1
    <3>3. S(D(m))[c] = S(D(c))[c]
      BY <1>2, <3>1, <3>2, SolutionsAgree
    <3> QED
      BY <3>1, <3>3
  <2>4. LeavesFrom(S(D(m)), m, dots) = LeavesFrom(h, m, dots)
    BY <2>3, OnlyBelow
  <2> QED
    BY <2>2, <2>4
<1>4. h = [m \in Places |-> LeavesFrom(h, m, dots)]
  BY <1>3
<1> HIDE DEF h
<1>5. \E f : f = [m \in Places |-> IF IsLeaf(m.value) THEN {m} ELSE UNION {f[c] : c \in Below(m, dots)}]
  BY <1>4, Zenon DEF LeavesFrom
<1>6. Leaves(dots) = [m \in Places |-> IF IsLeaf(m.value) THEN {m}
                                        ELSE UNION {Leaves(dots)[c] : c \in Below(m, dots)}]
  BY <1>5, Zenon DEF Leaves
<1>7. Leaves(dots) = [m \in Places |-> LeavesFrom(Leaves(dots), m, dots)]
  BY <1>6, Zenon DEF LeavesFrom
<1> QED
  BY <1>7, Zenon

\* A leaf is its only leaf.
LEMMA LeavesOfLeaf ==
  ASSUME NEW dots, NEW n \in Places, IsLeaf(n.value)
  PROVE  \A l : l \in Leaves(dots)[n] <=> l = n
<1>1. Leaves(dots)[n] = {n}
  BY LeavesDef, Zenon DEF LeavesFrom
<1> QED
  BY <1>1

\* A place that is no leaf has the leaves of what is below.
LEMMA LeavesBelow ==
  ASSUME NEW dots, NEW n \in Places, ~IsLeaf(n.value)
  PROVE  \A l : l \in Leaves(dots)[n] <=> \E c \in Below(n, dots) : l \in Leaves(dots)[c]
<1>1. Leaves(dots)[n] = UNION {Leaves(dots)[c] : c \in Below(n, dots)}
  BY LeavesDef, Zenon DEF LeavesFrom
<1> QED
  BY <1>1

\* Leaves are places where there is something to write.
LEMMA LeavesType ==
  ASSUME NEW dots, NEW n \in Places, NEW l \in Leaves(dots)[n]
  PROVE  l \in Places /\ IsLeaf(l.value)
<1> DEFINE P == {m \in Places : \A k \in Leaves(dots)[m] : k \in Places /\ IsLeaf(k.value)}
<1>1. ASSUME NEW m \in Places, \A c \in Places : Depth[c.value] < Depth[m.value] => c \in P
      PROVE  m \in P
  <2>1. CASE IsLeaf(m.value)
    <3>1. \A k \in Leaves(dots)[m] : k = m
      BY <2>1, LeavesOfLeaf
    <3> QED
      BY <2>1, <3>1
  <2>2. CASE ~IsLeaf(m.value)
    <3>1. \A c \in Below(m, dots) : c \in P
      BY <1>1, <2>2, BelowType
    <3>2. \A k \in Leaves(dots)[m] : \E c \in Below(m, dots) : k \in Leaves(dots)[c]
      BY <2>2, LeavesBelow
    <3> QED
      BY <3>1, <3>2
  <2> QED
    BY <2>1, <2>2
<1> HIDE DEF P
<1>2. n \in P
  BY <1>1, ByDepth
<1> QED
  BY <1>2 DEF P

\* There are no fewer with dots than without.
LEMMA DotsAdd ==
  ASSUME NEW n \in Places
  PROVE  Leaves(FALSE)[n] \subseteq Leaves(TRUE)[n]
<1> DEFINE P == {m \in Places : Leaves(FALSE)[m] \subseteq Leaves(TRUE)[m]}
<1>1. ASSUME NEW m \in Places, \A c \in Places : Depth[c.value] < Depth[m.value] => c \in P
      PROVE  m \in P
  <2>1. CASE IsLeaf(m.value)
    <3>1. (\A k \in Leaves(FALSE)[m] : k = m) /\ m \in Leaves(TRUE)[m]
      BY <2>1, LeavesOfLeaf
    <3> QED
      BY <3>1
  <2>2. CASE ~IsLeaf(m.value)
    <3>1. \A c \in Below(m, FALSE) : c \in P
      BY <1>1, <2>2, BelowType
    <3>2. Below(m, FALSE) \subseteq Below(m, TRUE)
      BY DEF Below, Keys
    <3>3. \A k \in Leaves(FALSE)[m] : \E c \in Below(m, FALSE) : k \in Leaves(FALSE)[c]
      BY <2>2, LeavesBelow
    <3>4. \A c \in Below(m, TRUE) : Leaves(TRUE)[c] \subseteq Leaves(TRUE)[m]
      BY <2>2, LeavesBelow
    <3> QED
      BY <3>1, <3>2, <3>3, <3>4
  <2> QED
    BY <2>1, <2>2
<1> HIDE DEF P
<1>2. n \in P
  BY <1>1, ByDepth
<1> QED
  BY <1>2 DEF P

-----------------------------------------------------------------------------
(***************************************************************************)
(* Paths                                                                   *)
(***************************************************************************)

\* The body of the function in Get, and that function for the first n pieces.
WalkStep(w, fields, path, i) ==
  IF i > 1 THEN Child(w[i - 1], path[i])
  ELSE IF <<path[i]>> \in DOMAIN fields THEN fields[<<path[i]>>]
  ELSE Null

Walks(w, n, fields, path) == w = [i \in 1..n |-> WalkStep(w, fields, path, i)]

\* Its value for one piece.
LEMMA WalksAt ==
  ASSUME NEW w, NEW n \in Nat, NEW fields, NEW path, Walks(w, n, fields, path), NEW i \in 1..n
  PROVE  w[i] = WalkStep(w, fields, path, i)
<1>1. \A h, F : h = [j \in 1..n |-> F[j]] => h[i] = F[i]
  OBVIOUS
<1> QED
  BY <1>1, Zenon DEF Walks

\* Two of them agree as far as the paths do.
LEMMA WalksAgree ==
  ASSUME NEW v, NEW w, NEW m \in Nat, NEW n \in Nat, m <= n, NEW fields, NEW path, NEW longer,
         \A i \in 1..m : path[i] = longer[i],
         Walks(v, m, fields, path), Walks(w, n, fields, longer)
  PROVE  \A i \in 1..m : v[i] = w[i]
<1> DEFINE Bad == {i \in 1..m : v[i] # w[i]}
<1> SUFFICES ASSUME Bad # {} PROVE FALSE
  OBVIOUS
<1>1. Bad \in SUBSET Nat
  OBVIOUS
<1>2. PICK i \in Bad : \A j \in Bad : i <= j
  BY <1>1, LeastNumber
<1>3. i \in 1..m /\ i \in 1..n
  BY <1>2
<1>4. v[i] = WalkStep(v, fields, path, i) /\ w[i] = WalkStep(w, fields, longer, i)
  BY <1>3, WalksAt
<1>5. i > 1 => v[i - 1] = w[i - 1]
  <2> SUFFICES ASSUME i > 1, v[i - 1] # w[i - 1]
               PROVE  FALSE
    OBVIOUS
  <2>1. i - 1 \in Bad
    BY <1>3
  <2> QED
    BY <1>2, <1>3, <2>1
<1>6. path[i] = longer[i]
  BY <1>3
<1>7. WalkStep(v, fields, path, i) = WalkStep(w, fields, longer, i)
  BY <1>5, <1>6 DEF WalkStep
<1> QED
  BY <1>2, <1>4, <1>7

\* There is one for every number of pieces.
LEMMA WalksExist ==
  ASSUME NEW fields, NEW path
  PROVE  \A n \in Nat : \E w : Walks(w, n, fields, path)
<1> DEFINE Bad == {n \in Nat : ~(\E w : Walks(w, n, fields, path))}
<1> SUFFICES ASSUME Bad # {} PROVE FALSE
  OBVIOUS
<1>1. PICK n \in Bad : \A m \in Bad : n <= m
  BY LeastNumber
<1>2. n # 0
  <2> SUFFICES ASSUME n = 0 PROVE FALSE
    OBVIOUS
  <2> DEFINE w == [i \in {} |-> {}]
  <2>1. 1..0 = {}
    OBVIOUS
  <2>2. w = [i \in 1..0 |-> WalkStep(w, fields, path, i)]
    BY <2>1
  <2> QED
    BY <2>2 DEF Walks
<1>3. n - 1 \in Nat /\ n - 1 \notin Bad
  BY <1>1, <1>2
<1>4. PICK v : Walks(v, n - 1, fields, path)
  BY <1>3
<1> DEFINE w == [i \in 1..n |-> WalkStep(v, fields, path, i)]
<1>5. ASSUME NEW i \in 1..n
      PROVE  WalkStep(v, fields, path, i) = WalkStep(w, fields, path, i)
  <2>1. CASE i > 1
    <3>1. i - 1 \in 1..(n - 1) /\ i - 1 \in 1..n
      BY <2>1
    <3>2. v[i - 1] = WalkStep(v, fields, path, i - 1)
      BY <1>3, <1>4, <3>1, WalksAt
    <3>3. v[i - 1] = w[i - 1]
      BY <3>1, <3>2
    <3> QED
      BY <2>1, <3>3 DEF WalkStep
  <2>2. CASE ~(i > 1)
    BY <2>2 DEF WalkStep
  <2> QED
    BY <2>1, <2>2
<1>6. w = [i \in 1..n |-> WalkStep(w, fields, path, i)]
  BY <1>5
<1> QED
  BY <1>1, <1>6 DEF Walks

\* Get is what its definition says.
LEMMA GetDef ==
  ASSUME NEW fields, NEW T, NEW path \in Seq(T), path # <<>>
  PROVE  \E w : Walks(w, Len(path), fields, path) /\ Get(fields, path) = w[Len(path)]
<1>1. Len(path) \in Nat /\ DOMAIN path = 1..Len(path)
  OBVIOUS
<1>2. \E w : Walks(w, Len(path), fields, path)
  BY <1>1, WalksExist
<1> DEFINE walk == CHOOSE w : Walks(w, Len(path), fields, path)
<1>3. Walks(walk, Len(path), fields, path)
  BY <1>2
<1>4. Get(fields, path) = walk[Len(path)]
  BY <1>1, Zenon DEF Get, Walks, WalkStep
<1> QED
  BY <1>3, <1>4

\* A path of one piece is a field.
LEMMA GetField ==
  ASSUME NEW fields, NEW x \in STRING, <<x>> \in DOMAIN fields
  PROVE  Get(fields, <<x>>) = fields[<<x>>]
<1>1. <<x>> \in Seq(STRING) /\ <<x>> # <<>> /\ Len(<<x>>) = 1 /\ <<x>>[1] = x
  OBVIOUS
<1>2. PICK w : Walks(w, 1, fields, <<x>>) /\ Get(fields, <<x>>) = w[1]
  BY <1>1, GetDef
<1>3. w[1] = WalkStep(w, fields, <<x>>, 1)
  BY <1>2, WalksAt
<1> QED
  BY <1>1, <1>2, <1>3 DEF WalkStep

\* With another piece a path leads to a part of what it led to.
LEMMA GetPart ==
  ASSUME NEW fields, NEW T, NEW p \in Seq(T), p # <<>>, NEW x \in T
  PROVE  Get(fields, p \o <<x>>) = Child(Get(fields, p), x)
<1> DEFINE q == p \o <<x>>
           n == Len(p)
<1>1. <<x>> \in Seq(T) /\ Len(<<x>>) = 1 /\ <<x>>[1] = x
  OBVIOUS
<1>2. n \in Nat /\ n >= 1
  OBVIOUS
<1>3. q \in Seq(T) /\ Len(q) = n + 1
  BY <1>1
<1>4. q[n + 1] = x
  BY <1>1, <1>2
<1>5. \A i \in 1..n : p[i] = q[i]
  BY <1>1, <1>2
<1>6. q # <<>>
  BY <1>2, <1>3
<1> HIDE DEF q
<1>7. PICK v : Walks(v, n, fields, p) /\ Get(fields, p) = v[n]
  BY GetDef
<1> HIDE DEF n
<1>8. PICK w : Walks(w, n + 1, fields, q) /\ Get(fields, q) = w[n + 1]
  BY <1>3, <1>6, GetDef
<1>9. n <= n + 1 /\ n + 1 \in Nat /\ n \in 1..n /\ n + 1 \in 1..(n + 1) /\ n + 1 > 1 /\ (n + 1) - 1 = n
  BY <1>2
<1>10. \A i \in 1..n : v[i] = w[i]
  BY <1>2, <1>5, <1>7, <1>8, <1>9, WalksAgree
<1>11. w[n + 1] = WalkStep(w, fields, q, n + 1)
  BY <1>8, <1>9, WalksAt
<1>12. WalkStep(w, fields, q, n + 1) = Child(w[n], x)
  BY <1>4, <1>9 DEF WalkStep
<1> QED
  BY <1>7, <1>8, <1>9, <1>10, <1>11, <1>12, Zenon DEF q

\* A step of a path, by the key of a field or by the index of an element.
LEMMA ChildOfObject ==
  ASSUME NEW v \in Values, KindOf[v] = "object", NEW x, <<x>> \in DOMAIN FieldsOf[v]
  PROVE  Child(v, x) = FieldsOf[v][<<x>>]
  BY EncoderAssumption DEF Child

\* Indices are written differently, so that each leads to its element.
LEMMA ChildOfArray ==
  ASSUME NEW v \in Values, KindOf[v] = "array", NEW i \in DOMAIN ElementsOf[v]
  PROVE  Child(v, Numeral[i - 1]) = ElementsOf[v][i]
<1> DEFINE x == Numeral[i - 1]
<1>1. \A j \in DOMAIN ElementsOf[v] : <<x>> = Index(j - 1) => j = i
  BY ValuesAssumption DEF Index
<1>2. <<x>> = Index(i - 1)
  BY DEF Index
<1>3. (CHOOSE j \in DOMAIN ElementsOf[v] : <<x>> = Index(j - 1)) = i
  BY <1>1, <1>2
<1>4. v # Null /\ ~(KindOf[v] = "object")
  BY EncoderAssumption
<1> HIDE DEF x
<1> QED
  BY <1>2, <1>3, <1>4 DEF Child, x

\* A key without dots is its only piece.
LEMMA OnePiece ==
  ASSUME NEW k \in Seq(STRING), Len(k) = 1
  PROVE  k[1] \in STRING /\ k = <<k[1]>>
<1>1. k[1] \in STRING
  OBVIOUS
<1>2. k = <<k[1]>>
  OBVIOUS
<1> QED
  BY <1>1, <1>2

\* From where its name is its path, on to what is below and has no dot in its key.
LEMMA PathGoesOn ==
  ASSUME NEW fields, NEW n \in Places, ~IsLeaf(n.value), n.name # <<>>, Get(fields, n.name) = n.value,
         NEW c \in Below(n, FALSE)
  PROVE  c.name # <<>> /\ Get(fields, c.name) = c.value
<1>1. n.name \in Seq(STRING) /\ n.value \in Values
  BY PlaceParts
<1>2. ASSUME NEW x \in STRING, c.name = n.name \o <<x>>, c.value = Child(n.value, x)
      PROVE  c.name # <<>> /\ Get(fields, c.name) = c.value
  <2>1. n.name \o <<x>> # <<>>
    BY <1>1
  <2> QED
    BY <1>1, <1>2, <2>1, GetPart
<1>3. CASE KindOf[n.value] = "object"
  <2>1. PICK k \in DOMAIN FieldsOf[n.value] :
          Len(k) = 1 /\ c = Place(n.name \o k, k, FieldsOf[n.value][k])
    BY <1>3 DEF Below, Keys
  <2>2. k \in Seq(STRING)
    BY <1>1, <1>3, ObjectParts
  <2>3. k[1] \in STRING /\ k = <<k[1]>>
    BY <2>1, <2>2, OnePiece
  <2>4. c.name = n.name \o <<k[1]>> /\ c.value = FieldsOf[n.value][<<k[1]>>]
    BY <2>1, <2>3 DEF Place
  <2>5. c.value = Child(n.value, k[1])
    BY <1>1, <1>3, <2>1, <2>3, <2>4, ChildOfObject
  <2> QED
    BY <1>2, <2>3, <2>4, <2>5
<1>4. CASE KindOf[n.value] # "object"
  <2>1. KindOf[n.value] = "array"
    BY <1>4 DEF IsLeaf
  <2>2. PICK i \in DOMAIN ElementsOf[n.value] :
          c = Place(n.name \o Index(i - 1), <<>>, ElementsOf[n.value][i])
    BY <1>4 DEF Below, Objects
  <2>3. Numeral[i - 1] \in STRING
    BY <1>1, <2>1, ValuesAssumption
  <2>4. c.name = n.name \o <<Numeral[i - 1]>> /\ c.value = ElementsOf[n.value][i]
    BY <2>2 DEF Place, Index
  <2>5. c.value = Child(n.value, Numeral[i - 1])
    BY <1>1, <2>1, <2>4, ChildOfArray
  <2> QED
    BY <1>2, <2>3, <2>4, <2>5
<1> QED
  BY <1>3, <1>4

\* So names are paths all the way to the leaves.
LEMMA PathsLead ==
  ASSUME NEW fields, NEW n \in Places, n.name # <<>>, Get(fields, n.name) = n.value,
         NEW l \in Leaves(FALSE)[n]
  PROVE  Get(fields, l.name) = l.value
<1> DEFINE P == {m \in Places : m.name # <<>> /\ Get(fields, m.name) = m.value =>
                   \A k \in Leaves(FALSE)[m] : Get(fields, k.name) = k.value}
<1>1. ASSUME NEW m \in Places, \A c \in Places : Depth[c.value] < Depth[m.value] => c \in P
      PROVE  m \in P
  <2> SUFFICES ASSUME m.name # <<>>, Get(fields, m.name) = m.value, NEW k \in Leaves(FALSE)[m]
               PROVE  Get(fields, k.name) = k.value
    OBVIOUS
  <2>1. CASE IsLeaf(m.value)
    <3>1. k = m
      BY <2>1, LeavesOfLeaf
    <3> QED
      BY <3>1
  <2>2. CASE ~IsLeaf(m.value)
    <3>1. PICK c \in Below(m, FALSE) : k \in Leaves(FALSE)[c]
      BY <2>2, LeavesBelow
    <3>2. c \in P
      BY <1>1, <2>2, <3>1, BelowType
    <3>3. c.name # <<>> /\ Get(fields, c.name) = c.value
      BY <2>2, <3>1, PathGoesOn
    <3> QED
      BY <3>1, <3>2, <3>3
  <2> QED
    BY <2>1, <2>2
<1> HIDE DEF P
<1>2. n \in P
  BY <1>1, ByDepth
<1> QED
  BY <1>2 DEF P

=============================================================================
