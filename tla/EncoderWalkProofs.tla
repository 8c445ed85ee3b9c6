------------------------- MODULE EncoderWalkProofs -------------------------
(***************************************************************************)
(* Proofs about Encoder, for documents of any shape and depth: that an     *)
(* entity has all that the message and its headers have something for and  *)
(* nothing else, whatever the order of the walk, that names are paths, and *)
(* which messages panic.                                                   *)
(*                                                                         *)
(* All of them speak of the leaves of the message, which the walk never    *)
(* sees as a whole.  What is inductive is that every leaf is handled, or   *)
(* in what the stack still has, or in the headers that come next; and that *)
(* what is in the entity comes from one of them.                           *)
(***************************************************************************)
EXTENDS EncoderLeafProofs, FiniteSetTheorems

\* What can be on the stack: keys and values, under a name.
FieldMaps == UNION {[D -> Values] : D \in SUBSET Seq(STRING)}
AllFrames == [prefix : Seq(STRING), fields : FieldMaps]

\* The leaves the walk has not come to.
PendingOf(s) == UNION {LeavesIn(s[i], TRUE) : i \in DOMAIN s}

MixedLeaf(l) == KindOf[l.value] = "array" /\ IsMixed(l.value)

WritesOf(ph, l) == Writes(ph, l.name, l.key, l.value)

\* The walk has been at l, and went on.
Handled(ph, l) == DOMAIN WritesOf(ph, l) \subseteq DOMAIN entity /\ ~MixedLeaf(l)

\* The walk will be at l, now or in its second part.
ToCome(ph, l) ==
  \/ phase = ph /\ l \in PendingOf(stack)
  \/ phase = "message" /\ ph = "headers"

WalkType ==
  /\ InputType
  /\ message \in Messages
  /\ stack \in Seq(AllFrames)
  /\ phase \in {"message", "headers", "panicked", "done"}
  /\ phase = "headers" => includeHeaders
  /\ phase = "done" => stack = <<>>
  /\ phase = "panicked" => stack # <<>> /\ DOMAIN Head(stack).fields # {}

\* The walk is nowhere but in the message, or in the headers.
Inside == phase \in {"message", "headers"} => PendingOf(stack) \subseteq LeavesOf(phase)

\* Every leaf has been handled or is still to come.
Covered ==
  phase # "panicked" =>
    \A ph \in ToSet(Phases) : \A l \in LeavesOf(ph) : Handled(ph, l) \/ ToCome(ph, l)

\* What is in the entity has been written by a leaf.
Sourced ==
  \A slot \in DOMAIN entity :
    \E ph \in ToSet(Phases) : \E l \in LeavesOf(ph) :
      slot \in DOMAIN WritesOf(ph, l) /\ WritesOf(ph, l)[slot] = entity[slot]

\* There was a reason to panic.
Blamed == phase = "panicked" => \E l \in LeavesOf("message") : MixedLeaf(l)

WalkInv == WalkType /\ Inside /\ Covered /\ Sourced /\ Blamed

-----------------------------------------------------------------------------
(***************************************************************************)
(* About what is left on the stack                                         *)
(***************************************************************************)

\* Fields have keys and values.
LEMMA FieldMapParts ==
  ASSUME NEW f \in FieldMaps, NEW k \in DOMAIN f
  PROVE  k \in Seq(STRING) /\ f[k] \in Values
<1>1. PICK D \in SUBSET Seq(STRING) : f \in [D -> Values]
  BY DEF FieldMaps
<1> QED
  BY <1>1

\* An object without fields.
LEMMA NoFields ==
  <<>> \in FieldMaps /\ DOMAIN <<>> = {}
<1>1. <<>> \in [{} -> Values] /\ {} \in SUBSET Seq(STRING)
  OBVIOUS
<1> QED
  BY <1>1 DEF FieldMaps

\* Some of the fields of an object.
LEMMA RestrictMap ==
  ASSUME NEW f \in FieldMaps, NEW S
  PROVE  /\ Restrict(f, DOMAIN f \ S) \in FieldMaps
         /\ DOMAIN Restrict(f, DOMAIN f \ S) = DOMAIN f \ S
         /\ \A k \in DOMAIN f \ S : Restrict(f, DOMAIN f \ S)[k] = f[k]
<1>1. PICK D \in SUBSET Seq(STRING) : f \in [D -> Values]
  BY DEF FieldMaps
<1>2. [k \in DOMAIN f \ S |-> f[k]] \in [D \ S -> Values] /\ D \ S \in SUBSET Seq(STRING)
  BY <1>1
<1>3. [k \in DOMAIN f \ S |-> f[k]] \in FieldMaps
  BY <1>2 DEF FieldMaps
<1> QED
  BY <1>3 DEF Restrict

\* The fields of an object in a document.
LEMMA ObjectMap ==
  ASSUME NEW v \in Values, KindOf[v] = "object"
  PROVE  FieldsOf[v] \in FieldMaps
<1>1. FieldsOf[v] \in [DOMAIN FieldsOf[v] -> Values] /\ DOMAIN FieldsOf[v] \in SUBSET Seq(STRING)
  BY ValuesAssumption
<1> QED
  BY <1>1 DEF FieldMaps

\* What a frame is made of.
LEMMA FrameParts ==
  ASSUME NEW prefix, NEW fields
  PROVE  /\ Frame(prefix, fields).prefix = prefix
         /\ Frame(prefix, fields).fields = fields
         /\ prefix \in Seq(STRING) /\ fields \in FieldMaps => Frame(prefix, fields) \in AllFrames
  BY DEF Frame, AllFrames

\* What a frame on the stack is made of.
LEMMA FrameType ==
  ASSUME NEW f \in AllFrames
  PROVE  f.prefix \in Seq(STRING) /\ f.fields \in FieldMaps
  BY DEF AllFrames

\* All keys count.
LEMMA InFrame ==
  ASSUME NEW f
  PROVE  \A l : l \in LeavesIn(f, TRUE) <=>
           \E k \in DOMAIN f.fields : l \in Leaves(TRUE)[Place(f.prefix \o k, k, f.fields[k])]
<1>1. Keys(f.fields, TRUE) = DOMAIN f.fields
  BY DEF Keys
<1>2. LeavesIn(f, TRUE) = UNION {Leaves(TRUE)[Place(f.prefix \o k, k, f.fields[k])] : k \in DOMAIN f.fields}
  BY <1>1, Zenon DEF LeavesIn
<1> HIDE DEF LeavesIn
<1> QED
  BY <1>2

Without(f, k) == Frame(f.prefix, Restrict(f.fields, DOMAIN f.fields \ {k}))
LeavesOfField(f, k) == Leaves(TRUE)[Place(f.prefix \o k, k, f.fields[k])]

\* A field is taken from an object.
LEMMA TakeField ==
  ASSUME NEW f \in AllFrames, NEW k \in DOMAIN f.fields, NEW g,
         g = Without(f, k)
  PROVE  /\ g \in AllFrames
         /\ \A l : l \in LeavesIn(f, TRUE) <=>
                     \/ l \in LeavesOfField(f, k)
                     \/ l \in LeavesIn(g, TRUE)
<1> DEFINE m == f.fields
           r == Restrict(m, DOMAIN m \ {k})
<1>1. f.prefix \in Seq(STRING) /\ m \in FieldMaps
  BY DEF AllFrames
<1>2. r \in FieldMaps /\ DOMAIN r = DOMAIN m \ {k} /\ \A j \in DOMAIN m \ {k} : r[j] = m[j]
  BY <1>1, RestrictMap
<1>3. g = Frame(f.prefix, r)
  BY DEF Without
<1>4. g \in AllFrames /\ g.prefix = f.prefix /\ g.fields = r
  BY <1>1, <1>2, <1>3, FrameParts
<1> HIDE DEF m, r
<1> DEFINE L(j, v) == Leaves(TRUE)[Place(f.prefix \o j, j, v)]
<1>5. \A l : l \in LeavesIn(f, TRUE) <=> \E j \in DOMAIN m : l \in L(j, m[j])
  BY InFrame DEF m
<1>6. \A l : l \in LeavesIn(g, TRUE) <=> \E j \in DOMAIN r : l \in L(j, r[j])
  BY <1>4, InFrame
<1>7. k \in DOMAIN m /\ L(k, m[k]) = LeavesOfField(f, k)
  BY DEF m, LeavesOfField
<1> HIDE DEF L
<1>8. \A l : (\E j \in DOMAIN m : l \in L(j, m[j])) <=> l \in L(k, m[k]) \/ \E j \in DOMAIN r : l \in L(j, r[j])
  BY <1>2, <1>7
<1> QED
  BY <1>4, <1>5, <1>6, <1>7, <1>8

\* What is left is in one of the frames.
LEMMA InPending ==
  ASSUME NEW s
  PROVE  \A l : l \in PendingOf(s) <=> \E i \in DOMAIN s : l \in LeavesIn(s[i], TRUE)
  BY DEF PendingOf

\* On an empty stack nothing is left.
LEMMA PendingNone ==
  PendingOf(<<>>) = {}
  BY DEF PendingOf

\* In a stack of one frame that of the frame is left.
LEMMA PendingOne ==
  ASSUME NEW f
  PROVE  \A l : l \in PendingOf(<<f>>) <=> l \in LeavesIn(f, TRUE)
<1>1. DOMAIN <<f>> = {1} /\ <<f>>[1] = f
  OBVIOUS
<1> QED
  BY <1>1, InPending

\* Frames that are put on the stack add to what is left.
LEMMA PendingConcat ==
  ASSUME NEW s \in Seq(AllFrames), NEW t \in Seq(AllFrames)
  PROVE  \A l : l \in PendingOf(s \o t) <=> l \in PendingOf(s) \/ l \in PendingOf(t)
<1> DEFINE m == Len(s)
           n == Len(t)
           u == s \o t
<1>1. m \in Nat /\ n \in Nat /\ DOMAIN s = 1..m /\ DOMAIN t = 1..n
  OBVIOUS
<1>2. DOMAIN u = 1..(m + n)
  OBVIOUS
<1>3. \A i \in 1..m : i \in 1..(m + n) /\ u[i] = s[i]
  OBVIOUS
<1>4. \A i \in 1..n : m + i \in 1..(m + n) /\ u[m + i] = t[i]
  OBVIOUS
<1>5. \A i \in 1..(m + n) : i \in 1..m \/ (i - m \in 1..n /\ m + (i - m) = i)
  BY <1>1
<1> HIDE DEF m, n, u
<1>6. \A l : (\E i \in DOMAIN u : l \in LeavesIn(u[i], TRUE)) <=>
               \/ \E i \in DOMAIN s : l \in LeavesIn(s[i], TRUE)
               \/ \E i \in DOMAIN t : l \in LeavesIn(t[i], TRUE)
  BY <1>1, <1>2, <1>3, <1>4, <1>5
<1> QED
  BY <1>6, InPending DEF u

\* What is left is in the innermost object or in those around it.
LEMMA PendingHead ==
  ASSUME NEW s \in Seq(AllFrames), s # <<>>
  PROVE  /\ Head(s) \in AllFrames /\ Tail(s) \in Seq(AllFrames)
         /\ \A l : l \in PendingOf(s) <=> l \in LeavesIn(Head(s), TRUE) \/ l \in PendingOf(Tail(s))
<1>1. Head(s) \in AllFrames /\ Tail(s) \in Seq(AllFrames) /\ <<Head(s)>> \in Seq(AllFrames)
  OBVIOUS
<1>2. s = <<Head(s)>> \o Tail(s)
  OBVIOUS
<1> QED
  BY <1>1, <1>2, PendingConcat, PendingOne, Zenon

-----------------------------------------------------------------------------
(***************************************************************************)
(* About one visit                                                         *)
(***************************************************************************)

\* The leaves of an object are those in its fields.
LEMMA LeavesOfObject ==
  ASSUME NEW n \in Places, KindOf[n.value] = "object"
  PROVE  \A l : l \in Leaves(TRUE)[n] <=> l \in LeavesIn(Frame(n.name, FieldsOf[n.value]), TRUE)
<1> DEFINE m == FieldsOf[n.value]
           f == Frame(n.name, m)
<1>1. ~IsLeaf(n.value)
  BY DEF IsLeaf
<1>2. f.prefix = n.name /\ f.fields = m
  BY FrameParts
<1>3. \A c : c \in Below(n, TRUE) <=> \E k \in DOMAIN m : c = Place(n.name \o k, k, m[k])
  BY DEF Below, Keys
<1> HIDE DEF f, m
<1>4. \A l : l \in LeavesIn(f, TRUE) <=> \E k \in DOMAIN m : l \in Leaves(TRUE)[Place(n.name \o k, k, m[k])]
  BY <1>2, InFrame
<1>5. \A l : l \in Leaves(TRUE)[n] <=> \E c \in Below(n, TRUE) : l \in Leaves(TRUE)[c]
  BY <1>1, LeavesBelow
<1>6. \A l : l \in Leaves(TRUE)[n] <=> l \in LeavesIn(f, TRUE)
  BY <1>3, <1>4, <1>5
<1> QED
  BY <1>6 DEF f, m

\* What Frames puts on the stack.
LEMMA FramesType ==
  ASSUME NEW prefix \in Seq(STRING), NEW k \in Seq(STRING), NEW v \in Values, KindOf[v] = "array"
  PROVE  /\ Frames(prefix, k, v) \in Seq(AllFrames)
         /\ DOMAIN Frames(prefix, k, v) = DOMAIN ElementsOf[v]
         /\ \A i \in Objects(v) :
              Frames(prefix, k, v)[i] = Frame(prefix \o k \o Index(i - 1), FieldsOf[ElementsOf[v][i]])
         /\ \A i \in DOMAIN ElementsOf[v] \ Objects(v) : DOMAIN Frames(prefix, k, v)[i].fields = {}
<1> DEFINE E == ElementsOf[v]
           name(i) == prefix \o k \o Index(i - 1)
           fields(i) == IF i \in Objects(v) THEN FieldsOf[E[i]] ELSE <<>>
           F(i) == Frame(name(i), fields(i))
           s == [i \in DOMAIN E |-> F(i)]
<1>1. E \in Seq(Values)
  BY ValuesAssumption
<1>2. ASSUME NEW i \in DOMAIN E
      PROVE  name(i) \in Seq(STRING) /\ fields(i) \in FieldMaps
  <2>1. Index(i - 1) \in Seq(STRING) /\ E[i] \in Values
    BY <1>2, ArrayParts
  <2>2. name(i) \in Seq(STRING)
    BY <2>1
  <2>3. CASE i \in Objects(v)
    <3>1. KindOf[E[i]] = "object"
      BY <2>3 DEF Objects
    <3>2. FieldsOf[E[i]] \in FieldMaps
      BY <2>1, <3>1, ObjectMap
    <3> QED
      BY <2>2, <2>3, <3>2
  <2>4. CASE i \notin Objects(v)
    BY <2>2, <2>4, NoFields
  <2> QED
    BY <2>3, <2>4
<1> HIDE DEF name, fields
<1>3. \A i \in DOMAIN E : F(i) \in AllFrames /\ F(i).fields = fields(i)
  BY <1>2, FrameParts
<1> HIDE DEF F
<1>4. s \in Seq(AllFrames) /\ DOMAIN s = DOMAIN E /\ \A i \in DOMAIN E : s[i] = F(i)
  BY <1>1, <1>3
<1>5. Frames(prefix, k, v) = s
  BY Zenon DEF Frames, F, fields, name
<1> HIDE DEF s
<1>6. \A i \in Objects(v) : i \in DOMAIN E /\ F(i) = Frame(prefix \o k \o Index(i - 1), FieldsOf[E[i]])
  BY DEF Objects, F, fields, name
<1>7. \A i \in DOMAIN E \ Objects(v) : DOMAIN F(i).fields = {}
  BY <1>3, NoFields DEF fields
<1> QED
  BY <1>4, <1>5, <1>6, <1>7

\* The leaves of an array are those in the objects in it, if it is not one itself.
LEMMA LeavesOfArray ==
  ASSUME NEW prefix \in Seq(STRING), NEW k \in Seq(STRING), NEW v \in Values, KindOf[v] = "array",
         ~IsWhole(v), NEW n, n = Place(prefix \o k, k, v)
  PROVE  \A l : l \in Leaves(TRUE)[n] <=> l \in PendingOf(Frames(prefix, k, v))
<1> DEFINE E == ElementsOf[v]
           q == Frames(prefix, k, v)
           name(i) == prefix \o k \o Index(i - 1)
           c(i) == Place(name(i), <<>>, E[i])
<1>1. n \in Places /\ n.name = prefix \o k /\ n.value = v
  <2> DEFINE m == prefix \o k
  <2>1. m \in Seq(STRING)
    OBVIOUS
  <2> HIDE DEF m
  <2>2. Place(m, k, v) \in Places /\ Place(m, k, v).name = m /\ Place(m, k, v).value = v
    BY <2>1 DEF Place, Places
  <2> QED
    BY <2>2, Zenon DEF m
<1>2. ~IsLeaf(n.value)
  BY <1>1 DEF IsLeaf
<1>3. \A d : d \in Below(n, TRUE) <=> \E i \in Objects(v) : d = c(i)
  BY <1>1 DEF Below
<1>4. \A l : l \in Leaves(TRUE)[n] <=> \E i \in Objects(v) : l \in Leaves(TRUE)[c(i)]
  <2> HIDE DEF c
  <2> QED
    BY <1>1, <1>2, <1>3, LeavesBelow
<1>5. /\ DOMAIN q = DOMAIN E
      /\ \A i \in Objects(v) : q[i] = Frame(name(i), FieldsOf[E[i]])
      /\ \A i \in DOMAIN E \ Objects(v) : DOMAIN q[i].fields = {}
  BY FramesType
<1> HIDE DEF q, name
<1>6. ASSUME NEW i \in Objects(v)
      PROVE  i \in DOMAIN E /\ \A l : l \in Leaves(TRUE)[c(i)] <=> l \in LeavesIn(q[i], TRUE)
  <2>1. i \in DOMAIN E /\ KindOf[E[i]] = "object"
    BY DEF Objects
  <2>2. Index(i - 1) \in Seq(STRING) /\ E[i] \in Values
    BY <2>1, ArrayParts
  <2>3. name(i) \in Seq(STRING)
    BY <2>2 DEF name
  <2>4. c(i) \in Places /\ c(i).name = name(i) /\ c(i).value = E[i]
    <3>1. <<>> \in Seq(STRING)
      OBVIOUS
    <3> HIDE DEF E, name
    <3> QED
      BY <2>2, <2>3, <3>1 DEF Place, Places
  <2> HIDE DEF c, E
  <2> QED
    BY <1>5, <2>1, <2>4, LeavesOfObject
<1>7. ASSUME NEW i \in DOMAIN E \ Objects(v), NEW l
      PROVE  l \notin LeavesIn(q[i], TRUE)
  BY <1>5, InFrame
<1>8. \A l : l \in PendingOf(q) <=> \E i \in DOMAIN E : l \in LeavesIn(q[i], TRUE)
  BY <1>5, InPending
<1> HIDE DEF c, E
<1> QED
  BY <1>4, <1>6, <1>7, <1>8 DEF q

\* In an array that is written as a whole there are no objects.
LEMMA WholeArray ==
  ASSUME NEW prefix \in Seq(STRING), NEW k \in Seq(STRING), NEW v \in Values, KindOf[v] = "array",
         IsWhole(v), ~IsMixed(v)
  PROVE  \A l : l \notin PendingOf(Frames(prefix, k, v))
<1> DEFINE q == Frames(prefix, k, v)
<1>1. Objects(v) = {}
  BY DEF Objects, IsMixed, IsWhole, Scalars
<1>2. \A i \in DOMAIN q : DOMAIN q[i].fields = {}
  BY <1>1, FramesType
<1> HIDE DEF q
<1>3. \A i \in DOMAIN q : \A l : l \notin LeavesIn(q[i], TRUE)
  BY <1>2, InFrame
<1> QED
  BY <1>3, InPending DEF q

\* What a visit of the place n does: it panics, it writes a leaf and leaves the
\* others to come, or it only opens what is there.
Panics(n) ==
  /\ MixedLeaf(n) /\ n \in PendingOf(stack)
  /\ phase' = "panicked" /\ UNCHANGED <<stack, entity>>

WritesLeaf(n) ==
  /\ ~MixedLeaf(n)
  /\ entity' = Over(WritesOf(phase, n), entity) /\ UNCHANGED phase
  /\ \A l : l \in PendingOf(stack) <=> l = n \/ l \in PendingOf(stack')

Opens ==
  /\ UNCHANGED <<phase, entity>>
  /\ \A l : l \in PendingOf(stack) <=> l \in PendingOf(stack')

\* A visit does one of these, whatever is there.
LEMMA VisitEffect ==
  ASSUME stack \in Seq(AllFrames), stack # <<>>, NEW k \in DOMAIN Head(stack).fields, Visit(k)
  PROVE  stack' \in Seq(AllFrames) /\ \E n \in Places : Panics(n) \/ WritesLeaf(n) \/ Opens
<1> DEFINE top == Head(stack)
           v == top.fields[k]
           name == top.prefix \o k
           n == Place(name, k, v)
           g == [top EXCEPT !.fields = Restrict(@, DOMAIN @ \ {k})]
           left == <<g>> \o Tail(stack)
<1>1. /\ top \in AllFrames /\ Tail(stack) \in Seq(AllFrames)
      /\ \A l : l \in PendingOf(stack) <=> l \in LeavesIn(top, TRUE) \/ l \in PendingOf(Tail(stack))
  BY PendingHead
<1>2. top.prefix \in Seq(STRING) /\ k \in Seq(STRING) /\ v \in Values /\ KindOf[v] \in Kinds
  BY <1>1, FrameType, FieldMapParts, ValuesAssumption
<1>3. n \in Places /\ n.name = name /\ n.key = k /\ n.value = v
  <2>1. name \in Seq(STRING)
    BY <1>2
  <2> HIDE DEF name, v
  <2> QED
    BY <1>2, <2>1 DEF Place, Places
<1>4. g \in AllFrames /\ \A l : l \in LeavesIn(top, TRUE) <=> l \in Leaves(TRUE)[n] \/ l \in LeavesIn(g, TRUE)
  <2> HIDE DEF g
  <2>1. \A f, j, h : f \in AllFrames /\ j \in DOMAIN f.fields /\ h = Without(f, j) =>
          h \in AllFrames /\ \A l : l \in LeavesIn(f, TRUE) <=> l \in LeavesOfField(f, j) \/ l \in LeavesIn(h, TRUE)
    BY TakeField
  <2>2. g = Without(top, k)
    BY <1>1 DEF g, AllFrames, Without, Frame
  <2> HIDE DEF top
  <2>3. g \in AllFrames /\ \A l : l \in LeavesIn(top, TRUE) <=> l \in LeavesOfField(top, k) \/ l \in LeavesIn(g, TRUE)
    BY <1>1, <2>1, <2>2 DEF top
  <2> QED
    BY <2>3 DEF LeavesOfField
<1>5. /\ left \in Seq(AllFrames)
      /\ \A l : l \in PendingOf(left) <=> l \in LeavesIn(g, TRUE) \/ l \in PendingOf(Tail(stack))
  <2> HIDE DEF g
  <2>1. <<g>> \in Seq(AllFrames)
    BY <1>4
  <2>2. left \in Seq(AllFrames)
    BY <1>1, <2>1
  <2>3. \A l : l \in PendingOf(left) <=> l \in PendingOf(<<g>>) \/ l \in PendingOf(Tail(stack))
    BY <1>1, <2>1, PendingConcat
  <2> QED
    BY <2>2, <2>3, PendingOne
<1>6. \A l : l \in PendingOf(stack) <=> l \in Leaves(TRUE)[n] \/ l \in PendingOf(left)
  BY <1>1, <1>4, <1>5, Zenon
<1>7. ASSUME NEW q \in Seq(AllFrames), stack' = q \o left
      PROVE  /\ stack' \in Seq(AllFrames)
             /\ \A l : l \in PendingOf(stack') <=> l \in PendingOf(q) \/ l \in PendingOf(left)
  <2> HIDE DEF left
  <2>1. q \o left \in Seq(AllFrames)
    BY <1>5, <1>7
  <2>2. \A l : l \in PendingOf(q \o left) <=> l \in PendingOf(q) \/ l \in PendingOf(left)
    BY <1>5, <1>7, PendingConcat
  <2> QED
    BY <1>7, <2>1, <2>2, Zenon
<1>8. \/ /\ KindOf[v] = "object"
         /\ stack' = <<Frame(name, FieldsOf[v])>> \o left
         /\ UNCHANGED <<phase, entity>>
      \/ /\ KindOf[v] = "array" /\ ~IsMixed(v)
         /\ stack' = Frames(top.prefix, k, v) \o left
         /\ entity' = IF IsWhole(v) THEN Over(Writes(phase, name, k, v), entity) ELSE entity
         /\ UNCHANGED phase
      \/ /\ KindOf[v] = "array" /\ IsMixed(v)
         /\ phase' = "panicked"
         /\ UNCHANGED <<stack, entity>>
      \/ /\ KindOf[v] \notin {"object", "array"}
         /\ stack' = left
         /\ entity' = Over(Writes(phase, name, k, v), entity)
         /\ UNCHANGED phase
  BY Zenon DEF Visit
<1> HIDE DEF left, g, n, name, v, top
<1>9. WritesOf(phase, n) = Writes(phase, name, k, v) /\ (MixedLeaf(n) <=> KindOf[v] = "array" /\ IsMixed(v))
  BY <1>3, Zenon DEF WritesOf, MixedLeaf
<1>10. CASE KindOf[v] = "object"
  <2> DEFINE f == Frame(name, FieldsOf[v])
             q == <<f>>
  <2>1. name \in Seq(STRING) /\ FieldsOf[v] \in FieldMaps
    BY <1>2, <1>3, <1>10, PlaceParts, ObjectMap
  <2>2. f \in AllFrames
    BY <2>1, FrameParts
  <2>3. \A l : l \in Leaves(TRUE)[n] <=> l \in LeavesIn(f, TRUE)
    BY <1>3, <1>10, LeavesOfObject, Zenon
  <2>4. stack' = q \o left /\ UNCHANGED <<phase, entity>>
    BY <1>8, <1>10
  <2> HIDE DEF f
  <2>5. q \in Seq(AllFrames)
    BY <2>2
  <2>6. \A l : l \in PendingOf(q) <=> l \in LeavesIn(f, TRUE)
    BY PendingOne
  <2> HIDE DEF q
  <2>7. stack' \in Seq(AllFrames) /\ \A l : l \in PendingOf(stack) <=> l \in PendingOf(stack')
    BY <1>6, <1>7, <2>3, <2>4, <2>5, <2>6
  <2> QED
    BY <1>3, <2>4, <2>7 DEF Opens
<1>11. CASE KindOf[v] = "array" /\ ~IsMixed(v)
  <2> DEFINE q == Frames(top.prefix, k, v)
  <2>1. /\ stack' = q \o left /\ UNCHANGED phase
        /\ entity' = IF IsWhole(v) THEN Over(WritesOf(phase, n), entity) ELSE entity
    BY <1>8, <1>9, <1>11
  <2>2. q \in Seq(AllFrames)
    BY <1>2, <1>11, FramesType
  <2>3. CASE IsWhole(v)
    <3>1. \A l : l \notin PendingOf(q)
      BY <1>2, <1>11, <2>3, WholeArray
    <3>2. \A l : l \in Leaves(TRUE)[n] <=> l = n
      BY <1>3, <1>11, <2>3, LeavesOfLeaf DEF IsLeaf
    <3> HIDE DEF q
    <3>3. stack' \in Seq(AllFrames) /\ \A l : l \in PendingOf(stack) <=> l = n \/ l \in PendingOf(stack')
      BY <1>6, <1>7, <2>1, <2>2, <3>1, <3>2
    <3> QED
      BY <1>3, <1>9, <1>11, <2>1, <2>3, <3>3, Zenon DEF WritesLeaf
  <2>4. CASE ~IsWhole(v)
    <3>1. \A l : l \in Leaves(TRUE)[n] <=> l \in PendingOf(q)
      BY <1>2, <1>11, <2>4, LeavesOfArray DEF n, name
    <3> HIDE DEF q
    <3>2. stack' \in Seq(AllFrames) /\ \A l : l \in PendingOf(stack) <=> l \in PendingOf(stack')
      BY <1>6, <1>7, <2>1, <2>2, <3>1
    <3> QED
      BY <1>3, <2>1, <2>4, <3>2 DEF Opens
  <2> QED
    BY <2>3, <2>4
<1>12. CASE KindOf[v] = "array" /\ IsMixed(v)
  <2>1. phase' = "panicked" /\ UNCHANGED <<stack, entity>>
    BY <1>8, <1>12
  <2>2. n \in Leaves(TRUE)[n]
    BY <1>3, <1>12, LeavesOfLeaf DEF IsLeaf, IsMixed
  <2>3. n \in PendingOf(stack)
    BY <1>6, <2>2
  <2> QED
    BY <1>3, <1>9, <1>12, <2>1, <2>3 DEF Panics
<1>13. CASE KindOf[v] \notin {"object", "array"}
  <2>1. stack' = left /\ UNCHANGED phase /\ entity' = Over(WritesOf(phase, n), entity)
    BY <1>8, <1>9, <1>13
  <2>2. \A l : l \in Leaves(TRUE)[n] <=> l = n
    BY <1>3, <1>13, LeavesOfLeaf DEF IsLeaf
  <2>3. \A l : l \in PendingOf(stack) <=> l = n \/ l \in PendingOf(stack')
    BY <1>6, <2>1, <2>2
  <2> QED
    BY <1>3, <1>5, <1>9, <1>13, <2>1, <2>3 DEF WritesLeaf
<1> QED
  BY <1>10, <1>11, <1>12, <1>13

-----------------------------------------------------------------------------
(***************************************************************************)
(* What the arguments give, which stays                                    *)
(***************************************************************************)

\* Nothing writes to the arguments, so what they have something for is always the same.
LEMMA ArgumentsStay ==
  ASSUME UNCHANGED input
  PROVE  /\ Phases' = Phases
         /\ \A ph : LeavesOf(ph)' = LeavesOf(ph)
         /\ \A ph, l : WritesOf(ph, l)' = WritesOf(ph, l)
         /\ \A ph : Root(ph)' = Root(ph)
<1>1. message' = message /\ headers' = headers /\ mappings' = mappings /\ includeHeaders' = includeHeaders
  BY DEF input
<1>2. HeaderFields' = HeaderFields /\ MessageFields' = MessageFields
  BY <1>1 DEF HeaderFields, MessageFields, SelectLastInSeq
<1>3. \A ph : Fields(ph)' = Fields(ph)
  BY <1>2 DEF Fields
<1>4. \A ph : Root(ph)' = Root(ph)
  BY <1>3 DEF Root, Frame
<1>5. \A ph : LeavesOf(ph)' = LeavesOf(ph)
  BY <1>4 DEF LeavesOf
<1>6. \A k : (Mapped(k)' <=> Mapped(k)) /\ Column(k)' = Column(k)
  BY <1>1 DEF Mapped, Column, SelectLastInSeq
<1>7. \A ph, name, k, v : Writes(ph, name, k, v)' = Writes(ph, name, k, v)
  BY <1>3, <1>6 DEF Writes
<1> QED
  BY <1>1, <1>4, <1>5, <1>7 DEF Phases, WritesOf

\* The headers come last, if at all.
LEMMA PhasesAre ==
  ASSUME includeHeaders \in BOOLEAN
  PROVE  /\ Head(Phases) = "message"
         /\ Last(Phases) = IF includeHeaders THEN "headers" ELSE "message"
         /\ ToSet(Phases) = IF includeHeaders THEN {"message", "headers"} ELSE {"message"}
<1>1. CASE includeHeaders
  <2>1. Phases = <<"message", "headers">>
    BY <1>1 DEF Phases
  <2>2. ToSet(Phases) = {"message", "headers"}
    BY <2>1 DEF ToSet
  <2> QED
    BY <1>1, <2>1, <2>2 DEF Last
<1>2. CASE ~includeHeaders
  <2>1. Phases = <<"message">>
    BY <1>2 DEF Phases
  <2>2. ToSet(Phases) = {"message"}
    BY <2>1 DEF ToSet
  <2> QED
    BY <1>2, <2>1, <2>2 DEF Last
<1> QED
  BY <1>1, <1>2

\* The headers are fields, too, and strings.
LEMMA HeaderMap ==
  ASSUME InputType
  PROVE  HeaderFields \in FieldMaps /\ \A k \in DOMAIN HeaderFields : KindOf[HeaderFields[k]] = "string"
<1> DEFINE T == [key : Seq(STRING), value : Strings]
<1>1. headers \in Seq(T)
  BY EncoderAssumption DEF InputType
<1> HIDE DEF T
<1>2. ASSUME NEW k \in DOMAIN HeaderFields
      PROVE  k \in Seq(STRING) /\ HeaderFields[k] \in Values /\ KindOf[HeaderFields[k]] = "string"
  <2>1. PICK h \in ToSet(headers) : h.key = k /\ HeaderFields[k] = h.value
    BY <1>1, <1>2, LastHeader
  <2>2. h \in T
    BY <1>1 DEF ToSet
  <2>3. h.key \in Seq(STRING) /\ h.value \in Strings
    BY <2>2 DEF T
  <2> QED
    BY <2>1, <2>3, Zenon DEF Strings
<1> DEFINE D == {h.key : h \in ToSet(headers)}
<1>3. HeaderFields = [k \in D |-> HeaderFields[k]] /\ DOMAIN HeaderFields = D
  BY DEF HeaderFields
<1> HIDE DEF D
<1>4. HeaderFields \in [D -> Values] /\ D \in SUBSET Seq(STRING)
  BY <1>2, <1>3
<1> QED
  BY <1>2, <1>4 DEF FieldMaps

\* What the walk starts with.
LEMMA RootType ==
  ASSUME InputType, message \in Messages, NEW ph
  PROVE  Root(ph) \in AllFrames /\ Root(ph).fields = Fields(ph)
<1>1. message \in Values
  BY EncoderAssumption
<1>2. MessageFields \in FieldMaps
  BY <1>1, ObjectMap, NoFields DEF MessageFields
<1>3. Fields(ph) \in FieldMaps
  BY <1>2, HeaderMap DEF Fields
<1> DEFINE prefix == IF ph = "headers" THEN <<"kafka_header">> ELSE <<>>
<1>4. prefix \in Seq(STRING)
  <2>1. \A T : \A s \in T : <<s>> \in Seq(T)
    OBVIOUS
  <2>2. \A T : <<>> \in Seq(T)
    OBVIOUS
  <2> QED
    BY <2>1, <2>2, NameAssumption, Zenon
<1> HIDE DEF prefix
<1>5. Root(ph) = Frame(prefix, Fields(ph))
  BY DEF Root, prefix
<1> QED
  BY <1>3, <1>4, <1>5, FrameParts

\* In headers there are only strings, which do not mix.
LEMMA HeadersDoNotMix ==
  ASSUME InputType, message \in Messages, NEW l \in LeavesOf("headers")
  PROVE  ~MixedLeaf(l)
<1> DEFINE f == Root("headers")
<1>1. f \in AllFrames /\ f.fields = HeaderFields
  BY RootType DEF Fields
<1> HIDE DEF f
<1>2. PICK k \in DOMAIN f.fields : l \in Leaves(TRUE)[Place(f.prefix \o k, k, f.fields[k])]
  BY InFrame DEF LeavesOf, f
<1> DEFINE v == f.fields[k]
           name == f.prefix \o k
<1>3. f.prefix \in Seq(STRING) /\ k \in Seq(STRING) /\ v \in Values /\ KindOf[v] = "string"
  BY <1>1, FrameType, FieldMapParts, HeaderMap
<1>4. name \in Seq(STRING)
  BY <1>3
<1> HIDE DEF v, name
<1>5. Place(name, k, v) \in Places /\ Place(name, k, v).value = v
  BY <1>3, <1>4 DEF Place, Places
<1>6. IsLeaf(v)
  BY <1>3 DEF IsLeaf
<1>7. l \in Leaves(TRUE)[Place(name, k, v)]
  BY <1>2, Zenon DEF name, v
<1>8. l = Place(name, k, v)
  BY <1>5, <1>6, <1>7, LeavesOfLeaf
<1> QED
  BY <1>3, <1>5, <1>8 DEF MixedLeaf

\* All of it is left.
LEMMA RootPending ==
  \A ph, l : l \in PendingOf(<<Root(ph)>>) <=> l \in LeavesOf(ph)
  BY PendingOne DEF LeavesOf

\* Leaves are places.
LEMMA LeafType ==
  ASSUME InputType, message \in Messages, NEW ph, NEW l \in LeavesOf(ph)
  PROVE  l \in Places /\ IsLeaf(l.value)
<1> DEFINE f == Root(ph)
<1>1. f \in AllFrames
  BY RootType
<1> HIDE DEF f
<1>2. PICK k \in DOMAIN f.fields : l \in Leaves(TRUE)[Place(f.prefix \o k, k, f.fields[k])]
  BY InFrame DEF LeavesOf, f
<1> DEFINE v == f.fields[k]
           name == f.prefix \o k
<1>3. f.prefix \in Seq(STRING) /\ k \in Seq(STRING) /\ v \in Values
  BY <1>1, FrameType, FieldMapParts
<1>4. name \in Seq(STRING)
  BY <1>3
<1> HIDE DEF v, name
<1>5. Place(name, k, v) \in Places
  BY <1>3, <1>4 DEF Place, Places
<1> QED
  BY <1>2, <1>5, LeavesType DEF name, v

-----------------------------------------------------------------------------
(***************************************************************************)
(* The steps                                                               *)
(***************************************************************************)

\* At the start nothing is written and all is to come.
LEMMA WalkInit ==
  ASSUME Init
  PROVE  WalkInv
<1>1. InputType /\ message \in Messages /\ phase = "message" /\ stack = <<Root("message")>> /\ entity = <<>>
  BY PhasesAre DEF Init, InputType
<1>2. Root("message") \in AllFrames
  BY <1>1, RootType
<1>3. stack \in Seq(AllFrames)
  BY <1>1, <1>2
<1>4. \A l : l \in PendingOf(stack) <=> l \in LeavesOf("message")
  BY <1>1, RootPending
<1>5. ToSet(Phases) \subseteq {"message", "headers"}
  BY <1>1, PhasesAre DEF InputType
<1>6. Covered
  BY <1>1, <1>4, <1>5 DEF Covered, ToCome
<1>7. Inside /\ Sourced /\ Blamed
  BY <1>1, <1>4 DEF Inside, Sourced, Blamed
<1> QED
  BY <1>1, <1>3, <1>6, <1>7 DEF WalkInv, WalkType

\* What is in an entity stays there, although it may be written again.
LEMMA EntityGrows ==
  ASSUME NEW w, NEW e, NEW f, f = Over(w, e)
  PROVE  /\ DOMAIN w \subseteq DOMAIN f /\ DOMAIN e \subseteq DOMAIN f
         /\ \A s \in DOMAIN f : \/ s \in DOMAIN w /\ f[s] = w[s]
                                \/ s \in DOMAIN e /\ f[s] = e[s]
  BY DEF Over

\* A leaf is written.
LEMMA AfterLeaf ==
  ASSUME WalkInv, phase \in {"message", "headers"}, UNCHANGED input,
         NEW n, WritesLeaf(n)
  PROVE  Inside' /\ Covered' /\ Sourced' /\ Blamed'
<1>1. /\ Phases' = Phases
      /\ \A ph : LeavesOf(ph)' = LeavesOf(ph)
      /\ \A ph, l : WritesOf(ph, l)' = WritesOf(ph, l)
  BY ArgumentsStay
<1>2. /\ ~MixedLeaf(n) /\ phase' = phase
      /\ \A l : l \in PendingOf(stack) <=> l = n \/ l \in PendingOf(stack')
  BY DEF WritesLeaf
<1>3. /\ DOMAIN WritesOf(phase, n) \subseteq DOMAIN entity' /\ DOMAIN entity \subseteq DOMAIN entity'
      /\ \A s \in DOMAIN entity' : \/ s \in DOMAIN WritesOf(phase, n) /\ entity'[s] = WritesOf(phase, n)[s]
                                   \/ s \in DOMAIN entity /\ entity'[s] = entity[s]
  BY EntityGrows DEF WritesLeaf
<1>4. \A ph, l : Handled(ph, l)' <=> DOMAIN WritesOf(ph, l) \subseteq DOMAIN entity' /\ ~MixedLeaf(l)
  BY <1>1 DEF Handled, MixedLeaf, IsMixed, IsWhole
<1>5. \A ph, l : ToCome(ph, l)' <=> \/ phase = ph /\ l \in PendingOf(stack')
                                    \/ phase = "message" /\ ph = "headers"
  BY <1>2 DEF ToCome, PendingOf, LeavesIn
<1>6. phase \in ToSet(Phases)
  <2>1. includeHeaders \in BOOLEAN /\ (phase = "headers" => includeHeaders)
    BY DEF WalkInv, WalkType, InputType
  <2> QED
    BY <2>1, PhasesAre
<1>7. n \in LeavesOf(phase)
  BY <1>2 DEF WalkInv, Inside
<1>8. Inside'
  BY <1>1, <1>2 DEF WalkInv, Inside
<1>9. Covered'
  <2>1. ASSUME NEW ph \in ToSet(Phases), NEW l \in LeavesOf(ph)
        PROVE  Handled(ph, l)' \/ ToCome(ph, l)'
    <3>1. Handled(ph, l) \/ ToCome(ph, l)
      BY DEF WalkInv, Covered
    <3>2. CASE Handled(ph, l)
      BY <1>3, <1>4, <3>2 DEF Handled
    <3>3. CASE ToCome(ph, l) /\ ~(ph = phase /\ l = n)
      BY <1>2, <1>5, <3>3 DEF ToCome
    <3>4. CASE ph = phase /\ l = n
      BY <1>2, <1>3, <1>4, <3>4
    <3> QED
      BY <3>1, <3>2, <3>3, <3>4
  <2> QED
    BY <1>1, <2>1 DEF Covered
<1>10. Sourced'
  <2>1. ASSUME NEW slot \in DOMAIN entity'
        PROVE  \E ph \in ToSet(Phases) : \E l \in LeavesOf(ph) :
                 slot \in DOMAIN WritesOf(ph, l) /\ WritesOf(ph, l)[slot] = entity'[slot]
    <3>1. CASE slot \in DOMAIN WritesOf(phase, n) /\ entity'[slot] = WritesOf(phase, n)[slot]
      BY <1>6, <1>7, <3>1
    <3>2. CASE slot \in DOMAIN entity /\ entity'[slot] = entity[slot]
      BY <3>2 DEF WalkInv, Sourced
    <3> QED
      BY <1>3, <3>1, <3>2
  <2> QED
    BY <1>1, <2>1 DEF Sourced
<1>11. Blamed'
  BY <1>2 DEF Blamed
<1> QED
  BY <1>8, <1>9, <1>10, <1>11

\* No leaf is written: the same leaves are left, and the entity is as it was.
LEMMA AfterOpening ==
  ASSUME WalkInv, phase \in {"message", "headers"}, UNCHANGED input, Opens
  PROVE  Inside' /\ Covered' /\ Sourced' /\ Blamed'
<1>1. /\ Phases' = Phases
      /\ \A ph : LeavesOf(ph)' = LeavesOf(ph)
      /\ \A ph, l : WritesOf(ph, l)' = WritesOf(ph, l)
  BY ArgumentsStay
<1>2. entity' = entity /\ phase' = phase /\ \A l : l \in PendingOf(stack) <=> l \in PendingOf(stack')
  BY DEF Opens
<1>3. \A ph, l : Handled(ph, l)' <=> Handled(ph, l)
  BY <1>1, <1>2 DEF Handled, MixedLeaf, IsMixed, IsWhole
<1>4. \A ph, l : ToCome(ph, l)' <=> ToCome(ph, l)
  BY <1>2 DEF ToCome, PendingOf, LeavesIn
<1>5. Inside'
  BY <1>1, <1>2 DEF WalkInv, Inside
<1>6. Covered'
  BY <1>1, <1>2, <1>3, <1>4 DEF WalkInv, Covered
<1>7. Sourced'
  BY <1>1, <1>2 DEF WalkInv, Sourced
<1>8. Blamed'
  BY <1>2 DEF Blamed
<1> QED
  BY <1>5, <1>6, <1>7, <1>8

\* A field is visited.
LEMMA VisitStep ==
  ASSUME WalkInv, VisitField
  PROVE  WalkInv'
<1>1. PICK k \in DOMAIN Head(stack).fields : Visit(k)
  BY DEF VisitField
<1>2. UNCHANGED input /\ phase # "panicked" /\ stack # <<>>
  BY DEF VisitField
<1>3. WalkType
  BY DEF WalkInv
<1>4. phase \in {"message", "headers"} /\ stack \in Seq(AllFrames)
  BY <1>2, <1>3 DEF WalkType
<1>5. InputType' /\ message' = message /\ includeHeaders' = includeHeaders
  BY <1>2, <1>3, FieldsStay DEF WalkType, input
<1>6. stack' \in Seq(AllFrames)
  BY <1>1, <1>2, <1>4, VisitEffect
<1>7. PICK n \in Places : Panics(n) \/ WritesLeaf(n) \/ Opens
  BY <1>1, <1>2, <1>4, VisitEffect
<1>8. CASE WritesLeaf(n) \/ Opens
  <2>1. phase' = phase
    BY <1>8 DEF WritesLeaf, Opens
  <2>2. WalkType'
    BY <1>3, <1>4, <1>5, <1>6, <2>1 DEF WalkType
  <2> QED
    BY <1>2, <1>4, <1>8, <2>2, AfterLeaf, AfterOpening DEF WalkInv
<1>9. CASE Panics(n)
  <2>1. phase' = "panicked" /\ stack' = stack /\ entity' = entity /\ MixedLeaf(n) /\ n \in PendingOf(stack)
    BY <1>9 DEF Panics
  <2>2. WalkType'
    BY <1>1, <1>2, <1>3, <1>5, <1>6, <2>1 DEF WalkType
  <2>3. /\ Phases' = Phases
        /\ \A ph : LeavesOf(ph)' = LeavesOf(ph)
        /\ \A ph, l : WritesOf(ph, l)' = WritesOf(ph, l)
    BY <1>2, ArgumentsStay
  <2>4. n \in LeavesOf(phase)
    BY <1>4, <2>1 DEF WalkInv, Inside
  <2>5. phase = "message"
    BY <1>3, <1>4, <2>1, <2>4, HeadersDoNotMix DEF WalkType
  <2>6. \E l \in LeavesOf("message") : MixedLeaf(l)
    BY <2>1, <2>4, <2>5
  <2>7. \A l : MixedLeaf(l)' <=> MixedLeaf(l)
    BY DEF MixedLeaf, IsMixed, IsWhole
  <2>8. Blamed'
    BY <2>3, <2>6, <2>7 DEF Blamed
  <2>9. Sourced'
    BY <2>1, <2>3 DEF WalkInv, Sourced
  <2> QED
    BY <2>1, <2>2, <2>8, <2>9 DEF WalkInv, Inside, Covered
<1> QED
  BY <1>7, <1>8, <1>9

\* An object without fields is left: it had no leaves.
LEMMA LeaveStep ==
  ASSUME WalkInv, LeaveObject
  PROVE  WalkInv'
<1>1. UNCHANGED input /\ stack # <<>> /\ Head(stack).fields = <<>> /\ stack' = Tail(stack) /\ UNCHANGED <<phase, entity>>
  BY DEF LeaveObject
<1>2. WalkType
  BY DEF WalkInv
<1>3. DOMAIN Head(stack).fields = {}
  BY <1>1, NoFields
<1>4. phase \in {"message", "headers"} /\ stack \in Seq(AllFrames)
  BY <1>1, <1>2, <1>3 DEF WalkType
<1>5. stack' \in Seq(AllFrames) /\ \A l : l \in PendingOf(stack) <=> l \in PendingOf(stack')
  BY <1>1, <1>3, <1>4, PendingHead, InFrame
<1>6. InputType' /\ message' = message /\ includeHeaders' = includeHeaders
  BY <1>1, <1>2, FieldsStay DEF WalkType, input
<1>7. WalkType'
  BY <1>1, <1>2, <1>4, <1>5, <1>6 DEF WalkType
<1>8. Opens
  BY <1>1, <1>5 DEF Opens
<1> QED
  BY <1>1, <1>4, <1>7, <1>8, AfterOpening DEF WalkInv

\* The walk goes on to the headers, or is over: nothing is left behind.
LEMMA PhaseStep ==
  ASSUME WalkInv, NextPhase
  PROVE  WalkInv'
<1>1. UNCHANGED input /\ stack = <<>> /\ phase # "done" /\ entity' = entity
  BY DEF NextPhase
<1>2. WalkType
  BY DEF WalkInv
<1>3. phase \in {"message", "headers"} /\ (phase = "headers" => includeHeaders) /\ includeHeaders \in BOOLEAN
  BY <1>1, <1>2 DEF WalkType, InputType
<1>4. /\ Phases' = Phases
      /\ \A ph : LeavesOf(ph)' = LeavesOf(ph)
      /\ \A ph, l : WritesOf(ph, l)' = WritesOf(ph, l)
      /\ \A ph : Root(ph)' = Root(ph)
  BY <1>1, ArgumentsStay
<1>5. InputType' /\ message' = message /\ includeHeaders' = includeHeaders
  BY <1>1, <1>2, FieldsStay DEF WalkType, input
<1>6. \A ph, l : Handled(ph, l)' <=> Handled(ph, l)
  BY <1>1, <1>4 DEF Handled, MixedLeaf, IsMixed, IsWhole
<1>7. PendingOf(stack) = {}
  BY <1>1, PendingNone
<1>8. ToSet(Phases) = IF includeHeaders THEN {"message", "headers"} ELSE {"message"}
  BY <1>3, PhasesAre
<1>9. Last(Phases) = IF includeHeaders THEN "headers" ELSE "message"
  BY <1>3, PhasesAre
<1>10. \A ph \in ToSet(Phases) : \A l \in LeavesOf(ph) : Handled(ph, l) \/ (phase = "message" /\ ph = "headers")
  BY <1>3, <1>7 DEF WalkInv, Covered, ToCome
<1>11. Sourced'
  BY <1>1, <1>4 DEF WalkInv, Sourced
<1>12. CASE phase # Last(Phases)
  <2>1. phase = "message" /\ includeHeaders
    BY <1>3, <1>9, <1>12
  <2>2. phase' = "headers" /\ stack' = <<Root("headers")>>
    BY <1>4, <1>9, <1>12, <2>1 DEF NextPhase
  <2>3. Root("headers") \in AllFrames
    BY <1>2, RootType DEF WalkType
  <2>4. stack' \in Seq(AllFrames)
    BY <2>2, <2>3
  <2>5. WalkType'
    BY <1>2, <1>5, <2>1, <2>2, <2>4 DEF WalkType
  <2>6. \A l : l \in PendingOf(stack') <=> l \in LeavesOf("headers")
    BY <2>2, RootPending
  <2>7. \A ph, l : ToCome(ph, l)' <=> ph = "headers" /\ l \in PendingOf(stack')
    BY <2>2 DEF ToCome, PendingOf, LeavesIn
  <2>8. Covered'
    BY <1>4, <1>6, <1>8, <1>10, <2>6, <2>7 DEF Covered
  <2>9. Inside'
    BY <1>4, <2>2, <2>6 DEF Inside
  <2> QED
    BY <1>11, <2>2, <2>5, <2>8, <2>9 DEF WalkInv, Blamed
<1>13. CASE phase = Last(Phases)
  <2>1. phase' = "done" /\ stack' = <<>>
    BY <1>1, <1>13 DEF NextPhase
  <2>2. stack' \in Seq(AllFrames)
    BY <2>1
  <2>3. WalkType'
    BY <1>2, <1>5, <2>1, <2>2 DEF WalkType
  <2>4. \A ph \in ToSet(Phases) : \A l \in LeavesOf(ph) : Handled(ph, l)
    BY <1>3, <1>8, <1>9, <1>10, <1>13
  <2>5. Covered'
    BY <1>4, <1>6, <2>4 DEF Covered
  <2> QED
    BY <1>11, <2>1, <2>3, <2>5 DEF WalkInv, Inside, Blamed
<1> QED
  BY <1>12, <1>13

\* Nothing happens.
LEMMA WalkStays ==
  ASSUME WalkInv, UNCHANGED vars
  PROVE  WalkInv'
<1>1. UNCHANGED input /\ phase' = phase /\ stack' = stack /\ entity' = entity
  BY DEF vars
<1>2. /\ Phases' = Phases
      /\ \A ph : LeavesOf(ph)' = LeavesOf(ph)
      /\ \A ph, l : WritesOf(ph, l)' = WritesOf(ph, l)
  BY <1>1, ArgumentsStay
<1>3. InputType' /\ message' = message /\ includeHeaders' = includeHeaders
  BY <1>1, FieldsStay DEF WalkInv, WalkType, input
<1>4. \A ph, l : Handled(ph, l)' <=> Handled(ph, l)
  BY <1>1, <1>2 DEF Handled, MixedLeaf, IsMixed, IsWhole
<1>5. \A ph, l : ToCome(ph, l)' <=> ToCome(ph, l)
  BY <1>1 DEF ToCome, PendingOf, LeavesIn
<1>6. \A l : MixedLeaf(l)' <=> MixedLeaf(l)
  BY DEF MixedLeaf, IsMixed, IsWhole
<1>7. WalkType'
  BY <1>1, <1>3 DEF WalkInv, WalkType
<1>8. Inside'
  <2>1. PendingOf(stack)' = PendingOf(stack)
    BY <1>1 DEF PendingOf, LeavesIn
  <2> QED
    BY <1>1, <1>2, <2>1 DEF WalkInv, Inside
<1>9. Covered'
  BY <1>1, <1>2, <1>4, <1>5 DEF WalkInv, Covered
<1>10. Sourced'
  BY <1>1, <1>2 DEF WalkInv, Sourced
<1>11. Blamed'
  BY <1>1, <1>2, <1>6 DEF WalkInv, Blamed
<1> QED
  BY <1>7, <1>8, <1>9, <1>10, <1>11 DEF WalkInv

\* The invariant of the walk.
LEMMA WalkInvariance ==
  Spec => []WalkInv
<1>1. Init => WalkInv
  BY WalkInit
<1>2. WalkInv /\ [Next]_vars => WalkInv'
  BY VisitStep, LeaveStep, PhaseStep, WalkStays DEF Next
<1> QED
  BY <1>1, <1>2, PTL DEF Spec

-----------------------------------------------------------------------------
(***************************************************************************)
(* What follows                                                            *)
(***************************************************************************)

\* When the walk is over it has been everywhere.
LEMMA AllHandled ==
  ASSUME WalkInv, phase = "done"
  PROVE  \A ph \in ToSet(Phases) : \A l \in LeavesOf(ph) : Handled(ph, l)
<1>1. \A ph \in ToSet(Phases) : ph \in {"message", "headers"}
  BY PhasesAre DEF WalkInv, WalkType, InputType
<1> QED
  BY <1>1 DEF WalkInv, Covered, ToCome

\* An entity has everything the message and its headers have something for and
\* nothing else, however deep the message, with whatever mappings and in whatever
\* order its fields are visited.  (encoder.go:44-143)
THEOREM EverythingWritten == Spec => []EveryFieldWritten
<1>1. WalkInv => EveryFieldWritten
  <2> SUFFICES ASSUME WalkInv, phase = "done"
               PROVE  LET writes == UNION {{WritesOf(ph, l) : l \in LeavesOf(ph)} : ph \in ToSet(Phases)}
                      IN /\ DOMAIN entity = UNION {DOMAIN w : w \in writes}
                         /\ \A slot \in DOMAIN entity :
                              \E w \in writes : slot \in DOMAIN w /\ w[slot] = entity[slot]
    BY Zenon DEF EveryFieldWritten, WritesOf
  <2> DEFINE writes == UNION {{WritesOf(ph, l) : l \in LeavesOf(ph)} : ph \in ToSet(Phases)}
  <2>1. \A w : w \in writes <=> \E ph \in ToSet(Phases) : \E l \in LeavesOf(ph) : w = WritesOf(ph, l)
    OBVIOUS
  <2>2. \A ph \in ToSet(Phases) : \A l \in LeavesOf(ph) : DOMAIN WritesOf(ph, l) \subseteq DOMAIN entity
    BY AllHandled DEF Handled
  <2> HIDE DEF writes
  <2>3. \A w \in writes : DOMAIN w \subseteq DOMAIN entity
    BY <2>1, <2>2
  <2>4. \A slot \in DOMAIN entity : \E w \in writes : slot \in DOMAIN w /\ w[slot] = entity[slot]
    BY <2>1 DEF WalkInv, Sourced
  <2>5. DOMAIN entity = UNION {DOMAIN w : w \in writes}
    BY <2>3, <2>4
  <2> QED
    BY <2>4, <2>5 DEF writes
<1> QED
  BY <1>1, WalkInvariance, PTL

\* What all leaves that write to a slot agree on is there, whatever the order of the
\* walk: only fields that get in each other's way make it matter.  Go visits the
\* fields of an object in any.  (encoder.go:73-75)
OrderDoesNotMatter ==
  phase = "done" =>
    \A ph \in ToSet(Phases) : \A l \in LeavesOf(ph) : \A slot \in DOMAIN WritesOf(ph, l) :
      LET agreed == \A q \in ToSet(Phases) : \A n \in LeavesOf(q) :
                      slot \in DOMAIN WritesOf(q, n) => WritesOf(q, n)[slot] = WritesOf(ph, l)[slot]
      IN agreed => slot \in DOMAIN entity /\ entity[slot] = WritesOf(ph, l)[slot]

\* A slot has what the leaves that write to it agree on, so that the same message is
\* always encoded the same unless its fields collide.  (encoder.go:73-75)
THEOREM AnyOrder == Spec => []OrderDoesNotMatter
<1>1. WalkInv => OrderDoesNotMatter
  <2> SUFFICES ASSUME WalkInv, phase = "done",
                      NEW ph \in ToSet(Phases), NEW l \in LeavesOf(ph), NEW slot \in DOMAIN WritesOf(ph, l),
                      \A q \in ToSet(Phases) : \A n \in LeavesOf(q) :
                        slot \in DOMAIN WritesOf(q, n) => WritesOf(q, n)[slot] = WritesOf(ph, l)[slot]
               PROVE  slot \in DOMAIN entity /\ entity[slot] = WritesOf(ph, l)[slot]
    BY DEF OrderDoesNotMatter
  <2>1. slot \in DOMAIN entity
    BY AllHandled DEF Handled
  <2>2. \E q \in ToSet(Phases) : \E n \in LeavesOf(q) :
          slot \in DOMAIN WritesOf(q, n) /\ WritesOf(q, n)[slot] = entity[slot]
    BY <2>1 DEF WalkInv, Sourced
  <2> QED
    BY <2>1, <2>2
<1> QED
  BY <1>1, WalkInvariance, PTL

\* Elements of one kind only, or of several.
LEMMA KindsOfArray ==
  ASSUME NEW v \in Values, KindOf[v] = "array", IsWhole(v),
         NEW kinds, kinds = [i \in DOMAIN ElementsOf[v] |-> KindOf[ElementsOf[v][i]]]
  PROVE  Head(kinds) \in Scalars /\ (Cardinality(ToSet(kinds)) > 1 <=> IsMixed(v))
<1> DEFINE E == ElementsOf[v]
           h == KindOf[Head(E)]
           S == ToSet(kinds)
<1>1. E \in Seq(Values) /\ E # <<>> /\ h \in Scalars
  BY ValuesAssumption DEF IsWhole
<1>2. 1 \in DOMAIN E /\ Head(E) = E[1]
  BY <1>1
<1>3. Head(kinds) = h
  <2>1. kinds \in Seq({KindOf[w] : w \in Values}) /\ kinds # <<>>
    BY <1>1, <1>2
  <2> QED
    BY <1>2, <2>1
<1>4. \A k : k \in S <=> \E i \in DOMAIN E : k = KindOf[E[i]]
  BY DEF ToSet
<1>5. h \in S
  BY <1>2, <1>4
<1>6. S \subseteq Kinds
  <2>1. \A i \in DOMAIN E : E[i] \in Values
    BY <1>1
  <2>2. \A w \in Values : KindOf[w] \in Kinds
    BY ValuesAssumption
  <2> HIDE DEF E, S
  <2> QED
    BY <1>4, <2>1, <2>2
<1>7. IsFiniteSet(Kinds)
  <2>1. \A T, x : IsFiniteSet(T) => IsFiniteSet(T \cup {x})
    BY FS_AddElement
  <2>2. IsFiniteSet({"object"} \cup {"array"} \cup {"string"} \cup {"number"} \cup {"bool"} \cup {"null"})
    BY <2>1, FS_Singleton
  <2>3. Kinds = {"object"} \cup {"array"} \cup {"string"} \cup {"number"} \cup {"bool"} \cup {"null"}
    BY DEF Kinds
  <2> QED
    BY <2>2, <2>3
<1>8. IsFiniteSet(S) /\ Cardinality(S) \in Nat
  BY <1>6, <1>7, FS_Subset, FS_CardinalityType
<1>9. IsMixed(v) <=> \E k \in S : k # h
  BY <1>4 DEF IsMixed, IsWhole
<1> HIDE DEF S, h
<1>10. (\A k \in S : k = h) => S = {h}
  BY <1>5
<1>11. S = {h} <=> Cardinality(S) = 1
  <2>1. S = {h} => Cardinality(S) = 1
    BY FS_Singleton
  <2>2. Cardinality(S) = 1 => \E k : S = {k}
    BY <1>8, FS_Singleton
  <2> QED
    BY <1>5, <2>1, <2>2
<1>12. Cardinality(S) # 0
  BY <1>5, <1>8, FS_EmptySet
<1>13. Cardinality(S) > 1 <=> \E k \in S : k # h
  BY <1>5, <1>8, <1>10, <1>11, <1>12
<1> QED
  BY <1>1, <1>3, <1>9, <1>13 DEF S, h

\* The encoder panics on a message with an array of mixed elements, wherever it is,
\* on no other, and never lets such a message through.  (encoder.go:88-108)
THEOREM PanicsExactlyOnMixed == Spec => []PanicsOnMixed
<1>1. WalkInv => PanicsOnMixed
  <2> SUFFICES ASSUME WalkInv PROVE PanicsOnMixed
    OBVIOUS
  <2> DEFINE kinds(v) == [i \in DOMAIN ElementsOf[v] |-> KindOf[ElementsOf[v][i]]]
             IsOne(l) == /\ KindOf[l.value] = "array"
                         /\ Head(kinds(l.value)) \in Scalars
                         /\ Cardinality(ToSet(kinds(l.value))) > 1
             mixed == \E l \in LeavesOf("message") : IsOne(l)
  <2>1. InputType /\ message \in Messages
    BY DEF WalkInv, WalkType
  <2>2. ASSUME NEW l \in LeavesOf("message")
        PROVE  IsOne(l) <=> MixedLeaf(l)
    <3>1. l.value \in Values /\ IsLeaf(l.value)
      BY <2>1, LeafType, PlaceParts
    <3>2. CASE KindOf[l.value] = "array"
      <4>1. IsWhole(l.value)
        BY <3>1, <3>2 DEF IsLeaf
      <4>2. Head(kinds(l.value)) \in Scalars /\ (Cardinality(ToSet(kinds(l.value))) > 1 <=> IsMixed(l.value))
        BY <3>1, <3>2, <4>1, KindsOfArray
      <4> QED
        BY <3>2, <4>2 DEF MixedLeaf
    <3>3. CASE KindOf[l.value] # "array"
      BY <3>3 DEF MixedLeaf
    <3> QED
      BY <3>2, <3>3
  <2>3. phase = "panicked" => mixed
    <3> HIDE DEF IsOne
    <3> QED
      BY <2>2 DEF WalkInv, Blamed
  <2>4. phase = "done" => ~mixed
    <3> HIDE DEF IsOne
    <3>1. "message" \in ToSet(Phases)
      BY <2>1, PhasesAre DEF InputType
    <3> QED
      BY <2>2, <3>1, AllHandled DEF Handled
  <2> QED
    BY <2>3, <2>4, Zenon DEF PanicsOnMixed
<1> QED
  BY <1>1, WalkInvariance, PTL

\* What is left out with the keys that have dots in them are leaves, too.
LEMMA PlainLeaves ==
  ASSUME InputType, message \in Messages, NEW l \in LeavesIn(Root("message"), FALSE)
  PROVE  l \in LeavesOf("message") /\ Get(MessageFields, l.name) = l.value
<1> DEFINE m == MessageFields
           f == Root("message")
<1>1. f \in AllFrames /\ f.fields = m
  BY RootType DEF Fields
<1>2. f.prefix = <<>>
  BY DEF Root, Frame
<1> HIDE DEF f, m
<1>3. PICK k \in DOMAIN m : Len(k) = 1 /\ l \in Leaves(FALSE)[Place(f.prefix \o k, k, m[k])]
  BY <1>1 DEF LeavesIn, Keys, f
<1>4. k \in Seq(STRING) /\ m[k] \in Values
  BY <1>1, FrameType, FieldMapParts
<1>5. f.prefix \o k = k
  BY <1>2, <1>4
<1> DEFINE n == Place(k, k, m[k])
<1>6. n \in Places /\ n.name = k /\ n.value = m[k]
  BY <1>4 DEF Place, Places
<1> HIDE DEF n
<1>7. l \in Leaves(FALSE)[n]
  BY <1>3, <1>5 DEF n
<1>8. l \in Leaves(TRUE)[n]
  BY <1>6, <1>7, DotsAdd
<1>9. l \in LeavesOf("message")
  BY <1>1, <1>3, <1>5, <1>8, InFrame DEF LeavesOf, f, n
<1>10. k[1] \in STRING /\ k = <<k[1]>>
  BY <1>3, <1>4, OnePiece
<1>11. Get(m, k) = m[k]
  BY <1>3, <1>10, GetField
<1>12. k # <<>>
  <2>1. Len(<<>>) = 0
    OBVIOUS
  <2> QED
    BY <1>3, <2>1
<1>13. Get(m, l.name) = l.value
  BY <1>6, <1>7, <1>11, <1>12, PathsLead
<1> QED
  BY <1>9, <1>13 DEF m

\* The name of a property that no mapping asks for or writes to, and that is the
\* name of nothing else, is the path of its value in the message, when the keys on
\* the way have no dots.  (README.md:233, encoder.go:74-84, 111)
THEOREM NamesLeadBack == Spec => []NamesArePaths
<1>1. WalkInv => NamesArePaths
  <2> DEFINE renamed(l) == \E m \in ToSet(mappings) : l.key = m.field \/ l.name = PropName(m)
             twins(l) == {n \in UNION {LeavesOf(ph) : ph \in ToSet(Phases)} : n.name = l.name}
  <2> SUFFICES ASSUME WalkInv, phase = "done", NEW l \in LeavesIn(Root("message"), FALSE),
                      ~renamed(l), twins(l) = {l}
               PROVE  Prop(l.name) \in DOMAIN entity /\ entity[Prop(l.name)] = Get(MessageFields, l.name)
    BY DEF NamesArePaths
  <2>1. InputType /\ message \in Messages
    BY DEF WalkInv, WalkType
  <2>2. l \in LeavesOf("message") /\ Get(MessageFields, l.name) = l.value
    BY <2>1, PlainLeaves
  <2>3. ~Mapped(l.key)
    BY DEF Mapped
  <2>4. \A ph : WritesOf(ph, l) = At(Prop(l.name), l.value)
    BY <2>1, <2>3, WritesOwn DEF WritesOf
  <2>5. "message" \in ToSet(Phases)
    BY <2>1, PhasesAre DEF InputType
  <2>6. Prop(l.name) \in DOMAIN entity
    <3>1. Handled("message", l)
      BY <2>2, <2>5, AllHandled
    <3>2. DOMAIN WritesOf("message", l) = {Prop(l.name)}
      BY <2>4 DEF At
    <3>3. DOMAIN WritesOf("message", l) \subseteq DOMAIN entity
      BY <3>1 DEF Handled
    <3> QED
      BY <3>2, <3>3
  <2>7. PICK ph \in ToSet(Phases) : \E n \in LeavesOf(ph) :
          Prop(l.name) \in DOMAIN WritesOf(ph, n) /\ WritesOf(ph, n)[Prop(l.name)] = entity[Prop(l.name)]
    BY <2>6 DEF WalkInv, Sourced
  <2>8. PICK n \in LeavesOf(ph) :
          Prop(l.name) \in DOMAIN WritesOf(ph, n) /\ WritesOf(ph, n)[Prop(l.name)] = entity[Prop(l.name)]
    BY <2>7
  <2>9. l.name = n.name \/ \E m \in ToSet(mappings) : l.name = PropName(m)
    BY <2>1, <2>8, WritesOwn DEF WritesOf
  <2>10. n \in twins(l)
    BY <2>7, <2>9
  <2>11. n = l
    BY <2>10
  <2>12. entity[Prop(l.name)] = l.value
    BY <2>4, <2>8, <2>11 DEF At
  <2> QED
    BY <2>2, <2>6, <2>12
<1> QED
  BY <1>1, WalkInvariance, PTL

=============================================================================
