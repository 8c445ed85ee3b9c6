--------------------------- MODULE EncoderProofs ---------------------------
(***************************************************************************)
(* Proofs about Encoder, for any messages, headers and mappings: that      *)
(* headers survive, whatever the message has in it and whatever the order  *)
(* of the walk.                                                            *)
(*                                                                         *)
(* HeadersKept speaks of the end of the walk.  What is inductive is that   *)
(* the walk through the headers is never deeper than the headers           *)
(* themselves, since every value is a string; and that what has been       *)
(* written of a header stays as it is.                                     *)
(***************************************************************************)
EXTENDS Encoder, WellFoundedInduction, TLAPS

HeaderName(k) == <<"kafka_header">> \o k

\* A mapping asks for the header k, or writes to where the header k is written to.
Claimed(k) == \E m \in ToSet(mappings) : k = m.field \/ HeaderName(k) = PropName(m)

IsKept(k) ==
  /\ Prop(HeaderName(k)) \in DOMAIN entity
  /\ entity[Prop(HeaderName(k))] = HeaderFields[k]

\* What is left of the headers when those in S have not been visited.
Rest(S) == Frame(<<"kafka_header">>, Restrict(HeaderFields, S))

InputType ==
  /\ headers \in Headers
  /\ mappings \in MappingLists
  /\ includeHeaders \in BOOLEAN

\* The headers in S are still to be visited, the others are in the entity.
Visited(S) ==
  /\ S \in SUBSET DOMAIN HeaderFields
  /\ \A k \in DOMAIN HeaderFields \ S : Claimed(k) \/ IsKept(k)

HeaderInv ==
  /\ InputType
  /\ phase = "headers" =>
       \/ stack = <<>> /\ Visited({})
       \/ \E S \in SUBSET DOMAIN HeaderFields : stack = <<Rest(S)>> /\ Visited(S)
  /\ phase = "done" => stack = <<>>
  /\ phase = "done" /\ includeHeaders => Visited({})

-----------------------------------------------------------------------------
(***************************************************************************)
(* About the operators                                                     *)
(***************************************************************************)

\* A set of indices that is not empty has a greatest one.
LEMMA MaxOfIndices ==
  ASSUME NEW n \in Nat, NEW I \in SUBSET (1..n), I # {}
  PROVE  Max(I) \in I
<1> DEFINE Mirror == {n - i : i \in I}
<1>1. Mirror \in SUBSET Nat /\ Mirror # {}
  <2>1. \A i \in I : n - i \in Nat
    BY SMT
  <2> QED
    BY <2>1
<1>2. PICK x \in Mirror : \A y \in Mirror : ~(<<y, x>> \in OpToRel(<, Nat))
  BY <1>1, WFMin, NatLessThanWellFounded
<1>3. \A y \in Mirror : ~(y < x)
  BY <1>1, <1>2 DEF OpToRel
<1>4. PICK i \in I : x = n - i
  BY <1>2
<1>5. \A j \in I : i >= j
  <2> TAKE j \in I
  <2>1. n - j \in Mirror
    OBVIOUS
  <2>2. ~(n - j < n - i)
    BY <1>3, <1>4, <2>1
  <2> QED
    BY <2>2, SMT
<1> QED
  BY <1>4, <1>5 DEF Max

\* What SelectLastInSeq finds is what it looks for.
LEMMA LastField ==
  ASSUME NEW k, Mapped(k), NEW T, mappings \in Seq(T)
  PROVE  Column(k) \in ToSet(mappings) /\ Column(k).field = k
<1> DEFINE I == {i \in 1..Len(mappings) : mappings[i].field = k}
<1>1. I # {} /\ I \in SUBSET (1..Len(mappings)) /\ Len(mappings) \in Nat
  BY DEF Mapped, ToSet
<1>2. Max(I) \in I
  BY <1>1, MaxOfIndices
<1>3. Column(k) = mappings[Max(I)]
  BY <1>1 DEF Column, SelectLastInSeq
<1>4. Max(I) \in DOMAIN mappings /\ mappings[Max(I)].field = k
  BY <1>2
<1> QED
  BY <1>3, <1>4, Zenon DEF ToSet

LEMMA LastHeader ==
  ASSUME NEW T, headers \in Seq(T), NEW k \in DOMAIN HeaderFields
  PROVE  \E h \in ToSet(headers) : h.key = k /\ HeaderFields[k] = h.value
<1> DEFINE I == {i \in 1..Len(headers) : headers[i].key = k}
<1>0. k \in {h.key : h \in ToSet(headers)}
  BY DEF HeaderFields
<1>1. I # {} /\ I \in SUBSET (1..Len(headers)) /\ Len(headers) \in Nat
  BY <1>0 DEF ToSet
<1>2. Max(I) \in I
  BY <1>1, MaxOfIndices
<1>3. HeaderFields[k] = headers[Max(I)].value
  BY <1>0, <1>1 DEF HeaderFields, SelectLastInSeq
<1>4. Max(I) \in DOMAIN headers /\ headers[Max(I)].key = k
  BY <1>2
<1> QED
  BY <1>3, <1>4, Zenon DEF ToSet

\* The value of a header is a string, and its key a sequence.
LEMMA HeadersAreStrings ==
  ASSUME InputType, NEW k \in DOMAIN HeaderFields
  PROVE  KindOf[HeaderFields[k]] = "string" /\ k \in Seq(STRING)
<1> DEFINE T == [key : Seq(STRING), value : Strings]
<1>1. headers \in Seq(T)
  BY EncoderAssumption DEF InputType
<1> HIDE DEF T
<1>2. PICK h \in ToSet(headers) : h.key = k /\ HeaderFields[k] = h.value
  BY <1>1, LastHeader
<1>3. h \in T
  BY <1>1 DEF ToSet
<1>4. h.key \in Seq(STRING) /\ h.value \in Strings
  BY <1>3 DEF T
<1> QED
  BY <1>2, <1>4, Zenon DEF Strings

\* Two headers with different keys have different names.
LEMMA NamesDiffer ==
  ASSUME NEW j \in Seq(STRING), NEW k \in Seq(STRING), HeaderName(j) = HeaderName(k)
  PROVE  j = k
<1>1. Len(j) = Len(k)
  BY SMT DEF HeaderName
<1>2. \A i \in 1..Len(j) : j[i] = HeaderName(j)[i + 1]
  BY SMT DEF HeaderName
<1>3. \A i \in 1..Len(k) : k[i] = HeaderName(k)[i + 1]
  BY SMT DEF HeaderName
<1>4. \A i \in 1..Len(j) : j[i] = k[i]
  BY <1>1, <1>2, <1>3
<1> QED
  BY <1>1, <1>4, SMT

\* Of the properties, a value writes to that with its own name or to one that
\* a mapping names, and to the former what it is, if no mapping asks for it.
LEMMA WritesOwn ==
  ASSUME InputType, NEW k, NEW v, NEW ph, NEW name
  PROVE  /\ \A n : Prop(n) \in DOMAIN Writes(ph, name, k, v) =>
               n = name \/ \E m \in ToSet(mappings) : n = PropName(m)
         /\ ~Mapped(k) => Writes(ph, name, k, v) = At(Prop(name), v)
<1>1. ASSUME ~Mapped(k)
      PROVE  Writes(ph, name, k, v) = At(Prop(name), v)
  BY <1>1 DEF Writes
<1>2. ASSUME NEW n, Prop(n) \in DOMAIN Writes(ph, name, k, v)
      PROVE  n = name \/ \E m \in ToSet(mappings) : n = PropName(m)
  <2>1. CASE ~Mapped(k)
    BY <1>1, <1>2, <2>1 DEF Prop, At
  <2>2. CASE Mapped(k)
    <3>1. Column(k) \in ToSet(mappings)
      BY <2>2, LastField, EncoderAssumption DEF InputType
    <3>2. DOMAIN Writes(ph, name, k, v) \subseteq
            {Id, Deleted, Ref(PropName(Column(k))), Prop(name), Prop(PropName(Column(k)))}
      BY <2>2 DEF Writes, At, Over
    <3>3. Prop(n) \in {Prop(name), Prop(PropName(Column(k)))}
      BY <1>2, <3>2 DEF Id, Deleted, Ref, Prop
    <3> QED
      BY <3>1, <3>3 DEF Prop
  <2> QED
    BY <2>1, <2>2
<1> QED
  BY <1>1, <1>2

\* Writing of one header does not touch what is kept of another.
LEMMA OthersStay ==
  ASSUME InputType, NEW j \in DOMAIN HeaderFields, NEW k \in DOMAIN HeaderFields, j # k,
         ~Claimed(j), IsKept(j), NEW v,
         entity' = Over(Writes("headers", HeaderName(k), k, v), entity)
  PROVE  /\ Prop(HeaderName(j)) \in DOMAIN entity'
         /\ entity'[Prop(HeaderName(j))] = HeaderFields[j]
<1>1. HeaderName(j) # HeaderName(k)
  BY HeadersAreStrings, NamesDiffer
<1>2. ~(\E m \in ToSet(mappings) : HeaderName(j) = PropName(m))
  BY DEF Claimed
<1>3. Prop(HeaderName(j)) \notin DOMAIN Writes("headers", HeaderName(k), k, v)
  BY <1>1, <1>2, WritesOwn
<1> QED
  BY <1>3 DEF Over, IsKept

-----------------------------------------------------------------------------
(***************************************************************************)
(* The steps                                                               *)
(***************************************************************************)

LEMMA InitHolds ==
  ASSUME Init
  PROVE  HeaderInv
<1>1. phase = "message"
  BY DEF Init, Phases
<1> QED
  BY <1>1 DEF Init, HeaderInv, InputType

LEMMA FieldsStay ==
  ASSUME UNCHANGED input
  PROVE  /\ HeaderFields' = HeaderFields
         /\ InputType => InputType'
         /\ \A k : Claimed(k)' <=> Claimed(k)
<1>1. headers' = headers /\ mappings' = mappings /\ includeHeaders' = includeHeaders
  BY DEF input
<1>2. HeaderFields' = HeaderFields
  BY <1>1 DEF HeaderFields, SelectLastInSeq
<1>3. \A k : Claimed(k)' <=> Claimed(k)
  BY <1>1 DEF Claimed
<1> QED
  BY <1>1, <1>2, <1>3 DEF InputType

\* A header is visited: it is written, and those before it stay.
LEMMA VisitKeeps ==
  ASSUME HeaderInv, phase = "headers", VisitField
  PROVE  HeaderInv'
<1>1. PICK S \in SUBSET DOMAIN HeaderFields : stack = <<Rest(S)>> /\ Visited(S)
  BY DEF HeaderInv, VisitField
<1>2. Head(stack) = Rest(S) /\ Tail(stack) = <<>>
  BY <1>1
<1>3. PICK k \in S : Visit(k)
  BY <1>2 DEF VisitField, Restrict, Rest, Frame
<1> DEFINE v == HeaderFields[k]
<1>4. Head(stack).fields[k] = v /\ KindOf[v] = "string"
  BY <1>1, <1>2, <1>3, HeadersAreStrings DEF HeaderInv, Restrict, Rest, Frame
<1> DEFINE left == <<[Head(stack) EXCEPT !.fields = Restrict(@, DOMAIN @ \ {k})]>> \o Tail(stack)
<1>5. left = <<Rest(S \ {k})>>
  <2>1. Restrict(Restrict(HeaderFields, S), DOMAIN Restrict(HeaderFields, S) \ {k})
          = Restrict(HeaderFields, S \ {k})
    BY DEF Restrict
  <2>2. [Rest(S) EXCEPT !.fields = Restrict(@, DOMAIN @ \ {k})]
          = [prefix |-> <<"kafka_header">>,
             fields |-> Restrict(Restrict(HeaderFields, S), DOMAIN Restrict(HeaderFields, S) \ {k})]
    BY DEF Rest, Frame
  <2>3. [Head(stack) EXCEPT !.fields = Restrict(@, DOMAIN @ \ {k})] = Rest(S \ {k})
    BY <1>2, <2>1, <2>2 DEF Rest, Frame
  <2>4. \A x : <<x>> \o <<>> = <<x>>
    OBVIOUS
  <2> QED
    BY <1>2, <2>3, <2>4, Zenon
<1>6. /\ stack' = left
       /\ entity' = Over(Writes(phase, Head(stack).prefix \o k, k, v), entity)
       /\ UNCHANGED phase
  BY <1>3, <1>4, Zenon DEF Visit
<1>7. Head(stack).prefix \o k = HeaderName(k)
  <2>1. Rest(S).prefix = <<"kafka_header">>
    BY DEF Rest, Frame
  <2> QED
    BY <1>2, <2>1, Zenon DEF HeaderName
<1>8. /\ stack' = <<Rest(S \ {k})>>
      /\ entity' = Over(Writes("headers", HeaderName(k), k, v), entity)
      /\ UNCHANGED <<phase, input>>
  BY <1>5, <1>6, <1>7 DEF VisitField
<1>9. HeaderFields' = HeaderFields /\ InputType' /\ \A j : Claimed(j)' <=> Claimed(j)
  BY <1>8, FieldsStay DEF HeaderInv
<1>10. ASSUME NEW j \in DOMAIN HeaderFields \ S, ~Claimed(j)
      PROVE  IsKept(j)'
  <2>1. IsKept(j) /\ j # k
    BY <1>1, <1>3, <1>10 DEF Visited
  <2>2. /\ Prop(HeaderName(j)) \in DOMAIN entity'
        /\ entity'[Prop(HeaderName(j))] = HeaderFields[j]
    BY <1>3, <1>8, <1>10, <2>1, OthersStay DEF HeaderInv
  <2> QED
    BY <1>9, <2>2 DEF IsKept
<1>11. ASSUME ~Claimed(k)
      PROVE  IsKept(k)'
  <2>1. ~Mapped(k)
    BY <1>11 DEF Claimed, Mapped
  <2>2. Writes("headers", HeaderName(k), k, v) = At(Prop(HeaderName(k)), v)
    BY <1>3, <2>1, WritesOwn DEF HeaderInv
  <2> QED
    BY <1>8, <1>9, <2>2 DEF IsKept, At, Over
<1> QED
  <2>1. \A j \in DOMAIN HeaderFields \ (S \ {k}) : Claimed(j)' \/ IsKept(j)'
    BY <1>9, <1>10, <1>11
  <2>2. Visited(S \ {k})'
    BY <1>9, <2>1 DEF Visited
  <2>3. stack' = <<Rest(S \ {k})'>>
    BY <1>8, <1>9 DEF Rest, Frame
  <2> QED
    BY <1>8, <1>9, <2>2, <2>3, phase' = "headers" DEF HeaderInv

LEMMA Invariance ==
  ASSUME HeaderInv, [Next]_vars
  PROVE  HeaderInv'
<1>1. UNCHANGED input
  BY DEF Next, VisitField, LeaveObject, NextPhase, vars
<1>2. HeaderFields' = HeaderFields /\ InputType' /\ \A j : Claimed(j)' <=> Claimed(j)
  BY <1>1, FieldsStay DEF HeaderInv
<1>3. ASSUME NEW S, Visited(S), entity' = entity
      PROVE  Visited(S)'
  BY <1>2, <1>3 DEF Visited, IsKept
<1>4. ASSUME NEW S
      PROVE  Rest(S)' = Rest(S)
  BY <1>2 DEF Rest, Frame
<1>5. CASE VisitField /\ phase = "headers"
  BY <1>5, VisitKeeps
<1>6. CASE VisitField /\ phase # "headers"
  <2>1. phase' \in {phase, "panicked"} /\ phase # "done"
    BY <1>6 DEF HeaderInv, VisitField, Visit
  <2> QED
    BY <1>2, <1>6, <2>1 DEF HeaderInv
<1>7. CASE LeaveObject
  <2>1. entity' = entity /\ phase' = phase
    BY <1>7 DEF LeaveObject
  <2>2. CASE phase = "headers"
    <3>1. PICK S \in SUBSET DOMAIN HeaderFields : stack = <<Rest(S)>> /\ Visited(S)
      BY <1>7, <2>2 DEF HeaderInv, LeaveObject
    <3>2. Rest(S).fields = <<>> /\ stack' = <<>>
      BY <1>7, <3>1 DEF LeaveObject
    <3>3. S = {}
      <4>1. DOMAIN Rest(S).fields = S
        BY DEF Rest, Frame, Restrict
      <4> QED
        BY <3>2, <4>1
    <3> QED
      BY <1>2, <1>3, <2>1, <2>2, <3>1, <3>2, <3>3 DEF HeaderInv
  <2>3. CASE phase # "headers"
    <3>1. phase # "done"
      BY <1>7 DEF HeaderInv, LeaveObject
    <3> QED
      BY <1>2, <2>1, <2>3, <3>1 DEF HeaderInv
  <2> QED
    BY <2>2, <2>3
<1>8. CASE NextPhase
  <2>1. entity' = entity /\ stack = <<>> /\ phase # "done" /\ Last(Phases) = IF includeHeaders THEN "headers" ELSE "message"
    BY <1>8 DEF NextPhase, Last, Phases
  <2>2. CASE phase # Last(Phases)
    <3>1. phase' = Last(Phases) /\ stack' = <<Root(phase')>>
      BY <1>8, <2>2 DEF NextPhase
    <3>2. CASE includeHeaders
      <4>1. phase' = "headers" /\ stack' = <<Root("headers")>>
        BY <2>1, <3>1, <3>2
      <4>2. Root("headers") = Rest(DOMAIN HeaderFields)
        <5>1. Restrict(HeaderFields, DOMAIN HeaderFields) = HeaderFields
          BY DEF Restrict, HeaderFields
        <5> QED
          BY <5>1 DEF Root, Rest, Fields
      <4>3. Visited(DOMAIN HeaderFields)
        BY DEF Visited
      <4>4. Visited(DOMAIN HeaderFields)'
        BY <1>2, <4>3 DEF Visited
      <4> QED
        BY <1>2, <1>4, <4>1, <4>2, <4>4 DEF HeaderInv
    <3>3. CASE ~includeHeaders
      BY <1>1, <1>2, <2>1, <3>1, <3>3 DEF HeaderInv, input
    <3> QED
      BY <3>2, <3>3
  <2>3. CASE phase = Last(Phases)
    <3>1. phase' = "done" /\ stack' = stack
      BY <1>8, <2>3 DEF NextPhase
    <3>2. includeHeaders' => Visited({})
      BY <1>1, <2>1, <2>3 DEF HeaderInv, input, Rest
    <3> QED
      BY <1>2, <1>3, <2>1, <3>1, <3>2 DEF HeaderInv
  <2> QED
    BY <2>2, <2>3
<1>9. CASE UNCHANGED vars
  BY <1>2, <1>3, <1>4, <1>9 DEF HeaderInv, vars, input
<1> QED
  BY <1>5, <1>6, <1>7, <1>8, <1>9 DEF Next

\* A header no mapping asks for, nor writes to, is in the entity with its value,
\* whatever the message and however many headers and mappings there are.
\* (encoder.go:56-66)
THEOREM HeadersSurvive == Spec => []HeadersKept
<1>1. Init => HeaderInv
  BY InitHolds
<1>2. HeaderInv /\ [Next]_vars => HeaderInv'
  BY Invariance
<1>3. HeaderInv => HeadersKept
  <2> SUFFICES ASSUME HeaderInv, phase = "done", includeHeaders, NEW k \in DOMAIN HeaderFields
               PROVE  Claimed(k) \/ IsKept(k)
    BY DEF HeadersKept, Claimed, IsKept, HeaderName
  <2> QED
    BY DEF HeaderInv, Visited
<1> QED
  BY <1>1, <1>2, <1>3, PTL DEF Spec

============================================================================
