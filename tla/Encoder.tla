------------------------------ MODULE Encoder -------------------------------
(***************************************************************************)
(* What a consumer makes of a message (internal/coder/encoder.go): a walk  *)
(* through its JSON that writes every value it meets into a flat entity,   *)
(* by the field mappings of the consumer.  Go visits the fields of an      *)
(* object in any order, so the walk is nondeterministic.                   *)
(*                                                                         *)
(* A JSON value is a name, what it is made of is given by the constants.   *)
(* The key of a field, and the name of a property without its "ns0:", is   *)
(* the sequence of the pieces between its dots.                            *)
(***************************************************************************)
EXTENDS Integers, Sequences, SequencesExt, FiniteSets, TLC

CONSTANTS
  Values,         \* the JSON values
  KindOf,         \* "object", "array", "string", "number", "bool" or "null"
  FieldsOf,       \* the value of every field of an object
  ElementsOf,     \* the values in an array
  Depth,          \* how deep a value is nested
  Numeral,        \* how the index of an element is written
  TrueValues,     \* those that count as true
  Messages,       \* values that are sent, objects or not
  Headers,        \* Kafka headers of a message: sequences of [key, value]
  MappingLists,   \* fieldMappings of a consumer
  Key,            \* the key of the message
  Null            \* what a path yields that leads nowhere

\* Headers are bytes, which are taken for a string. (encoder.go:58)
Strings == {v \in Values : KindOf[v] = "string"}

Kinds == {"object", "array", "string", "number", "bool", "null"}

ASSUME EncoderAssumption ==
  /\ {Key, Null} \cap Values = {}
  /\ Messages \subseteq Values
  /\ Headers \subseteq Seq([key : Seq(STRING), value : Strings])
  /\ MappingLists \subseteq Seq([field : Seq(STRING), property : Seq(STRING),
                                path : Seq(STRING), use : SUBSET {"ignore", "id", "deleted", "ref"}])

\* So it is, but the provers do not know it.
ASSUME NameAssumption == "kafka_header" \in STRING

\* What JSON is: a finite tree.
ASSUME ValuesAssumption ==
  /\ \A v \in Values : KindOf[v] \in Kinds /\ Depth[v] \in Nat
  /\ \A v \in Values : KindOf[v] = "object" =>
       /\ FieldsOf[v] \in [DOMAIN FieldsOf[v] -> Values]
       /\ \A k \in DOMAIN FieldsOf[v] : k \in Seq(STRING) /\ Depth[FieldsOf[v][k]] < Depth[v]
  /\ \A v \in Values : KindOf[v] = "array" =>
       /\ ElementsOf[v] \in Seq(Values)
       /\ \A i \in DOMAIN ElementsOf[v] :
            /\ Depth[ElementsOf[v][i]] < Depth[v]
            /\ Numeral[i - 1] \in STRING
            /\ \A j \in DOMAIN ElementsOf[v] : Numeral[i - 1] = Numeral[j - 1] => i = j

VARIABLES
  message, headers, mappings, includeHeaders,   \* the arguments
  phase,          \* what is being walked: "message", "headers", or how it ended
  stack,          \* objects the walk is in, innermost first, with the fields left
  entity          \* what has been written: a function from slots to values

input == <<message, headers, mappings, includeHeaders>>
vars == <<input, phase, stack, entity>>

Id      == <<"id", <<>>>>
Deleted == <<"deleted", <<>>>>
Prop(name) == <<"prop", name>>
Ref(name)  == <<"ref", name>>

Index(i) == <<Numeral[i]>>

-----------------------------------------------------------------------------
(***************************************************************************)
(* The arguments                                                           *)
(***************************************************************************)

\* json.Unmarshal into a map: what is not an object, or not JSON, has no fields.
MessageFields == IF KindOf[message] = "object" THEN FieldsOf[message] ELSE <<>>

\* Of headers with the same key (in lower case), the last one.
HeaderFields ==
  [k \in {h.key : h \in ToSet(headers)} |->
     headers[SelectLastInSeq(headers, LAMBDA h : h.key = k)].value]

\* Of mappings with the same field name, the last one.
Mapped(k) == \E m \in ToSet(mappings) : m.field = k
Column(k) == mappings[SelectLastInSeq(mappings, LAMBDA m : m.field = k)]
PropName(m) == IF m.property # <<>> THEN m.property ELSE m.field

Fields(ph) == IF ph = "headers" THEN HeaderFields ELSE MessageFields

Child(v, piece) ==
  CASE v = Null -> Null
    [] v # Null /\ KindOf[v] = "object" /\ <<piece>> \in DOMAIN FieldsOf[v] -> FieldsOf[v][<<piece>>]
    [] v # Null /\ KindOf[v] = "array" /\ \E i \in DOMAIN ElementsOf[v] : <<piece>> = Index(i - 1) ->
         ElementsOf[v][CHOOSE i \in DOMAIN ElementsOf[v] : <<piece>> = Index(i - 1)]
    [] OTHER -> Null

\* gjson.Get, for paths of fields and indices.
Get(fields, path) ==
  LET walk[i \in DOMAIN path] ==
        IF i > 1 THEN Child(walk[i - 1], path[i])
        ELSE IF <<path[i]>> \in DOMAIN fields THEN fields[<<path[i]>>]
        ELSE Null
  IN IF path = <<>> THEN Null ELSE walk[Len(path)]

-----------------------------------------------------------------------------
(***************************************************************************)
(* flatten                                                                 *)
(***************************************************************************)

\* What is at one slot; and what is in f, and in g where f has nothing.  (:> and @@
\* of TLC, spelled out for the proofs.)
At(slot, v) == [s \in {slot} |-> v]
Over(f, g) == [s \in DOMAIN f \cup DOMAIN g |-> IF s \in DOMAIN f THEN f[s] ELSE g[s]]

KafkaKey == <<"kafkaKey">>

\* What a value that is no object, and no array of them, writes to.
Writes(ph, name, k, v) ==
  LET m == Column(k)
      value == Get(Fields(ph), m.path)
  IN IF ~Mapped(k) THEN At(Prop(name), v)
     ELSE IF "ignore" \in m.use THEN <<>>
     ELSE IF "id" \in m.use /\ m.path = KafkaKey THEN At(Id, Key)
     ELSE IF "id" \in m.use THEN Over(At(Id, value), At(Prop(name), v))
     ELSE IF "deleted" \in m.use THEN At(Deleted, value \in TrueValues)
     ELSE IF "ref" \in m.use /\ value # Null THEN Over(At(Ref(PropName(m)), value), At(Prop(name), v))
     ELSE At(Prop(PropName(m)), value)

Scalars == {"string", "number", "bool"}
Objects(v) == {i \in DOMAIN ElementsOf[v] : KindOf[ElementsOf[v][i]] = "object"}

\* An array is written as a whole if its first element is a scalar, which then all
\* have to be of the same type.  One that starts with null, an array or an object
\* is not, and its scalars are dropped.
IsWhole(v) == ElementsOf[v] # <<>> /\ KindOf[Head(ElementsOf[v])] \in Scalars

\* Seeded fault: elements of another type are not looked at.
NeverMixed(v) == FALSE

IsMixed(v) ==
  IsWhole(v) /\ \E i \in DOMAIN ElementsOf[v] : KindOf[ElementsOf[v][i]] # KindOf[Head(ElementsOf[v])]

Frame(prefix, fields) == [prefix |-> prefix, fields |-> fields]

\* Seeded fault: elements are counted from 1.
FramesFromOne(prefix, k, v) ==
  [i \in DOMAIN ElementsOf[v] |->
     Frame(prefix \o k \o Index(i), IF i \in Objects(v) THEN FieldsOf[ElementsOf[v][i]] ELSE <<>>)]

\* Seeded fault: the index is not part of the name.
FramesWithoutIndex(prefix, k, v) ==
  [i \in DOMAIN ElementsOf[v] |->
     Frame(prefix \o k, IF i \in Objects(v) THEN FieldsOf[ElementsOf[v][i]] ELSE <<>>)]

\* The objects in an array, in order.
Frames(prefix, k, v) ==
  [i \in DOMAIN ElementsOf[v] |->
     Frame(prefix \o k \o Index(i - 1), IF i \in Objects(v) THEN FieldsOf[ElementsOf[v][i]] ELSE <<>>)]

\* The walk takes the field k of the innermost object.
Visit(k) ==
  LET top == Head(stack)
      v   == top.fields[k]
      name == top.prefix \o k
      left == <<[top EXCEPT !.fields = Restrict(@, DOMAIN @ \ {k})]>> \o Tail(stack)
  IN \/ /\ KindOf[v] = "object"
        /\ stack' = <<Frame(name, FieldsOf[v])>> \o left
        /\ UNCHANGED <<phase, entity>>
     \/ /\ KindOf[v] = "array" /\ ~IsMixed(v)
        /\ stack' = Frames(top.prefix, k, v) \o left
        /\ entity' = IF IsWhole(v) THEN Over(Writes(phase, name, k, v), entity) ELSE entity
        /\ UNCHANGED phase
     \/ /\ KindOf[v] = "array" /\ IsMixed(v)
        /\ phase' = "panicked"
        /\ UNCHANGED <<stack, entity>>
     \/ /\ KindOf[v] \notin {"object", "array"}
        /\ stack' = left
        /\ entity' = Over(Writes(phase, name, k, v), entity)
        /\ UNCHANGED phase

-----------------------------------------------------------------------------
(***************************************************************************)
(* Encode and EncodeWithHeaders                                            *)
(***************************************************************************)

\* Seeded fault: the headers come first.
HeadersFirst == IF includeHeaders THEN <<"headers", "message">> ELSE <<"message">>

Phases == IF includeHeaders THEN <<"message", "headers">> ELSE <<"message">>

Root(ph) == Frame(IF ph = "headers" THEN <<"kafka_header">> ELSE <<>>, Fields(ph))

Init ==
  /\ message \in Messages
  /\ headers \in Headers
  /\ mappings \in MappingLists
  /\ includeHeaders \in BOOLEAN
  /\ phase = Head(Phases)
  /\ stack = <<Root(phase)>>
  /\ entity = <<>>

VisitField ==
  /\ phase # "panicked"
  /\ stack # <<>>
  /\ \E k \in DOMAIN Head(stack).fields : Visit(k)
  /\ UNCHANGED input

LeaveObject ==
  /\ stack # <<>>
  /\ Head(stack).fields = <<>>
  /\ stack' = Tail(stack)
  /\ UNCHANGED <<input, phase, entity>>

NextPhase ==
  /\ stack = <<>>
  /\ phase # "done"
  /\ IF phase # Last(Phases)
       THEN phase' = Last(Phases) /\ stack' = <<Root(phase')>>
       ELSE phase' = "done" /\ UNCHANGED stack
  /\ UNCHANGED <<input, entity>>

Next == VisitField \/ LeaveObject \/ NextPhase

Spec == Init /\ [][Next]_vars

-----------------------------------------------------------------------------
(***************************************************************************)
(* Properties                                                              *)
(***************************************************************************)

\* A value in a message or its headers, with its name and its key.
Places == [name : Seq(STRING), key : Seq(STRING), value : Values]
Place(name, k, v) == [name |-> name, key |-> k, value |-> v]

\* There is something to write in v itself.
IsLeaf(v) == KindOf[v] # "object" /\ (KindOf[v] = "array" => IsWhole(v))

\* Keys of fields, those that have dots in them only if they may.
Keys(fields, dots) == {k \in DOMAIN fields : dots \/ Len(k) = 1}

\* The places right below the place n.
Below(n, dots) ==
  IF KindOf[n.value] = "object"
    THEN {Place(n.name \o k, k, FieldsOf[n.value][k]) : k \in Keys(FieldsOf[n.value], dots)}
    ELSE {Place(n.name \o Index(i - 1), <<>>, ElementsOf[n.value][i]) : i \in Objects(n.value)}

\* The places where there is something to write, from the place n on.
Leaves(dots) ==
  LET leaves[n \in Places] ==
        IF IsLeaf(n.value) THEN {n} ELSE UNION {leaves[c] : c \in Below(n, dots)}
  IN leaves

LeavesIn(frame, dots) ==
  UNION {Leaves(dots)[Place(frame.prefix \o k, k, frame.fields[k])] : k \in Keys(frame.fields, dots)}

LeavesOf(ph) == LeavesIn(Root(ph), TRUE)

\* An entity has every field the message and its headers have something for, and
\* nothing else, with a value that is meant for it: whatever the order of the
\* walk, and of the two only fields with equal names can differ with it.
\* (encoder.go:44-143)
EveryFieldWritten ==
  phase = "done" =>
    LET writes == UNION {{Writes(ph, l.name, l.key, l.value) : l \in LeavesOf(ph)} : ph \in ToSet(Phases)}
    IN /\ DOMAIN entity = UNION {DOMAIN w : w \in writes}
       /\ \A slot \in DOMAIN entity : \E w \in writes : slot \in DOMAIN w /\ w[slot] = entity[slot]

\* "path this is using gjson syntax to be able to map out values": the name of a
\* property no mapping asks for, and nothing else has, is itself the path of its
\* value in the message, unless a key on the way has a dot in it.
\* (README.md:233, encoder.go:74-84, 111)
NamesArePaths ==
  phase = "done" =>
    \A l \in LeavesIn(Root("message"), FALSE) :
      LET renamed == \E m \in ToSet(mappings) : l.key = m.field \/ l.name = PropName(m)
          twins   == {n \in UNION {LeavesOf(ph) : ph \in ToSet(Phases)} : n.name = l.name}
      IN renamed \/ twins # {l}
         \/ /\ Prop(l.name) \in DOMAIN entity
            /\ entity[Prop(l.name)] = Get(MessageFields, l.name)

\* A header no mapping asks for is kept, also when the message has a field that
\* takes its name.  (encoder.go:56-66)
HeadersKept ==
  phase = "done" /\ includeHeaders =>
    \A k \in DOMAIN HeaderFields :
      LET name == <<"kafka_header">> \o k
          renamed == \E m \in ToSet(mappings) : k = m.field \/ name = PropName(m)
      IN renamed \/ entity[Prop(name)] = HeaderFields[k]

\* The encoder gives up exactly on a message with an array that starts with a
\* scalar and goes on with something of another type, wherever it is; "cannot map
\* properties, but should not stop streaming" is said of all others.
\* (encoder.go:88-108, encoder_test.go:52)
PanicsOnMixed ==
  LET kinds(v) == [i \in DOMAIN ElementsOf[v] |-> KindOf[ElementsOf[v][i]]]
      mixed == \E l \in LeavesOf("message") :
                 /\ KindOf[l.value] = "array"
                 /\ Head(kinds(l.value)) \in Scalars
                 /\ Cardinality(ToSet(kinds(l.value))) > 1
  IN (phase = "panicked" => mixed) /\ (phase = "done" => ~mixed)

=============================================================================
