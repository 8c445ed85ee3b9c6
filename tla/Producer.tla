------------------------------ MODULE Producer ------------------------------
(***************************************************************************)
(* Writing to a producer dataset: POST /datasets/:dataset/entities, from   *)
(* the handler produce (internal/web/producerhandler.go) over ParseStream  *)
(* (internal/coder/parser.go) to ProduceEntities (internal/kafka/          *)
(* producer.go) and the writer of segmentio/kafka-go, which is external.   *)
(*                                                                         *)
(* Requests are on one dataset.  A payload is a sequence of JSON values;   *)
(* of a value only its kind counts:                                        *)
(*   "context"     the context, the first value of a payload               *)
(*   "entity"      an entity with a namespace prefix in its id             *)
(*   "unprefixed"  an entity without one, or the @continuation, in its id  *)
(*                 or in the name of a property                            *)
(*   "malformed"   a value AsContext and AsEntity panic on                 *)
(* One that stops being JSON is the sequence of the values before that:    *)
(* the stream just ends there, and nobody is told (parser.go:11-18).       *)
(***************************************************************************)
EXTENDS Integers, Sequences, SequencesExt

CONSTANTS
  Requests,       \* slots for handler goroutines
  Payloads,       \* what clients send
  BatchSize,      \* entities written at a time (10000 in the code)
  StripProps,     \* the dataset's stripProps
  Topics,         \* topics the dataset may be configured with
  NoTopic,        \* it is not configured; or there is no writer
  MaxReloads,     \* bound: reloads that change the dataset's topic
  MaxFailures     \* bound: calls of WriteMessages that fail

Kinds == {"context", "entity", "unprefixed", "malformed"}

PayloadType == Seq(Kinds)

ASSUME ProducerAssumption ==
  /\ Payloads \subseteq PayloadType
  /\ BatchSize \in Nat \ {0}
  /\ StripProps \in BOOLEAN
  /\ NoTopic \notin Topics
  /\ MaxReloads \in Nat
  /\ MaxFailures \in Nat

VARIABLES
  pc,             \* where the goroutine is
  payload,        \* the request's payload
  at,             \* values taken from the stream
  batch,          \* entities: positions in the payload not sent yet
  writer,         \* the topic of the writer the request has picked
  status,         \* how the request was answered
  sent,           \* auxiliary: what the writer has sent for it, where to
  seen,           \* auxiliary: the topics configured while it ran
  topic,          \* the topic configured for the dataset
  cached,         \* the topic of the dataset's writer in producers.producers
  reloads,        \* auxiliary: reloads so far
  failures        \* auxiliary: failures of WriteMessages so far

reqVars == <<payload, at, batch, writer, status, sent, seen>>
bounds  == <<reloads, failures>>
vars == <<pc, reqVars, topic, cached, bounds>>

Slots == Topics \cup {NoTopic}

TypeOK ==
  /\ pc \in [Requests -> {"idle", "stream", "lookup", "store", "encode", "write", "over"}]
  /\ payload \in [Requests -> PayloadType]
  /\ at \in [Requests -> Nat]
  /\ batch \in [Requests -> Seq(Nat)]
  /\ sent \in [Requests -> Seq([index : Nat, topic : Topics])]
  /\ \A r \in Requests :
       /\ at[r] <= Len(payload[r])
       /\ batch[r] \in Seq(2..at[r]) /\ Len(batch[r]) <= BatchSize
       /\ sent[r] \in Seq([index : 2..at[r], topic : Topics])
  /\ writer \in [Requests -> Slots]
  /\ status \in [Requests -> {"none", "200", "400", "500", "cut"}]
  /\ seen \in [Requests -> SUBSET Slots]
  /\ topic \in Slots
  /\ cached \in Slots
  /\ reloads \in 0..MaxReloads
  /\ failures \in 0..MaxFailures

NoPayload == <<>>

Init ==
  /\ pc = [r \in Requests |-> "idle"]
  /\ payload = [r \in Requests |-> NoPayload]
  /\ at = [r \in Requests |-> 0]
  /\ batch = [r \in Requests |-> <<>>]
  /\ writer = [r \in Requests |-> NoTopic]
  /\ status = [r \in Requests |-> "none"]
  /\ sent = [r \in Requests |-> <<>>]
  /\ seen = [r \in Requests |-> {}]
  /\ topic \in Slots
  /\ cached = NoTopic
  /\ reloads = 0
  /\ failures = 0

Goto(r, label) == pc' = [pc EXCEPT ![r] = label]

Answer(r, s) == Goto(r, "over") /\ status' = [status EXCEPT ![r] = s]

-----------------------------------------------------------------------------
(***************************************************************************)
(* produce                                                                 *)
(***************************************************************************)

Receive(r) ==
  /\ pc[r] = "idle"
  /\ \E p \in Payloads : payload' = [payload EXCEPT ![r] = p]
  /\ seen' = [seen EXCEPT ![r] = {topic}]
  /\ Goto(r, "stream")
  /\ UNCHANGED <<at, batch, writer, status, sent, topic, cached, bounds>>

More(r) == at[r] < Len(payload[r])
Value(r) == payload[r][at[r] + 1]

\* A value comes from the stream: the context, or the next entity, which may
\* complete a batch.
Parse(r) ==
  /\ pc[r] = "stream"
  /\ More(r)
  /\ Value(r) # "malformed"
  /\ at' = [at EXCEPT ![r] = @ + 1]
  /\ batch' = [batch EXCEPT ![r] = IF at[r] = 0 THEN @ ELSE Append(@, at'[r])]
  /\ Goto(r, IF Len(batch'[r]) = BatchSize THEN "lookup" ELSE "stream")
  /\ UNCHANGED <<payload, writer, status, sent, seen, topic, cached, bounds>>

\* AsContext or AsEntity panics; the middleware turns that into a 500.
ParsePanics(r) ==
  /\ pc[r] = "stream"
  /\ More(r)
  /\ Value(r) = "malformed"
  /\ Answer(r, "500")
  /\ UNCHANGED <<payload, at, batch, writer, sent, seen, topic, cached, bounds>>

\* Seeded fault: the entities of an incomplete batch are forgotten.
ForgetLeftover(r) ==
  /\ pc[r] = "stream"
  /\ ~More(r)
  /\ Answer(r, "200")
  /\ UNCHANGED <<payload, at, batch, writer, sent, seen, topic, cached, bounds>>

\* Seeded fault: a payload that fills its batches is not answered.
OnlyLeftover(r) ==
  /\ pc[r] = "stream"
  /\ ~More(r)
  /\ batch[r] # <<>>
  /\ Goto(r, "lookup") /\ UNCHANGED status
  /\ UNCHANGED <<payload, at, batch, writer, sent, seen, topic, cached, bounds>>

\* The stream has no more values: the payload has ended, or stops being JSON, which
\* ParseStream does not report.
EndOfStream(r) ==
  /\ pc[r] = "stream"
  /\ ~More(r)
  /\ IF batch[r] = <<>>
       THEN Answer(r, "200")
       ELSE Goto(r, "lookup") /\ UNCHANGED status
  /\ UNCHANGED <<payload, at, batch, writer, sent, seen, topic, cached, bounds>>

-----------------------------------------------------------------------------
(***************************************************************************)
(* ProduceEntities                                                         *)
(***************************************************************************)

\* The dataset's configuration and writer are looked up.
Lookup(r) ==
  /\ pc[r] = "lookup"
  /\ topic # NoTopic
  /\ writer' = [writer EXCEPT ![r] = IF cached = NoTopic THEN topic ELSE cached]
  /\ Goto(r, IF cached = NoTopic THEN "store" ELSE "encode")
  /\ UNCHANGED <<payload, at, batch, status, sent, seen, topic, cached, bounds>>

\* There is no configuration: a nil pointer is dereferenced.
LookupPanics(r) ==
  /\ pc[r] = "lookup"
  /\ topic = NoTopic
  /\ Answer(r, "500")
  /\ UNCHANGED <<payload, at, batch, writer, sent, seen, topic, cached, bounds>>

\* A new writer goes into the map, over one another request has put there.
Store(r) ==
  /\ pc[r] = "store"
  /\ cached' = writer[r]
  /\ Goto(r, "encode")
  /\ UNCHANGED <<reqVars, topic, bounds>>

\* The map is not locked: the runtime may notice that it is written while
\* another goroutine reads or writes it, and end the process: its requests are cut
\* off without an answer.  Nothing of it is left but what is in Kafka.
MapRace(r, q) ==
  /\ q # r
  /\ pc[r] = "store"
  /\ pc[q] \in {"lookup", "store"}
  /\ pc' = [s \in Requests |-> IF pc[s] = "idle" THEN "idle" ELSE "over"]
  /\ status' = [s \in Requests |-> IF pc[s] \in {"idle", "over"} THEN status[s] ELSE "cut"]
  /\ cached' = NoTopic
  /\ UNCHANGED <<payload, at, batch, writer, sent, seen, topic, bounds>>

Unstrippable(r) ==
  StripProps /\ \E i \in 1..Len(batch[r]) : payload[r][batch[r][i]] = "unprefixed"

\* All entities of the batch are encoded before any is written.
Encode(r) ==
  /\ pc[r] = "encode"
  /\ IF Unstrippable(r)
       THEN Answer(r, "500")                        \* StripProps panics
       ELSE Goto(r, "write") /\ UNCHANGED status
  /\ UNCHANGED <<payload, at, batch, writer, sent, seen, topic, cached, bounds>>

Messages(r, s) == [i \in 1..Len(s) |-> [index |-> s[i], topic |-> writer[r]]]

\* Seeded fault: a batch that has been sent is kept.
WriteAndKeep(r) ==
  /\ pc[r] = "write"
  /\ sent' = [sent EXCEPT ![r] = @ \o Messages(r, batch[r])]
  /\ IF Len(batch[r]) = BatchSize
       THEN Goto(r, "stream") /\ UNCHANGED status
       ELSE Answer(r, "200")
  /\ UNCHANGED <<payload, at, batch, writer, seen, topic, cached, reloads, failures>>

\* WriteMessages returns nil: the batch has been sent.  The writer is made without
\* RequiredAcks (producer.go:89-93) and so asks for no acknowledgement: whether Kafka
\* has taken it nobody here knows.  A full batch is followed by the rest of the stream;
\* one that is not was the last.
Write(r) ==
  /\ pc[r] = "write"
  /\ sent' = [sent EXCEPT ![r] = @ \o Messages(r, batch[r])]
  /\ batch' = [batch EXCEPT ![r] = <<>>]
  /\ IF Len(batch[r]) = BatchSize
       THEN Goto(r, "stream") /\ UNCHANGED status
       ELSE Answer(r, "200")
  /\ UNCHANGED <<payload, at, writer, seen, topic, cached, reloads, failures>>

\* Seeded fault: the error of WriteMessages is dropped.
WriteErrorDropped(r) ==
  /\ pc[r] = "write"
  /\ failures < MaxFailures
  /\ failures' = failures + 1
  /\ batch' = [batch EXCEPT ![r] = <<>>]
  /\ IF Len(batch[r]) = BatchSize
       THEN Goto(r, "stream") /\ UNCHANGED status
       ELSE Answer(r, "200")
  /\ UNCHANGED <<payload, at, writer, sent, seen, topic, cached, reloads>>

\* Some of the entities of a batch, in their order.
Parts(b) ==
  {s \in SeqOf(ToSet(b), Len(b)) : \A i, j \in DOMAIN s : i < j => s[i] < s[j]}

\* Seeded fault: a write that fails is tried again.
WriteAgain(r) ==
  /\ pc[r] = "write"
  /\ failures < MaxFailures
  /\ failures' = failures + 1
  /\ \E s \in Parts(batch[r]) : sent' = [sent EXCEPT ![r] = @ \o Messages(r, s)]
  /\ UNCHANGED <<pc, payload, at, batch, writer, status, seen, topic, cached, reloads>>

\* WriteMessages returns an error: some partitions may have been sent their messages.
WriteFails(r) ==
  /\ pc[r] = "write"
  /\ failures < MaxFailures
  /\ failures' = failures + 1
  /\ \E s \in Parts(batch[r]) : sent' = [sent EXCEPT ![r] = @ \o Messages(r, s)]
  /\ Answer(r, "400")
  /\ UNCHANGED <<payload, at, batch, writer, seen, topic, cached, reloads>>

\* The request is over, and the slot is free again.
Done(r) ==
  /\ pc[r] = "over"
  /\ Goto(r, "idle")
  /\ payload' = [payload EXCEPT ![r] = NoPayload]
  /\ at' = [at EXCEPT ![r] = 0]
  /\ batch' = [batch EXCEPT ![r] = <<>>]
  /\ writer' = [writer EXCEPT ![r] = NoTopic]
  /\ status' = [status EXCEPT ![r] = "none"]
  /\ sent' = [sent EXCEPT ![r] = <<>>]
  /\ seen' = [seen EXCEPT ![r] = {}]
  /\ UNCHANGED <<topic, cached, bounds>>

-----------------------------------------------------------------------------
\* A reload configures another topic for the dataset, or drops it.
Reload(t) ==
  /\ reloads < MaxReloads
  /\ reloads' = reloads + 1
  /\ topic' = t
  /\ seen' = [r \in Requests |-> IF pc[r] = "idle" THEN {} ELSE seen[r] \cup {t}]
  /\ UNCHANGED <<pc, payload, at, batch, writer, status, sent, cached, failures>>

Produce(r) ==
  \/ Parse(r) \/ ParsePanics(r) \/ EndOfStream(r)
  \/ Lookup(r) \/ LookupPanics(r) \/ Store(r)
  \/ Encode(r) \/ Write(r) \/ WriteFails(r)

Next ==
  \/ \E r \in Requests : Receive(r) \/ Produce(r) \/ Done(r) \/ \E q \in Requests : MapRace(r, q)
  \/ \E t \in Slots \ {topic} : Reload(t)

Spec == Init /\ [][Next]_vars /\ \A r \in Requests : WF_vars(Produce(r))

-----------------------------------------------------------------------------
(***************************************************************************)
(* Properties                                                              *)
(***************************************************************************)

Sent(r) == [i \in 1..Len(sent[r]) |-> sent[r][i].index]

\* The positions of the entities among the first n values of a payload.
EntitiesUpTo(n) == [i \in 1..(n - 1) |-> i + 1]

\* For a request answered with 200 every entity of its payload has been sent, in
\* order and without repetition, the incomplete last batch included.
\* (producerhandler.go:58-86)
AcceptedIsSent ==
  \A r \in Requests :
    status[r] = "200" => Sent(r) = EntitiesUpTo(Len(payload[r]))

\* Whatever becomes of a request, a write that fails, a panic or the end of the
\* process, no entity of it is sent twice, or before an earlier one.
\* (producerhandler.go:58-86, producer.go:104-127)
SentInOrder ==
  \A r \in Requests : \A i, j \in 1..Len(sent[r]) :
    i < j => sent[r][i].index < sent[r][j].index

\* As long as no write fails, what has been sent is the whole batches that have
\* been read, also when the request panics half way: a batch with an entity that
\* cannot be stripped is not sent in part.  (producer.go:104-127)
WholeBatches ==
  \A r \in Requests :
    status[r] \in {"none", "500"} /\ pc[r] # "idle" =>
      /\ Len(sent[r]) % BatchSize = 0
      /\ Sent(r) \o batch[r] = EntitiesUpTo(at[r])

\* Every request is answered, unless the process ends under it, which answers
\* nobody.  (producerhandler.go:39-87)
Answered ==
  \A r \in Requests :
    pc[r] = "stream" ~> status[r] \in {"200", "400", "500"} \/ status[r] = "cut"

\* What a request sends goes to a topic the dataset was configured with while it
\* ran: the layer loads "updated config's".  (README.md:39)
SentToConfigured ==
  \A r \in Requests : \A i \in 1..Len(sent[r]) : sent[r][i].topic \in seen[r]

=============================================================================
