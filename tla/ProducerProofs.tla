--------------------------- MODULE ProducerProofs ---------------------------
(***************************************************************************)
(* Proofs about Producer, for any payloads, batch size, number of requests *)
(* and of reloads: its types, and that what is sent for a request is what  *)
(* its payload says.                                                       *)
(*                                                                         *)
(* Neither AcceptedIsSent nor WholeBatches is inductive.  What is, is      *)
(* that the entities sent and those in the batch are, one after the        *)
(* other, those taken from the stream (Ordered); that a batch that is      *)
(* being sent is full, or the stream has ended; and that an incomplete     *)
(* batch is followed by the answer, never by another (Progress).           *)
(***************************************************************************)
EXTENDS Producer, SequenceTheorems, TLAPS

\* The number of entities among the first n values, and what can be sent of them.
Entities(n) == IF n = 0 THEN 0 ELSE n - 1
Entry(n) == [index : 2..n, topic : Topics]

\* The messages w and the batch b are the entities among the first n values.
Follow(w, b, n) ==
  /\ Len(w) + Len(b) = Entities(n)
  /\ \A i \in 1..Len(w) : w[i].index = i + 1
  /\ \A i \in 1..Len(b) : b[i] = Len(w) + i + 1

\* The messages v are those of the batch b.
Covers(v, b) == Len(v) = Len(b) /\ \A i \in 1..Len(b) : v[i].index = b[i]

Fits(r) ==
  /\ at[r] <= Len(payload[r])
  /\ batch[r] \in Seq(2..at[r]) /\ Len(batch[r]) <= BatchSize
  /\ sent[r] \in Seq(Entry(at[r]))

Ordered(r) == Follow(sent[r], batch[r], at[r])

Progress(r) ==
  /\ pc[r] = "idle" => at[r] = 0 /\ batch[r] = <<>> /\ sent[r] = <<>>
  /\ pc[r] # "over" => status[r] = "none"
  /\ pc[r] \in {"store", "encode", "write"} => writer[r] \in Topics
  /\ pc[r] = "stream" => Len(batch[r]) < BatchSize
  /\ pc[r] \in {"lookup", "store", "encode", "write"} => Len(batch[r]) = BatchSize \/ ~More(r)
  /\ status[r] = "200" => batch[r] = <<>> /\ ~More(r)

RequestInv(r) ==
  /\ Fits(r)
  /\ Progress(r)
  /\ status[r] \in {"none", "200", "500"} => Ordered(r)
  /\ status[r] \in {"none", "500"} => Len(sent[r]) % BatchSize = 0

\* The types of the variables, one by one.
Shape ==
  /\ pc \in [Requests -> {"idle", "stream", "lookup", "store", "encode", "write", "over"}]
  /\ payload \in [Requests -> PayloadType]
  /\ at \in [Requests -> Nat]
  /\ batch \in [Requests -> Seq(Nat)]
  /\ sent \in [Requests -> Seq([index : Nat, topic : Topics])]
  /\ writer \in [Requests -> Slots]
  /\ status \in [Requests -> {"none", "200", "400", "500", "cut"}]
  /\ seen \in [Requests -> SUBSET Slots]
  /\ topic \in Slots
  /\ cached \in Slots
  /\ reloads \in 0..MaxReloads
  /\ failures \in 0..MaxFailures

IInv == Shape /\ \A r \in Requests : RequestInv(r)

-----------------------------------------------------------------------------
(***************************************************************************)
(* Numbers and sequences                                                   *)
(***************************************************************************)

LEMMA DivMod ==
  ASSUME NEW a \in Nat, NEW b \in Nat \ {0}
  PROVE  a \div b \in Nat /\ a % b \in 0..(b - 1) /\ a = b * (a \div b) + (a % b)
OBVIOUS

LEMMA SmallMultiple ==
  ASSUME NEW d \in Int, NEW b \in Nat \ {0}, NEW m \in 0..(b - 1), b * d = m
  PROVE  m = 0
<1>1. CASE d >= 1
  <2>1. b * d >= b
    BY <1>1
  <2>2. QED
    BY <2>1
<1>2. CASE d <= -1
  <2>1. b * d <= -b
    BY <1>2
  <2>2. QED
    BY <2>1
<1>3. CASE d = 0
  BY <1>3
<1>4. QED
  BY <1>1, <1>2, <1>3

\* One batch more is a whole number of batches again.
LEMMA OneBatchMore ==
  ASSUME NEW a \in Nat, NEW b \in Nat \ {0}, a % b = 0
  PROVE  (a + b) % b = 0
<1> DEFINE k == a \div b
           n == (a + b) \div b
           m == (a + b) % b
<1>1. k \in Nat /\ a = b * k
  BY DivMod
<1>2. a + b \in Nat
  OBVIOUS
<1>3. n \in Nat /\ m \in 0..(b - 1) /\ a + b = b * n + m
  BY <1>2, DivMod
<1> HIDE DEF k, n, m
<1>4. b * (k + 1 - n) = m
  BY <1>1, <1>3
<1>5. m = 0
  BY <1>1, <1>3, <1>4, SmallMultiple
<1>6. QED
  BY <1>5 DEF m

LEMMA Concat ==
  ASSUME NEW S, NEW s \in Seq(S), NEW t \in Seq(S)
  PROVE  /\ s \o t \in Seq(S)
         /\ Len(s \o t) = Len(s) + Len(t)
         /\ \A i \in 1..Len(s) : (s \o t)[i] = s[i]
         /\ \A i \in 1..Len(t) : (s \o t)[Len(s) + i] = t[i]
OBVIOUS

\* The messages of a sequence of positions.
LEMMA MessagesOf ==
  ASSUME NEW r \in Requests, writer[r] \in Topics, NEW n \in Nat, NEW s \in Seq(2..n)
  PROVE  Messages(r, s) \in Seq(Entry(n)) /\ Covers(Messages(r, s), s)
BY DEF Messages, Covers, Entry

\* Some of the entities of a batch are entities of the batch.
LEMMA PartsOf ==
  ASSUME NEW S, NEW b \in Seq(S), NEW s \in Parts(b)
  PROVE  s \in Seq(S)
<1>1. PICK m \in 0..Len(b) : s \in [1..m -> ToSet(b)]
  BY DEF Parts, SeqOf
<1>2. ToSet(b) \subseteq S
  BY DEF ToSet
<1>3. QED
  BY <1>1, <1>2

\* Positions stay positions when one more value has been taken.
LEMMA MorePositions ==
  ASSUME NEW m \in Nat
  PROVE  /\ Seq(2..m) \subseteq Seq(2..(m + 1))
         /\ Seq(Entry(m)) \subseteq Seq(Entry(m + 1))
<1>1. 2..m \subseteq 2..(m + 1)
  OBVIOUS
<1>2. Entry(m) \subseteq Entry(m + 1)
  BY <1>1 DEF Entry
<1>3. QED
  BY <1>1, <1>2, SeqMonotonic

\* The first value is the context, and no entity.
LEMMA FollowFirst ==
  ASSUME NEW w, NEW b, Follow(w, b, 0) PROVE Follow(w, b, 1)
BY DEF Follow, Entities

\* The others go into the batch, where they follow what is there.
LEMMA FollowTaken ==
  ASSUME NEW S, NEW R, NEW n \in Nat \ {0}, NEW w \in Seq(R), NEW b \in Seq(S), n + 1 \in S,
         Follow(w, b, n)
  PROVE  Follow(w, Append(b, n + 1), n + 1)
<1>1. Len(w) \in Nat /\ Len(b) \in Nat /\ Len(w) + Len(b) + 1 = n
  BY DEF Follow, Entities
<1>2. /\ Len(Append(b, n + 1)) = Len(b) + 1
      /\ \A i \in 1..Len(b) : Append(b, n + 1)[i] = b[i]
      /\ Append(b, n + 1)[Len(b) + 1] = n + 1
  BY AppendProperties
<1>3. ASSUME NEW i \in 1..(Len(b) + 1) PROVE Append(b, n + 1)[i] = Len(w) + i + 1
  <2>1. CASE i \in 1..Len(b)
    BY <1>2, <2>1 DEF Follow
  <2>2. CASE i = Len(b) + 1
    BY <1>1, <1>2, <2>2
  <2>3. QED
    BY <1>1, <2>1, <2>2
<1>4. Entities(n + 1) = n
  BY DEF Entities
<1>5. QED
  BY <1>1, <1>2, <1>3, <1>4 DEF Follow

\* A batch that has been sent follows what was sent before.
LEMMA FollowSent ==
  ASSUME NEW S, NEW R, NEW n \in Nat, NEW w \in Seq(R), NEW b \in Seq(S), NEW v \in Seq(R),
         Follow(w, b, n), Covers(v, b)
  PROVE  Follow(w \o v, <<>>, n)
<1>1. Len(w) \in Nat /\ Len(b) \in Nat
  OBVIOUS
<1>2. /\ Len(w \o v) = Len(w) + Len(v)
      /\ \A i \in 1..Len(w) : (w \o v)[i] = w[i]
      /\ \A i \in 1..Len(v) : (w \o v)[Len(w) + i] = v[i]
  BY Concat
<1>3. ASSUME NEW i \in 1..(Len(w) + Len(b)) PROVE (w \o v)[i].index = i + 1
  <2>1. CASE i \in 1..Len(w)
    BY <1>2, <2>1 DEF Follow
  <2>2. ASSUME NEW j \in 1..Len(b), i = Len(w) + j PROVE (w \o v)[i].index = i + 1
    BY <1>1, <1>2, <2>2 DEF Follow, Covers
  <2>3. i \notin 1..Len(w) => i - Len(w) \in 1..Len(b) /\ i = Len(w) + (i - Len(w))
    BY <1>1
  <2>4. QED
    BY <2>1, <2>2, <2>3
<1>4. Len(w \o v) + Len(<<>>) = Entities(n)
  BY <1>1, <1>2 DEF Follow, Covers
<1>5. \A i \in 1..Len(w \o v) : (w \o v)[i].index = i + 1
  BY <1>2, <1>3 DEF Covers
<1>6. QED
  BY <1>4, <1>5 DEF Follow

-----------------------------------------------------------------------------
(***************************************************************************)
(* The steps of a request                                                  *)
(***************************************************************************)

\* A step leaves all that RequestInv speaks of alone.
Same(r) ==
  /\ pc'[r] = pc[r] /\ payload'[r] = payload[r] /\ at'[r] = at[r] /\ batch'[r] = batch[r]
  /\ writer'[r] = writer[r] /\ status'[r] = status[r] /\ sent'[r] = sent[r]

LEMMA SameKept ==
  ASSUME NEW r \in Requests, RequestInv(r), Same(r)
  PROVE  RequestInv(r)'
BY DEF RequestInv, Fits, Ordered, Progress, More, Same

\* Only the stage and the answer change, and what has been taken stays as it is.
LEMMA OnlyStage ==
  ASSUME NEW r \in Requests, RequestInv(r), UNCHANGED <<payload, at, batch, sent>>,
         Progress(r)',
         status[r] = "none"
  PROVE  RequestInv(r)'
BY DEF RequestInv, Fits, Ordered

LEMMA Answered1 ==
  ASSUME Shape, NEW r \in Requests, RequestInv(r), pc[r] \notin {"idle", "over"},
         NEW s \in {"400", "500", "200"}, Answer(r, s), UNCHANGED <<payload, at, batch, sent>>,
         s = "200" => batch[r] = <<>> /\ ~More(r)
  PROVE  RequestInv(r)'
<1>1. pc'[r] = "over" /\ status'[r] = s
  BY DEF Answer, Goto, Shape
<1>2. Progress(r)'
  BY <1>1 DEF Progress, More
<1>3. QED
  BY <1>2, OnlyStage DEF RequestInv, Progress

LEMMA ReceiveInv ==
  ASSUME Shape, NEW r \in Requests, RequestInv(r), Receive(r)
  PROVE  RequestInv(r)'
<1>1. PICK p \in Payloads : payload' = [payload EXCEPT ![r] = p]
  BY DEF Receive
<1>2. /\ pc[r] = "idle" /\ pc'[r] = "stream" /\ payload'[r] = p
      /\ UNCHANGED <<at, batch, writer, status, sent>>
  BY <1>1 DEF Receive, Goto, Shape
<1>3. at[r] = 0 /\ batch[r] = <<>> /\ sent[r] = <<>> /\ status[r] = "none"
  BY <1>2 DEF RequestInv, Progress
<1>4. Len(p) \in Nat
  BY ProducerAssumption DEF PayloadType
<1>5. Fits(r)'
  BY <1>2, <1>3, <1>4 DEF RequestInv, Fits
<1>6. Progress(r)'
  BY <1>2, <1>3, ProducerAssumption DEF Progress
<1>7. QED
  BY <1>2, <1>3, <1>5, <1>6 DEF RequestInv, Ordered

LEMMA ParseInv ==
  ASSUME Shape, NEW r \in Requests, RequestInv(r), Parse(r)
  PROVE  RequestInv(r)'
<1>1. /\ pc[r] = "stream" /\ More(r) /\ status[r] = "none" /\ Fits(r) /\ Ordered(r)
      /\ Len(batch[r]) < BatchSize /\ Len(sent[r]) % BatchSize = 0
  BY DEF Parse, RequestInv, Progress
<1>2. /\ at'[r] = at[r] + 1 /\ batch'[r] = IF at[r] = 0 THEN batch[r] ELSE Append(batch[r], at[r] + 1)
      /\ pc'[r] = IF Len(batch'[r]) = BatchSize THEN "lookup" ELSE "stream"
      /\ UNCHANGED <<payload, writer, status, sent>>
  BY DEF Parse, Goto, Shape
<1>3. at[r] \in Nat /\ Len(batch[r]) \in Nat /\ BatchSize \in Nat \ {0} /\ Len(payload[r]) \in Nat
  BY ProducerAssumption DEF Shape, PayloadType
<1>4. batch[r] \in Seq(2..(at[r] + 1)) /\ sent[r] \in Seq(Entry(at[r] + 1))
  <2>1. batch[r] \in Seq(2..at[r]) /\ sent[r] \in Seq(Entry(at[r]))
    BY <1>1 DEF Fits
  <2>2. QED
    BY <1>3, <2>1, MorePositions
<1>5. /\ batch'[r] \in Seq(2..(at[r] + 1)) /\ Len(batch'[r]) \in {Len(batch[r]), Len(batch[r]) + 1}
      /\ Follow(sent[r], batch'[r], at[r] + 1)
  <2>1. CASE at[r] = 0
    BY <1>1, <1>2, <1>4, <2>1, FollowFirst DEF Ordered
  <2>2. CASE at[r] # 0
    <3>1. batch'[r] = Append(batch[r], at[r] + 1) /\ at[r] + 1 \in 2..(at[r] + 1) /\ at[r] \in Nat \ {0}
      BY <1>2, <1>3, <2>2
    <3>2. Append(batch[r], at[r] + 1) \in Seq(2..(at[r] + 1)) /\ Len(Append(batch[r], at[r] + 1)) = Len(batch[r]) + 1
      BY <1>4, <3>1, AppendProperties
    <3>3. Follow(sent[r], Append(batch[r], at[r] + 1), at[r] + 1)
      BY <1>1, <1>4, <3>1, FollowTaken DEF Ordered
    <3>4. QED
      BY <3>1, <3>2, <3>3
  <2>3. QED
    BY <2>1, <2>2
<1>6. Fits(r)'
  BY <1>1, <1>2, <1>3, <1>4, <1>5 DEF Fits, More, Entry
<1>7. Progress(r)'
  BY <1>1, <1>2, <1>3, <1>5 DEF Progress
<1>8. QED
  BY <1>1, <1>2, <1>5, <1>6, <1>7 DEF RequestInv, Ordered

LEMMA WriteInv ==
  ASSUME Shape, NEW r \in Requests, RequestInv(r), Write(r)
  PROVE  RequestInv(r)'
<1>1. /\ pc[r] = "write" /\ status[r] = "none" /\ Fits(r) /\ Ordered(r) /\ writer[r] \in Topics
      /\ Len(sent[r]) % BatchSize = 0 /\ (Len(batch[r]) = BatchSize \/ ~More(r))
  BY DEF Write, RequestInv, Progress
<1>2. /\ sent'[r] = sent[r] \o Messages(r, batch[r]) /\ batch'[r] = <<>>
      /\ UNCHANGED <<payload, at, writer>>
      /\ IF Len(batch[r]) = BatchSize
           THEN pc'[r] = "stream" /\ status'[r] = "none"
           ELSE pc'[r] = "over" /\ status'[r] = "200"
  BY <1>1 DEF Write, Answer, Goto, Shape
<1>3. at[r] \in Nat /\ Len(sent[r]) \in Nat /\ BatchSize \in Nat \ {0}
  BY ProducerAssumption DEF Shape
<1>4. batch[r] \in Seq(2..at[r]) /\ sent[r] \in Seq(Entry(at[r]))
  BY <1>1 DEF Fits
<1>5. Messages(r, batch[r]) \in Seq(Entry(at[r])) /\ Covers(Messages(r, batch[r]), batch[r])
  BY <1>1, <1>3, <1>4, MessagesOf
<1>6. sent'[r] \in Seq(Entry(at[r])) /\ Len(sent'[r]) = Len(sent[r]) + Len(Messages(r, batch[r]))
  BY <1>2, <1>4, <1>5, Concat
<1>7. Follow(sent'[r], <<>>, at[r])
  BY <1>1, <1>2, <1>3, <1>4, <1>5, FollowSent DEF Ordered
<1>8. Fits(r)'
  BY <1>1, <1>2, <1>3, <1>6 DEF Fits, Entry
<1>9. Progress(r)'
  BY <1>1, <1>2, <1>3 DEF Progress, More
<1>10. status'[r] \in {"none", "500"} => Len(sent'[r]) % BatchSize = 0
  BY <1>1, <1>2, <1>3, <1>5, <1>6, OneBatchMore DEF Covers
<1>11. QED
  BY <1>2, <1>7, <1>8, <1>9, <1>10 DEF RequestInv, Ordered

LEMMA WriteFailsInv ==
  ASSUME Shape, NEW r \in Requests, RequestInv(r), WriteFails(r)
  PROVE  RequestInv(r)'
<1>1. PICK s \in Parts(batch[r]) : sent' = [sent EXCEPT ![r] = @ \o Messages(r, s)]
  BY DEF WriteFails
<1>2. /\ pc[r] = "write" /\ Fits(r) /\ writer[r] \in Topics
      /\ pc'[r] = "over" /\ status'[r] = "400" /\ sent'[r] = sent[r] \o Messages(r, s)
      /\ UNCHANGED <<payload, at, batch, writer>>
  BY <1>1 DEF WriteFails, Answer, Goto, Shape, RequestInv, Progress
<1>3. s \in Seq(2..at[r])
  BY <1>2, PartsOf DEF Fits
<1>4. Messages(r, s) \in Seq(Entry(at[r]))
  BY <1>2, <1>3, MessagesOf DEF Shape
<1>5. sent'[r] \in Seq(Entry(at[r]))
  BY <1>2, <1>4, Concat DEF Fits
<1>6. Fits(r)'
  BY <1>2, <1>5 DEF Fits
<1>7. QED
  BY <1>2, <1>6 DEF RequestInv, Progress

LEMMA DoneInv ==
  ASSUME Shape, NEW r \in Requests, RequestInv(r), Done(r)
  PROVE  RequestInv(r)'
<1>1. /\ pc'[r] = "idle" /\ payload'[r] = NoPayload /\ at'[r] = 0 /\ batch'[r] = <<>>
      /\ status'[r] = "none" /\ sent'[r] = <<>>
  BY DEF Done, Goto, Shape
<1>2. Fits(r)'
  BY <1>1, ProducerAssumption DEF Fits, NoPayload
<1>3. QED
  BY <1>1, <1>2, ProducerAssumption DEF RequestInv, Progress, Ordered, Follow, Entities

\* All other steps change the stage, the writer and the answer at most.
LEMMA StageInv ==
  ASSUME Shape, NEW r \in Requests, RequestInv(r),
         \/ ParsePanics(r) \/ EndOfStream(r) \/ Lookup(r) \/ LookupPanics(r)
         \/ Store(r) \/ Encode(r)
  PROVE  RequestInv(r)'
<1>1. CASE ParsePanics(r)
  BY <1>1, Answered1 DEF ParsePanics
<1>2. CASE EndOfStream(r)
  <2>1. CASE batch[r] = <<>>
    BY <1>2, <2>1, Answered1 DEF EndOfStream
  <2>2. CASE batch[r] # <<>>
    <3>1. pc'[r] = "lookup" /\ UNCHANGED <<payload, at, batch, writer, status, sent>> /\ ~More(r)
      BY <1>2, <2>2 DEF EndOfStream, Goto, Shape
    <3>2. status[r] = "none" /\ Progress(r)'
      BY <1>2, <3>1 DEF EndOfStream, RequestInv, Progress, More
    <3>3. QED
      BY <3>1, <3>2, OnlyStage
  <2>3. QED
    BY <2>1, <2>2
<1>3. CASE Lookup(r)
  <2>1. /\ pc'[r] \in {"store", "encode"} /\ writer'[r] \in Topics
        /\ UNCHANGED <<payload, at, batch, status, sent>>
    BY <1>3 DEF Lookup, Goto, Shape, Slots
  <2>2. status[r] = "none" /\ Progress(r)'
    BY <1>3, <2>1 DEF Lookup, RequestInv, Progress, More
  <2>3. QED
    BY <2>1, <2>2, OnlyStage
<1>4. CASE LookupPanics(r)
  BY <1>4, Answered1 DEF LookupPanics
<1>5. CASE Store(r)
  <2>1. pc'[r] = "encode" /\ UNCHANGED <<payload, at, batch, writer, status, sent>>
    BY <1>5 DEF Store, Goto, Shape, reqVars
  <2>2. status[r] = "none" /\ Progress(r)'
    BY <1>5, <2>1 DEF Store, RequestInv, Progress, More
  <2>3. QED
    BY <2>1, <2>2, OnlyStage
<1>6. CASE Encode(r)
  <2>1. CASE Unstrippable(r)
    BY <1>6, <2>1, Answered1 DEF Encode
  <2>2. CASE ~Unstrippable(r)
    <3>1. pc'[r] = "write" /\ UNCHANGED <<payload, at, batch, writer, status, sent>>
      BY <1>6, <2>2 DEF Encode, Goto, Shape
    <3>2. status[r] = "none" /\ Progress(r)'
      BY <1>6, <3>1 DEF Encode, RequestInv, Progress, More
    <3>3. QED
      BY <3>1, <3>2, OnlyStage
  <2>3. QED
    BY <2>1, <2>2
<1>7. QED
  BY <1>1, <1>2, <1>3, <1>4, <1>5, <1>6

\* The process ends: whoever was at work is cut off.
LEMMA MapRaceInv ==
  ASSUME Shape, NEW q \in Requests, NEW s \in Requests, MapRace(q, s),
         NEW r \in Requests, RequestInv(r)
  PROVE  RequestInv(r)'
<1>1. /\ pc'[r] = IF pc[r] = "idle" THEN "idle" ELSE "over"
      /\ status'[r] = IF pc[r] \in {"idle", "over"} THEN status[r] ELSE "cut"
      /\ UNCHANGED <<payload, at, batch, writer, sent>>
  BY DEF MapRace
<1>2. CASE pc[r] \in {"idle", "over"}
  <2>1. Same(r)
    BY <1>1, <1>2 DEF Same
  <2>2. QED
    BY <2>1, SameKept
<1>3. CASE pc[r] \notin {"idle", "over"}
  BY <1>1, <1>3 DEF RequestInv, Fits, Progress
<1>4. QED
  BY <1>2, <1>3

\* A step of one request leaves the others alone.
LEMMA OthersKept ==
  ASSUME Shape, NEW r \in Requests, Receive(r) \/ Produce(r) \/ Done(r),
         NEW q \in Requests \ {r}
  PROVE  Same(q)
BY DEF Same, Shape, Receive, Produce, Done, Parse, ParsePanics, EndOfStream, Lookup, LookupPanics,
       Store, Encode, Write, WriteFails, Answer, Goto, reqVars

-----------------------------------------------------------------------------
(***************************************************************************)
(* Types and the invariant                                                 *)
(***************************************************************************)

\* Every step keeps the types; only what is appended to the sequences needs the
\* invariant.
LEMMA ShapeStep ==
  ASSUME IInv, [Next]_vars
  PROVE  Shape'
<1>1. Shape /\ \A r \in Requests : RequestInv(r)
  BY DEF IInv
<1>2. ASSUME NEW r \in Requests, Receive(r) PROVE Shape'
  BY <1>1, <1>2, ProducerAssumption DEF Receive, Shape, Goto, bounds, Slots
<1>3. ASSUME NEW r \in Requests, Parse(r) PROVE Shape'
  <2>1. Append(batch[r], at[r] + 1) \in Seq(Nat) /\ at[r] + 1 \in Nat
    BY <1>1 DEF Shape
  <2>2. at' \in [Requests -> Nat] /\ batch' \in [Requests -> Seq(Nat)]
    BY <1>1, <1>3, <2>1 DEF Parse, Shape
  <2>3. QED
    BY <1>1, <1>3, <2>2 DEF Parse, Shape, Goto, bounds
<1>4. ASSUME NEW r \in Requests, Write(r) PROVE Shape'
  <2>1. sent'[r] \in Seq([index : Nat, topic : Topics])
    <3>1. writer[r] \in Topics /\ batch[r] \in Seq(Nat) /\ sent[r] \in Seq([index : Nat, topic : Topics])
      BY <1>1, <1>4 DEF Write, Shape, RequestInv, Progress
    <3>2. Messages(r, batch[r]) \in Seq([index : Nat, topic : Topics])
      BY <3>1 DEF Messages
    <3>3. sent'[r] = sent[r] \o Messages(r, batch[r])
      BY <1>1, <1>4 DEF Write, Shape
    <3>4. QED
      BY <3>1, <3>2, <3>3, Concat
  <2>2. sent' \in [Requests -> Seq([index : Nat, topic : Topics])]
    BY <1>1, <1>4, <2>1 DEF Write, Shape
  <2>3. batch' \in [Requests -> Seq(Nat)]
    BY <1>1, <1>4 DEF Write, Shape
  <2>4. QED
    BY <1>1, <1>4, <2>2, <2>3 DEF Write, Shape, Answer, Goto
<1>5. ASSUME NEW r \in Requests, WriteFails(r) PROVE Shape'
  <2>1. PICK s \in Parts(batch[r]) : sent' = [sent EXCEPT ![r] = @ \o Messages(r, s)]
    BY <1>5 DEF WriteFails
  <2>2. sent'[r] \in Seq([index : Nat, topic : Topics])
    <3>1. writer[r] \in Topics /\ batch[r] \in Seq(Nat) /\ sent[r] \in Seq([index : Nat, topic : Topics])
      BY <1>1, <1>5 DEF WriteFails, Shape, RequestInv, Progress
    <3>2. s \in Seq(Nat)
      BY <3>1, PartsOf
    <3>3. Messages(r, s) \in Seq([index : Nat, topic : Topics])
      BY <3>1, <3>2 DEF Messages
    <3>4. sent'[r] = sent[r] \o Messages(r, s)
      BY <1>1, <2>1 DEF Shape
    <3>5. QED
      BY <3>1, <3>3, <3>4, Concat
  <2>3. sent' \in [Requests -> Seq([index : Nat, topic : Topics])]
    BY <1>1, <2>1, <2>2 DEF Shape
  <2>4. failures' \in 0..MaxFailures
    BY <1>1, <1>5, ProducerAssumption DEF WriteFails, Shape
  <2>5. QED
    BY <1>1, <1>5, <2>3, <2>4 DEF WriteFails, Shape, Answer, Goto
<1>6. ASSUME NEW r \in Requests, Done(r) PROVE Shape'
  <2>1. NoPayload \in PayloadType /\ NoTopic \in Slots
    BY DEF NoPayload, PayloadType, Slots
  <2>2. /\ payload' \in [Requests -> PayloadType] /\ at' \in [Requests -> Nat]
        /\ writer' \in [Requests -> Slots]
    BY <1>1, <1>6, <2>1 DEF Done, Shape
  <2>3. /\ <<>> \in Seq(Nat)
        /\ <<>> \in Seq([index : Nat, topic : Topics])
    OBVIOUS
  <2>4. batch' \in [Requests -> Seq(Nat)]
    BY <1>1, <1>6, <2>3 DEF Done, Shape
  <2>5. sent' \in [Requests -> Seq([index : Nat, topic : Topics])]
    BY <1>1, <1>6, <2>3 DEF Done, Shape
  <2>6. QED
    BY <1>1, <1>6, <2>2, <2>4, <2>5 DEF Done, Shape, Goto, bounds
<1>7. ASSUME NEW r \in Requests,
             \/ ParsePanics(r) \/ EndOfStream(r) \/ Lookup(r) \/ LookupPanics(r)
             \/ Store(r) \/ Encode(r)
      PROVE  Shape'
  <2>1. CASE ParsePanics(r) \/ LookupPanics(r)
    BY <1>1, <2>1 DEF ParsePanics, LookupPanics, Answer, Goto, Shape, bounds
  <2>2. CASE EndOfStream(r) \/ Encode(r)
    BY <1>1, <2>2 DEF EndOfStream, Encode, Answer, Goto, Shape, bounds
  <2>3. CASE Lookup(r)
    BY <1>1, <2>3 DEF Lookup, Goto, Shape, bounds
  <2>4. CASE Store(r)
    BY <1>1, <2>4 DEF Store, Goto, Shape, reqVars, bounds
  <2>5. QED
    BY <1>7, <2>1, <2>2, <2>3, <2>4
<1>8. ASSUME NEW r \in Requests, NEW q \in Requests, MapRace(r, q) PROVE Shape'
  BY <1>1, <1>8 DEF MapRace, Shape, bounds, Slots
<1>9. ASSUME NEW t \in Slots, Reload(t) PROVE Shape'
  <2>1. seen' \in [Requests -> SUBSET Slots]
    BY <1>1, <1>9 DEF Reload, Shape
  <2>2. reloads' \in 0..MaxReloads
    BY <1>1, <1>9, ProducerAssumption DEF Reload, Shape
  <2>3. QED
    BY <1>1, <1>9, <2>1, <2>2 DEF Reload, Shape
<1>10. CASE UNCHANGED vars
  BY <1>1, <1>10 DEF vars, Shape, reqVars, bounds
<1>11. QED
  BY <1>2, <1>3, <1>4, <1>5, <1>6, <1>7, <1>8, <1>9, <1>10 DEF Next, Produce

LEMMA RequestStep ==
  ASSUME IInv, [Next]_vars, NEW r \in Requests
  PROVE  RequestInv(r)'
<1>1. Shape /\ RequestInv(r)
  BY DEF IInv
<1>2. ASSUME Receive(r) \/ Produce(r) \/ Done(r) PROVE RequestInv(r)'
  BY <1>1, <1>2, ReceiveInv, ParseInv, WriteInv, WriteFailsInv, StageInv, DoneInv DEF Produce
<1>3. ASSUME NEW q \in Requests, q # r, Receive(q) \/ Produce(q) \/ Done(q) PROVE RequestInv(r)'
  BY <1>1, <1>3, OthersKept, SameKept
<1>4. ASSUME NEW q \in Requests, NEW s \in Requests, MapRace(q, s) PROVE RequestInv(r)'
  BY <1>1, <1>4, MapRaceInv
<1>5. ASSUME \/ \E t \in Slots : Reload(t)
             \/ UNCHANGED vars
      PROVE  RequestInv(r)'
  <2>1. Same(r)
    BY <1>5 DEF Reload, vars, reqVars, Same
  <2>2. QED
    BY <1>1, <2>1, SameKept
<1>6. QED
  BY <1>2, <1>3, <1>4, <1>5 DEF Next

LEMMA Invariance == Spec => []IInv
<1>1. Init => IInv
  <2> SUFFICES ASSUME Init PROVE IInv
    OBVIOUS
  <2>1. Shape
    BY ProducerAssumption DEF Init, Shape, Slots, NoPayload, PayloadType
  <2>2. ASSUME NEW r \in Requests PROVE RequestInv(r)
    <3>1. /\ pc[r] = "idle" /\ payload[r] = NoPayload /\ at[r] = 0 /\ batch[r] = <<>>
          /\ status[r] = "none" /\ sent[r] = <<>>
      BY DEF Init
    <3>2. QED
      BY <3>1, ProducerAssumption
      DEF RequestInv, Fits, NoPayload, Progress, Ordered, Follow, Entities
  <2>3. QED
    BY <2>1, <2>2 DEF IInv
<1>2. IInv /\ [Next]_vars => IInv'
  BY ShapeStep, RequestStep DEF IInv
<1>3. QED
  BY <1>1, <1>2, PTL DEF Spec

\* The variables always have their types: a batch is never larger than it may be,
\* and only entities of the payload that have been taken get sent, to topics.
\* (producerhandler.go:58-86, producer.go:84-128)
THEOREM TypeCorrect == Spec => []TypeOK
<1>1. IInv => TypeOK
  BY DEF IInv, Shape, RequestInv, Fits, Entry, TypeOK
<1>2. QED
  BY <1>1, Invariance, PTL

-----------------------------------------------------------------------------
(***************************************************************************)
(* What is sent                                                            *)
(***************************************************************************)

\* A batch is a sequence of numbers.
LEMMA BatchOfNat ==
  ASSUME NEW n \in Nat, NEW b \in Seq(2..n) PROVE b \in Seq(Nat)
<1>1. 2..n \subseteq Nat
  OBVIOUS
<1>2. QED
  BY <1>1, SeqMonotonic

\* The entities of a payload, one after the other.
LEMMA EntitiesInOrder ==
  ASSUME NEW n \in Nat
  PROVE  /\ EntitiesUpTo(n) \in Seq(Nat)
         /\ Len(EntitiesUpTo(n)) = Entities(n)
         /\ \A i \in 1..Entities(n) : EntitiesUpTo(n)[i] = i + 1
<1>1. 1..(n - 1) = 1..Entities(n) /\ Entities(n) \in Nat
  BY DEF Entities
<1> DEFINE k == Entities(n)
           y == [i \in 1..k |-> i + 1]
<1>2. EntitiesUpTo(n) = y
  BY <1>1 DEF EntitiesUpTo
<1> HIDE DEF k
<1>3. k \in Nat
  BY <1>1 DEF k
<1>4. y \in Seq(Nat)
  BY <1>3
<1>5. Len(y) = k
  BY <1>3
<1>6. \A i \in 1..k : y[i] = i + 1
  OBVIOUS
<1>7. QED
  BY <1>2, <1>4, <1>5, <1>6 DEF k

\* Messages and a batch that follow each other are the entities taken.
LEMMA FollowAll ==
  ASSUME NEW S, NEW n \in Nat, NEW w \in Seq(Entry(n)), NEW b \in Seq(2..n), Follow(w, b, n)
  PROVE  /\ [i \in 1..Len(w) |-> w[i].index] \in Seq(Nat)
         /\ [i \in 1..Len(w) |-> w[i].index] \o b = EntitiesUpTo(n)
<1> DEFINE x == [i \in 1..Len(w) |-> w[i].index]
           y == EntitiesUpTo(n)
<1>1. Len(w) \in Nat /\ Len(b) \in Nat /\ \A i \in 1..Len(w) : w[i] \in Entry(n)
  OBVIOUS
<1>2. x \in Seq(Nat)
  BY <1>1 DEF Entry
<1>3. Len(x) = Len(w) /\ \A i \in 1..Len(w) : x[i] = i + 1
  BY <1>1 DEF Follow
<1>4. y \in Seq(Nat) /\ Len(y) = Entities(n) /\ \A i \in 1..Entities(n) : y[i] = i + 1
  BY EntitiesInOrder
<1>5. b \in Seq(Nat)
  BY BatchOfNat
<1>6. \A i \in 1..Len(b) : b[i] = Len(w) + i + 1
  BY DEF Follow
<1>7. Len(w) + Len(b) = Entities(n)
  BY DEF Follow
<1> HIDE DEF x, y
<1>8. /\ x \o b \in Seq(Nat) /\ Len(x \o b) = Len(x) + Len(b)
      /\ \A i \in 1..Len(x) : (x \o b)[i] = x[i]
      /\ \A i \in 1..Len(b) : (x \o b)[Len(x) + i] = b[i]
  BY <1>2, <1>5, Concat
<1>9. ASSUME NEW i \in 1..Entities(n) PROVE (x \o b)[i] = y[i]
  <2>1. CASE i \in 1..Len(w)
    BY <1>3, <1>4, <1>8, <2>1
  <2>2. ASSUME NEW j \in 1..Len(b), i = Len(w) + j PROVE (x \o b)[i] = y[i]
    BY <1>1, <1>3, <1>4, <1>6, <1>8, <2>2
  <2>3. i \notin 1..Len(w) => i - Len(w) \in 1..Len(b) /\ i = Len(w) + (i - Len(w))
    BY <1>1, <1>7
  <2>4. QED
    BY <2>1, <2>2, <2>3
<1>10. x \o b = y
  BY <1>3, <1>4, <1>7, <1>8, <1>9, SeqEqual
<1>11. QED
  BY <1>2, <1>10 DEF x, y

\* As long as no write fails, what has been sent is the whole batches that have
\* been read, whatever the payload, the size of a batch, and the other requests.
\* (producer.go:104-127)
THEOREM BatchesWhole == Spec => []WholeBatches
<1>1. IInv => WholeBatches
  <2> SUFFICES ASSUME IInv, NEW r \in Requests, status[r] \in {"none", "500"}
               PROVE  /\ Len(sent[r]) % BatchSize = 0
                      /\ Sent(r) \o batch[r] = EntitiesUpTo(at[r])
    BY DEF WholeBatches
  <2>1. Fits(r) /\ Ordered(r) /\ Len(sent[r]) % BatchSize = 0 /\ at[r] \in Nat
    BY DEF IInv, RequestInv, Shape
  <2>2. Sent(r) \o batch[r] = EntitiesUpTo(at[r])
    BY <2>1, FollowAll DEF Fits, Ordered, Sent
  <2>3. QED
    BY <2>1, <2>2
<1>2. QED
  BY <1>1, Invariance, PTL

\* For a request answered with 200 every entity of its payload has been sent, in order
\* and without repetition.  (producerhandler.go:58-86)
THEOREM AcceptedSent == Spec => []AcceptedIsSent
<1>1. IInv => AcceptedIsSent
  <2> SUFFICES ASSUME IInv, NEW r \in Requests, status[r] = "200"
               PROVE  Sent(r) = EntitiesUpTo(Len(payload[r]))
    BY DEF AcceptedIsSent
  <2>1. Fits(r) /\ Ordered(r) /\ batch[r] = <<>> /\ ~More(r) /\ at[r] \in Nat
        /\ Len(payload[r]) \in Nat
    BY DEF IInv, RequestInv, Progress, Shape, PayloadType
  <2>2. at[r] = Len(payload[r])
    BY <2>1 DEF Fits, More
  <2>3. Sent(r) \in Seq(Nat) /\ Sent(r) \o batch[r] = EntitiesUpTo(at[r])
    BY <2>1, FollowAll DEF Fits, Ordered, Sent
  <2>4. QED
    BY <2>1, <2>2, <2>3, ConcatEmptySeq
<1>2. QED
  BY <1>1, Invariance, PTL

-----------------------------------------------------------------------------
(***************************************************************************)
(* What is sent when a request does not end well                           *)
(***************************************************************************)

Rising(w) == \A i, j \in 1..Len(w) : i < j => w[i].index < w[j].index

\* Messages that follow the stream from its start rise.
LEMMA FollowRises ==
  ASSUME NEW w, NEW b, NEW n \in Nat, Len(w) \in Nat, Follow(w, b, n)
  PROVE  Rising(w)
BY DEF Follow, Rising

\* Part of the next batch goes on where they end.
LEMMA PartRises ==
  ASSUME NEW r \in Requests, writer[r] \in Topics, NEW n \in Nat,
         NEW w \in Seq(Entry(n)), NEW b \in Seq(2..n), Follow(w, b, n), NEW s \in Parts(b)
  PROVE  Rising(w \o Messages(r, s))
<1> DEFINE v == Messages(r, s)
<1>1. s \in Seq(2..n)
  BY PartsOf
<1>2. PICK m \in 0..Len(b) : s \in [1..m -> ToSet(b)]
  BY DEF Parts, SeqOf
<1>3. Len(s) = m /\ \A i \in 1..m : s[i] \in ToSet(b)
  BY <1>2
<1>4. \A e \in ToSet(b) : e \in Nat /\ e > Len(w) + 1
  <2>1. \A i \in 1..Len(b) : b[i] \in Nat /\ b[i] > Len(w) + 1
    BY DEF Follow
  <2>2. DOMAIN b = 1..Len(b)
    OBVIOUS
  <2>3. QED
    BY <2>1, <2>2 DEF ToSet
<1>5. /\ v \in Seq(Entry(n)) /\ Len(v) = Len(s)
      /\ \A i \in 1..Len(s) : v[i].index = s[i]
  BY <1>1, MessagesOf DEF Covers
<1>6. \A i, j \in 1..Len(s) : i < j => s[i] < s[j]
  <2>1. DOMAIN s = 1..Len(s)
    BY <1>1
  <2>2. QED
    BY <2>1 DEF Parts
<1>7. /\ Len(w) \in Nat /\ Len(v) = m /\ m \in Nat
      /\ \A i \in 1..m : v[i].index \in Nat /\ v[i].index > Len(w) + 1
      /\ \A i, j \in 1..m : i < j => v[i].index < v[j].index
  BY <1>2, <1>3, <1>4, <1>5, <1>6
<1> HIDE DEF v
<1>8. /\ Len(w \o v) = Len(w) + m
      /\ \A i \in 1..Len(w) : (w \o v)[i] = w[i]
      /\ \A i \in 1..m : (w \o v)[Len(w) + i] = v[i]
  <2>1. v \in Seq(Entry(n)) /\ Len(v) = m
    BY <1>5, <1>7
  <2>2. Len(w \o v) = Len(w) + m
    BY <2>1, Concat
  <2>3. \A i \in 1..Len(w) : (w \o v)[i] = w[i]
    BY <2>1, Concat
  <2>4. \A i \in 1..m : (w \o v)[Len(w) + i] = v[i]
    BY <2>1, Concat
  <2>5. QED
    BY <2>2, <2>3, <2>4
<1>9. \A i \in 1..Len(w \o v) : i \notin 1..Len(w) => i - Len(w) \in 1..m /\ i = Len(w) + (i - Len(w))
  BY <1>7, <1>8
<1>10. ASSUME NEW i \in 1..Len(w \o v), NEW j \in 1..Len(w \o v), i < j
      PROVE  (w \o v)[i].index < (w \o v)[j].index
  <2>1. CASE i \in 1..Len(w) /\ j \in 1..Len(w)
    BY <1>8, <1>10, <2>1 DEF Follow
  <2>2. CASE i \in 1..Len(w) /\ j \notin 1..Len(w)
    <3>1. PICK k \in 1..m : j = Len(w) + k
      BY <1>9, <2>2
    <3>2. (w \o v)[j] = v[k] /\ (w \o v)[i].index = i + 1
      BY <1>8, <2>2, <3>1 DEF Follow
    <3>3. QED
      BY <1>7, <2>2, <3>1, <3>2
  <2>3. CASE i \notin 1..Len(w)
    <3>1. PICK k \in 1..m : i = Len(w) + k
      BY <1>9, <2>3
    <3>2. PICK l \in 1..m : j = Len(w) + l
      <4>1. j \notin 1..Len(w)
        BY <1>7, <1>8, <1>10, <2>3
      <4>2. QED
        BY <1>9, <4>1
    <3>3. k < l
      BY <1>7, <1>10, <3>1, <3>2
    <3>4. QED
      BY <1>7, <1>8, <3>1, <3>2, <3>3
  <2>4. QED
    BY <2>1, <2>2, <2>3
<1>11. QED
  BY <1>10 DEF Rising, v

\* Whatever becomes of a request, no entity of it is sent twice or before an earlier
\* one: as long as it has not failed, because it follows its payload; then, because
\* only part of one more batch is sent.  (producer.go:104-127)
THEOREM SentRises == Spec => []SentInOrder
<1>1. Init => SentInOrder
  BY DEF Init, SentInOrder
<1>2. IInv /\ IInv' /\ SentInOrder /\ [Next]_vars => SentInOrder'
  <2> SUFFICES ASSUME IInv, IInv', SentInOrder, [Next]_vars, NEW r \in Requests
               PROVE  Rising(sent'[r])
    BY DEF SentInOrder, Rising
  <2>1. Rising(sent[r])
    BY DEF SentInOrder, Rising
  <2>2. CASE status'[r] \in {"none", "200", "500"}
    <3>1. Ordered(r)' /\ at'[r] \in Nat /\ Len(sent'[r]) \in Nat
      BY <2>2 DEF IInv, RequestInv, Shape
    <3>2. QED
      BY <3>1, FollowRises DEF Ordered
  <2>3. CASE WriteFails(r)
    <3>1. PICK s \in Parts(batch[r]) : sent' = [sent EXCEPT ![r] = @ \o Messages(r, s)]
      BY <2>3 DEF WriteFails
    <3>2. /\ writer[r] \in Topics /\ Ordered(r) /\ at[r] \in Nat /\ Fits(r)
          /\ sent'[r] = sent[r] \o Messages(r, s)
      BY <2>3, <3>1 DEF WriteFails, IInv, RequestInv, Progress, Shape
    <3>3. QED
      BY <3>2, PartRises DEF Ordered, Fits
  <2>4. CASE status'[r] \notin {"none", "200", "500"} /\ ~WriteFails(r)
    <3>1. sent'[r] = sent[r]
      <4> USE DEF IInv, Shape
      <4>1. ASSUME NEW q \in Requests, Write(q) PROVE sent'[r] = sent[r]
        BY <2>4, <4>1 DEF Write, Answer, Goto, RequestInv, Progress
      <4>2. ASSUME NEW q \in Requests, Done(q) PROVE sent'[r] = sent[r]
        BY <2>4, <4>2 DEF Done
      <4>3. ASSUME NEW q \in Requests, WriteFails(q) PROVE sent'[r] = sent[r]
        BY <2>4, <4>3 DEF WriteFails
      <4>4. ASSUME NEW q \in Requests, Receive(q) \/ \E p \in Requests : MapRace(q, p)
            PROVE  sent' = sent
        BY <4>4 DEF Receive, MapRace
      <4>5. ASSUME NEW q \in Requests, Produce(q), ~Write(q), ~WriteFails(q) PROVE sent' = sent
        BY <4>5 DEF Produce, Parse, ParsePanics, EndOfStream, Lookup, LookupPanics, Store, Encode, reqVars
      <4>6. ASSUME NEW t \in Slots, Reload(t) PROVE sent' = sent
        BY <4>6 DEF Reload
      <4>7. ASSUME UNCHANGED vars PROVE sent' = sent
        BY <4>7 DEF vars, reqVars
      <4>8. QED
        BY <4>1, <4>2, <4>3, <4>4, <4>5, <4>6, <4>7 DEF Next
    <3>2. QED
      BY <2>1, <3>1
  <2>5. QED
    BY <2>2, <2>3, <2>4
<1>3. QED
  BY <1>1, <1>2, Invariance, PTL DEF Spec

=============================================================================
