----------------------------- MODULE ChangeSet ------------------------------
(***************************************************************************)
(* Reading a consumer dataset: GET /datasets/:dataset/changes, from the    *)
(* handler consume (internal/web/consumerhandler.go) through               *)
(* Consumers.ChangeSet (internal/kafka/consumer.go).                       *)
(*                                                                         *)
(* Every element of Requests is a slot for one handler goroutine; a slot   *)
(* is reused once its response has ended, so that any number of requests   *)
(* is made one after the other, and at most |Requests| at the same time.   *)
(* All requests are on one dataset, hence on one topic and one group.      *)
(*                                                                         *)
(* The client is the single client the README asks for: it sends the token *)
(* of the last response it accepted, one request at a time.  But it can    *)
(* give up on a request, and the handler does not notice: it runs on.      *)
(***************************************************************************)
EXTENDS KafkaGroup, FiniteSets

CONSTANTS
  Requests,       \* slots for handler goroutines
  NoRequest,      \* neither a request nor a consumer
  Crashed,        \* a group member whose process is gone
  Limits,         \* values of the query parameter limit; -1 when it is absent
  NilLimit,       \* empty polls allowed before the first message (10 in the code)
  MaxCount,       \* bound: messages handled by one request
  Undecodable,    \* messages the configured decoder returns an error for
  Poison,         \* messages on which the decoder or the encoder panics
  ClientGivesUp,  \* may the client abandon a request
  ClientRestarts, \* may the client drop its token and start a full read
  ServerCrashes   \* may the layer's process die

ASSUME ChangeSetAssumption ==
  /\ NoRequest \notin Requests
  /\ Crashed \notin Requests
  /\ NoConsumer \notin Requests
  /\ Limits \subseteq Int
  /\ NilLimit \in Nat
  /\ MaxCount \in Nat
  /\ {ClientGivesUp, ClientRestarts, ServerCrashes} \subseteq BOOLEAN

VARIABLES
  \* per request: ChangeSet's locals and its runState
  pc,             \* where the goroutine is
  since,          \* the decoded since token (offsets in the code)
  limit,          \* request.Limit
  handle,         \* the request's kafka.Consumer
  stop,           \* its context is cancelled, or a signal is pending
  count,          \* messages received (count and sinceCount in the code)
  nils,           \* nilCount
  read,           \* partitionOffsets
  sent,           \* messages passed to callBack, i.e. written to the response
  cont,           \* the @continuation token of the response
  outcome,        \* how the response ended
  \* per process
  running,        \* consumers.running for this topic and group
  \* the client
  waiting,        \* the request whose response it is reading
  token,          \* its last accepted continuation token
  got,            \* every message in a response it has accepted
  synced          \* those accepted since it last started without a token

localVars  == <<since, limit, count, nils, read, sent, cont, outcome>>
clientVars == <<waiting, token, got, synced>>
vars == <<pc, localVars, handle, stop, running, clientVars, kafkaVars>>

Consumers == Requests \cup {Crashed}

\* A token maps partitions to the offset of the last message read from them.
NoOffset == -1
Tokens   == [Partitions -> Nat \cup {NoOffset}]
NoToken  == [p \in Partitions |-> NoOffset]

\* The messages a token stands for.
UpTo(t) == UNION {{p} \X (0..t[p]) : p \in Partitions}

PCs == {"idle", "lookup", "create", "register", "reset", "subscribe", "poll",
        "finish", "cleanup", "deregister", "answered"}

TypeOK ==
  /\ KafkaTypeOK(Consumers)
  /\ pc \in [Requests -> PCs]
  /\ since \in [Requests -> Tokens]
  /\ limit \in [Requests -> Int]
  /\ handle \in [Requests -> {"none", "open", "subscribed", "closed"}]
  /\ stop \in [Requests -> BOOLEAN]
  /\ count \in [Requests -> Nat]
  /\ nils \in [Requests -> Nat]
  /\ read \in [Requests -> Tokens]
  /\ sent \in [Requests -> SUBSET Messages]
  /\ cont \in [Requests -> Tokens]
  /\ outcome \in [Requests -> {"error", "nodecoder", "ok"}]
  /\ running \in Requests \cup {NoRequest}
  /\ waiting \in Requests \cup {NoRequest}
  /\ token \in Tokens
  /\ got \subseteq Messages
  /\ synced \subseteq Messages

Init ==
  /\ KafkaInit
  /\ pc = [r \in Requests |-> "idle"]
  /\ since = [r \in Requests |-> NoToken]
  /\ limit = [r \in Requests |-> -1]
  /\ handle = [r \in Requests |-> "none"]
  /\ stop = [r \in Requests |-> FALSE]
  /\ count = [r \in Requests |-> 0]
  /\ nils = [r \in Requests |-> 0]
  /\ read = [r \in Requests |-> NoToken]
  /\ sent = [r \in Requests |-> {}]
  /\ cont = [r \in Requests |-> NoToken]
  /\ outcome = [r \in Requests |-> "error"]
  /\ running = NoRequest
  /\ waiting = NoRequest
  /\ token = NoToken
  /\ got = {}
  /\ synced = {}

Goto(r, label) == pc' = [pc EXCEPT ![r] = label]

\* Seeded fault: the consumer is closed without leaving its group.
CloseWithoutLeaving(r) ==
  /\ handle' = [handle EXCEPT ![r] = "closed"]
  /\ UNCHANGED groupVars

\* Close of a request's consumer, which leaves its group.
CloseConsumer(r) ==
  /\ handle' = [handle EXCEPT ![r] = "closed"]
  /\ LeaveGroup(r)

-----------------------------------------------------------------------------
(***************************************************************************)
(* The client                                                              *)
(***************************************************************************)

\* The client asks for what follows its token.  consume starts with limit
\* parsed (a limit that is not a number is 0) and the token decoded.  A client
\* without a token sends no since, or one that decodes to nothing.
Request(r) ==
  /\ waiting = NoRequest
  /\ pc[r] = "idle"
  /\ \E l \in Limits : limit' = [limit EXCEPT ![r] = l]
  /\ since' = [since EXCEPT ![r] = token]
  /\ waiting' = r
  /\ Goto(r, "lookup")
  /\ UNCHANGED <<handle, stop, count, nils, read, sent, cont, outcome, running,
                 token, got, synced, kafkaVars>>

\* The response has ended and the slot is free again.  A client that still
\* waits for it accepts it, unless it is cut short or has no continuation.
EndOfResponse(r) ==
  /\ pc[r] = "answered"
  /\ IF waiting = r
       THEN /\ waiting' = NoRequest
            /\ IF outcome[r] = "ok"
                 THEN /\ token' = cont[r]
                      /\ got' = got \cup sent[r]
                      /\ synced' = synced \cup sent[r]
                 ELSE UNCHANGED <<token, got, synced>>
       ELSE UNCHANGED clientVars
  /\ Goto(r, "idle")
  /\ since' = [since EXCEPT ![r] = NoToken]
  /\ limit' = [limit EXCEPT ![r] = -1]
  /\ handle' = [handle EXCEPT ![r] = "none"]
  /\ stop' = [stop EXCEPT ![r] = FALSE]
  /\ count' = [count EXCEPT ![r] = 0]
  /\ nils' = [nils EXCEPT ![r] = 0]
  /\ read' = [read EXCEPT ![r] = NoToken]
  /\ sent' = [sent EXCEPT ![r] = {}]
  /\ cont' = [cont EXCEPT ![r] = NoToken]
  /\ outcome' = [outcome EXCEPT ![r] = "error"]
  /\ UNCHANGED <<running, kafkaVars>>

\* The client times out or disconnects.  Nothing in the handler looks at it.
GiveUp ==
  /\ ClientGivesUp
  /\ waiting # NoRequest
  /\ waiting' = NoRequest
  /\ UNCHANGED <<pc, localVars, handle, stop, running, token, got, synced,
                 kafkaVars>>

\* The client forgets its token, to read the dataset from the start.
Restart ==
  /\ ClientRestarts
  /\ waiting = NoRequest
  /\ token # NoToken
  /\ token' = NoToken
  /\ synced' = {}
  /\ UNCHANGED <<pc, localVars, handle, stop, running, waiting, got, kafkaVars>>

-----------------------------------------------------------------------------
(***************************************************************************)
(* The handler                                                             *)
(***************************************************************************)

\* The dataset's configuration is gone by one of the times it is looked up:
\* 404 in consume, a recovered panic in GetContext, an error in ChangeSet.
ConfigGone(r) ==
  /\ pc[r] = "lookup"
  /\ Goto(r, "answered")
  /\ UNCHANGED <<localVars, handle, stop, running, clientVars, kafkaVars>>

\* Under the read lock: the request found in running is cancelled and its
\* consumer closed, which takes it out of the group.  (isCancelled, read here
\* without synchronisation, only tells whether the consumer is closed already,
\* and closing it again changes nothing.)
CancelPrevious(r) ==
  /\ pc[r] = "lookup"
  /\ Goto(r, "create")
  /\ IF running = NoRequest
       THEN UNCHANGED <<stop, handle, groupVars>>
       ELSE /\ stop' = [stop EXCEPT ![running] = TRUE]
            /\ CloseConsumer(running)
  /\ UNCHANGED <<localVars, running, clientVars, logEnd, committed, evictions>>

\* NewConsumer, then NewDecoder.
Create(r) ==
  /\ pc[r] = "create"
  /\ handle' = [handle EXCEPT ![r] = "open"]
  /\ Goto(r, "register")
  /\ UNCHANGED <<localVars, stop, running, clientVars, kafkaVars>>

\* Either fails.  Nothing is registered or deferred yet: ChangeSet returns, and
\* a consumer without a decoder stays open.
CreateFails(r) ==
  /\ pc[r] = "create"
  /\ \/ UNCHANGED <<handle, outcome>>
     \/ /\ handle' = [handle EXCEPT ![r] = "open"]
        /\ outcome' = [outcome EXCEPT ![r] = "nodecoder"]
  /\ Goto(r, "answered")
  /\ UNCHANGED <<since, limit, count, nils, read, sent, cont, stop, running,
                 clientVars, kafkaVars>>

\* Under the write lock: whatever running held is replaced.
Register(r) ==
  /\ pc[r] = "register"
  /\ running' = r
  /\ Goto(r, "reset")
  /\ UNCHANGED <<localVars, handle, stop, clientVars, kafkaVars>>

\* Seeded fault: the token already counts as the next offset.
ResetToToken(t) ==
  IF t = NoToken
    THEN [p \in Partitions |-> 0]
    ELSE [p \in Partitions |-> IF t[p] = NoOffset THEN committed[p] ELSE t[p]]

\* Seeded fault: the same, and the partitions it does not name are taken from it.
ResetToRawToken(t) == IF t = NoToken THEN [p \in Partitions |-> 0] ELSE t

\* Seeded fault: the token is taken for the next offset twice over.
ResetAfterToken(t) ==
  IF t = NoToken
    THEN [p \in Partitions |-> 0]
    ELSE [p \in Partitions |->
            IF t[p] = NoOffset THEN committed[p] ELSE t[p] + 2]

\* Seeded fault: without a token the group goes on from where it was.
ResetOnlyToToken(t) ==
  [p \in Partitions |-> IF t[p] = NoOffset THEN committed[p] ELSE t[p] + 1]

\* The offsets resetOffsets commits: just after the token for the partitions
\* it names, the rest being left as they are, or 0 for all without a token.
ResetTo(t) ==
  IF t = NoToken
    THEN [p \in Partitions |-> 0]
    ELSE [p \in Partitions |->
            IF t[p] = NoOffset THEN committed[p] ELSE t[p] + 1]

ResetOffsets(r) ==
  /\ pc[r] = "reset"
  /\ handle[r] = "open"
  /\ CommitOffsets(ResetTo(since[r]))
  /\ Goto(r, "subscribe")
  /\ UNCHANGED <<localVars, handle, stop, running, clientVars, logEnd,
                 groupVars, evictions>>

\* The broker cannot be reached or refuses, or another request has closed the
\* consumer.
ResetFails(r) ==
  /\ pc[r] = "reset"
  /\ Goto(r, "cleanup")
  /\ UNCHANGED <<localVars, handle, stop, running, clientVars, kafkaVars>>

Subscribe(r) ==
  /\ pc[r] = "subscribe"
  /\ handle[r] = "open"
  /\ handle' = [handle EXCEPT ![r] = "subscribed"]
  /\ Goto(r, "poll")
  /\ UNCHANGED <<localVars, stop, running, clientVars, kafkaVars>>

SubscribeFails(r) ==
  /\ pc[r] = "subscribe"
  /\ handle[r] = "closed"
  /\ Goto(r, "cleanup")
  /\ UNCHANGED <<localVars, handle, stop, running, clientVars, kafkaVars>>

-----------------------------------------------------------------------------
(***************************************************************************)
(* The poll loop                                                           *)
(***************************************************************************)

Polling(r) == pc[r] = "poll" /\ ~stop[r]

\* What Poll returning message m does before its value is looked at.
Consume(r, m) ==
  /\ Polling(r)
  /\ count[r] < MaxCount
  /\ Fetch(r, m[1])
  /\ m[2] = position[m[1]]
  /\ count' = [count EXCEPT ![r] = @ + 1]
  /\ nils' = [nils EXCEPT ![r] = 0]
  /\ read' = [read EXCEPT ![r][m[1]] = m[2]]
  /\ UNCHANGED <<since, limit, cont, outcome, handle, running, clientVars,
                 logEnd, committed, members, owner, evictions>>

\* Seeded fault: one message too many.
LimitPassed(r) == limit[r] > -1 /\ count[r] > limit[r]

LimitReached(r) == limit[r] > -1 /\ count[r] >= limit[r]

\* Seeded fault: the limit is looked at before the message is written.
DeliverBelowLimit(r, m) ==
  /\ m \notin Poison
  /\ Consume(r, m)
  /\ sent' = [sent EXCEPT ![r] = IF LimitReached(r)' THEN @ ELSE @ \cup {m}]
  /\ stop' = [stop EXCEPT ![r] = m \in Undecodable]
  /\ Goto(r, IF LimitReached(r)' THEN "finish" ELSE "poll")

\* The message is decoded, encoded and written to the response.  One that
\* cannot be decoded is sent as an empty entity, and cancels the context.
Deliver(r, m) ==
  /\ m \notin Poison
  /\ Consume(r, m)
  /\ sent' = [sent EXCEPT ![r] = @ \cup {m}]
  /\ stop' = [stop EXCEPT ![r] = m \in Undecodable]
  /\ Goto(r, IF LimitReached(r)' THEN "finish" ELSE "poll")

\* The decoder or the encoder panics: the deferred functions run, the recover
\* middleware swallows the panic, and the response breaks off.
Panic(r, m) ==
  /\ m \in Poison
  /\ Consume(r, m)
  /\ stop' = [stop EXCEPT ![r] = TRUE]
  /\ Goto(r, "cleanup")
  /\ UNCHANGED sent

\* Seeded fault: the count of empty polls starts again, and has no limit.
PollNilForEver(r) ==
  /\ Polling(r)
  /\ nils' = [nils EXCEPT ![r] = 1 - @]
  /\ stop' = [stop EXCEPT ![r] = count[r] > 0]
  /\ UNCHANGED <<pc, since, limit, count, read, sent, cont, outcome, handle,
                 running, clientVars, kafkaVars>>

\* No message within 500 ms.  Before the first message that is waited out until
\* the NilLimit-th time; after it the subscription counts as depleted.
PollNil(r) ==
  /\ Polling(r)
  /\ nils' = [nils EXCEPT ![r] = @ + 1]
  /\ stop' = [stop EXCEPT ![r] = count[r] > 0 \/ nils'[r] = NilLimit]
  /\ UNCHANGED <<pc, since, limit, count, read, sent, cont, outcome, handle,
                 running, clientVars, kafkaVars>>

\* Poll returns ErrAllBrokersDown.  (Any other error is only logged.)
PollAllBrokersDown(r) ==
  /\ Polling(r)
  /\ stop' = [stop EXCEPT ![r] = TRUE]
  /\ UNCHANGED <<pc, localVars, handle, running, clientVars, kafkaVars>>

\* ctx.Done() or a signal is selected.
LeaveLoop(r) ==
  /\ pc[r] = "poll"
  /\ stop[r]
  /\ Goto(r, "finish")
  /\ UNCHANGED <<localVars, handle, stop, running, clientVars, kafkaVars>>

\* Seeded fault: partitions without a new message are left out of the token.
ContinuationOfRead(r) == read[r]

\* The offsets read, completed by those of the since token.
Continuation(r) ==
  [p \in Partitions |-> IF read[r][p] = NoOffset THEN since[r][p] ELSE read[r][p]]

\* The continuation entity: since itself when there was nothing new.
Finish(r) ==
  /\ pc[r] = "finish"
  /\ cont' = [cont EXCEPT ![r] = IF count[r] > 0 THEN Continuation(r) ELSE since[r]]
  /\ outcome' = [outcome EXCEPT ![r] = "ok"]
  /\ Goto(r, "cleanup")
  /\ UNCHANGED <<since, limit, count, nils, read, sent, handle, stop, running,
                 clientVars, kafkaVars>>

\* Seeded fault: what has been read is committed when the consumer is closed.
CommitAndCleanup(r) ==
  /\ pc[r] = "cleanup"
  /\ CloseConsumer(r)
  /\ committed' = IF r \in members
                    THEN [p \in Partitions |-> IF read[r][p] = NoOffset THEN committed[p] ELSE read[r][p] + 1]
                    ELSE committed
  /\ stop' = [stop EXCEPT ![r] = TRUE]
  /\ Goto(r, "deregister")
  /\ UNCHANGED <<localVars, running, clientVars, logEnd, evictions>>

\* The deferred function, first part: close the consumer, cancel the context.
Cleanup(r) ==
  /\ pc[r] = "cleanup"
  /\ CloseConsumer(r)
  /\ stop' = [stop EXCEPT ![r] = TRUE]
  /\ Goto(r, "deregister")
  /\ UNCHANGED <<localVars, running, clientVars, logEnd, committed, evictions>>

\* Seeded fault: a request that ends leaves its entry behind.
ForgetToDeregister(r) ==
  /\ pc[r] = "deregister"
  /\ Goto(r, "answered")
  /\ UNCHANGED <<localVars, handle, stop, running, clientVars, kafkaVars>>

\* Second part, under the write lock: the entry of running is deleted, whoever
\* put it there.
Deregister(r) ==
  /\ pc[r] = "deregister"
  /\ running' = NoRequest
  /\ Goto(r, "answered")
  /\ UNCHANGED <<localVars, handle, stop, clientVars, kafkaVars>>

-----------------------------------------------------------------------------
(***************************************************************************)
(* The environment                                                         *)
(***************************************************************************)

\* The client library joins in the background once the consumer has subscribed,
\* again when it has been thrown out.
Join(r) ==
  /\ handle[r] = "subscribed"
  /\ JoinGroup(r)
  /\ UNCHANGED <<pc, localVars, handle, stop, running, clientVars, logEnd,
                 committed, evictions>>

\* The coordinator throws a live consumer out: it missed its heartbeats, or the
\* client reads its response so slowly that polls are too far apart.
Evict(r) ==
  /\ evictions < MaxEvictions
  /\ r \in members
  /\ evictions' = evictions + 1
  /\ LeaveGroup(r)
  /\ UNCHANGED <<pc, localVars, handle, stop, running, clientVars, logEnd, committed>>

\* The session of a consumer whose process is gone times out.
SessionTimeout ==
  /\ Crashed \in members
  /\ LeaveGroup(Crashed)
  /\ UNCHANGED <<pc, localVars, handle, stop, running, clientVars, logEnd,
                 committed, evictions>>

ProduceTo(p) ==
  /\ Produce(p)
  /\ UNCHANGED <<pc, localVars, handle, stop, running, clientVars>>

\* SIGINT or SIGTERM reaches the requests that have asked to be notified.
Signal ==
  /\ \E r \in Requests : Polling(r)
  /\ stop' = [r \in Requests |-> stop[r] \/ pc[r] = "poll"]
  /\ UNCHANGED <<pc, localVars, handle, running, clientVars, kafkaVars>>

\* The process dies and is started again.  Its group members stay in the group
\* until their session times out; the client sees its request fail.
Crash ==
  /\ ServerCrashes
  /\ \E r \in Requests : pc[r] # "idle"
  /\ pc' = [r \in Requests |-> "idle"]
  /\ since' = [r \in Requests |-> NoToken]
  /\ limit' = [r \in Requests |-> -1]
  /\ handle' = [r \in Requests |-> "none"]
  /\ stop' = [r \in Requests |-> FALSE]
  /\ count' = [r \in Requests |-> 0]
  /\ nils' = [r \in Requests |-> 0]
  /\ read' = [r \in Requests |-> NoToken]
  /\ sent' = [r \in Requests |-> {}]
  /\ cont' = [r \in Requests |-> NoToken]
  /\ outcome' = [r \in Requests |-> "error"]
  /\ running' = NoRequest
  /\ waiting' = NoRequest
  /\ IF members = {} THEN UNCHANGED groupVars ELSE Rebalance({Crashed})
  /\ UNCHANGED <<token, got, synced, logEnd, committed, evictions>>

-----------------------------------------------------------------------------
(***************************************************************************)
(* The specification                                                       *)
(***************************************************************************)

\* What Poll returns: the next message of a partition, nothing, or an error.
DeliverNext(r) == \E p \in Partitions : Deliver(r, <<p, position[p]>>)
PanicNext(r)   == \E p \in Partitions : Panic(r, <<p, position[p]>>)
Poll(r) == DeliverNext(r) \/ PanicNext(r) \/ PollNil(r) \/ PollAllBrokersDown(r)

\* The steps a handler goroutine takes.
Handler(r) ==
  \/ ConfigGone(r) \/ CancelPrevious(r)
  \/ Create(r)     \/ CreateFails(r)
  \/ Register(r)
  \/ ResetOffsets(r) \/ ResetFails(r)
  \/ Subscribe(r)    \/ SubscribeFails(r)
  \/ Poll(r)         \/ LeaveLoop(r)
  \/ Finish(r)
  \/ Cleanup(r)      \/ Deregister(r)
  \/ EndOfResponse(r)

Client == GiveUp \/ Restart \/ \E r \in Requests : Request(r)

Environment ==
  \/ \E r \in Requests : Join(r) \/ Evict(r)
  \/ SessionTimeout
  \/ \E p \in Partitions : ProduceTo(p)
  \/ Signal
  \/ Crash

Next == Client \/ Environment \/ \E r \in Requests : Handler(r)

Spec == Init /\ [][Next]_vars

\* A goroutine that can go on does so: every call it makes returns.
FairHandlers == \A r \in Requests : WF_vars(Handler(r))

\* What must not fail for ever if the client is to make progress: it keeps
\* asking, the configuration and the broker keep coming back, and a consumer
\* joins the group, and is handed a message, before it stops polling, at last.
FairEnvironment ==
  /\ WF_vars(\E r \in Requests : Request(r))
  /\ WF_vars(SessionTimeout)
  /\ \A r \in Requests :
       /\ SF_vars(CancelPrevious(r))
       /\ SF_vars(Create(r))
       /\ SF_vars(ResetOffsets(r))
       /\ SF_vars(Polling(r) /\ Join(r))
       /\ SF_vars(DeliverNext(r))

FairSpec == Spec /\ FairHandlers
LiveSpec == FairSpec /\ FairEnvironment

-----------------------------------------------------------------------------
(***************************************************************************)
(* Safety, whatever requests overlap                                       *)
(***************************************************************************)

\* A continuation token never skips a message: every message it says has been
\* read was in some response the client accepted.  Requests it has given up on
\* commit offsets behind its back, and the partitions a token does not name
\* start from what was committed before.  (resetOffsets, consumer.go:309-348,
\* and the token merge, consumer.go:282-292)
NoLoss == UpTo(token) \subseteq got

\* The group only ever starts a partition from messages the client has got.
\* (resetOffsets, consumer.go:309-348; the rewind of a rebalance relies on it)
CommittedIsRead ==
  \A p \in Partitions : \A o \in 0..(committed[p] - 1) : <<p, o>> \in got

\* No consumer outlives its request as a member of the group, where it would
\* hold partitions nobody polls.  (the deferred Close, consumer.go:167-177)
MembersAreServed ==
  \A r \in Requests :
    r \in members => handle[r] = "subscribed" /\ pc[r] \in {"poll", "finish", "cleanup"}

\* What running holds is a consumer whose request has not ended, so that the
\* next request closes no consumer of a finished one.  (consumer.go:128-136)
RegisteredIsLive ==
  running # NoRequest =>
    pc[running] \in {"reset", "subscribe", "poll", "finish", "cleanup", "deregister"}

\* A response holds at most limit messages, except that 0 (which a limit that
\* is not a number becomes) still yields one.  sent is a set: one that a rewind
\* brings again counts once, and less is allowed by that.  (consumer.go:245-248)
LimitRespected ==
  \A r \in Requests :
    limit[r] > -1 => Cardinality(sent[r]) <= IF limit[r] = 0 THEN 1 ELSE limit[r]

-----------------------------------------------------------------------------
(***************************************************************************)
(* Safety of one request at a time                                         *)
(***************************************************************************)

\* A client that drops its token reads everything again: what its new token
\* stands for was in responses to the new read.  (consumer.go:325)
FullRead == UpTo(token) \subseteq synced

\* What a request has got so far: how much, how far and what.
Received(r) == <<count[r], read[r], sent[r]>>

\* It gets the message right after the last one of a partition, which goes into
\* the response, unless that breaks off.
GetsNext(r) ==
  \E p \in Partitions :
    LET o == Continuation(r)[p] + 1
    IN /\ count'[r] = count[r] + 1
       /\ read'[r] = [read[r] EXCEPT ![p] = o]
       /\ pc'[r] = "cleanup" \/ sent'[r] = sent[r] \cup {<<p, o>>}

\* Whatever a request gets comes right after what was read of its partition, in
\* this response or in the one before: nothing is skipped or repeated within a
\* request or between two, nor got without being sent.
\* (consumer.go:222-244; only until a consumer is evicted, which rewinds)
InOrder ==
  [][evictions = 0 => \A r \in Requests :
       Received(r)' # Received(r) /\ pc'[r] # "idle" => GetsNext(r)]_vars

\* The refinement of the abstract feed; exact until a consumer is evicted.
Feed == INSTANCE ChangeFeed WITH disturbed <- evictions > 0

\* Reading a dataset step by step is reading the feed: the token only moves
\* forward or back to the start, over messages that have been received.
\* (consume and ChangeSet, consumerhandler.go:40-94 and consumer.go:115-307)
ImplementsFeed == Feed!FeedSpec

-----------------------------------------------------------------------------
(***************************************************************************)
(* What the comments and documents say                                     *)
(***************************************************************************)

Running == {r \in Requests : Polling(r)}

\* "if multiple requests are made for the same groupId and topic, we need to
\* make sure only one is running at a time" (consumer.go:126-127)
AtMostOneRunning == \A q, r \in Running : q = r

-----------------------------------------------------------------------------
(***************************************************************************)
(* Liveness                                                                *)
(***************************************************************************)

\* Every request is answered, whether or not there is anything to read.
RequestEnds == \A r \in Requests : pc[r] # "idle" ~> pc[r] = "idle"

\* A client that keeps asking, with the tokens it is given, reaches the end.
CaughtUp == <>[](\A p \in Partitions : token[p] = logEnd[p] - 1)

=============================================================================
