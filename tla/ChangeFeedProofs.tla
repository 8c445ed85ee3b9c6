-------------------------- MODULE ChangeFeedProofs --------------------------
(***************************************************************************)
(* Proofs about ChangeSet with a client that waits for every response: it  *)
(* implements ChangeFeed, for any number of partitions, any limits, and    *)
(* whatever fails, panics or crashes.                                      *)
(*                                                                         *)
(* The steps of one request are then not mixed with those of another, so   *)
(* that the offsets it has read, its response, the offsets the group has   *)
(* committed and its position are about the same messages.                 *)
(***************************************************************************)
EXTENDS ChangeSetProofs

USE DEF NoOffset

-----------------------------------------------------------------------------
(***************************************************************************)
(* The invariant                                                           *)
(***************************************************************************)

\* Only the request the client waits for is being served, and it has been sent
\* the client's token.
Alone ==
  \A r \in Requests : pc[r] # "idle" => waiting = r /\ since[r] = token

\* The messages there are.
InLog(S) == \A p \in Partitions, o \in Nat : <<p, o>> \in S => o < logEnd[p]

\* S has the messages a token stands for, and no other until an eviction.
Matches(S, t) ==
  /\ \A p \in Partitions : Has(S, p, t[p])
  /\ evictions = 0 => \A p \in Partitions, o \in Nat : <<p, o>> \in S => o <= t[p]

\* The group starts after messages the client has received.
StartsSynced == \A p \in Partitions : Has(synced, p, committed[p] - 1)

\* What the client has received is what its token stands for; and from its first
\* token on the group starts from there.
ClientInv ==
  /\ InLog(synced)
  /\ \A p \in Partitions : token[p] < logEnd[p] /\ committed[p] <= logEnd[p]
  /\ Matches(synced, token)
  /\ token # NoToken => StartsSynced

\* A token t of request r stands for what the client has after r's response, and
\* is not behind the one r has been sent.
Reached(r, t) ==
  /\ \A p \in Partitions : since[r][p] <= t[p] /\ t[p] < logEnd[p]
  /\ Matches(synced \cup sent[r], t)

Early == {"idle", "lookup", "create", "register", "reset", "subscribe"}

Ended == {"cleanup", "deregister", "answered"}

\* Before the first poll nothing has been read.
EarlyInv(r) == pc[r] \in Early => read[r] = NoToken /\ sent[r] = {} /\ count[r] = 0

\* Once the offsets are reset, the group starts after the token, and no one else
\* is in it.
ResetInv(r) ==
  /\ pc[r] \in {"subscribe", "poll", "finish"} \/ outcome[r] = "ok" =>
       StartsSynced /\ \A p \in Partitions : since[r][p] < committed[p]
  /\ pc[r] \in {"subscribe", "poll"} => members \subseteq {r}

\* A member reads on after what it has sent; until an eviction, right after it,
\* and a consumer that is no member has not read anything.
PollInv(r) ==
  /\ pc[r] = "poll" /\ r \in members =>
       \A p \in Partitions :
         /\ committed[p] <= position[p] /\ position[p] <= logEnd[p]
         /\ Has(synced \cup sent[r], p, position[p] - 1)
         /\ evictions = 0 => position[p] = Continuation(r)[p] + 1
  /\ pc[r] = "poll" /\ r \notin members /\ evictions = 0 => read[r] = NoToken

\* What has been read makes the continuation token.
TokenInv(r) ==
  /\ pc[r] \in {"poll", "finish"} =>
       Reached(r, Continuation(r)) /\ (count[r] = 0 => read[r] = NoToken)
  /\ outcome[r] = "ok" => pc[r] \in Ended /\ Reached(r, cont[r])

RequestInv(r) ==
  InLog(sent[r]) /\ EarlyInv(r) /\ ResetInv(r) /\ PollInv(r) /\ TokenInv(r)

FeedInv == Alone /\ ClientInv /\ \A r \in Requests : RequestInv(r)

-----------------------------------------------------------------------------
(***************************************************************************)
(* Lemmas                                                                  *)
(***************************************************************************)

\* The log only grows, and evictions do not come to be undone.
Grows ==
  /\ logEnd' \in [Partitions -> Nat]
  /\ \A p \in Partitions : logEnd[p] <= logEnd'[p]
  /\ evictions' = 0 => evictions = 0

\* What a request has read, sent and answered stays the same.
Own(r) == <<since[r], count[r], read[r], sent[r], cont[r], outcome[r]>>

\* What is below the end of the log stays there.
LEMMA BelowEnd ==
  ASSUME TypeOK, Grows, NEW p \in Partitions, NEW n \in Int
  PROVE  /\ n < logEnd[p] => n < logEnd'[p]
         /\ n <= logEnd[p] => n <= logEnd'[p]
<1>1. logEnd[p] \in Int /\ logEnd'[p] \in Int /\ logEnd[p] <= logEnd'[p]
  BY DEF TypeOK, KafkaTypeOK, Grows
<1>2. QED
  BY <1>1

\* With the next message of a partition, and the token moved onto it, messages
\* and token still match.
LEMMA MatchesNext ==
  ASSUME NEW S, NEW t \in Tokens, Matches(S, t),
         NEW p \in Partitions, NEW n \in Nat, Has(S, p, n - 1),
         evictions = 0 => n = t[p] + 1
  PROVE  Matches(S \cup {<<p, n>>}, [t EXCEPT ![p] = n])
<1> DEFINE T == S \cup {<<p, n>>}
           u == [t EXCEPT ![p] = n]
<1>1. u[p] = n /\ \A k \in Partitions \ {p} : u[k] = t[k]
  BY DEF Tokens
<1>2. ASSUME NEW k \in Partitions PROVE Has(T, k, u[k])
  <2>1. CASE k = p
    BY <1>1, <2>1, HasNext
  <2>2. CASE k # p
    <3>1. Has(S, k, t[k])
      BY DEF Matches
    <3>2. QED
      BY <1>1, <2>2, <3>1, HasMono
  <2>3. QED
    BY <2>1, <2>2
<1>3. ASSUME evictions = 0, NEW k \in Partitions, NEW o \in Nat, <<k, o>> \in T
      PROVE  o <= u[k]
  <2>1. n = t[p] + 1 /\ t[p] \in Int
    BY <1>3 DEF Tokens
  <2>2. CASE <<k, o>> \in S
    <3>1. o <= t[k]
      BY <1>3, <2>2 DEF Matches
    <3>2. QED
      BY <1>1, <2>1, <3>1
  <2>3. CASE <<k, o>> = <<p, n>>
    BY <1>1, <2>3
  <2>4. <<k, o>> \in S \/ <<k, o>> = <<p, n>>
    BY <1>3
  <2>5. QED
    BY <2>2, <2>3, <2>4
<1>4. QED
  BY <1>2, <1>3 DEF Matches

\* A request that is idle has nothing to its name.
LEMMA IdleInv ==
  ASSUME NEW r \in Requests, pc'[r] = "idle", read'[r] = NoToken, sent'[r] = {},
         count'[r] = 0, outcome'[r] # "ok"
  PROVE  RequestInv(r)'
  BY DEF RequestInv, InLog, EarlyInv, ResetInv, PollInv, TokenInv, Early

\* As long as nothing is committed or received, the client's part stays.
LEMMA ClientKept ==
  ASSUME TypeOK, ClientInv, Grows, UNCHANGED <<token, synced, committed>>
  PROVE  ClientInv'
<1>1. InLog(synced)'
  BY BelowEnd DEF ClientInv, InLog
<1>2. \A p \in Partitions : token'[p] < logEnd'[p] /\ committed'[p] <= logEnd'[p]
  <2>1. ASSUME NEW p \in Partitions
        PROVE  token'[p] < logEnd'[p] /\ committed'[p] <= logEnd'[p]
    <3>1. token[p] \in Int /\ committed[p] \in Int
      BY DEF TypeOK, KafkaTypeOK, Tokens
    <3>2. QED
      BY <3>1, BelowEnd DEF ClientInv
  <2>2. QED
    BY <2>1
<1>3. Matches(synced, token)'
  BY DEF ClientInv, Matches, Grows
<1>4. token' # NoToken => StartsSynced'
  BY DEF ClientInv, StartsSynced
<1>5. QED
  BY <1>1, <1>2, <1>3, <1>4 DEF ClientInv

\* So does the token a request has reached.
LEMMA ReachedKept ==
  ASSUME TypeOK, Grows, NEW r \in Requests, NEW t \in Tokens, Reached(r, t),
         UNCHANGED <<synced, since[r], sent[r]>>
  PROVE  Reached(r, t)'
<1>1. Matches(synced \cup sent[r], t)'
  BY DEF Reached, Matches, Grows
<1>2. \A p \in Partitions : t[p] \in Int
  BY DEF Tokens
<1>3. \A p \in Partitions : since'[r][p] <= t[p] /\ t[p] < logEnd'[p]
  BY <1>2, BelowEnd DEF Reached
<1>4. QED
  BY <1>1, <1>3 DEF Reached

\* A continuation is a token.
LEMMA ContinuationType ==
  ASSUME TypeOK, NEW r \in Requests
  PROVE  Continuation(r) \in Tokens
  BY DEF TypeOK, Continuation, Tokens

\* As long as a request reads nothing, its tokens stay.
LEMMA TokenKept ==
  ASSUME TypeOK, Grows, NEW r \in Requests, TokenInv(r),
         UNCHANGED <<synced, Own(r)>>,
         pc'[r] \in {"poll", "finish"} => pc[r] \in {"poll", "finish"},
         pc[r] \in Ended => pc'[r] \in Ended
  PROVE  TokenInv(r)'
<1>1. UNCHANGED <<since[r], count[r], read[r], sent[r], cont[r], outcome[r]>>
  BY DEF Own
<1>2. Continuation(r)' = Continuation(r)
  BY <1>1 DEF Continuation
<1>3. Continuation(r) \in Tokens /\ cont[r] \in Tokens
  BY ContinuationType DEF TypeOK
<1>4. ASSUME NEW t \in Tokens, Reached(r, t)
      PROVE  /\ \A p \in Partitions : since'[r][p] <= t[p] /\ t[p] < logEnd'[p]
             /\ Matches(synced \cup sent[r], t)'
  BY <1>1, <1>4, ReachedKept DEF Reached
<1>5. Reached(r, Continuation(r)) => Reached(r, Continuation(r))'
  BY <1>2, <1>3, <1>4 DEF Reached, Matches
<1>6. Reached(r, cont[r]) => Reached(r, cont[r])'
  BY <1>1, <1>3, <1>4 DEF Reached, Matches
<1>7. QED
  BY <1>1, <1>5, <1>6 DEF TokenInv

\* A step in which a request reads nothing, and which leaves the group alone
\* while it polls, keeps its part of the invariant.
LEMMA RequestKept ==
  ASSUME TypeOK, Grows, NEW r \in Requests, RequestInv(r),
         UNCHANGED <<synced, committed, Own(r)>>,
         pc'[r] \in {"subscribe", "poll"} => pc'[r] = pc[r] /\ UNCHANGED groupVars,
         pc'[r] = "finish" => pc[r] \in {"poll", "finish"},
         pc'[r] \in Early => pc[r] \in Early,
         pc[r] \in Ended => pc'[r] \in Ended
  PROVE  RequestInv(r)'
<1>1. UNCHANGED <<since[r], count[r], read[r], sent[r], cont[r], outcome[r]>>
  BY DEF Own
<1>2. InLog(sent[r])'
  BY <1>1, BelowEnd DEF RequestInv, InLog
<1>3. EarlyInv(r)'
  BY <1>1 DEF RequestInv, EarlyInv
<1>4. ResetInv(r)'
  BY <1>1 DEF RequestInv, ResetInv, StartsSynced, groupVars
<1>5. PollInv(r)'
  <2>1. SUFFICES ASSUME pc'[r] = "poll" PROVE PollInv(r)'
    BY DEF PollInv
  <2>2. pc[r] = "poll" /\ UNCHANGED <<members, position>>
    BY <2>1 DEF groupVars
  <2>3. Continuation(r)' = Continuation(r)
    BY <1>1 DEF Continuation
  <2>4. ASSUME r \in members, NEW p \in Partitions PROVE position'[p] <= logEnd'[p]
    <3>1. position[p] \in Int /\ position[p] <= logEnd[p]
      BY <2>2, <2>4 DEF TypeOK, KafkaTypeOK, RequestInv, PollInv
    <3>2. QED
      BY <2>2, <3>1, BelowEnd
  <2>5. QED
    BY <1>1, <2>2, <2>3, <2>4 DEF RequestInv, PollInv, Grows
<1>6. TokenInv(r)'
  BY TokenKept DEF RequestInv
<1>7. QED
  BY <1>2, <1>3, <1>4, <1>5, <1>6 DEF RequestInv

\* A request gives way to no other.
LEMMA AloneKept ==
  ASSUME Alone, UNCHANGED <<waiting, since, token>>,
         \A r \in Requests : pc[r] = "idle" => pc'[r] = "idle"
  PROVE  Alone'
  BY DEF Alone

\* While a request is served, or is being made, the others are idle, and nothing
\* of theirs changes.
LEMMA OthersIdle ==
  ASSUME TypeOK, Alone, NEW r \in Requests, Request(r) \/ Handler(r),
         NEW q \in Requests \ {r}
  PROVE  pc[q] = "idle" /\ pc'[q] = "idle" /\ UNCHANGED Own(q)
<1>1. CASE Request(r)
  <2>1. pc[q] = "idle"
    BY <1>1, ChangeSetAssumption DEF Request, Alone
  <2>2. QED
    BY <1>1, <2>1 DEF Request, Goto, TypeOK, Own
<1>2. CASE Handler(r)
  <2>1. pc[r] # "idle"
    BY <1>2
    DEF Handler, ConfigGone, CancelPrevious, Create, CreateFails, Register, ResetOffsets,
        ResetFails, Subscribe, SubscribeFails, Poll, DeliverNext, PanicNext, Deliver, Panic,
        Consume, PollNil, PollAllBrokersDown, Polling, LeaveLoop, Finish, Cleanup,
        Deregister, EndOfResponse
  <2>2. pc[q] = "idle"
    BY <2>1 DEF Alone
  <2>3. pc'[q] = pc[q]
    BY <1>2
    DEF Handler, ConfigGone, CancelPrevious, Create, CreateFails, Register, ResetOffsets,
        ResetFails, Subscribe, SubscribeFails, Poll, DeliverNext, PanicNext, Deliver, Panic,
        PollNil, PollAllBrokersDown, LeaveLoop, Finish, Cleanup,
        Deregister, EndOfResponse, Goto, TypeOK
  <2>4. ASSUME \/ ConfigGone(r) \/ CancelPrevious(r) \/ Create(r) \/ Register(r)
               \/ ResetOffsets(r) \/ ResetFails(r) \/ Subscribe(r) \/ SubscribeFails(r)
               \/ PollAllBrokersDown(r) \/ LeaveLoop(r) \/ Cleanup(r) \/ Deregister(r)
        PROVE  UNCHANGED localVars
    BY <2>4
    DEF ConfigGone, CancelPrevious, Create, Register, ResetOffsets, ResetFails, Subscribe,
        SubscribeFails, PollAllBrokersDown, LeaveLoop, Cleanup, Deregister
  <2>5. ASSUME CreateFails(r) \/ PollNil(r) \/ Finish(r) \/ EndOfResponse(r)
        PROVE  UNCHANGED Own(q)
    BY <2>5 DEF CreateFails, PollNil, Finish, EndOfResponse, Own, TypeOK
  <2>6. ASSUME NEW m, Deliver(r, m) \/ Panic(r, m) PROVE UNCHANGED Own(q)
    BY <2>6 DEF Deliver, Panic, Consume, Own, TypeOK
  <2>7. UNCHANGED localVars => UNCHANGED Own(q)
    BY DEF localVars, Own
  <2>8. QED
    BY <1>2, <2>2, <2>3, <2>4, <2>5, <2>6, <2>7 DEF Handler, Poll, DeliverNext, PanicNext
<1>3. QED
  BY <1>1, <1>2

\* So the step keeps their part of the invariant.
LEMMA OthersInv ==
  ASSUME TypeOK, FeedInv, NEW r \in Requests, Request(r) \/ Handler(r),
         NEW q \in Requests \ {r}
  PROVE  RequestInv(q)'
<1>1. pc[q] = "idle" /\ pc'[q] = "idle" /\ UNCHANGED Own(q)
  BY OthersIdle DEF FeedInv
<1>2. read[q] = NoToken /\ sent[q] = {} /\ count[q] = 0 /\ outcome[q] # "ok"
  BY <1>1 DEF FeedInv, RequestInv, EarlyInv, TokenInv, Early, Ended
<1>3. QED
  BY <1>1, <1>2, IdleInv DEF Own

-----------------------------------------------------------------------------
(***************************************************************************)
(* The steps of the request that is served                                 *)
(***************************************************************************)

\* Steps that touch neither what the client has, nor the log, nor what the
\* group starts from, keep the client's part and that of the other requests.
LEMMA HandlerFrame ==
  ASSUME TypeOK, FeedInv, NEW r \in Requests, Handler(r), RequestInv(r)', pc[r] # "idle",
         UNCHANGED <<waiting, since, token, synced, committed, logEnd, evictions>>
  PROVE  FeedInv'
<1>1. Grows
  BY DEF Grows, TypeOK, KafkaTypeOK
<1>2. ClientInv'
  BY <1>1, ClientKept DEF FeedInv
<1>3. \A q \in Requests : RequestInv(q)'
  BY OthersInv
<1>4. Alone'
  BY OthersIdle, AloneKept DEF FeedInv
<1>5. QED
  BY <1>2, <1>3, <1>4 DEF FeedInv

\* Steps in which the request reads nothing.
LEMMA QuietStep ==
  ASSUME TypeOK, FeedInv, NEW r \in Requests,
         \/ ConfigGone(r) \/ CancelPrevious(r) \/ Create(r) \/ Register(r)
         \/ ResetFails(r) \/ SubscribeFails(r) \/ PollNil(r) \/ PollAllBrokersDown(r)
         \/ LeaveLoop(r) \/ Cleanup(r) \/ Deregister(r)
  PROVE  FeedInv'
<1>1. UNCHANGED <<since, count, read, sent, cont, outcome, waiting, token, synced,
                  committed, logEnd, evictions>>
  BY DEF ConfigGone, CancelPrevious, Create, Register, ResetFails, SubscribeFails, PollNil,
         PollAllBrokersDown, LeaveLoop, Cleanup, Deregister, localVars, clientVars, kafkaVars
<1>2. Grows /\ UNCHANGED Own(r)
  BY <1>1 DEF Grows, Own, TypeOK, KafkaTypeOK
<1>3. \/ pc[r] = "lookup" /\ pc'[r] = "answered"
      \/ pc[r] = "lookup" /\ pc'[r] = "create"
      \/ pc[r] = "create" /\ pc'[r] = "register"
      \/ pc[r] = "register" /\ pc'[r] = "reset"
      \/ pc[r] = "reset" /\ pc'[r] = "cleanup"
      \/ pc[r] = "subscribe" /\ pc'[r] = "cleanup"
      \/ pc[r] = "poll" /\ pc'[r] = "poll" /\ UNCHANGED groupVars
      \/ pc[r] = "poll" /\ pc'[r] = "finish"
      \/ pc[r] = "cleanup" /\ pc'[r] = "deregister"
      \/ pc[r] = "deregister" /\ pc'[r] = "answered"
  BY DEF ConfigGone, CancelPrevious, Create, Register, ResetFails, SubscribeFails, PollNil,
         PollAllBrokersDown, LeaveLoop, Cleanup, Deregister, Goto, Polling, kafkaVars, TypeOK
<1>4. RequestInv(r)'
  BY <1>1, <1>2, <1>3, RequestKept DEF FeedInv, Early, Ended
<1>5. Handler(r) /\ pc[r] # "idle"
  BY <1>3 DEF Handler, Poll
<1>6. QED
  BY <1>1, <1>4, <1>5, HandlerFrame

\* The decoder cannot be made: the request ends before it has read anything.
LEMMA CreateFailsStep ==
  ASSUME TypeOK, FeedInv, NEW r \in Requests, CreateFails(r)
  PROVE  FeedInv'
<1>1. /\ pc[r] = "create" /\ pc'[r] = "answered" /\ (outcome[r] # "ok" => outcome'[r] # "ok")
      /\ UNCHANGED <<since, count, read, sent, cont, waiting, token, synced, committed,
                     logEnd, evictions>>
  BY DEF CreateFails, clientVars, kafkaVars, Goto, TypeOK
<1>2. RequestInv(r) /\ sent[r] = {} /\ outcome'[r] # "ok"
  BY <1>1 DEF FeedInv, RequestInv, EarlyInv, TokenInv, Early, Ended
<1>3. RequestInv(r)'
  BY <1>1, <1>2 DEF RequestInv, InLog, EarlyInv, ResetInv, PollInv, TokenInv, Early
<1>4. Handler(r)
  BY DEF Handler
<1>5. QED
  BY <1>1, <1>3, <1>4, HandlerFrame

\* The client asks for what follows its token.
LEMMA AskStep ==
  ASSUME TypeOK, FeedInv, NEW r \in Requests, Request(r)
  PROVE  FeedInv'
<1>1. /\ waiting = NoRequest /\ waiting' = r
      /\ pc[r] = "idle" /\ pc'[r] = "lookup" /\ since'[r] = token
      /\ UNCHANGED <<count, read, sent, cont, outcome, token, synced, committed, logEnd, evictions>>
  BY DEF Request, kafkaVars, Goto, TypeOK
<1>2. Grows
  BY <1>1 DEF Grows, TypeOK, KafkaTypeOK
<1>3. ClientInv'
  BY <1>1, <1>2, ClientKept DEF FeedInv
<1>4. RequestInv(r)'
  BY <1>1
  DEF FeedInv, RequestInv, InLog, EarlyInv, ResetInv, PollInv, TokenInv, Early, Ended
<1>5. \A q \in Requests : RequestInv(q)'
  BY <1>4, OthersInv
<1>6. Alone'
  BY <1>1, OthersIdle DEF FeedInv, Alone
<1>7. QED
  BY <1>3, <1>5, <1>6 DEF FeedInv

\* The offsets are reset: the group then starts right after the client's token,
\* or, in the partitions it does not name, from where it was.
LEMMA ResetStep ==
  ASSUME TypeOK, FeedInv, NEW r \in Requests, ResetOffsets(r)
  PROVE  FeedInv'
<1>1. /\ pc[r] = "reset" /\ pc'[r] = "subscribe" /\ members' = {}
      /\ committed' = ResetTo(since[r])
      /\ UNCHANGED <<since, count, read, sent, cont, outcome, waiting, token, synced,
                     logEnd, evictions>>
  BY DEF ResetOffsets, CommitOffsets, localVars, clientVars, groupVars, Goto, TypeOK
<1>2. since[r] = token /\ ClientInv /\ RequestInv(r)
  BY <1>1 DEF FeedInv, Alone
<1>3. Grows
  BY <1>1 DEF Grows, TypeOK, KafkaTypeOK
<1>4. ASSUME NEW p \in Partitions
      PROVE  /\ token[p] < committed'[p] /\ committed'[p] <= logEnd[p]
             /\ Has(synced, p, committed'[p] - 1)
  <2>1. /\ token[p] \in Nat \cup {-1} /\ committed[p] \in Nat /\ logEnd[p] \in Nat
        /\ token[p] < logEnd[p] /\ committed[p] <= logEnd[p]
        /\ Has(synced, p, token[p])
    BY <1>2 DEF TypeOK, KafkaTypeOK, Tokens, ClientInv, Matches
  <2>2. CASE token = NoToken
    <3>1. committed'[p] = 0 /\ token[p] = -1
      BY <1>1, <1>2, <2>2 DEF ResetTo, NoToken
    <3>2. QED
      BY <2>1, <3>1, HasNothing
  <2>3. CASE token # NoToken /\ token[p] = -1
    <3>1. committed'[p] = committed[p]
      BY <1>1, <1>2, <2>3 DEF ResetTo
    <3>2. Has(synced, p, committed[p] - 1)
      BY <1>2, <2>3 DEF ClientInv, StartsSynced
    <3>3. QED
      BY <2>1, <2>3, <3>1, <3>2
  <2>4. CASE token # NoToken /\ token[p] # -1
    <3>1. committed'[p] = token[p] + 1
      BY <1>1, <1>2, <2>4 DEF ResetTo
    <3>2. token[p] \in Nat /\ committed'[p] - 1 = token[p]
      BY <2>1, <2>4, <3>1
    <3>3. QED
      BY <2>1, <3>1, <3>2
  <2>5. QED
    BY <2>2, <2>3, <2>4
<1>5. ClientInv'
  <2>1. InLog(synced)' /\ Matches(synced, token)' /\ StartsSynced'
    BY <1>1, <1>2, <1>4 DEF ClientInv, InLog, Matches, StartsSynced
  <2>2. QED
    BY <1>1, <1>2, <1>4, <2>1 DEF ClientInv
<1>6. RequestInv(r)'
  <2>1. outcome[r] # "ok"
    BY <1>1, <1>2 DEF RequestInv, TokenInv, Ended
  <2>2. EarlyInv(r)' /\ PollInv(r)' /\ TokenInv(r)' /\ InLog(sent[r])'
    BY <1>1, <1>2, <2>1 DEF RequestInv, EarlyInv, PollInv, TokenInv, InLog, Early
  <2>3. ResetInv(r)'
    BY <1>1, <1>2, <1>4 DEF ResetInv, StartsSynced
  <2>4. QED
    BY <2>2, <2>3 DEF RequestInv
<1>7. Handler(r)
  BY DEF Handler
<1>8. Alone'
  BY <1>1, <1>7, OthersIdle, AloneKept DEF FeedInv
<1>9. QED
  BY <1>5, <1>6, <1>7, <1>8, OthersInv DEF FeedInv

\* The consumer subscribes: it has read nothing, and is in no group yet.
LEMMA SubscribeStep ==
  ASSUME TypeOK, GroupInv, FeedInv, NEW r \in Requests, Subscribe(r)
  PROVE  FeedInv'
<1>1. /\ pc[r] = "subscribe" /\ pc'[r] = "poll" /\ r \notin members
      /\ UNCHANGED <<since, count, read, sent, cont, outcome, waiting, token, synced,
                     committed, logEnd, evictions, members>>
  BY DEF Subscribe, localVars, clientVars, kafkaVars, groupVars, Goto, TypeOK, GroupInv,
         MembersAreServed
<1>2. since[r] = token /\ ClientInv /\ RequestInv(r)
  BY <1>1 DEF FeedInv, Alone
<1>3. read[r] = NoToken /\ sent[r] = {} /\ outcome[r] # "ok"
  BY <1>1, <1>2 DEF RequestInv, EarlyInv, TokenInv, Early, Ended
<1>4. Continuation(r)' = token
  BY <1>1, <1>2, <1>3 DEF Continuation, NoToken, TypeOK, Tokens
<1>5. Reached(r, Continuation(r))'
  <2>1. \A p \in Partitions : token[p] \in Int
    BY DEF TypeOK, Tokens
  <2>2. \A p \in Partitions : since'[r][p] <= token[p] /\ token[p] < logEnd'[p]
    BY <1>1, <1>2, <2>1 DEF ClientInv
  <2>3. synced' \cup sent'[r] = synced
    BY <1>1, <1>3
  <2>4. QED
    BY <1>1, <1>2, <1>4, <2>2, <2>3 DEF Reached, ClientInv, Matches
<1>6. ResetInv(r)'
  BY <1>1, <1>2 DEF RequestInv, ResetInv, StartsSynced
<1>7. EarlyInv(r)' /\ PollInv(r)' /\ TokenInv(r)' /\ InLog(sent[r])'
  BY <1>1, <1>3, <1>5 DEF EarlyInv, PollInv, TokenInv, InLog, Early
<1>8. RequestInv(r)'
  BY <1>6, <1>7 DEF RequestInv
<1>9. Handler(r)
  BY DEF Handler
<1>10. QED
  BY <1>1, <1>8, <1>9, HandlerFrame

\* What being handed the next message of a partition leaves as it is, and where
\* the message is.
LEMMA ConsumeEffect ==
  ASSUME TypeOK, GroupInv, NEW r \in Requests, NEW p \in Partitions,
         Consume(r, <<p, position[p]>>)
  PROVE  /\ pc[r] = "poll" /\ owner[p] = r /\ r \in members /\ position[p] < logEnd[p]
         /\ position' = [position EXCEPT ![p] = @ + 1]
         /\ read' = [read EXCEPT ![r][p] = position[p]]
         /\ count'[r] # 0
         /\ UNCHANGED <<since, limit, cont, outcome, waiting, token, synced, committed,
                        logEnd, evictions, members>>
<1>1. owner[p] = r /\ r \in members
  BY ChangeSetAssumption DEF Consume, Fetch, GroupInv
<1>2. count'[r] = count[r] + 1 /\ count[r] \in Nat
  BY DEF Consume, TypeOK
<1>3. QED
  BY <1>1, <1>2 DEF Consume, Polling, Fetch, clientVars

\* The message read is the next of its partition, whether or not a consumer has
\* been evicted before; until then it follows right after what has been read.
LEMMA NextMessage ==
  ASSUME TypeOK, GroupInv, FeedInv, NEW r \in Requests, NEW p \in Partitions,
         Consume(r, <<p, position[p]>>)
  PROVE  /\ since[r][p] < position[p] /\ position[p] \in Nat
         /\ Has(synced \cup sent[r], p, position[p] - 1)
         /\ evictions = 0 => position[p] = Continuation(r)[p] + 1
<1>1. pc[r] = "poll" /\ r \in members
  BY ConsumeEffect
<1>2. since[r][p] < committed[p] /\ committed[p] <= position[p]
  BY <1>1 DEF FeedInv, RequestInv, ResetInv, PollInv
<1>3. since[r][p] \in Int /\ committed[p] \in Int /\ position[p] \in Nat
  BY DEF TypeOK, KafkaTypeOK, Tokens
<1>4. since[r][p] < position[p]
  BY <1>2, <1>3
<1>5. /\ Has(synced \cup sent[r], p, position[p] - 1)
      /\ evictions = 0 => position[p] = Continuation(r)[p] + 1
  BY <1>1 DEF FeedInv, RequestInv, PollInv
<1>6. QED
  BY <1>3, <1>4, <1>5

\* A message is written to the response.
LEMMA DeliverStep ==
  ASSUME TypeOK, GroupInv, FeedInv, NEW r \in Requests, NEW p \in Partitions,
         Deliver(r, <<p, position[p]>>)
  PROVE  FeedInv'
<1> DEFINE m == <<p, position[p]>>
<1>1. Consume(r, m) /\ sent' = [sent EXCEPT ![r] = @ \cup {m}] /\ pc'[r] \in {"poll", "finish"}
  BY DEF Deliver, Goto, TypeOK
<1>2. /\ pc[r] = "poll" /\ owner[p] = r /\ r \in members /\ position[p] < logEnd[p]
      /\ position' = [position EXCEPT ![p] = @ + 1]
      /\ read' = [read EXCEPT ![r][p] = position[p]]
      /\ count'[r] # 0
      /\ UNCHANGED <<since, cont, outcome, waiting, token, synced, committed,
                     logEnd, evictions, members>>
  BY <1>1, ConsumeEffect
<1>3. /\ since[r][p] < position[p] /\ position[p] \in Nat
      /\ Has(synced \cup sent[r], p, position[p] - 1)
      /\ evictions = 0 => position[p] = Continuation(r)[p] + 1
  BY <1>1, NextMessage
<1>4. RequestInv(r) /\ outcome[r] # "ok"
  BY <1>2 DEF FeedInv, RequestInv, TokenInv, Ended
<1>5. Reached(r, Continuation(r)) /\ Continuation(r) \in Tokens
  BY <1>2, <1>4, ContinuationType DEF RequestInv, TokenInv
<1>6. synced' \cup sent'[r] = (synced \cup sent[r]) \cup {m}
  BY <1>1, <1>2 DEF TypeOK
<1>7. Continuation(r)' = [Continuation(r) EXCEPT ![p] = position[p]]
  <2>1. /\ read'[r][p] = position[p] /\ position[p] # -1
        /\ \A k \in Partitions \ {p} : read'[r][k] = read[r][k]
    BY <1>2, <1>3 DEF TypeOK, Tokens
  <2> DEFINE f == Continuation(r)
             g == Continuation(r)'
  <2>2. g = [k \in Partitions |-> IF k = p THEN position[p] ELSE f[k]]
    BY <1>2, <2>1 DEF Continuation
  <2>3. f = [k \in Partitions |-> f[k]]
    BY <1>5 DEF Tokens
  <2> HIDE DEF f, g
  <2>4. g = [f EXCEPT ![p] = position[p]]
    BY <2>2, <2>3
  <2>5. QED
    BY <2>4 DEF f, g
<1>8. Reached(r, Continuation(r))'
  <2>1. Matches((synced \cup sent[r]) \cup {m}, [Continuation(r) EXCEPT ![p] = position[p]])
    BY <1>3, <1>5, MatchesNext DEF Reached
  <2>2. Matches(synced \cup sent[r], Continuation(r))'
    BY <1>2, <1>6, <1>7, <2>1 DEF Matches
  <2>3. ASSUME NEW k \in Partitions
        PROVE  since'[r][k] <= Continuation(r)'[k] /\ Continuation(r)'[k] < logEnd'[k]
    <3>1. CASE k = p
      <4>1. Continuation(r)'[k] = position[p] /\ since[r][p] \in Int
        BY <1>5, <1>7, <3>1 DEF TypeOK, Tokens
      <4>2. QED
        BY <1>2, <1>3, <3>1, <4>1
    <3>2. CASE k # p
      <4>1. Continuation(r)'[k] = Continuation(r)[k]
        BY <1>5, <1>7, <3>2 DEF Tokens
      <4>2. QED
        BY <1>2, <1>5, <4>1 DEF Reached
    <3>3. QED
      BY <3>1, <3>2
  <2>4. QED
    BY <2>2, <2>3 DEF Reached
<1>9. ResetInv(r)'
  BY <1>1, <1>2, <1>4 DEF RequestInv, ResetInv, StartsSynced
<1>10. PollInv(r)'
  <2>1. ASSUME NEW k \in Partitions
        PROVE  /\ committed'[k] <= position'[k] /\ position'[k] <= logEnd'[k]
               /\ Has(synced' \cup sent'[r], k, position'[k] - 1)
               /\ evictions' = 0 => position'[k] = Continuation(r)'[k] + 1
    <3>1. /\ committed[k] <= position[k] /\ position[k] <= logEnd[k]
          /\ Has(synced \cup sent[r], k, position[k] - 1)
          /\ evictions = 0 => position[k] = Continuation(r)[k] + 1
      BY <1>2, <1>4 DEF RequestInv, PollInv
    <3>2. committed[k] \in Int /\ position[k] \in Nat /\ logEnd[k] \in Int
      BY DEF TypeOK, KafkaTypeOK
    <3>3. CASE k = p
      <4>1. position'[k] = position[k] + 1 /\ position'[k] - 1 = position[k]
        BY <1>2, <3>2, <3>3 DEF TypeOK, KafkaTypeOK
      <4>2. Continuation(r)'[k] = position[k]
        BY <1>5, <1>7, <3>3 DEF Tokens
      <4>3. Has(synced' \cup sent'[r], k, position[k])
        BY <1>6, <3>1, <3>2, <3>3, HasNext
      <4>4. QED
        BY <1>2, <3>1, <3>2, <3>3, <4>1, <4>2, <4>3
    <3>4. CASE k # p
      <4>1. position'[k] = position[k] /\ Continuation(r)'[k] = Continuation(r)[k]
        BY <1>2, <1>5, <1>7, <3>4 DEF TypeOK, KafkaTypeOK, Tokens
      <4>2. Has(synced' \cup sent'[r], k, position[k] - 1)
        BY <1>6, <3>1, HasMono
      <4>3. QED
        BY <1>2, <3>1, <4>1, <4>2
    <3>5. QED
      BY <3>3, <3>4
  <2>2. QED
    BY <1>2, <2>1 DEF PollInv
<1>11. InLog(sent[r])'
  <2>1. sent'[r] = sent[r] \cup {m}
    BY <1>1 DEF TypeOK
  <2>2. QED
    BY <1>2, <1>4, <2>1 DEF RequestInv, InLog
<1>12. EarlyInv(r)' /\ TokenInv(r)'
  BY <1>1, <1>2, <1>4, <1>8 DEF EarlyInv, TokenInv, Early
<1>13. Handler(r)
  BY DEF Handler, Poll, DeliverNext
<1>14. RequestInv(r)'
  BY <1>9, <1>10, <1>11, <1>12 DEF RequestInv
<1>15. QED
  BY <1>2, <1>13, <1>14, HandlerFrame

\* A message on which the request panics: the response ends without a token.
LEMMA PanicStep ==
  ASSUME TypeOK, GroupInv, FeedInv, NEW r \in Requests, NEW p \in Partitions,
         Panic(r, <<p, position[p]>>)
  PROVE  FeedInv'
<1>1. /\ pc[r] = "poll" /\ pc'[r] = "cleanup"
      /\ UNCHANGED <<since, sent, cont, outcome, waiting, token, synced, committed,
                     logEnd, evictions>>
  BY ConsumeEffect DEF Panic, Goto, TypeOK
<1>2. RequestInv(r) /\ outcome[r] # "ok"
  BY <1>1 DEF FeedInv, RequestInv, TokenInv, Ended
<1>3. RequestInv(r)'
  BY <1>1, <1>2 DEF RequestInv, InLog, EarlyInv, ResetInv, PollInv, TokenInv, Early
<1>4. Handler(r)
  BY DEF Handler, Poll, PanicNext
<1>5. QED
  BY <1>1, <1>3, <1>4, HandlerFrame

\* The response gets its continuation token.
LEMMA FinishStep ==
  ASSUME TypeOK, FeedInv, NEW r \in Requests, Finish(r)
  PROVE  FeedInv'
<1>1. /\ pc[r] = "finish" /\ pc'[r] = "cleanup" /\ outcome'[r] = "ok"
      /\ cont'[r] = IF count[r] > 0 THEN Continuation(r) ELSE since[r]
      /\ UNCHANGED <<since, sent, waiting, token, synced, committed, logEnd, evictions>>
  BY DEF Finish, clientVars, kafkaVars, Goto, TypeOK
<1>2. RequestInv(r) /\ Reached(r, Continuation(r)) /\ (count[r] = 0 => read[r] = NoToken)
  BY <1>1 DEF FeedInv, RequestInv, TokenInv
<1>3. cont'[r] = Continuation(r)
  <2>1. CASE count[r] > 0
    BY <1>1, <2>1
  <2>2. CASE count[r] = 0
    BY <1>1, <1>2, <2>2 DEF Continuation, NoToken, TypeOK, Tokens
  <2>3. QED
    BY <2>1, <2>2 DEF TypeOK
<1>4. Reached(r, cont[r])'
  BY <1>1, <1>2, <1>3 DEF Reached, Matches
<1>5. ResetInv(r)'
  BY <1>1, <1>2 DEF RequestInv, ResetInv, StartsSynced
<1>6. InLog(sent[r])' /\ EarlyInv(r)' /\ PollInv(r)' /\ TokenInv(r)'
  BY <1>1, <1>2, <1>4 DEF RequestInv, InLog, EarlyInv, PollInv, TokenInv, Early, Ended
<1>7. RequestInv(r)'
  BY <1>5, <1>6 DEF RequestInv
<1>8. Handler(r)
  BY DEF Handler
<1>9. QED
  BY <1>1, <1>7, <1>8, HandlerFrame

\* The client accepts a response that has its token.
LEMMA EndStep ==
  ASSUME TypeOK, FeedInv, NEW r \in Requests, EndOfResponse(r)
  PROVE  FeedInv'
<1>1. /\ pc[r] = "answered" /\ pc'[r] = "idle" /\ read'[r] = NoToken /\ sent'[r] = {}
      /\ count'[r] = 0 /\ outcome'[r] # "ok"
      /\ UNCHANGED <<committed, logEnd, evictions>>
  BY DEF EndOfResponse, kafkaVars, Goto, TypeOK
<1>2. waiting = r /\ since[r] = token /\ RequestInv(r) /\ ClientInv
  BY <1>1 DEF FeedInv, Alone
<1>3. waiting' = NoRequest
  BY <1>2 DEF EndOfResponse
<1>4. Handler(r)
  BY DEF Handler
<1>5. RequestInv(r)'
  BY <1>1, IdleInv
<1>6. Alone'
  BY <1>1, <1>4, OthersIdle DEF Alone, FeedInv
<1>7. ClientInv'
  <2>1. CASE outcome[r] = "ok"
    <3>1. token' = cont[r] /\ synced' = synced \cup sent[r]
      BY <1>2, <2>1 DEF EndOfResponse
    <3>2. Reached(r, cont[r]) /\ StartsSynced
      BY <1>2, <2>1 DEF RequestInv, TokenInv, ResetInv
    <3>3. InLog(synced)'
      BY <1>1, <1>2, <3>1 DEF ClientInv, RequestInv, InLog
    <3>4. \A p \in Partitions : token'[p] < logEnd'[p] /\ committed'[p] <= logEnd'[p]
      BY <1>1, <1>2, <3>1, <3>2 DEF ClientInv, Reached
    <3>5. Matches(synced, token)'
      BY <1>1, <3>1, <3>2 DEF Reached, Matches
    <3>6. StartsSynced'
      BY <1>1, <3>1, <3>2, HasMono DEF StartsSynced
    <3>7. QED
      BY <3>3, <3>4, <3>5, <3>6 DEF ClientInv
  <2>2. CASE outcome[r] # "ok"
    <3>1. UNCHANGED <<token, synced>>
      BY <1>2, <2>2 DEF EndOfResponse
    <3>2. Grows
      BY <1>1 DEF Grows, TypeOK, KafkaTypeOK
    <3>3. QED
      BY <1>1, <1>2, <3>1, <3>2, ClientKept
  <2>3. QED
    BY <2>1, <2>2
<1>8. QED
  BY <1>4, <1>5, <1>6, <1>7, OthersInv DEF FeedInv

-----------------------------------------------------------------------------
(***************************************************************************)
(* The steps of the group, the broker, the client and the process          *)
(***************************************************************************)

\* Steps outside the requests that leave the client and the committed offsets
\* alone, and the group too while somebody polls, or keep what a polling request
\* needs of it.
LEMMA EnvironmentFrame ==
  ASSUME TypeOK, FeedInv, Grows,
         UNCHANGED <<pc, since, count, read, sent, cont, outcome, waiting, token, synced,
                     committed>>,
         \A r \in Requests :
           pc[r] \in {"subscribe", "poll"} =>
             UNCHANGED groupVars \/ (ResetInv(r)' /\ PollInv(r)')
  PROVE  FeedInv'
<1>1. ClientInv'
  BY ClientKept DEF FeedInv
<1>2. Alone'
  BY AloneKept DEF FeedInv
<1>3. ASSUME NEW r \in Requests PROVE RequestInv(r)'
  <2>1. RequestInv(r) /\ UNCHANGED Own(r)
    BY DEF FeedInv, Own
  <2>2. CASE pc[r] \notin {"subscribe", "poll"} \/ UNCHANGED groupVars
    BY <2>1, <2>2, RequestKept
  <2>3. CASE ResetInv(r)' /\ PollInv(r)'
    <3>1. TokenInv(r)'
      BY <2>1, TokenKept DEF RequestInv
    <3>2. InLog(sent[r])'
      BY <2>1, BelowEnd DEF RequestInv, InLog
    <3>3. EarlyInv(r)'
      BY <2>1 DEF RequestInv, EarlyInv
    <3>4. QED
      BY <2>3, <3>1, <3>2, <3>3 DEF RequestInv
  <2>4. QED
    BY <2>2, <2>3
<1>4. QED
  BY <1>1, <1>2, <1>3 DEF FeedInv

\* The consumer joins its group, which starts it right after the token it has
\* been sent unless it has been evicted before.
LEMMA JoinStep ==
  ASSUME TypeOK, GroupInv, FeedInv, NEW r \in Requests, Join(r)
  PROVE  FeedInv'
<1>1. /\ r \notin members /\ members' = members \cup {r} /\ position' = committed
      /\ UNCHANGED <<pc, since, count, read, sent, cont, outcome, waiting, token, synced,
                     committed, logEnd, evictions>>
  BY DEF Join, JoinGroup, Rebalance, localVars, clientVars
<1>2. pc[r] \in {"poll", "finish", "cleanup"}
  BY DEF Join, GroupInv
<1>3. ASSUME NEW q \in Requests, pc[q] \in {"subscribe", "poll"} PROVE q = r /\ pc[r] = "poll"
  BY <1>2, <1>3 DEF FeedInv, Alone
<1>4. ASSUME pc[r] = "poll" PROVE ResetInv(r)' /\ PollInv(r)'
  <2>1. since[r] = token /\ RequestInv(r) /\ ClientInv
    BY <1>4 DEF FeedInv, Alone
  <2>2. StartsSynced /\ members \subseteq {r} /\ \A p \in Partitions : since[r][p] < committed[p]
    BY <1>4, <2>1 DEF RequestInv, ResetInv
  <2>3. ResetInv(r)'
    BY <1>1, <2>2 DEF ResetInv, StartsSynced
  <2>4. ASSUME NEW p \in Partitions
        PROVE  /\ committed[p] <= logEnd[p]
               /\ Has(synced \cup sent[r], p, committed[p] - 1)
    BY <2>1, <2>2, HasMono DEF ClientInv, StartsSynced
  <2>5. ASSUME NEW p \in Partitions, evictions = 0
        PROVE  committed[p] = Continuation(r)[p] + 1
    <3>1. read[r] = NoToken
      BY <1>1, <1>4, <2>1, <2>5 DEF RequestInv, PollInv
    <3>2. Continuation(r)[p] = token[p]
      BY <2>1, <3>1 DEF Continuation, NoToken
    <3>3. committed[p] \in Nat /\ token[p] \in Nat \cup {-1} /\ token[p] < committed[p]
      BY <2>1, <2>2 DEF TypeOK, KafkaTypeOK, Tokens
    <3>4. CASE committed[p] = 0
      BY <3>2, <3>3, <3>4
    <3>5. CASE committed[p] # 0
      <4> DEFINE o == committed[p] - 1
      <4>1. Has(synced, p, o) /\ o \in Nat /\ o \in 0..o
        BY <2>2, <3>3, <3>5 DEF StartsSynced
      <4> HIDE DEF o
      <4>2. <<p, o>> \in synced
        BY <4>1 DEF Has
      <4>3. o <= token[p]
        BY <2>1, <2>5, <4>1, <4>2 DEF ClientInv, Matches
      <4>4. QED
        BY <3>2, <3>3, <4>3 DEF o
    <3>6. QED
      BY <3>4, <3>5
  <2>6. Continuation(r)' = Continuation(r)
    BY <1>1 DEF Continuation
  <2>7. \A p \in Partitions : committed[p] <= committed[p]
    BY DEF TypeOK, KafkaTypeOK
  <2>8. PollInv(r)'
    BY <1>1, <2>4, <2>5, <2>6, <2>7 DEF PollInv
  <2>9. QED
    BY <2>3, <2>8
<1>5. Grows
  BY <1>1 DEF Grows, TypeOK, KafkaTypeOK
<1>6. QED
  BY <1>1, <1>3, <1>4, <1>5, EnvironmentFrame

\* The consumer is evicted: it goes back to what was committed, and messages may
\* come again from now on.
LEMMA EvictStep ==
  ASSUME TypeOK, GroupInv, FeedInv, NEW r \in Requests, Evict(r)
  PROVE  FeedInv'
<1>1. /\ r \in members /\ members' = members \ {r} /\ evictions' # 0
      /\ UNCHANGED <<pc, since, count, read, sent, cont, outcome, waiting, token, synced,
                     committed, logEnd>>
  <2>1. evictions' = evictions + 1 /\ evictions \in Nat
    BY DEF Evict, TypeOK, KafkaTypeOK
  <2>2. r \in members /\ members' = members \ {r}
    BY DEF Evict, LeaveGroup, Rebalance
  <2>3. QED
    BY <2>1, <2>2 DEF Evict, localVars, clientVars
<1>2. pc[r] \in {"poll", "finish", "cleanup"}
  BY <1>1 DEF GroupInv, MembersAreServed
<1>3. ASSUME NEW q \in Requests, pc[q] \in {"subscribe", "poll"} PROVE q = r /\ pc[r] = "poll"
  BY <1>2, <1>3 DEF FeedInv, Alone
<1>4. ASSUME pc[r] = "poll" PROVE ResetInv(r)' /\ PollInv(r)'
  <2>1. RequestInv(r)
    BY DEF FeedInv
  <2>2. ResetInv(r)'
    BY <1>1, <1>4, <2>1 DEF RequestInv, ResetInv, StartsSynced
  <2>3. PollInv(r)'
    BY <1>1 DEF PollInv
  <2>4. QED
    BY <2>2, <2>3
<1>5. Grows
  BY <1>1 DEF Grows, TypeOK, KafkaTypeOK
<1>6. QED
  BY <1>1, <1>3, <1>4, <1>5, EnvironmentFrame

\* The other steps of the environment.
LEMMA EnvironmentStep ==
  ASSUME TypeOK, GroupInv, FeedInv,
         \/ SessionTimeout \/ Signal \/ UNCHANGED vars
         \/ \E p \in Partitions : ProduceTo(p)
  PROVE  FeedInv'
<1>1. /\ UNCHANGED <<pc, since, count, read, sent, cont, outcome, waiting, token, synced,
                     committed, evictions>>
      /\ UNCHANGED groupVars \/ Crashed \in members
  BY DEF SessionTimeout, Signal, ProduceTo, Produce, vars, localVars, clientVars, kafkaVars
<1>2. Grows
  <2>1. CASE UNCHANGED logEnd
    BY <1>1, <2>1 DEF Grows, TypeOK, KafkaTypeOK
  <2>2. ASSUME NEW p \in Partitions, ProduceTo(p) PROVE Grows
    BY <1>1, <2>2 DEF ProduceTo, Produce, Grows, TypeOK, KafkaTypeOK
  <2>3. QED
    BY <2>1, <2>2 DEF SessionTimeout, Signal, vars, kafkaVars
<1>3. ASSUME NEW r \in Requests, pc[r] \in {"subscribe", "poll"} PROVE Crashed \notin members
  BY <1>3, ChangeSetAssumption DEF FeedInv, RequestInv, ResetInv
<1>4. QED
  BY <1>1, <1>2, <1>3, EnvironmentFrame

\* The process dies: the client keeps what it has, and the group its offsets.
LEMMA CrashStep ==
  ASSUME TypeOK, FeedInv, Crash
  PROVE  FeedInv'
<1>1. /\ UNCHANGED <<token, synced, committed, logEnd, evictions>>
      /\ \A r \in Requests : /\ pc'[r] = "idle" /\ read'[r] = NoToken /\ sent'[r] = {}
                             /\ count'[r] = 0 /\ outcome'[r] # "ok"
  BY DEF Crash
<1>2. Grows
  BY <1>1 DEF Grows, TypeOK, KafkaTypeOK
<1>3. ClientInv'
  BY <1>1, <1>2, ClientKept DEF FeedInv
<1>4. \A r \in Requests : RequestInv(r)'
  BY <1>1, IdleInv
<1>5. Alone'
  BY <1>1 DEF Alone
<1>6. QED
  BY <1>3, <1>4, <1>5 DEF FeedInv

\* The client forgets its token, and what it has received with it.
LEMMA RestartStep ==
  ASSUME TypeOK, FeedInv, Restart
  PROVE  FeedInv'
<1>1. /\ waiting = NoRequest /\ token' = NoToken /\ synced' = {}
      /\ UNCHANGED <<pc, since, count, read, sent, cont, outcome, waiting,
                     committed, logEnd, evictions>>
  BY DEF Restart, localVars, kafkaVars
<1>2. \A r \in Requests : pc[r] = "idle"
  BY <1>1, ChangeSetAssumption DEF FeedInv, Alone
<1>3. \A r \in Requests : RequestInv(r)'
  <2>1. \A r \in Requests : read[r] = NoToken /\ sent[r] = {} /\ count[r] = 0 /\ outcome[r] # "ok"
    BY <1>2 DEF FeedInv, RequestInv, EarlyInv, TokenInv, Early, Ended
  <2>2. QED
    BY <1>1, <1>2, <2>1, IdleInv
<1>4. ClientInv'
  <2>1. \A p \in Partitions : token'[p] = -1 /\ logEnd'[p] \in Nat /\ committed'[p] <= logEnd'[p]
    BY <1>1 DEF NoToken, TypeOK, KafkaTypeOK, FeedInv, ClientInv
  <2>2. InLog(synced)' /\ Matches(synced, token)'
    BY <1>1, <2>1, HasNothing DEF InLog, Matches
  <2>3. QED
    BY <1>1, <2>1, <2>2 DEF ClientInv
<1>5. Alone'
  BY <1>1, <1>2 DEF Alone
<1>6. QED
  BY <1>3, <1>4, <1>5 DEF FeedInv

\* The client waits for every response, so that FeedInv is inductive.
LEMMA FeedStep ==
  ASSUME ~ClientGivesUp, TypeOK, GroupInv, FeedInv, [Next]_vars
  PROVE  FeedInv'
<1>1. ASSUME NEW r \in Requests, Handler(r) PROVE FeedInv'
  BY <1>1, QuietStep, CreateFailsStep, ResetStep, SubscribeStep, DeliverStep, PanicStep,
     FinishStep, EndStep
  DEF Handler, Poll, DeliverNext, PanicNext
<1>2. ~GiveUp
  BY DEF GiveUp
<1>3. QED
  BY <1>1, <1>2, AskStep, RestartStep, JoinStep, EvictStep, EnvironmentStep, CrashStep
  DEF Next, Client, Environment

LEMMA FeedInvariance ==
  ASSUME ~ClientGivesUp
  PROVE  Spec => [](IInv /\ FeedInv)
<1>1. Init => FeedInv
  <2> SUFFICES ASSUME Init PROVE FeedInv
    OBVIOUS
  <2>1. Alone
    BY DEF Init, Alone
  <2>2. ClientInv
    BY HasNothing, KafkaAssumption DEF Init, KafkaInit, ClientInv, InLog, Matches, NoToken
  <2>3. \A r \in Requests : RequestInv(r)
    BY DEF Init, RequestInv, InLog, EarlyInv, ResetInv, PollInv, TokenInv
  <2>4. QED
    BY <2>1, <2>2, <2>3 DEF FeedInv
<1>2. IInv /\ FeedInv /\ [Next]_vars => FeedInv'
  BY FeedStep DEF IInv
<1>3. QED
  BY <1>1, <1>2, Invariance, PTL DEF Spec

-----------------------------------------------------------------------------
(***************************************************************************)
(* The theorems                                                            *)
(***************************************************************************)

\* A client that waits for its responses and drops its token reads everything
\* again, whatever fails, is evicted, or dies in between.  (consumer.go:325)
THEOREM ReadsInFull ==
  ASSUME ~ClientGivesUp
  PROVE  Spec => []FullRead
<1>1. IInv /\ FeedInv => FullRead
  BY UpToHas DEF IInv, TypeOK, FeedInv, ClientInv, Matches, FullRead
<1>2. QED
  BY <1>1, FeedInvariance, PTL

\* Being handed a message, for a single step.
LEMMA ConsumesInOrder ==
  ASSUME TypeOK, GroupInv, FeedInv, evictions = 0,
         NEW q \in Requests, NEW p \in Partitions, NEW r \in Requests,
         Deliver(q, <<p, position[p]>>) \/ Panic(q, <<p, position[p]>>),
         Received(r)' # Received(r)
  PROVE  GetsNext(r)
<1>1. Consume(q, <<p, position[p]>>)
  BY DEF Deliver, Panic
<1>2. /\ read' = [read EXCEPT ![q][p] = position[p]]
      /\ count' = [count EXCEPT ![q] = @ + 1]
  BY <1>1, ConsumeEffect DEF Consume
<1>3. q = r
  BY <1>2 DEF Deliver, Panic, Received, TypeOK
<1>4. position[p] = Continuation(r)[p] + 1
  BY <1>1, <1>3, NextMessage
<1>5. read'[r] = [read[r] EXCEPT ![p] = position[p]] /\ count'[r] = count[r] + 1
  BY <1>2, <1>3 DEF TypeOK
<1>6. pc'[r] = "cleanup" \/ sent'[r] = sent[r] \cup {<<p, position[p]>>}
  BY <1>3 DEF Deliver, Panic, Goto, TypeOK
<1>7. QED
  BY <1>4, <1>5, <1>6 DEF GetsNext

\* What a running request has got only changes when it is handed a message.
LEMMA ReceivesInOrder ==
  ASSUME TypeOK, GroupInv, FeedInv, [Next]_vars, evictions = 0,
         NEW r \in Requests, Received(r)' # Received(r), pc'[r] # "idle"
  PROVE  GetsNext(r)
<1>1. ASSUME NEW q \in Requests, EndOfResponse(q) PROVE FALSE
  BY <1>1 DEF EndOfResponse, Goto, Received, TypeOK
<1>2. ~Crash
  BY DEF Crash
<1>3. ASSUME NEW q \in Requests, Handler(q)
      PROVE  \/ UNCHANGED <<count, read, sent>> \/ EndOfResponse(q)
             \/ \E p \in Partitions : Deliver(q, <<p, position[p]>>) \/ Panic(q, <<p, position[p]>>)
  BY <1>3
  DEF Handler, Poll, DeliverNext, PanicNext, ConfigGone, CancelPrevious, Create, CreateFails,
      Register, ResetOffsets, ResetFails, Subscribe, SubscribeFails, PollNil,
      PollAllBrokersDown, LeaveLoop, Finish, Cleanup, Deregister, localVars
<1>4. ASSUME Client \/ Environment \/ UNCHANGED vars
      PROVE  UNCHANGED <<count, read, sent>> \/ Crash
  BY <1>4
  DEF Client, GiveUp, Restart, Request, Environment, Join, Evict, SessionTimeout, ProduceTo,
      Signal, localVars, vars
<1>5. ~UNCHANGED <<count, read, sent>>
  BY DEF Received
<1>6. QED
  BY <1>1, <1>2, <1>3, <1>4, <1>5, ConsumesInOrder DEF Next

\* As long as no consumer is evicted, a response continues right after the token
\* it was asked for, and within each partition without gap or repetition, for
\* any limits, chains of requests, panics and crashes.  (consumer.go:222-244)
THEOREM ReadsInOrder ==
  ASSUME ~ClientGivesUp
  PROVE  Spec => InOrder
<1>1. IInv /\ FeedInv /\ [Next]_vars =>
        [evictions = 0 => \A r \in Requests :
           Received(r)' # Received(r) /\ pc'[r] # "idle" => GetsNext(r)]_vars
  BY ReceivesInOrder DEF IInv
<1>2. QED
  BY <1>1, FeedInvariance, PTL DEF Spec, InOrder

-----------------------------------------------------------------------------
(***************************************************************************)
(* The refinement                                                          *)
(***************************************************************************)

\* What matches a token exactly is what the token stands for.
LEMMA MatchesExactly ==
  ASSUME NEW t \in Tokens, NEW S \in SUBSET Messages, Matches(S, t)
  PROVE  UpTo(t) \subseteq S /\ (evictions = 0 => S = UpTo(t))
<1>1. UpTo(t) \subseteq S
  BY UpToHas DEF Matches
<1>2. ASSUME evictions = 0, NEW m \in S PROVE m \in UpTo(t)
  <2>1. PICK p \in Partitions, o \in Nat : m = <<p, o>>
    BY DEF Messages
  <2>2. o <= t[p] /\ t[p] \in Int
    BY <1>2, <2>1 DEF Matches, Tokens
  <2>3. o \in 0..t[p]
    BY <2>2
  <2>4. m \in {p} \X (0..t[p])
    BY <2>1, <2>3
  <2>5. QED
    BY <2>4 DEF UpTo
<1>3. QED
  BY <1>1, <1>2

\* Messages that are in the log are in the log of the feed.
LEMMA InTheLog ==
  ASSUME TypeOK, NEW S \in SUBSET Messages, InLog(S)
  PROVE  S \subseteq UNION {{p} \X (0..(logEnd[p] - 1)) : p \in Partitions}
<1> SUFFICES ASSUME NEW m \in S
             PROVE  m \in UNION {{p} \X (0..(logEnd[p] - 1)) : p \in Partitions}
  OBVIOUS
<1>1. PICK p \in Partitions, o \in Nat : m = <<p, o>>
  BY DEF Messages
<1>2. o < logEnd[p] /\ logEnd[p] \in Nat
  BY <1>1 DEF InLog, TypeOK, KafkaTypeOK
<1>3. m \in {p} \X (0..(logEnd[p] - 1))
  BY <1>1, <1>2
<1>4. QED
  BY <1>3

\* A response that is accepted is a step of the feed.
LEMMA AcceptedIsRead ==
  ASSUME TypeOK, FeedInv, TypeOK', FeedInv', NEW r \in Requests, EndOfResponse(r)
  PROVE  Feed!Read \/ UNCHANGED Feed!feedVars
<1>1. pc[r] = "answered" /\ UNCHANGED <<logEnd, evictions>>
  BY DEF EndOfResponse, kafkaVars
<1>2. waiting = r /\ since[r] = token /\ RequestInv(r)
  BY <1>1 DEF FeedInv, Alone
<1>3. CASE outcome[r] # "ok"
  BY <1>1, <1>2, <1>3 DEF EndOfResponse, Feed!feedVars
<1>4. CASE outcome[r] = "ok"
  <2>1. token' = cont[r] /\ synced' = synced \cup sent[r]
    BY <1>2, <1>4 DEF EndOfResponse
  <2>2. ASSUME NEW p \in Partitions PROVE token'[p] \in token[p]..(logEnd[p] - 1)
    <3>1. Reached(r, cont[r])
      BY <1>2, <1>4 DEF RequestInv, TokenInv
    <3>2. token[p] <= token'[p] /\ token'[p] < logEnd[p]
      BY <1>2, <2>1, <3>1 DEF Reached
    <3>3. token[p] \in Int /\ token'[p] \in Int /\ logEnd[p] \in Int
      BY DEF TypeOK, KafkaTypeOK, Tokens
    <3>4. QED
      BY <3>2, <3>3
  <2>3. token' \in Tokens /\ synced' \in SUBSET Messages
    BY DEF TypeOK
  <2>4. Matches(synced, token)' /\ InLog(synced)'
    BY DEF FeedInv, ClientInv
  <2>5. /\ UpTo(token') \subseteq synced'
        /\ evictions = 0 => synced' = UpTo(token')
    <3>1. Matches(synced', token')
      BY <1>1, <2>4 DEF Matches
    <3>2. QED
      BY <2>3, <3>1, MatchesExactly
  <2>6. synced' \subseteq UNION {{p} \X (0..(logEnd[p] - 1)) : p \in Partitions}
    <3>1. InLog(synced')
      BY <1>1, <2>4 DEF InLog
    <3>2. QED
      BY <2>3, <3>1, InTheLog
  <2>7. ~(evictions > 0) => evictions = 0
    BY DEF TypeOK, KafkaTypeOK
  <2>8. UNCHANGED <<logEnd, (evictions > 0)>>
    BY <1>1
  <2>9. Feed!UpTo(token') = UpTo(token')
    BY DEF Feed!UpTo, UpTo
  <2>10. synced \cup Feed!UpTo(token') \subseteq synced'
    BY <2>1, <2>5, <2>9
  <2>11. ~(evictions > 0) => synced' = Feed!UpTo(token')
    BY <2>5, <2>7, <2>9
  <2>12. QED
    BY <2>2, <2>6, <2>8, <2>10, <2>11 DEF Feed!Read
<1>5. QED
  BY <1>3, <1>4

\* Every step is a step of the feed, or none.
LEMMA FeedSimulation ==
  ASSUME ~ClientGivesUp, IInv, FeedInv, TypeOK', FeedInv', [Next]_vars
  PROVE  [Feed!FeedNext]_Feed!feedVars
<1>1. ASSUME NEW r \in Requests, EndOfResponse(r) PROVE [Feed!FeedNext]_Feed!feedVars
  BY <1>1, AcceptedIsRead DEF IInv, Feed!FeedNext
<1>2. ASSUME NEW r \in Requests, Handler(r), ~EndOfResponse(r)
      PROVE  UNCHANGED <<logEnd, token, synced, evictions>>
  BY <1>2
  DEF Handler, Poll, DeliverNext, PanicNext, ConfigGone, CancelPrevious, Create, CreateFails,
      Register, ResetOffsets, ResetFails, Subscribe, SubscribeFails, Deliver, Panic, Consume,
      PollNil, PollAllBrokersDown, LeaveLoop, Finish, Cleanup, Deregister, clientVars, kafkaVars
<1>3. ASSUME NEW r \in Requests, Request(r) \/ Join(r)
      PROVE  UNCHANGED <<logEnd, token, synced, evictions>>
  BY <1>3 DEF Request, Join, clientVars, kafkaVars
<1>4. ASSUME SessionTimeout \/ Signal \/ Crash \/ UNCHANGED vars
      PROVE  UNCHANGED <<logEnd, token, synced, evictions>>
  BY <1>4 DEF SessionTimeout, Signal, Crash, vars, clientVars, kafkaVars
<1>5. ASSUME NEW p \in Partitions, ProduceTo(p) PROVE Feed!Write
  BY <1>5 DEF ProduceTo, Produce, clientVars, Feed!Write
<1>6. ASSUME Restart PROVE Feed!StartOver
  BY <1>6 DEF Restart, kafkaVars, NoToken, Feed!StartOver, Feed!Start
<1>7. ASSUME NEW r \in Requests, Evict(r) PROVE Feed!Disturb
  <2>1. evictions' > 0
    BY <1>7 DEF Evict, IInv, TypeOK, KafkaTypeOK
  <2>2. UNCHANGED <<logEnd, token, synced>>
    BY <1>7 DEF Evict, clientVars
  <2>3. QED
    BY <2>1, <2>2 DEF Feed!Disturb
<1>8. ~GiveUp
  BY DEF GiveUp
<1>9. UNCHANGED <<logEnd, token, synced, evictions>> => UNCHANGED Feed!feedVars
  BY DEF Feed!feedVars
<1>10. QED
  BY <1>1, <1>2, <1>3, <1>4, <1>5, <1>6, <1>7, <1>8, <1>9
  DEF Next, Client, Environment, Feed!FeedNext

\* Reading a dataset step by step implements the feed: the token only moves
\* forward, or back to the start, over messages the client has received, and
\* until a consumer is evicted the client has received each of them once.
\* (consume and ChangeSet, consumerhandler.go:40-94 and consumer.go:115-307)
THEOREM FeedImplemented ==
  ASSUME ~ClientGivesUp
  PROVE  Spec => ImplementsFeed
<1>1. Init => Feed!FeedInit
  <2> SUFFICES ASSUME Init PROVE Feed!FeedInit
    OBVIOUS
  <2>1. (evictions > 0) = FALSE
    BY DEF Init, KafkaInit
  <2>2. QED
    BY <2>1 DEF Init, KafkaInit, NoToken, Feed!FeedInit, Feed!Start
<1>2. IInv /\ FeedInv /\ IInv' /\ FeedInv' /\ [Next]_vars => [Feed!FeedNext]_Feed!feedVars
  BY FeedSimulation DEF IInv
<1>3. QED
  BY <1>1, <1>2, FeedInvariance, PTL DEF Spec, ImplementsFeed, Feed!FeedSpec

=============================================================================
