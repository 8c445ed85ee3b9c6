-------------------------- MODULE ChangeSetProofs --------------------------
(***************************************************************************)
(* Proofs about ChangeSet, for any number of requests and partitions, any  *)
(* limits and bounds, and any undecodable and poisonous messages.          *)
(***************************************************************************)
EXTENDS ChangeSet, FiniteSetTheorems, TLAPS

USE DEF NoOffset

-----------------------------------------------------------------------------
(***************************************************************************)
(* Type correctness                                                        *)
(***************************************************************************)

\* A rebalance leaves a well-typed group.
LEMMA RebalanceType ==
  ASSUME TypeOK, NEW ms \in SUBSET Consumers, Rebalance(ms)
  PROVE  /\ members' \subseteq Consumers
         /\ owner' \in [Partitions -> Consumers \cup {NoConsumer}]
         /\ position' \in [Partitions -> Nat]
  BY DEF Rebalance, TypeOK, KafkaTypeOK

\* So does leaving it.
LEMMA LeaveGroupType ==
  ASSUME TypeOK, NEW c, LeaveGroup(c)
  PROVE  /\ members' \subseteq Consumers
         /\ owner' \in [Partitions -> Consumers \cup {NoConsumer}]
         /\ position' \in [Partitions -> Nat]
<1>1. CASE c \in members
  <2>1. members \ {c} \in SUBSET Consumers
    BY DEF TypeOK, KafkaTypeOK
  <2> QED
    BY <1>1, <2>1, RebalanceType DEF LeaveGroup
<1>2. CASE c \notin members
  BY <1>2 DEF LeaveGroup, groupVars, TypeOK, KafkaTypeOK
<1> QED
  BY <1>1, <1>2

\* The variables always have their types: no offset, count or token leaves its
\* range, whatever requests overlap.  (the state of ChangeSet, consumer.go:115-307)
THEOREM TypeCorrect == Spec => []TypeOK
<1>1. Init => TypeOK
  BY ChangeSetAssumption, KafkaAssumption
  DEF Init, KafkaInit, TypeOK, KafkaTypeOK, Tokens, NoToken, PCs, Consumers, Messages
<1>2. TypeOK /\ [Next]_vars => TypeOK'
  <2> SUFFICES ASSUME TypeOK, [Next]_vars PROVE TypeOK'
    OBVIOUS
  <2>1. CASE UNCHANGED vars
    BY <2>1 DEF TypeOK, KafkaTypeOK, vars, localVars, clientVars, kafkaVars, groupVars
  <2>2. ASSUME NEW r \in Requests, Request(r) PROVE TypeOK'
    BY <2>2, ChangeSetAssumption
    DEF Request, TypeOK, KafkaTypeOK, kafkaVars, groupVars, Goto, PCs
  <2>3. CASE GiveUp
    BY <2>3 DEF GiveUp, TypeOK, KafkaTypeOK, kafkaVars, groupVars, localVars
  <2>4. CASE Restart
    BY <2>4 DEF Restart, TypeOK, KafkaTypeOK, kafkaVars, groupVars, localVars, Tokens, NoToken
  <2>5. ASSUME NEW r \in Requests, EndOfResponse(r) PROVE TypeOK'
    <3>1. token' \in Tokens /\ got' \subseteq Messages /\ synced' \subseteq Messages
      BY <2>5 DEF EndOfResponse, TypeOK, clientVars
    <3> QED
      BY <2>5, <3>1
      DEF EndOfResponse, TypeOK, KafkaTypeOK, clientVars, kafkaVars, groupVars, Goto,
          PCs, Tokens, NoToken
  <2>6. ASSUME NEW r \in Requests, ConfigGone(r) PROVE TypeOK'
    BY <2>6 DEF ConfigGone, TypeOK, KafkaTypeOK, localVars, clientVars, kafkaVars, groupVars, Goto, PCs
  <2>7. ASSUME NEW r \in Requests, CancelPrevious(r) PROVE TypeOK'
    <3>1. KafkaTypeOK(Consumers)'
      BY <2>7, LeaveGroupType
      DEF CancelPrevious, CloseConsumer, TypeOK, KafkaTypeOK, groupVars, Consumers
    <3> QED
      BY <2>7, <3>1 DEF CancelPrevious, CloseConsumer, TypeOK, localVars, clientVars, Goto, PCs
  <2>8. ASSUME NEW r \in Requests, Create(r) \/ CreateFails(r) PROVE TypeOK'
    BY <2>8 DEF Create, CreateFails, TypeOK, KafkaTypeOK, localVars, clientVars, kafkaVars, groupVars, Goto, PCs
  <2>9. ASSUME NEW r \in Requests, Register(r) PROVE TypeOK'
    BY <2>9 DEF Register, TypeOK, KafkaTypeOK, localVars, clientVars, kafkaVars, groupVars, Goto, PCs
  <2>10. ASSUME NEW r \in Requests, ResetOffsets(r) PROVE TypeOK'
    <3>1. ResetTo(since[r]) \in [Partitions -> Nat]
      BY DEF ResetTo, TypeOK, KafkaTypeOK, Tokens
    <3> QED
      BY <2>10, <3>1
      DEF ResetOffsets, CommitOffsets, TypeOK, KafkaTypeOK, localVars, clientVars, groupVars, Goto, PCs
  <2>11. ASSUME NEW r \in Requests, ResetFails(r) \/ SubscribeFails(r) \/ LeaveLoop(r) PROVE TypeOK'
    BY <2>11
    DEF ResetFails, SubscribeFails, LeaveLoop, TypeOK, KafkaTypeOK, localVars, clientVars, kafkaVars, groupVars, Goto, PCs
  <2>12. ASSUME NEW r \in Requests, Subscribe(r) PROVE TypeOK'
    BY <2>12 DEF Subscribe, TypeOK, KafkaTypeOK, localVars, clientVars, kafkaVars, groupVars, Goto, PCs
  <2>13. ASSUME NEW r \in Requests, NEW p \in Partitions, Consume(r, <<p, position[p]>>)
         PROVE  /\ KafkaTypeOK(Consumers)'
                /\ <<p, position[p]>> \in Messages
                /\ count' \in [Requests -> Nat]
                /\ nils' \in [Requests -> Nat]
                /\ read' \in [Requests -> Tokens]
                /\ UNCHANGED <<since, limit, cont, outcome, handle, running, clientVars>>
    BY <2>13 DEF Consume, Fetch, TypeOK, KafkaTypeOK, Tokens, Messages
  <2>14. ASSUME NEW r \in Requests, DeliverNext(r) PROVE TypeOK'
    <3>1. PICK p \in Partitions : Deliver(r, <<p, position[p]>>)
      BY <2>14 DEF DeliverNext
    <3>2. sent' \in [Requests -> SUBSET Messages]
      BY <2>13, <3>1 DEF Deliver, TypeOK
    <3> QED
      BY <2>13, <3>1, <3>2 DEF Deliver, TypeOK, clientVars, Goto, PCs
  <2>15. ASSUME NEW r \in Requests, PanicNext(r) PROVE TypeOK'
    <3>1. PICK p \in Partitions : Panic(r, <<p, position[p]>>)
      BY <2>15 DEF PanicNext
    <3> QED
      BY <2>13, <3>1 DEF Panic, TypeOK, clientVars, Goto, PCs
  <2>16. ASSUME NEW r \in Requests, PollNil(r) \/ PollAllBrokersDown(r) PROVE TypeOK'
    <3>1. CASE PollNil(r)
      <4>1. stop' \in [Requests -> BOOLEAN]
        BY <3>1, Zenon DEF PollNil, TypeOK
      <4> QED
        BY <3>1, <4>1
        DEF PollNil, TypeOK, KafkaTypeOK, clientVars, kafkaVars, groupVars
    <3>2. CASE PollAllBrokersDown(r)
      BY <3>2
      DEF PollAllBrokersDown, TypeOK, KafkaTypeOK, localVars, clientVars, kafkaVars, groupVars
    <3> QED
      BY <2>16, <3>1, <3>2
  <2>17. ASSUME NEW r \in Requests, Finish(r) PROVE TypeOK'
    <3>1. Continuation(r) \in Tokens
      BY DEF Continuation, Tokens, TypeOK
    <3> QED
      BY <2>17, <3>1
      DEF Finish, TypeOK, KafkaTypeOK, clientVars, kafkaVars, groupVars, Goto, PCs
  <2>18. ASSUME NEW r \in Requests, Cleanup(r) PROVE TypeOK'
    <3>1. KafkaTypeOK(Consumers)'
      BY <2>18, LeaveGroupType DEF Cleanup, CloseConsumer, TypeOK, KafkaTypeOK
    <3> QED
      BY <2>18, <3>1 DEF Cleanup, CloseConsumer, TypeOK, localVars, clientVars, Goto, PCs
  <2>19. ASSUME NEW r \in Requests, Deregister(r) PROVE TypeOK'
    BY <2>19 DEF Deregister, TypeOK, KafkaTypeOK, localVars, clientVars, kafkaVars, groupVars, Goto, PCs
  <2>20. ASSUME NEW r \in Requests, Join(r) PROVE TypeOK'
    <3>1. members \cup {r} \in SUBSET Consumers
      BY DEF TypeOK, KafkaTypeOK, Consumers
    <3>2. KafkaTypeOK(Consumers)'
      BY <2>20, <3>1, RebalanceType DEF Join, JoinGroup, TypeOK, KafkaTypeOK
    <3> QED
      BY <2>20, <3>2 DEF Join, TypeOK, localVars, clientVars
  <2>21. ASSUME NEW r \in Requests, Evict(r) PROVE TypeOK'
    <3>1. KafkaTypeOK(Consumers)'
      BY <2>21, LeaveGroupType DEF Evict, TypeOK, KafkaTypeOK
    <3> QED
      BY <2>21, <3>1 DEF Evict, TypeOK, localVars, clientVars
  <2>22. CASE SessionTimeout
    <3>1. KafkaTypeOK(Consumers)'
      BY <2>22, LeaveGroupType DEF SessionTimeout, TypeOK, KafkaTypeOK
    <3> QED
      BY <2>22, <3>1 DEF SessionTimeout, TypeOK, localVars, clientVars
  <2>23. ASSUME NEW p \in Partitions, ProduceTo(p) PROVE TypeOK'
    BY <2>23 DEF ProduceTo, Produce, TypeOK, KafkaTypeOK, localVars, clientVars, groupVars
  <2>24. CASE Signal
    BY <2>24 DEF Signal, TypeOK, KafkaTypeOK, localVars, clientVars, kafkaVars, groupVars
  <2>25. CASE Crash
    <3>1. {Crashed} \in SUBSET Consumers
      BY DEF Consumers
    <3>2. KafkaTypeOK(Consumers)'
      BY <2>25, <3>1, RebalanceType DEF Crash, TypeOK, KafkaTypeOK, groupVars
    <3> QED
      BY <2>25, <3>2 DEF Crash, TypeOK, PCs, Tokens, NoToken
  <2> QED
    BY <2>1, <2>2, <2>3, <2>4, <2>5, <2>6, <2>7, <2>8, <2>9, <2>10, <2>11, <2>12, <2>14,
       <2>15, <2>16, <2>17, <2>18, <2>19, <2>20, <2>21, <2>22, <2>23, <2>24, <2>25
    DEF Next, Client, Environment, Handler, Poll
<1> QED
  BY <1>1, <1>2, PTL DEF Spec

-----------------------------------------------------------------------------
(***************************************************************************)
(* No message is lost                                                      *)
(*                                                                         *)
(* NoLoss is not inductive: a response is read out of a partition from the *)
(* committed offset on, and that offset may have been committed by another *)
(* request, on behalf of an older token.  It is sound because every offset *)
(* ever committed, and every token ever sent, stands for messages the      *)
(* client has got; and because what a request has read further than that   *)
(* it has written to its own response.                                     *)
(***************************************************************************)

\* S holds the messages of partition p up to offset n.
Has(S, p, n) == \A o \in 0..n : <<p, o>> \in S

\* Only consumers that have subscribed, and are still in their loop or about to
\* leave the group, are members; partitions are assigned to members.
GroupInv ==
  /\ \A r \in Requests :
       handle[r] = "subscribed" => pc[r] \in {"poll", "finish", "cleanup"}
  /\ MembersAreServed
  /\ \A p \in Partitions : owner[p] \in members \cup {NoConsumer}

\* Where the group starts, and where every request and the client are, follows
\* messages the client has got.
StartInv ==
  /\ \A p \in Partitions : Has(got, p, committed[p] - 1)
  /\ \A p \in Partitions : Has(got, p, token[p])
  /\ \A r \in Requests, p \in Partitions : Has(got, p, since[r][p])

\* What a request reads follows messages that are in its response or were got.
ReadInv ==
  /\ \A r \in Requests, p \in Partitions :
       pc[r] = "poll" /\ owner[p] = r => Has(got \cup sent[r], p, position[p] - 1)
  /\ \A r \in Requests, p \in Partitions :
       pc[r] \notin {"cleanup", "deregister", "answered"} =>
         Has(got \cup sent[r], p, read[r][p])
  /\ \A r \in Requests, p \in Partitions :
       outcome[r] = "ok" => Has(got \cup sent[r], p, cont[r][p])

IInv == TypeOK /\ GroupInv /\ StartInv /\ ReadInv

\* A set that grows keeps the messages it has.
LEMMA HasMono ==
  ASSUME NEW S, NEW T, S \subseteq T, NEW p, NEW n, Has(S, p, n)
  PROVE  Has(T, p, n)
  BY DEF Has

\* Every set has the messages up to no offset.
LEMMA HasNothing ==
  ASSUME NEW S, NEW p PROVE Has(S, p, -1)
  BY DEF Has

\* With one more message, a set has one offset more.
LEMMA HasNext ==
  ASSUME NEW S, NEW p, NEW n \in Nat, Has(S, p, n - 1)
  PROVE  Has(S \cup {<<p, n>>}, p, n)
<1> SUFFICES ASSUME NEW o \in 0..n PROVE <<p, o>> \in S \cup {<<p, n>>}
  BY DEF Has
<1>1. CASE o = n
  BY <1>1
<1>2. CASE o # n
  <2>1. o \in 0..(n - 1)
    BY <1>2
  <2> QED
    BY <2>1 DEF Has
<1> QED
  BY <1>1, <1>2

\* A token stands for messages in a set when the set has them per partition.
LEMMA UpToHas ==
  ASSUME NEW S, NEW t \in Tokens, \A p \in Partitions : Has(S, p, t[p])
  PROVE  UpTo(t) \subseteq S
<1> SUFFICES ASSUME NEW m \in UpTo(t) PROVE m \in S
  OBVIOUS
<1>1. PICK p \in Partitions : m \in {p} \X (0..t[p])
  BY DEF UpTo
<1>2. PICK o \in 0..t[p] : m = <<p, o>>
  BY <1>1
<1> QED
  BY <1>2 DEF Has

\* A rebalance assigns partitions to the members, and starts them from the
\* committed offsets.
LEMMA RebalanceOwner ==
  ASSUME NEW ms, Rebalance(ms)
  PROVE  /\ members' = ms
         /\ \A p \in Partitions : owner'[p] \in ms \cup {NoConsumer}
         /\ position' = committed
  BY DEF Rebalance

\* A consumer that leaves is not a member; the others stay, nobody joins, and
\* if nothing was rebalanced nothing has changed.
LEMMA LeaveGroupOwner ==
  ASSUME GroupInv, NEW c, LeaveGroup(c)
  PROVE  /\ members' = members \ {c}
         /\ \A p \in Partitions : owner'[p] \in members' \cup {NoConsumer}
         /\ position' = committed \/ UNCHANGED groupVars
<1>1. CASE c \in members
  BY <1>1, RebalanceOwner DEF LeaveGroup
<1>2. CASE c \notin members
  BY <1>2 DEF LeaveGroup, groupVars, GroupInv
<1> QED
  BY <1>1, <1>2

\* What delivering the next message of a partition does.
LEMMA DeliverEffect ==
  ASSUME NEW r \in Requests, NEW p \in Partitions, Deliver(r, <<p, position[p]>>)
  PROVE  /\ pc[r] = "poll" /\ owner[p] = r
         /\ \E l \in {"finish", "poll"} : pc' = [pc EXCEPT ![r] = l]
         /\ position' = [position EXCEPT ![p] = @ + 1]
         /\ read' = [read EXCEPT ![r][p] = position[p]]
         /\ sent' = [sent EXCEPT ![r] = @ \cup {<<p, position[p]>>}]
         /\ UNCHANGED <<handle, members, owner, committed, since, cont, outcome,
                        token, got>>
<1>1. Consume(r, <<p, position[p]>>) /\ sent' = [sent EXCEPT ![r] = @ \cup {<<p, position[p]>>}]
  BY DEF Deliver
<1>2. \E l \in {"finish", "poll"} : pc' = [pc EXCEPT ![r] = l]
  BY DEF Deliver, Goto
<1> QED
  BY <1>1, <1>2 DEF Consume, Polling, Fetch, clientVars

\* What panicking on it does: the same, but for the response.
LEMMA PanicEffect ==
  ASSUME NEW r \in Requests, NEW p \in Partitions, Panic(r, <<p, position[p]>>)
  PROVE  /\ pc[r] = "poll" /\ owner[p] = r
         /\ pc' = [pc EXCEPT ![r] = "cleanup"]
         /\ position' = [position EXCEPT ![p] = @ + 1]
         /\ read' = [read EXCEPT ![r][p] = position[p]]
         /\ UNCHANGED <<handle, members, owner, committed, since, sent, cont, outcome,
                        token, got>>
  BY DEF Panic, Consume, Polling, Fetch, Goto, clientVars

\* Every step keeps the group to the requests that are being served.
LEMMA GroupStep ==
  ASSUME TypeOK, GroupInv, [Next]_vars PROVE GroupInv'
<1> USE DEF GroupInv, MembersAreServed
<1>1. CASE UNCHANGED vars
  BY <1>1 DEF vars, kafkaVars, groupVars
<1>2. CASE GiveUp \/ Restart
  BY <1>2 DEF GiveUp, Restart, kafkaVars, groupVars
<1>3. ASSUME NEW r \in Requests, Request(r) PROVE GroupInv'
  BY <1>3 DEF Request, kafkaVars, groupVars, Goto, TypeOK
<1>4. ASSUME NEW r \in Requests, EndOfResponse(r) PROVE GroupInv'
  BY <1>4 DEF EndOfResponse, kafkaVars, groupVars, Goto, TypeOK
<1>5. ASSUME NEW r \in Requests, ConfigGone(r) \/ Register(r) \/ ResetFails(r) \/ SubscribeFails(r)
      PROVE GroupInv'
  BY <1>5
  DEF ConfigGone, Register, ResetFails, SubscribeFails, kafkaVars, groupVars, Goto, TypeOK
<1>6. ASSUME NEW r \in Requests, CancelPrevious(r) PROVE GroupInv'
  <2>1. CASE running = NoRequest
    BY <1>6, <2>1 DEF CancelPrevious, groupVars, Goto, TypeOK
  <2>2. CASE running # NoRequest
    <3>1. running \in Requests
      BY <2>2 DEF TypeOK
    <3>2. /\ handle' = [handle EXCEPT ![running] = "closed"]
          /\ pc' = [pc EXCEPT ![r] = "create"]
          /\ LeaveGroup(running)
      BY <1>6, <2>2 DEF CancelPrevious, CloseConsumer, Goto
    <3>3. /\ members' = members \ {running}
          /\ \A p \in Partitions : owner'[p] \in members' \cup {NoConsumer}
      BY <3>2, LeaveGroupOwner
    <3>4. pc[r] = "lookup"
      BY <1>6 DEF CancelPrevious
    <3> QED
      BY <3>1, <3>2, <3>3, <3>4 DEF TypeOK
  <2> QED
    BY <2>1, <2>2
<1>7. ASSUME NEW r \in Requests, Create(r) \/ CreateFails(r) PROVE GroupInv'
  BY <1>7 DEF Create, CreateFails, kafkaVars, groupVars, Goto, TypeOK
<1>8. ASSUME NEW r \in Requests, ResetOffsets(r) \/ Subscribe(r) PROVE GroupInv'
  BY <1>8 DEF ResetOffsets, Subscribe, CommitOffsets, kafkaVars, groupVars, Goto, TypeOK
<1>9. ASSUME NEW r \in Requests, DeliverNext(r) \/ PanicNext(r) PROVE GroupInv'
  <2>1. /\ pc[r] = "poll"
        /\ \E l \in {"finish", "poll", "cleanup"} : pc' = [pc EXCEPT ![r] = l]
        /\ UNCHANGED <<handle, members, owner>>
    BY <1>9, DeliverEffect, PanicEffect DEF DeliverNext, PanicNext
  <2> QED
    BY <2>1 DEF TypeOK
<1>10. ASSUME NEW r \in Requests, PollNil(r) \/ PollAllBrokersDown(r) PROVE GroupInv'
  BY <1>10 DEF PollNil, PollAllBrokersDown, kafkaVars, groupVars
<1>11. ASSUME NEW r \in Requests, LeaveLoop(r) \/ Finish(r) PROVE GroupInv'
  BY <1>11 DEF LeaveLoop, Finish, kafkaVars, groupVars, Goto, TypeOK
<1>12. ASSUME NEW r \in Requests, Cleanup(r) PROVE GroupInv'
  <2>1. /\ members' = members \ {r}
        /\ \A p \in Partitions : owner'[p] \in members' \cup {NoConsumer}
    BY <1>12, LeaveGroupOwner DEF Cleanup, CloseConsumer
  <2> QED
    BY <1>12, <2>1 DEF Cleanup, CloseConsumer, Goto, TypeOK
<1>13. ASSUME NEW r \in Requests, Deregister(r) PROVE GroupInv'
  BY <1>13 DEF Deregister, kafkaVars, groupVars, Goto, TypeOK
<1>14. ASSUME NEW r \in Requests, Join(r) PROVE GroupInv'
  BY <1>14, RebalanceOwner DEF Join, JoinGroup
<1>15. ASSUME NEW r \in Requests, Evict(r) PROVE GroupInv'
  BY <1>15, LeaveGroupOwner DEF Evict
<1>16. CASE SessionTimeout
  BY <1>16, LeaveGroupOwner DEF SessionTimeout
<1>17. ASSUME NEW p \in Partitions, ProduceTo(p) PROVE GroupInv'
  BY <1>17 DEF ProduceTo, Produce, groupVars
<1>18. CASE Signal
  BY <1>18 DEF Signal, kafkaVars, groupVars
<1>19. CASE Crash
  <2>1. \A p \in Partitions : owner'[p] \in members' \cup {NoConsumer}
    BY <1>19, RebalanceOwner DEF Crash, groupVars
  <2>2. members' \cap Requests = {}
    BY <1>19, RebalanceOwner, ChangeSetAssumption DEF Crash, groupVars
  <2> QED
    BY <1>19, <2>1, <2>2 DEF Crash
<1> QED
  BY <1>1, <1>2, <1>3, <1>4, <1>5, <1>6, <1>7, <1>8, <1>9, <1>10, <1>11, <1>12, <1>13,
     <1>14, <1>15, <1>16, <1>17, <1>18, <1>19
  DEF Next, Client, Environment, Handler, Poll

\* Every step keeps the starting points behind what the client has got.
LEMMA StartStep ==
  ASSUME TypeOK, StartInv, ReadInv, [Next]_vars PROVE StartInv'
<1>1. ASSUME UNCHANGED <<committed, token, since, got>> PROVE StartInv'
  BY <1>1 DEF StartInv
<1>2. ASSUME NEW r \in Requests, Request(r) PROVE StartInv'
  <2>1. since' = [since EXCEPT ![r] = token] /\ UNCHANGED <<committed, token, got>>
    BY <1>2 DEF Request, kafkaVars
  <2> QED
    BY <2>1 DEF StartInv, TypeOK
<1>3. CASE Restart
  BY <1>3, HasNothing DEF Restart, StartInv, NoToken, localVars, kafkaVars
<1>4. ASSUME NEW r \in Requests, EndOfResponse(r) PROVE StartInv'
  <2>1. since' = [since EXCEPT ![r] = NoToken] /\ UNCHANGED committed
    BY <1>4 DEF EndOfResponse, kafkaVars
  <2>2. /\ got \subseteq got'
        /\ \A p \in Partitions : Has(got', p, token'[p])
    <3>1. CASE UNCHANGED <<token, got>>
      BY <3>1 DEF StartInv
    <3>2. CASE outcome[r] = "ok" /\ token' = cont[r] /\ got' = got \cup sent[r]
      BY <3>2 DEF ReadInv
    <3> QED
      BY <1>4, <3>1, <3>2 DEF EndOfResponse, clientVars
  <2>3. \A p \in Partitions : Has(got', p, committed[p] - 1)
    BY <2>2, HasMono DEF StartInv
  <2>4. ASSUME NEW q \in Requests, NEW p \in Partitions PROVE Has(got', p, since'[q][p])
    <3>1. CASE q = r
      <4>1. since'[q][p] = -1
        BY <2>1, <3>1 DEF TypeOK, NoToken
      <4> QED
        BY <4>1, HasNothing
    <3>2. CASE q # r
      BY <2>1, <2>2, <3>2, HasMono DEF StartInv, TypeOK
    <3> QED
      BY <3>1, <3>2
  <2> QED
    BY <2>1, <2>2, <2>3, <2>4 DEF StartInv
<1>5. ASSUME NEW r \in Requests, ResetOffsets(r) PROVE StartInv'
  <2>1. committed' = ResetTo(since[r]) /\ UNCHANGED <<token, since, got>>
    BY <1>5 DEF ResetOffsets, CommitOffsets, localVars, clientVars
  <2>2. ASSUME NEW p \in Partitions PROVE Has(got, p, committed'[p] - 1)
    <3>1. since[r] \in Tokens /\ committed[p] \in Nat
      BY DEF TypeOK, KafkaTypeOK
    <3>2. \/ committed'[p] - 1 = -1
          \/ committed'[p] - 1 = committed[p] - 1
          \/ committed'[p] - 1 = since[r][p]
      BY <2>1, <3>1 DEF ResetTo, Tokens
    <3> QED
      BY <3>2, HasNothing DEF StartInv
  <2> QED
    BY <2>1, <2>2 DEF StartInv
<1>6. CASE Crash
  <2>1. /\ UNCHANGED <<committed, token, got>>
        /\ \A r \in Requests, p \in Partitions : since'[r][p] = -1
    BY <1>6 DEF Crash, NoToken
  <2> QED
    BY <2>1, HasNothing DEF StartInv
<1>7. ASSUME NEW r \in Requests, DeliverNext(r) \/ PanicNext(r)
      PROVE  UNCHANGED <<committed, token, since, got>>
  BY <1>7, DeliverEffect, PanicEffect DEF DeliverNext, PanicNext
<1>8. ASSUME NEW r \in Requests,
             \/ ConfigGone(r) \/ CancelPrevious(r) \/ Create(r) \/ CreateFails(r)
             \/ Register(r) \/ ResetFails(r) \/ Subscribe(r) \/ SubscribeFails(r)
             \/ PollNil(r) \/ PollAllBrokersDown(r) \/ LeaveLoop(r) \/ Finish(r)
             \/ Cleanup(r) \/ Deregister(r) \/ Join(r) \/ Evict(r)
      PROVE  UNCHANGED <<committed, token, since, got>>
  BY <1>8
  DEF ConfigGone, CancelPrevious, Create, CreateFails, Register, ResetFails, Subscribe,
      SubscribeFails, PollNil, PollAllBrokersDown, LeaveLoop, Finish, Cleanup, Deregister,
      Join, Evict, localVars, clientVars, kafkaVars
<1>9. CASE GiveUp \/ SessionTimeout \/ Signal \/ (\E p \in Partitions : ProduceTo(p))
  <2>1. UNCHANGED <<committed, token, since, got>>
    BY <1>9 DEF GiveUp, SessionTimeout, Signal, ProduceTo, Produce, localVars, clientVars, kafkaVars
  <2> QED
    BY <1>1, <2>1
<1>10. CASE UNCHANGED vars
  BY <1>1, <1>10 DEF vars, localVars, clientVars, kafkaVars
<1> QED
  BY <1>1, <1>2, <1>3, <1>4, <1>5, <1>6, <1>7, <1>8, <1>9, <1>10
  DEF Next, Client, Environment, Handler, Poll

\* If nothing but the stages of the requests changes, and none of them starts
\* to poll or comes back from its end, ReadInv stays.
LEMMA ReadUnchanged ==
  ASSUME ReadInv, UNCHANGED <<owner, position, read, sent, cont, outcome, got>>,
         \A r \in Requests : pc'[r] = "poll" => pc[r] = "poll",
         \A r \in Requests :
           pc[r] \in {"cleanup", "deregister", "answered"} =>
             pc'[r] \in {"cleanup", "deregister", "answered"}
  PROVE  ReadInv'
  BY DEF ReadInv

\* After a rebalance every member starts from the committed offsets.
LEMMA ReadRebalanced ==
  ASSUME StartInv, ReadInv, position' = committed \/ UNCHANGED groupVars,
         UNCHANGED <<read, sent, cont, outcome, got>>,
         \A r \in Requests : pc'[r] = "poll" => pc[r] = "poll",
         \A r \in Requests :
           pc[r] \in {"cleanup", "deregister", "answered"} =>
             pc'[r] \in {"cleanup", "deregister", "answered"}
  PROVE  ReadInv'
<1>1. CASE position' = committed
  <2>1. \A r \in Requests, p \in Partitions : Has(got \cup sent[r], p, committed[p] - 1)
    BY HasMono DEF StartInv
  <2> QED
    BY <1>1, <2>1 DEF ReadInv
<1>2. CASE UNCHANGED groupVars
  BY <1>2, ReadUnchanged DEF groupVars
<1> QED
  BY <1>1, <1>2

\* Every step keeps what a request has read covered by its response.
LEMMA ReadStep ==
  ASSUME TypeOK, GroupInv, StartInv, ReadInv, [Next]_vars PROVE ReadInv'
<1>1. CASE UNCHANGED vars
  BY <1>1, ReadUnchanged DEF vars, localVars, clientVars, kafkaVars, groupVars
<1>2. CASE GiveUp \/ Restart \/ Signal \/ (\E p \in Partitions : ProduceTo(p))
  BY <1>2, ReadUnchanged
  DEF GiveUp, Restart, Signal, ProduceTo, Produce, localVars, clientVars, kafkaVars, groupVars
<1>3. ASSUME NEW r \in Requests,
             \/ Request(r) \/ ConfigGone(r) \/ Create(r) \/ Register(r) \/ ResetFails(r)
             \/ ResetOffsets(r) \/ SubscribeFails(r) \/ PollNil(r) \/ PollAllBrokersDown(r)
             \/ LeaveLoop(r) \/ Deregister(r)
      PROVE ReadInv'
  <2>1. UNCHANGED <<owner, position, read, sent, cont, outcome, got>>
    BY <1>3
    DEF Request, ConfigGone, Create, Register, ResetFails, ResetOffsets, SubscribeFails,
        PollNil, PollAllBrokersDown, LeaveLoop, Deregister, localVars, clientVars,
        kafkaVars, groupVars
  <2>2. \/ UNCHANGED pc
        \/ pc[r] \in {"idle", "lookup", "create", "register", "reset", "subscribe", "poll"}
           /\ \E l \in PCs \ {"poll"} : pc' = [pc EXCEPT ![r] = l]
        \/ pc' = [pc EXCEPT ![r] = "answered"]
    BY <1>3
    DEF Request, ConfigGone, Create, Register, ResetFails, ResetOffsets, SubscribeFails,
        PollNil, PollAllBrokersDown, LeaveLoop, Deregister, localVars, Goto, PCs, Polling
  <2>3. /\ \A q \in Requests : pc'[q] = "poll" => pc[q] = "poll"
        /\ \A q \in Requests :
             pc[q] \in {"cleanup", "deregister", "answered"} =>
               pc'[q] \in {"cleanup", "deregister", "answered"}
    BY <2>2 DEF TypeOK, PCs
  <2> QED
    BY <2>1, <2>3, ReadUnchanged
<1>4. ASSUME NEW r \in Requests, CreateFails(r) PROVE ReadInv'
  <2>1. /\ UNCHANGED <<owner, position, read, sent, cont, got>>
        /\ pc[r] = "create" /\ pc' = [pc EXCEPT ![r] = "answered"]
        /\ outcome' = outcome \/ outcome' = [outcome EXCEPT ![r] = "nodecoder"]
    BY <1>4 DEF CreateFails, clientVars, kafkaVars, groupVars, Goto
  <2> QED
    BY <2>1 DEF ReadInv, TypeOK
<1>5. ASSUME NEW r \in Requests, Subscribe(r) PROVE ReadInv'
  <2>1. /\ UNCHANGED <<owner, position, read, sent, cont, outcome, got>>
        /\ pc[r] = "subscribe" /\ pc' = [pc EXCEPT ![r] = "poll"]
    BY <1>5 DEF Subscribe, localVars, clientVars, kafkaVars, groupVars, Goto
  <2>2. \A p \in Partitions : owner[p] # r
    BY <2>1, ChangeSetAssumption DEF GroupInv, MembersAreServed
  <2> QED
    BY <2>1, <2>2 DEF ReadInv, TypeOK
<1>6. ASSUME NEW r \in Requests,
             CancelPrevious(r) \/ Cleanup(r) \/ Join(r) \/ Evict(r)
      PROVE  ReadInv'
  <2>1. UNCHANGED <<read, sent, cont, outcome, got>>
    BY <1>6 DEF CancelPrevious, Cleanup, Join, Evict, localVars, clientVars
  <2>2. position' = committed \/ UNCHANGED groupVars
    BY <1>6, LeaveGroupOwner, RebalanceOwner
    DEF CancelPrevious, CloseConsumer, Cleanup, Join, JoinGroup, Evict
  <2>3. \/ UNCHANGED pc
        \/ pc[r] = "lookup" /\ pc' = [pc EXCEPT ![r] = "create"]
        \/ pc[r] = "cleanup" /\ pc' = [pc EXCEPT ![r] = "deregister"]
    BY <1>6 DEF CancelPrevious, Cleanup, Join, Evict, Goto
  <2>4. /\ \A q \in Requests : pc'[q] = "poll" => pc[q] = "poll"
        /\ \A q \in Requests :
             pc[q] \in {"cleanup", "deregister", "answered"} =>
               pc'[q] \in {"cleanup", "deregister", "answered"}
    BY <2>3 DEF TypeOK
  <2> QED
    BY <2>1, <2>2, <2>4, ReadRebalanced
<1>7. ASSUME NEW r \in Requests, DeliverNext(r) PROVE ReadInv'
  <2>1. PICK p \in Partitions : Deliver(r, <<p, position[p]>>)
    BY <1>7 DEF DeliverNext
  <2> DEFINE m == <<p, position[p]>>
  <2>2. /\ pc[r] = "poll" /\ owner[p] = r
        /\ \E l \in {"finish", "poll"} : pc' = [pc EXCEPT ![r] = l]
        /\ position' = [position EXCEPT ![p] = @ + 1]
        /\ read' = [read EXCEPT ![r][p] = position[p]]
        /\ sent' = [sent EXCEPT ![r] = @ \cup {m}]
        /\ UNCHANGED <<owner, cont, outcome, got>>
    BY <2>1, DeliverEffect
  <2>3. position \in [Partitions -> Nat] /\ read \in [Requests -> Tokens]
        /\ sent \in [Requests -> SUBSET Messages] /\ pc \in [Requests -> PCs]
    BY DEF TypeOK, KafkaTypeOK
  <2>4. Has(got' \cup sent'[r], p, position[p])
    <3>1. Has(got \cup sent[r], p, position[p] - 1)
      BY <2>2 DEF ReadInv
    <3>2. Has((got \cup sent[r]) \cup {m}, p, position[p])
      BY <2>3, <3>1, HasNext
    <3>3. (got \cup sent[r]) \cup {m} = got' \cup sent'[r]
      BY <2>2, <2>3
    <3> QED
      BY <3>2, <3>3
  <2>5. \A q \in Requests : got \cup sent[q] \subseteq got' \cup sent'[q]
    BY <2>2, <2>3
  <2>6. ASSUME NEW q \in Requests, NEW k \in Partitions, pc'[q] = "poll", owner'[k] = q
        PROVE  Has(got' \cup sent'[q], k, position'[k] - 1)
    <3>1. pc[q] = "poll" /\ owner[k] = q
      BY <2>2, <2>3, <2>6
    <3>2. CASE k = p
      <4>1. q = r
        BY <2>2, <3>1, <3>2
      <4>2. position'[k] - 1 = position[p]
        BY <2>2, <2>3, <3>2
      <4> QED
        BY <2>4, <3>2, <4>1, <4>2
    <3>3. CASE k # p
      <4>1. position'[k] = position[k]
        BY <2>2, <2>3, <3>3
      <4>2. Has(got \cup sent[q], k, position[k] - 1)
        BY <3>1 DEF ReadInv
      <4> QED
        BY <2>5, <4>1, <4>2, HasMono
    <3> QED
      BY <3>2, <3>3
  <2>7. ASSUME NEW q \in Requests, NEW k \in Partitions,
               pc'[q] \notin {"cleanup", "deregister", "answered"}
        PROVE  Has(got' \cup sent'[q], k, read'[q][k])
    <3>1. CASE q = r /\ k = p
      BY <2>2, <2>3, <2>4, <3>1 DEF Tokens
    <3>2. CASE ~(q = r /\ k = p)
      <4>1. read'[q][k] = read[q][k]
        BY <2>2, <2>3, <3>2 DEF Tokens
      <4>2. pc[q] \notin {"cleanup", "deregister", "answered"}
        BY <2>2, <2>3, <2>7
      <4>3. Has(got \cup sent[q], k, read[q][k])
        BY <4>2 DEF ReadInv
      <4> QED
        BY <2>5, <4>1, <4>3, HasMono
    <3> QED
      BY <3>1, <3>2
  <2>8. ASSUME NEW q \in Requests, NEW k \in Partitions, outcome'[q] = "ok"
        PROVE  Has(got' \cup sent'[q], k, cont'[q][k])
    BY <2>2, <2>5, <2>8, HasMono DEF ReadInv
  <2> QED
    BY <2>6, <2>7, <2>8 DEF ReadInv
<1>8. ASSUME NEW r \in Requests, PanicNext(r) PROVE ReadInv'
  <2>1. PICK p \in Partitions : Panic(r, <<p, position[p]>>)
    BY <1>8 DEF PanicNext
  <2>2. /\ pc[r] = "poll" /\ owner[p] = r
        /\ pc' = [pc EXCEPT ![r] = "cleanup"]
        /\ position' = [position EXCEPT ![p] = @ + 1]
        /\ read' = [read EXCEPT ![r][p] = position[p]]
        /\ UNCHANGED <<owner, sent, cont, outcome, got>>
    BY <2>1, PanicEffect
  <2>3. pc'[r] = "cleanup" /\ \A q \in Requests \ {r} : pc'[q] = pc[q] /\ read'[q] = read[q]
    BY <2>2 DEF TypeOK
  <2>4. \A k \in Partitions \ {p} : position'[k] = position[k]
    BY <2>2 DEF TypeOK, KafkaTypeOK
  <2> QED
    BY <2>2, <2>3, <2>4 DEF ReadInv
<1>9. ASSUME NEW r \in Requests, Finish(r) PROVE ReadInv'
  <2>1. /\ pc[r] = "finish" /\ pc' = [pc EXCEPT ![r] = "cleanup"]
        /\ cont' = [cont EXCEPT ![r] = IF count[r] > 0 THEN Continuation(r) ELSE since[r]]
        /\ outcome' = [outcome EXCEPT ![r] = "ok"]
        /\ UNCHANGED <<owner, position, read, sent, got>>
    BY <1>9 DEF Finish, clientVars, kafkaVars, groupVars, Goto
  <2>2. ASSUME NEW p \in Partitions PROVE Has(got \cup sent[r], p, cont'[r][p])
    <3>1. cont'[r][p] = read[r][p] \/ cont'[r][p] = since[r][p]
      BY <2>1 DEF TypeOK, Continuation
    <3>2. Has(got \cup sent[r], p, read[r][p])
      BY <2>1 DEF ReadInv
    <3>3. Has(got \cup sent[r], p, since[r][p])
      BY HasMono DEF StartInv
    <3> QED
      BY <3>1, <3>2, <3>3
  <2>3. pc'[r] = "cleanup"
        /\ \A q \in Requests \ {r} : pc'[q] = pc[q] /\ cont'[q] = cont[q] /\ outcome'[q] = outcome[q]
    BY <2>1 DEF TypeOK
  <2> QED
    BY <2>1, <2>2, <2>3 DEF ReadInv
<1>10. ASSUME NEW r \in Requests, EndOfResponse(r) PROVE ReadInv'
  <2>1. /\ pc' = [pc EXCEPT ![r] = "idle"]
        /\ read' = [read EXCEPT ![r] = NoToken]
        /\ sent' = [sent EXCEPT ![r] = {}]
        /\ cont' = [cont EXCEPT ![r] = NoToken]
        /\ outcome' = [outcome EXCEPT ![r] = "error"]
        /\ UNCHANGED <<owner, position>>
        /\ got \subseteq got'
    BY <1>10 DEF EndOfResponse, clientVars, kafkaVars, groupVars, Goto
  <2>2. \A q \in Requests \ {r} :
          /\ pc'[q] = pc[q] /\ read'[q] = read[q] /\ cont'[q] = cont[q] /\ outcome'[q] = outcome[q]
          /\ got \cup sent[q] \subseteq got' \cup sent'[q]
    BY <2>1 DEF TypeOK
  <2>3. pc'[r] = "idle" /\ outcome'[r] = "error" /\ \A p \in Partitions : read'[r][p] = -1
    BY <2>1 DEF TypeOK, NoToken
  <2>4. ASSUME NEW q \in Requests \ {r}, NEW p \in Partitions
        PROVE  /\ pc'[q] = "poll" /\ owner'[p] = q => Has(got' \cup sent'[q], p, position'[p] - 1)
               /\ pc'[q] \notin {"cleanup", "deregister", "answered"} =>
                    Has(got' \cup sent'[q], p, read'[q][p])
               /\ outcome'[q] = "ok" => Has(got' \cup sent'[q], p, cont'[q][p])
    BY <2>1, <2>2, HasMono DEF ReadInv
  <2>5. \A p \in Partitions : Has(got' \cup sent'[r], p, read'[r][p])
    BY <2>3, HasNothing
  <2> QED
    BY <2>3, <2>4, <2>5 DEF ReadInv
<1>11. CASE Crash
  <2>1. \A r \in Requests :
          /\ pc'[r] = "idle" /\ outcome'[r] = "error"
          /\ \A p \in Partitions : read'[r][p] = -1
    BY <1>11 DEF Crash, NoToken
  <2> QED
    BY <2>1, HasNothing DEF ReadInv
<1>12. CASE SessionTimeout
  BY <1>12, ReadRebalanced, LeaveGroupOwner
  DEF SessionTimeout, localVars, clientVars
<1> QED
  BY <1>1, <1>2, <1>3, <1>4, <1>5, <1>6, <1>7, <1>8, <1>9, <1>10, <1>11, <1>12
  DEF Next, Client, Environment, Handler, Poll

\* The strengthening of NoLoss is an invariant.
LEMMA Invariance == Spec => []IInv
<1>1. Init => GroupInv /\ StartInv /\ ReadInv
  <2> SUFFICES ASSUME Init PROVE GroupInv /\ StartInv /\ ReadInv
    OBVIOUS
  <2>1. GroupInv
    BY DEF Init, KafkaInit, GroupInv, MembersAreServed
  <2>2. StartInv
    BY HasNothing DEF Init, KafkaInit, StartInv, NoToken
  <2>3. ReadInv
    BY HasNothing DEF Init, KafkaInit, ReadInv, NoToken
  <2> QED
    BY <2>1, <2>2, <2>3
<1>2. /\ TypeOK /\ TypeOK' /\ [Next]_vars
      /\ GroupInv /\ StartInv /\ ReadInv
      => GroupInv' /\ StartInv' /\ ReadInv'
  BY GroupStep, StartStep, ReadStep
<1> QED
  BY <1>1, <1>2, TypeCorrect, PTL DEF Spec, IInv

\* No consumer outlives its request as a member of the group, whoever cancels
\* whom.  (the deferred Close, consumer.go:167-177)
THEOREM MembersServed == Spec => []MembersAreServed
<1>1. IInv => MembersAreServed
  BY DEF IInv, GroupInv
<1> QED
  BY <1>1, Invariance, PTL

\* The group only ever starts a partition from messages the client has got.
\* (resetOffsets, consumer.go:309-348)
THEOREM CommittedRead == Spec => []CommittedIsRead
<1>1. IInv => CommittedIsRead
  BY DEF IInv, StartInv, CommittedIsRead, Has
<1> QED
  BY <1>1, Invariance, PTL

\* A continuation token never skips a message, however requests overlap, are
\* given up on, panic, are rebalanced or die with the process.
\* (the token merge, consumer.go:282-292, and resetOffsets, consumer.go:309-348)
THEOREM NothingIsLost == Spec => []NoLoss
<1>1. IInv => NoLoss
  BY UpToHas DEF IInv, StartInv, TypeOK, NoLoss
<1> QED
  BY <1>1, Invariance, PTL

-----------------------------------------------------------------------------
(***************************************************************************)
(* Registration                                                            *)
(***************************************************************************)

\* What running holds is a request that has not ended, although a request may
\* replace or delete the entry of another.  (consumer.go:162-177)
THEOREM RegisteredLive == Spec => []RegisteredIsLive
<1>1. Init => RegisteredIsLive
  BY DEF Init, RegisteredIsLive
<1>2. TypeOK /\ RegisteredIsLive /\ [Next]_vars => RegisteredIsLive'
  <2> SUFFICES ASSUME TypeOK, RegisteredIsLive, [Next]_vars PROVE RegisteredIsLive'
    OBVIOUS
  <2> USE ChangeSetAssumption DEF RegisteredIsLive, TypeOK, Goto
  <2>1. CASE UNCHANGED <<pc, running>>
    BY <2>1
  <2>2. ASSUME NEW r \in Requests,
               \/ Request(r) \/ EndOfResponse(r)
               \/ ConfigGone(r) \/ CancelPrevious(r) \/ Create(r) \/ CreateFails(r)
        PROVE RegisteredIsLive'
    BY <2>2 DEF Request, EndOfResponse, ConfigGone, CancelPrevious, Create, CreateFails
  <2>3. ASSUME NEW r \in Requests, Register(r) PROVE RegisteredIsLive'
    BY <2>3 DEF Register
  <2>4. ASSUME NEW r \in Requests,
               \/ ResetOffsets(r) \/ ResetFails(r) \/ Subscribe(r) \/ SubscribeFails(r)
               \/ LeaveLoop(r) \/ Finish(r) \/ Cleanup(r)
        PROVE RegisteredIsLive'
    BY <2>4 DEF ResetOffsets, ResetFails, Subscribe, SubscribeFails, LeaveLoop,
                Finish, Cleanup
  <2>5. ASSUME NEW r \in Requests, NEW m, Deliver(r, m) \/ Panic(r, m)
        PROVE RegisteredIsLive'
    BY <2>5 DEF Deliver, Panic, Consume, Polling
  <2>6. ASSUME NEW r \in Requests, Deregister(r) PROVE RegisteredIsLive'
    BY <2>6 DEF Deregister
  <2>7. CASE Crash
    BY <2>7 DEF Crash
  <2>8. ASSUME \/ GiveUp \/ Restart \/ SessionTimeout \/ Signal
               \/ \E p \in Partitions : ProduceTo(p)
               \/ \E r \in Requests : \/ PollNil(r) \/ PollAllBrokersDown(r)
                                       \/ Join(r) \/ Evict(r)
               \/ UNCHANGED vars
        PROVE UNCHANGED <<pc, running>>
    BY <2>8 DEF GiveUp, Restart, SessionTimeout, Signal, ProduceTo, PollNil,
                PollAllBrokersDown, Join, Evict, vars
  <2> QED
    BY <2>1, <2>2, <2>3, <2>4, <2>5, <2>6, <2>7, <2>8
    DEF Next, Client, Environment, Handler, Poll, DeliverNext, PanicNext
<1> QED
  BY <1>1, <1>2, TypeCorrect, PTL DEF Spec

-----------------------------------------------------------------------------
(***************************************************************************)
(* The limit                                                               *)
(*                                                                         *)
(* A response has no more messages than the request has counted, and the   *)
(* request leaves its loop with the message that reaches the limit, so     *)
(* that in the loop it has counted less, or nothing.                       *)
(***************************************************************************)

Counted(r) ==
  /\ IsFiniteSet(sent[r]) /\ Cardinality(sent[r]) <= count[r]
  /\ pc[r] \in {"idle", "lookup", "create", "register", "reset", "subscribe"} => count[r] = 0
  /\ limit[r] > -1 /\ pc[r] = "poll" => count[r] = 0 \/ count[r] < limit[r]
  /\ limit[r] > -1 => count[r] <= IF limit[r] = 0 THEN 1 ELSE limit[r]

CountInv == \A r \in Requests : Counted(r)

\* A set with one more element has at most one more.
LEMMA OneMore ==
  ASSUME NEW S, IsFiniteSet(S), NEW n \in Nat, Cardinality(S) <= n, NEW e
  PROVE  IsFiniteSet(S \cup {e}) /\ Cardinality(S \cup {e}) <= n + 1
<1>1. Cardinality(S) \in Nat
  BY FS_CardinalityType
<1>2. IsFiniteSet(S \cup {e}) /\ (Cardinality(S \cup {e}) = Cardinality(S) \/ Cardinality(S \cup {e}) = Cardinality(S) + 1)
  BY FS_AddElement
<1>3. QED
  BY <1>1, <1>2

\* A request that reads nothing and does not come back to its loop keeps its count.
LEMMA CountKept ==
  ASSUME NEW r \in Requests, Counted(r), UNCHANGED <<limit[r], count[r], sent[r]>>,
         pc'[r] = "poll" => pc[r] \in {"subscribe", "poll"},
         pc'[r] \in {"idle", "lookup", "create", "register", "reset", "subscribe"} =>
           pc[r] \in {"idle", "lookup", "create", "register", "reset", "subscribe"}
  PROVE  Counted(r)'
  BY DEF Counted

\* A request that starts over has counted nothing.
LEMMA CountFresh ==
  ASSUME NEW r \in Requests, count'[r] = 0, sent'[r] = {}, limit'[r] \in Int
  PROVE  Counted(r)'
<1>1. IsFiniteSet(sent'[r]) /\ Cardinality(sent'[r]) = 0
  BY FS_EmptySet
<1>2. limit'[r] > -1 => count'[r] <= IF limit'[r] = 0 THEN 1 ELSE limit'[r]
  OBVIOUS
<1>3. QED
  BY <1>1, <1>2 DEF Counted

\* Every step keeps the counts.
LEMMA CountStep ==
  ASSUME TypeOK, CountInv, [Next]_vars PROVE CountInv'
<1> SUFFICES ASSUME NEW r \in Requests PROVE Counted(r)'
  BY DEF CountInv
<1>1. Counted(r)
  BY DEF CountInv
<1>2. ASSUME NEW q \in Requests, NEW p \in Partitions,
             Deliver(q, <<p, position[p]>>) \/ Panic(q, <<p, position[p]>>)
      PROVE  Counted(r)'
  <2> DEFINE m == <<p, position[p]>>
  <2>1. /\ pc[q] = "poll" /\ count' = [count EXCEPT ![q] = @ + 1] /\ UNCHANGED limit
    BY <1>2 DEF Deliver, Panic, Consume, Polling
  <2>2. CASE q = r /\ Deliver(q, m)
    <3>1. /\ sent'[r] = sent[r] \cup {m} /\ count'[r] = count[r] + 1 /\ count[r] \in Nat
          /\ limit'[r] = limit[r] /\ limit[r] \in Int
      BY <2>1, <2>2 DEF Deliver, TypeOK
    <3>2. IsFiniteSet(sent'[r]) /\ Cardinality(sent'[r]) <= count'[r]
      <4>1. IsFiniteSet(sent[r]) /\ Cardinality(sent[r]) <= count[r]
        BY <1>1 DEF Counted
      <4> HIDE DEF m
      <4>2. IsFiniteSet(sent[r] \cup {m}) /\ Cardinality(sent[r] \cup {m}) <= count[r] + 1
        BY <3>1, <4>1, OneMore
      <4>3. QED
        BY <3>1, <4>2
    <3>3. /\ pc'[r] \in {"poll", "finish"}
          /\ pc'[r] = "poll" => ~LimitReached(r)'
      BY <2>2 DEF Deliver, Goto, TypeOK
    <3>4. limit[r] > -1 => count[r] = 0 \/ count[r] < limit[r]
      BY <1>1, <2>1, <2>2 DEF Counted
    <3>5. limit[r] > -1 => count[r] + 1 <= IF limit[r] = 0 THEN 1 ELSE limit[r]
      BY <3>1, <3>4
    <3>6. limit[r] > -1 /\ pc'[r] = "poll" => count[r] + 1 < limit[r]
      BY <3>1, <3>3 DEF LimitReached
    <3>7. QED
      BY <3>1, <3>2, <3>3, <3>5, <3>6 DEF Counted
  <2>3. CASE q = r /\ Panic(q, m)
    <3>1. /\ sent'[r] = sent[r] /\ count'[r] = count[r] + 1 /\ count[r] \in Nat
          /\ limit'[r] = limit[r] /\ limit[r] \in Int /\ pc'[r] = "cleanup"
      BY <2>1, <2>3 DEF Panic, Goto, TypeOK
    <3>2. limit[r] > -1 => count[r] = 0 \/ count[r] < limit[r]
      BY <1>1, <2>1, <2>3 DEF Counted
    <3>3. limit[r] > -1 => count[r] + 1 <= IF limit[r] = 0 THEN 1 ELSE limit[r]
      BY <3>1, <3>2
    <3>4. IsFiniteSet(sent[r]) /\ Cardinality(sent[r]) <= count[r] /\ Cardinality(sent[r]) \in Nat
      BY <1>1, FS_CardinalityType DEF Counted
    <3>5. Cardinality(sent[r]) <= count[r] + 1
      BY <3>1, <3>4
    <3>6. QED
      BY <3>1, <3>3, <3>4, <3>5 DEF Counted
  <2>4. CASE q # r
    <3>1. UNCHANGED <<pc[r], limit[r], count[r], sent[r]>>
      BY <1>2, <2>1, <2>4 DEF Deliver, Panic, Goto, TypeOK
    <3>2. QED
      BY <1>1, <3>1, CountKept
  <2>5. QED
    BY <1>2, <2>2, <2>3, <2>4
<1>3. ASSUME NEW q \in Requests, Request(q) PROVE Counted(r)'
  <2>1. UNCHANGED <<count, sent>> /\ pc[q] = "idle"
    BY <1>3 DEF Request
  <2>2. CASE q = r
    <3>1. count[r] = 0 /\ IsFiniteSet(sent[r]) /\ Cardinality(sent[r]) <= 0
      BY <1>1, <2>1, <2>2 DEF Counted
    <3>2. sent[r] = {}
      BY <3>1, FS_CardinalityType, FS_EmptySet
    <3>3. limit'[r] \in Int
      BY <1>3, <2>2, ChangeSetAssumption DEF Request, TypeOK
    <3>4. QED
      BY <2>1, <3>1, <3>2, <3>3, CountFresh
  <2>3. CASE q # r
    <3>1. UNCHANGED <<pc[r], limit[r], count[r], sent[r]>>
      BY <1>3, <2>3 DEF Request, Goto, TypeOK
    <3>2. QED
      BY <1>1, <3>1, CountKept
  <2>4. QED
    BY <2>2, <2>3
<1>4. ASSUME NEW q \in Requests, EndOfResponse(q) PROVE Counted(r)'
  <2>1. CASE q = r
    <3>1. count'[r] = 0 /\ sent'[r] = {} /\ limit'[r] \in Int
      BY <1>4, <2>1 DEF EndOfResponse, TypeOK
    <3>2. QED
      BY <3>1, CountFresh
  <2>2. CASE q # r
    <3>1. UNCHANGED <<pc[r], limit[r], count[r], sent[r]>>
      BY <1>4, <2>2 DEF EndOfResponse, Goto, TypeOK
    <3>2. QED
      BY <1>1, <3>1, CountKept
  <2>3. QED
    BY <2>1, <2>2
<1>5. CASE Crash
  <2>1. count'[r] = 0 /\ sent'[r] = {} /\ limit'[r] \in Int
    BY <1>5 DEF Crash
  <2>2. QED
    BY <2>1, CountFresh
<1>6. ASSUME NEW q \in Requests,
             \/ ConfigGone(q) \/ CancelPrevious(q) \/ Create(q) \/ CreateFails(q)
             \/ Register(q) \/ ResetOffsets(q) \/ ResetFails(q)
             \/ Subscribe(q) \/ SubscribeFails(q)
             \/ PollNil(q) \/ PollAllBrokersDown(q) \/ LeaveLoop(q)
             \/ Finish(q) \/ Cleanup(q) \/ Deregister(q)
      PROVE  Counted(r)'
  <2>1. UNCHANGED <<limit, count, sent>>
    BY <1>6
    DEF ConfigGone, CancelPrevious, Create, CreateFails, Register, ResetOffsets, ResetFails,
        Subscribe, SubscribeFails, PollNil, PollAllBrokersDown, LeaveLoop, Finish, Cleanup,
        Deregister, localVars
  <2>2. \/ pc'[r] = pc[r]
        \/ pc'[r] \in {"answered", "cleanup", "deregister", "finish"}
        \/ pc[r] \in {"lookup", "create", "register", "reset"}
           /\ pc'[r] \in {"create", "register", "reset", "subscribe"}
        \/ pc[r] = "subscribe" /\ pc'[r] = "poll"
    BY <1>6
    DEF ConfigGone, CancelPrevious, Create, CreateFails, Register, ResetOffsets, ResetFails,
        Subscribe, SubscribeFails, PollNil, PollAllBrokersDown, LeaveLoop, Finish, Cleanup,
        Deregister, Goto, TypeOK
  <2>3. QED
    BY <1>1, <2>1, <2>2, CountKept
<1>7. ASSUME \/ GiveUp \/ Restart \/ SessionTimeout \/ Signal \/ UNCHANGED vars
             \/ \E p \in Partitions : ProduceTo(p)
             \/ \E q \in Requests : Join(q) \/ Evict(q)
      PROVE  Counted(r)'
  <2>1. UNCHANGED <<pc, limit, count, sent>>
    BY <1>7 DEF GiveUp, Restart, SessionTimeout, Signal, ProduceTo, Join, Evict, localVars, vars
  <2>2. QED
    BY <1>1, <2>1, CountKept
<1>8. QED
  BY <1>2, <1>3, <1>4, <1>5, <1>6, <1>7
  DEF Next, Client, Environment, Handler, Poll, DeliverNext, PanicNext

\* A response never has more messages than the limit, except the one that a limit
\* of 0 still yields, whoever else reads, panics or crashes.  (consumer.go:245-248)
THEOREM LimitHolds == Spec => []LimitRespected
<1>1. Init => CountInv
  <2> SUFFICES ASSUME Init, NEW r \in Requests PROVE Counted(r)
    BY DEF CountInv
  <2>1. count[r] = 0 /\ sent[r] = {} /\ limit[r] = -1
    BY DEF Init
  <2>2. IsFiniteSet(sent[r]) /\ Cardinality(sent[r]) = 0
    BY <2>1, FS_EmptySet
  <2>3. QED
    BY <2>1, <2>2 DEF Counted
<1>2. TypeOK /\ CountInv /\ [Next]_vars => CountInv'
  BY CountStep
<1>3. TypeOK /\ CountInv => LimitRespected
  <2> SUFFICES ASSUME TypeOK, CountInv, NEW r \in Requests, limit[r] > -1
               PROVE  Cardinality(sent[r]) <= IF limit[r] = 0 THEN 1 ELSE limit[r]
    BY DEF LimitRespected
  <2>1. /\ Cardinality(sent[r]) <= count[r] /\ IsFiniteSet(sent[r])
        /\ count[r] <= IF limit[r] = 0 THEN 1 ELSE limit[r]
    BY DEF CountInv, Counted
  <2>2. Cardinality(sent[r]) \in Nat /\ count[r] \in Nat /\ limit[r] \in Int
    BY <2>1, FS_CardinalityType DEF TypeOK
  <2>3. QED
    BY <2>1, <2>2
<1>4. QED
  BY <1>1, <1>2, <1>3, TypeCorrect, PTL DEF Spec

=============================================================================
