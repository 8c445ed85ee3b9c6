----------------------------- MODULE KafkaGroup -----------------------------
(***************************************************************************)
(* EXTERNAL.  The Kafka broker as internal/kafka/consumer.go uses it: one  *)
(* topic, and the consumer group that all requests on one dataset share.   *)
(*                                                                         *)
(* - A message is <<partition, offset>>; its contents are abstracted.      *)
(* - Offsets are committed by consumers that are not group members (the    *)
(*   layer commits before it subscribes, and never auto-commits), and the  *)
(*   coordinator accepts such a commit only while the group is empty.      *)
(* - Joining and leaving rebalances eagerly: every partition gets some     *)
(*   member, and every member restarts from the committed offset.  How     *)
(*   partitions are spread over the members is left open.                  *)
(* - auto.offset.reset is "earliest", so a partition without a committed   *)
(*   offset is one whose committed offset is 0.                            *)
(***************************************************************************)
EXTENDS Integers

CONSTANTS
  Partitions,     \* partitions of the topic
  Backlog,        \* messages in every partition before the layer starts
  MaxEnd,         \* bound: messages ever produced to one partition
  MaxEvictions,   \* bound: live consumers thrown out of the group
  NoConsumer      \* owner of a partition while the group is empty

ASSUME KafkaAssumption ==
  /\ Partitions # {}
  /\ Backlog \in Nat
  /\ MaxEnd \in Nat
  /\ MaxEvictions \in Nat

VARIABLES
  logEnd,         \* next offset to be written, per partition
  committed,      \* the group's committed offset, per partition
  members,        \* consumers in the group
  owner,          \* the member each partition is assigned to
  position,       \* next offset the owner fetches, per partition
  evictions       \* auxiliary: evictions so far, bounded by MaxEvictions

groupVars == <<members, owner, position>>
kafkaVars == <<logEnd, committed, groupVars, evictions>>

Messages == Partitions \X Nat

KafkaTypeOK(Consumers) ==
  /\ logEnd \in [Partitions -> Nat]
  /\ committed \in [Partitions -> Nat]
  /\ members \subseteq Consumers
  /\ owner \in [Partitions -> Consumers \cup {NoConsumer}]
  /\ position \in [Partitions -> Nat]
  /\ evictions \in Nat

KafkaInit ==
  /\ logEnd = [p \in Partitions |-> Backlog]
  /\ committed = [p \in Partitions |-> 0]
  /\ members = {}
  /\ owner = [p \in Partitions |-> NoConsumer]
  /\ position = [p \in Partitions |-> 0]
  /\ evictions = 0

-----------------------------------------------------------------------------
\* Somebody writes a message to partition p.
Produce(p) ==
  /\ logEnd[p] < MaxEnd
  /\ logEnd' = [logEnd EXCEPT ![p] = @ + 1]
  /\ UNCHANGED <<committed, groupVars, evictions>>

\* The group becomes ms: new assignment, everyone back to the committed offset.
Rebalance(ms) ==
  /\ members' = ms
  /\ owner' \in [Partitions -> IF ms = {} THEN {NoConsumer} ELSE ms]
  /\ position' = committed

JoinGroup(c) ==
  /\ c \notin members
  /\ Rebalance(members \cup {c})

LeaveGroup(c) ==
  IF c \in members THEN Rebalance(members \ {c}) ELSE UNCHANGED groupVars

\* CommitOffsets by a consumer outside the group.
CommitOffsets(offsets) ==
  /\ members = {}
  /\ committed' = offsets

\* The next message of partition p is handed to consumer c.
Fetch(c, p) ==
  /\ owner[p] = c
  /\ position[p] < logEnd[p]
  /\ position' = [position EXCEPT ![p] = @ + 1]

=============================================================================
