----------------------------- MODULE ChangeFeed -----------------------------
(***************************************************************************)
(* What reading a consumer dataset promises to its one client: a feed of   *)
(* messages, read in steps from token to token.  ChangeSet implements it   *)
(* for a client that waits for every response.                             *)
(***************************************************************************)
EXTENDS Integers

CONSTANTS
  Partitions,   \* partitions of the topic
  Backlog       \* messages in every partition at the start

VARIABLES
  logEnd,       \* next offset to be written, per partition
  token,        \* last offset read, per partition
  synced,       \* messages received since the last start without a token
  disturbed     \* may messages be received again

feedVars == <<logEnd, token, synced, disturbed>>

Start   == [p \in Partitions |-> -1]
UpTo(t) == UNION {{p} \X (0..t[p]) : p \in Partitions}

FeedInit ==
  /\ logEnd = [p \in Partitions |-> Backlog]
  /\ token = Start
  /\ synced = {}
  /\ disturbed = FALSE

Write ==
  /\ \E p \in Partitions : logEnd' = [logEnd EXCEPT ![p] = @ + 1]
  /\ UNCHANGED <<token, synced, disturbed>>

\* The client reads on, in every partition by as much as it likes.
Read ==
  /\ \A p \in Partitions : token'[p] \in token[p]..(logEnd[p] - 1)
  /\ synced \cup UpTo(token') \subseteq synced'
  /\ synced' \subseteq UNION {{p} \X (0..(logEnd[p] - 1)) : p \in Partitions}
  /\ ~disturbed => synced' = UpTo(token')
  /\ UNCHANGED <<logEnd, disturbed>>

StartOver ==
  /\ token' = Start
  /\ synced' = {}
  /\ UNCHANGED <<logEnd, disturbed>>

\* From now on nothing but skipping messages is ruled out.
Disturb ==
  /\ disturbed' = TRUE
  /\ UNCHANGED <<logEnd, token, synced>>

FeedNext == Write \/ Read \/ StartOver \/ Disturb

FeedSpec == FeedInit /\ [][FeedNext]_feedVars

=============================================================================
