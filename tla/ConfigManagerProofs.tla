------------------------ MODULE ConfigManagerProofs ------------------------
(***************************************************************************)
(* Proofs about ConfigManager, for any configurations, topics and bounds.  *)
(***************************************************************************)
EXTENDS ConfigManager, TLAPS

\* The variables always have their types.  (manager.go:60-124)
THEOREM TypeCorrect == Spec => []TypeOK
<1>1. Init => TypeOK
  <2> SUFFICES ASSUME Init PROVE TypeOK
    OBVIOUS
  <2>1. changes \in 0..MaxChanges /\ failures \in 0..MaxFailures
    BY ConfigAssumption DEF Init
  <2>2. source \in Contents /\ fetched \in Contents
    BY DEF Init, Contents
  <2> QED
    BY <2>1, <2>2 DEF Init, TypeOK, TokenInit, TokenTypeOK
<1>2. TypeOK /\ [Next]_vars => TypeOK'
  <2> SUFFICES ASSUME TypeOK, [Next]_vars PROVE TypeOK'
    OBVIOUS
  <2> USE DEF TypeOK, TokenTypeOK, envVars, topicVars, confVars, tokenVars
  <2>1. CASE UNCHANGED vars
    BY <2>1 DEF vars
  <2>2. CASE SourceChanges
    BY <2>2, ConfigAssumption DEF SourceChanges
  <2>3. CASE BootFetch \/ JobFetch
    <3>1. fetched' \in Contents
      BY <2>3 DEF BootFetch, JobFetch, Fetch, Contents
    <3> QED
      BY <2>3, <3>1 DEF BootFetch, JobFetch
  <2>9. CASE BootToken \/ JobToken
    BY <2>9 DEF BootToken, JobToken, GetToken, Renew
  <2>10. CASE TimePasses
    BY <2>10 DEF TimePasses, TokenRunsOut, UntilIsOver
  <2>4. CASE BootApply \/ JobApply
    <3>1. /\ Datalayer' \in Configs \cup {NoConfig}
          /\ Digest' \in Configs \cup {NoConfig}
          /\ fetched' \in Contents
      BY <2>4 DEF BootApply, JobApply, Apply
    <3>2. /\ loaded' \in Configs \cup {NoConfig}
          /\ boot' \in {"schedule", boot}
          /\ job' \in {"notify", "idle", job}
          /\ overtaken' \in BOOLEAN
      BY <2>4, <3>1 DEF BootApply, JobApply
    <3>3. UNCHANGED <<source, changes, topics, refused, failures, listening, notified, secured, token, bearer>>
      BY <2>4 DEF BootApply, JobApply
    <3> QED
      BY <3>1, <3>2, <3>3
  <2>5. CASE Schedule \/ Assign \/ Listen
    BY <2>5 DEF Schedule, Assign, Listen
  <2>8. CASE JobNotify
    <3>1. notified' = notified \/ notified' = notified + 1
      BY <2>8, Zenon DEF JobNotify
    <3> QED
      BY <2>8, <3>1 DEF JobNotify
  <2>6. CASE BootTopics \/ OnUpdate
    <3>1. topics' \subseteq Topics /\ refused' \subseteq Topics /\ failures' \in 0..MaxFailures
      BY <2>6, ConfigAssumption
      DEF BootTopics, OnUpdate, CreateTopics, CreateTopicsFails, CreateTopicsPanics, Topics, Refused
    <3> QED
      BY <2>6, <3>1 DEF BootTopics, OnUpdate
  <2>7. CASE Restart
    BY <2>7 DEF Restart, Contents
  <2> QED
    BY <2>1, <2>2, <2>3, <2>4, <2>5, <2>6, <2>7, <2>8, <2>9, <2>10 DEF Next, Boot, Job
<1> QED
  BY <1>1, <1>2, PTL DEF Spec

\* A layer that is up has a configuration, also when a reload overtakes the
\* boot.  (manager.go:82-101, 109-113)
THEOREM UpConfigured == Spec => []UpHasConfig
<1>1. Init => UpHasConfig
  BY DEF Init, UpHasConfig
<1>2. TypeOK /\ UpHasConfig /\ [Next]_vars => UpHasConfig'
  <2> SUFFICES ASSUME TypeOK, UpHasConfig, [Next]_vars PROVE UpHasConfig'
    OBVIOUS
  <2> USE DEF UpHasConfig, confVars
  <2>1. CASE UNCHANGED vars \/ SourceChanges \/ TimePasses
    BY <2>1 DEF vars, SourceChanges, TimePasses
  <2>2. CASE BootTopics
    BY <2>2 DEF BootTopics, CreateTopics
  <2>3. CASE BootToken \/ BootFetch \/ BootApply \/ Schedule \/ Assign \/ Listen \/ Restart
    BY <2>3 DEF BootToken, BootFetch, BootApply, Schedule, Assign, Listen, Restart
  <2>4. CASE JobToken \/ JobFetch \/ JobApply \/ JobNotify
    BY <2>4 DEF JobToken, JobFetch, JobApply, JobNotify, Apply
  <2>5. CASE OnUpdate
    BY <2>5 DEF OnUpdate, CreateTopics, CreateTopicsFails
  <2> QED
    BY <2>1, <2>2, <2>3, <2>4, <2>5 DEF Next, Boot, Job
<1> QED
  BY <1>1, <1>2, TypeCorrect, PTL DEF Spec

\* No reload runs before the boot has come to keep what it loaded, and until one
\* overtakes it then, that is the configuration in use.
BootInv ==
  /\ boot \in {"load", "fetch", "apply", "schedule"} => job = "off"
  /\ boot \in {"load", "fetch", "apply"} => Datalayer = NoConfig
  /\ boot = "schedule" => loaded = Datalayer /\ ~overtaken
  /\ boot = "assign" /\ ~overtaken => loaded = Datalayer
  /\ ~overtaken => Digest = Datalayer
  /\ boot \in {"load", "fetch", "apply"} => ~overtaken

\* Unless a reload overtakes the boot, the digest is that of the configuration in
\* use, so that no change of the source goes unnoticed; and the next reload that
\* finds something new makes up for one that has.  (manager.go:48, 108-116)
THEOREM DigestCurrent == Spec => []DigestIsCurrent
<1>1. Init => BootInv
  BY DEF Init, BootInv
<1>2. TypeOK /\ BootInv /\ [Next]_vars => BootInv'
  <2> SUFFICES ASSUME TypeOK, BootInv, [Next]_vars PROVE BootInv'
    OBVIOUS
  <2> USE DEF BootInv, confVars
  <2>1. CASE UNCHANGED vars \/ SourceChanges \/ TimePasses
    BY <2>1 DEF vars, SourceChanges, TimePasses
  <2>2. CASE BootToken \/ BootFetch \/ Schedule \/ Assign \/ Listen \/ BootTopics \/ Restart
    BY <2>2 DEF BootToken, BootFetch, Schedule, Assign, Listen, BootTopics, Restart
  <2>3. CASE BootApply
    BY <2>3, ConfigAssumption DEF BootApply, Apply, Changed, TypeOK, Contents
  <2>4. CASE JobToken \/ JobFetch
    BY <2>4 DEF JobToken, JobFetch
  <2>5. CASE JobApply
    BY <2>5 DEF JobApply, Apply, TypeOK
  <2>6. CASE JobNotify \/ OnUpdate
    BY <2>6 DEF JobNotify, OnUpdate
  <2> QED
    BY <2>1, <2>2, <2>3, <2>4, <2>5, <2>6 DEF Next, Boot, Job
<1>3. BootInv => DigestIsCurrent
  BY DEF BootInv, DigestIsCurrent
<1> QED
  BY <1>1, <1>2, <1>3, TypeCorrect, PTL DEF Spec

\* Whatever the broker answers, it has the topics of the configuration it was asked
\* for, or they are among the refused.
LEMMA Asked ==
  ASSUME CreateTopics \/ CreateTopicsFails
  PROVE  /\ Datalayer \in Configs
         /\ TopicsOf[Datalayer] \subseteq topics' \cup refused'
         /\ topics \cup refused \subseteq topics' \cup refused'
  BY DEF CreateTopics, CreateTopicsFails, Refused

\* The listener is registered before the boot creates topics, and from then on a
\* reload that replaces the configuration is on its way to the broker.
TopicsInv ==
  /\ boot \in {"topics", "up"} => listening
  /\ NoTopicForgotten

\* A layer that is up has asked for the topics of the configuration in use, or is
\* going to, wherever a reload comes.  (producer.go:40-60, manager.go:115-121)
THEOREM TopicsRemembered == Spec => []NoTopicForgotten
<1>1. Init => TopicsInv
  BY DEF Init, TopicsInv, NoTopicForgotten
<1>2. TypeOK /\ TopicsInv /\ [Next]_vars => TopicsInv'
  <2> SUFFICES ASSUME TypeOK, TopicsInv, [Next]_vars PROVE TopicsInv'
    OBVIOUS
  <2> USE DEF TopicsInv, NoTopicForgotten, confVars, topicVars
  <2>1. CASE UNCHANGED vars \/ SourceChanges \/ TimePasses
    BY <2>1 DEF vars, SourceChanges, TimePasses
  <2>2. CASE BootToken \/ BootFetch \/ BootApply \/ Schedule \/ Assign \/ Listen \/ Restart
    BY <2>2 DEF BootToken, BootFetch, BootApply, Schedule, Assign, Listen, Restart
  <2>3. CASE BootTopics
    BY <2>3, Asked DEF BootTopics
  <2>4. CASE JobToken \/ JobFetch
    BY <2>4 DEF JobToken, JobFetch
  <2>5. CASE JobApply
    BY <2>5 DEF JobApply, Apply
  <2>6. CASE JobNotify
    <3>1. boot = "up" => notified' > 0
      BY <2>6 DEF JobNotify, TypeOK
    <3> QED
      BY <2>6, <3>1 DEF JobNotify
  <2>7. CASE OnUpdate
    BY <2>7, Asked DEF OnUpdate, CreateTopicsPanics
  <2> QED
    BY <2>1, <2>2, <2>3, <2>4, <2>5, <2>6, <2>7 DEF Next, Boot, Job
<1> QED
  BY <1>1, <1>2, TypeCorrect, PTL DEF Spec, TopicsInv

=============================================================================
