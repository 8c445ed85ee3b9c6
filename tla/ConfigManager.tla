--------------------------- MODULE ConfigManager ----------------------------
(***************************************************************************)
(* Loading and reloading the configuration (internal/conf/manager.go), and *)
(* the topics it makes the layer create (internal/kafka/producer.go).      *)
(*                                                                         *)
(* The process boots: it loads the configuration, schedules the job that   *)
(* reloads it, keeps what it loaded, registers the listener of reloads and *)
(* creates topics.  From the moment the job is scheduled it runs beside    *)
(* that, one run at a time.  Every reload that finds something new starts  *)
(* a goroutine per listener.  Every load of a secured source first gets a  *)
(* token (TokenCache).                                                     *)
(*                                                                         *)
(* A content of the source is abstracted to a model value; its digest is   *)
(* taken to be the content itself.                                         *)
(***************************************************************************)
EXTENDS Integers, TokenCache

CONSTANTS
  Configs,        \* contents that parse, the empty configuration among them
  Unreadable,     \* no content: an error, a 404 or a payload that does not parse
  NoConfig,       \* the nil configuration, or no digest yet
  TopicsOf,       \* the topics a configuration asks the layer to create
  NoSettings,     \* configurations that do so without giving topicSettings
  MaxChanges,     \* bound: changes of the source
  MaxFailures     \* bound: failures of CreateTopics

ASSUME ConfigAssumption ==
  /\ Unreadable \notin Configs
  /\ NoConfig \notin Configs \cup {Unreadable}
  /\ NoSettings \subseteq Configs
  /\ \A c \in NoSettings : TopicsOf[c] # {}
  /\ MaxChanges \in Nat
  /\ MaxFailures \in Nat

VARIABLES
  source,         \* what the configuration location serves
  changes,        \* auxiliary: changes of the source
  topics,         \* the topics the broker has
  refused,        \* topics the layer has asked for in vain since it was started
  failures,       \* auxiliary: failures of CreateTopics
  boot,           \* where the boot is
  job,            \* where the reload job is
  fetched,        \* the content the running load has got
  loaded,         \* what load has returned to the boot
  Datalayer,      \* conf.Datalayer
  Digest,         \* conf.State.Digest
  overtaken,      \* auxiliary: has a reload come before the boot kept its own load
  listening,      \* is producers' onUpdate among the updateListenerFuncs
  notified        \* goroutines started for it that have not run yet

envVars  == <<source, changes>>
topicVars == <<topics, refused, failures>>
confVars == <<fetched, loaded, Datalayer, Digest, overtaken>>
vars == <<envVars, topicVars, confVars, secured, tokenVars, boot, job, listening, notified>>

Contents == Configs \cup {Unreadable}
Topics   == UNION {TopicsOf[c] : c \in Configs}

TypeOK ==
  /\ source \in Contents
  /\ changes \in 0..MaxChanges
  /\ topics \subseteq Topics
  /\ refused \subseteq Topics
  /\ failures \in 0..MaxFailures
  /\ boot \in {"load", "fetch", "apply", "schedule", "assign", "listen", "topics", "up", "failed"}
  /\ job \in {"off", "idle", "fetch", "apply", "notify"}
  /\ fetched \in Contents
  /\ loaded \in Configs \cup {NoConfig}
  /\ Datalayer \in Configs \cup {NoConfig}
  /\ Digest \in Configs \cup {NoConfig}
  /\ overtaken \in BOOLEAN
  /\ listening \in BOOLEAN
  /\ notified \in Nat
  /\ TokenTypeOK

Init ==
  /\ source \in Contents
  /\ changes = 0
  /\ topics = {}
  /\ refused = {}
  /\ failures = 0
  /\ boot = "load"
  /\ job = "off"
  /\ fetched = Unreadable
  /\ loaded = NoConfig
  /\ Datalayer = NoConfig
  /\ Digest = NoConfig
  /\ overtaken = FALSE
  /\ listening = FALSE
  /\ notified = 0
  /\ TokenInit

-----------------------------------------------------------------------------
(***************************************************************************)
(* load                                                                    *)
(***************************************************************************)

\* The source is read.  (loadFile, or loadUrl and unpackContent.)  A request that
\* is refused yields no content, not an error.
Fetch == fetched' = IF Authorised THEN source ELSE Unreadable

\* Seeded fault: only the first configuration counts as new.
NothingLoaded == Digest = NoConfig

\* What was read is new.  Contents that do not parse are never remembered.
Changed == fetched # Digest

\* Seeded fault: a load that fails drops the configuration.
ApplyOrDrop ==
  /\ Datalayer' = IF fetched \in Configs THEN fetched ELSE NoConfig
  /\ Digest' = Datalayer'
  /\ UNCHANGED fetched

\* Seeded fault: the digest is not remembered.
ApplyWithoutDigest ==
  /\ IF Changed /\ fetched \in Configs
       THEN Datalayer' = fetched
       ELSE UNCHANGED Datalayer
  /\ UNCHANGED <<Digest, fetched>>

\* Seeded fault: what does not parse is taken for a configuration.
ApplyAnything ==
  /\ IF Changed
       THEN Datalayer' = fetched /\ Digest' = fetched
       ELSE UNCHANGED <<Datalayer, Digest>>
  /\ UNCHANGED fetched

\* A new configuration replaces the old one; nothing else does.
Apply ==
  /\ IF Changed /\ fetched \in Configs
       THEN Datalayer' = fetched /\ Digest' = fetched
       ELSE UNCHANGED <<Datalayer, Digest>>
  /\ UNCHANGED fetched

-----------------------------------------------------------------------------
(***************************************************************************)
(* The boot: NewConfigurationManager, Init, and the start of the producers *)
(***************************************************************************)

BootToken ==
  /\ boot = "load"
  /\ GetToken
  /\ boot' = "fetch"
  /\ UNCHANGED <<envVars, topicVars, confVars, secured, job, listening, notified>>

BootFetch ==
  /\ boot = "fetch"
  /\ Fetch
  /\ boot' = "apply"
  /\ UNCHANGED <<envVars, topicVars, loaded, Datalayer, Digest, overtaken, job, listening, notified, secured, tokenVars>>

\* No listener is registered yet.  load returns the configuration, or nil.
BootApply ==
  /\ boot = "apply"
  /\ Apply
  /\ loaded' = IF fetched \in Configs THEN Datalayer' ELSE NoConfig
  /\ boot' = "schedule"
  /\ UNCHANGED <<envVars, topicVars, overtaken, job, listening, notified, secured, tokenVars>>

Schedule ==
  /\ boot = "schedule"
  /\ job' = "idle"
  /\ boot' = "assign"
  /\ UNCHANGED <<envVars, topicVars, confVars, listening, notified, secured, tokenVars>>

\* config.Datalayer = config.Init(): what was loaded, even if it is nil or the
\* job has loaded something newer.
Assign ==
  /\ boot = "assign"
  /\ Datalayer' = loaded
  /\ boot' = "listen"
  /\ UNCHANGED <<envVars, topicVars, fetched, loaded, Digest, overtaken, job, listening, notified, secured, tokenVars>>

\* Seeded fault: the topics come first, and only then the listener.
ListenLast ==
  /\ \/ boot = "listen" /\ boot' = "topics" /\ UNCHANGED listening
     \/ boot = "up" /\ ~listening /\ listening' = TRUE /\ UNCHANGED boot
  /\ UNCHANGED <<envVars, topicVars, confVars, job, notified, secured, tokenVars>>

Listen ==
  /\ boot = "listen"
  /\ listening' = TRUE
  /\ boot' = "topics"
  /\ UNCHANGED <<envVars, topicVars, confVars, job, notified, secured, tokenVars>>

\* What the broker has not got of the topics asked for.
Refused == (refused \cup TopicsOf[Datalayer]) \ topics'

\* initTopics returns nil.  The broker answers for every topic on its own, and the
\* answers are only logged: it has created any of them, or none.
CreateTopics ==
  /\ Datalayer \in Configs \ NoSettings
  /\ \E created \in SUBSET TopicsOf[Datalayer] : topics' = topics \cup created
  /\ refused' = Refused
  /\ UNCHANGED failures

\* CreateTopics of the broker fails as a whole.
CreateTopicsFails ==
  /\ Datalayer \in Configs \ NoSettings
  /\ TopicsOf[Datalayer] # {}
  /\ failures < MaxFailures
  /\ failures' = failures + 1
  /\ UNCHANGED topics
  /\ refused' = Refused

\* A nil configuration or nil topicSettings is dereferenced.
CreateTopicsPanics ==
  /\ Datalayer \in NoSettings \cup {NoConfig}
  /\ UNCHANGED topicVars

BootTopics ==
  /\ boot = "topics"
  /\ \/ CreateTopics /\ boot' = "up"
     \/ (CreateTopicsFails \/ CreateTopicsPanics) /\ boot' = "failed"
  /\ UNCHANGED <<envVars, confVars, job, listening, notified, secured, tokenVars>>

\* The process has ended, and is started again.
Restart ==
  /\ boot = "failed"
  /\ boot' = "load"
  /\ job' = "off"
  /\ fetched' = Unreadable
  /\ loaded' = NoConfig
  /\ Datalayer' = NoConfig
  /\ Digest' = NoConfig
  /\ overtaken' = FALSE
  /\ listening' = FALSE
  /\ notified' = 0
  /\ refused' = {}
  /\ token' = "none"
  /\ bearer' = FALSE
  /\ UNCHANGED <<envVars, topics, failures, secured>>

-----------------------------------------------------------------------------
(***************************************************************************)
(* The reload job                                                          *)
(***************************************************************************)

Alive == boot # "failed"

\* The interval is over.  It is a cron expression, which may be due at any time
\* from Schedule on.
JobToken ==
  /\ Alive
  /\ job = "idle"
  /\ GetToken
  /\ job' = "fetch"
  /\ UNCHANGED <<envVars, topicVars, confVars, secured, boot, listening, notified>>

JobFetch ==
  /\ Alive
  /\ job = "fetch"
  /\ Fetch
  /\ job' = "apply"
  /\ UNCHANGED <<envVars, topicVars, loaded, Datalayer, Digest, overtaken, boot, listening, notified, secured, tokenVars>>

JobApply ==
  /\ Alive
  /\ job = "apply"
  /\ Apply
  /\ IF Changed /\ fetched \in Configs
       THEN job' = "notify" /\ overtaken' = (boot = "assign")
       ELSE job' = "idle" /\ UNCHANGED overtaken
  /\ UNCHANGED <<envVars, topicVars, loaded, boot, listening, notified, secured, tokenVars>>

\* Seeded fault: nobody is told of a reload.
JobNotifiesNobody ==
  /\ Alive
  /\ job = "notify"
  /\ job' = "idle"
  /\ UNCHANGED <<envVars, topicVars, confVars, boot, listening, notified, secured, tokenVars>>

\* go f(state.Digest), for the listeners registered by now.
JobNotify ==
  /\ Alive
  /\ job = "notify"
  /\ notified' = IF listening THEN notified + 1 ELSE notified
  /\ job' = "idle"
  /\ UNCHANGED <<envVars, topicVars, confVars, boot, listening, secured, tokenVars>>

\* onUpdate: it looks at the configuration there is now.  An error is logged; a
\* panic in this goroutine ends the process.
OnUpdate ==
  /\ Alive
  /\ notified > 0
  /\ notified' = notified - 1
  /\ \/ (CreateTopics \/ CreateTopicsFails) /\ UNCHANGED boot
     \/ CreateTopicsPanics /\ boot' = "failed"
  /\ UNCHANGED <<envVars, confVars, job, listening, secured, tokenVars>>

-----------------------------------------------------------------------------
SourceChanges ==
  /\ changes < MaxChanges
  /\ changes' = changes + 1
  /\ source' \in Contents \ {source}
  /\ UNCHANGED <<topicVars, confVars, boot, job, listening, notified, secured, tokenVars>>

Boot == BootToken \/ BootFetch \/ BootApply \/ Schedule \/ Assign \/ Listen \/ BootTopics \/ Restart
Job  == JobToken \/ JobFetch \/ JobApply \/ JobNotify

TimePasses ==
  /\ TokenRunsOut \/ UntilIsOver
  /\ UNCHANGED <<envVars, topicVars, confVars, boot, job, listening, notified>>

Next == SourceChanges \/ TimePasses \/ Boot \/ Job \/ OnUpdate

\* A token that has run out is over at last.  The provider neither fails every boot
\* nor every reload, and not all their tokens run out on the way to the source.
TokenFairness ==
  /\ WF_vars(TimePasses /\ UntilIsOver)
  /\ SF_vars(BootToken /\ Renew)
  /\ SF_vars(JobToken /\ Renew)
  /\ SF_vars(BootFetch /\ Authorised)
  /\ SF_vars(JobFetch /\ Authorised)

\* The boot and the goroutines run on, the interval ends again and again, and a
\* process that has ended is started again.
Spec ==
  /\ Init /\ [][Next]_vars
  /\ WF_vars(Boot) /\ WF_vars(Job) /\ WF_vars(OnUpdate)
  /\ TokenFairness

-----------------------------------------------------------------------------
(***************************************************************************)
(* Properties                                                              *)
(***************************************************************************)

\* Once the boot is past its own load, the digest is that of the configuration
\* in use: were it not, a reload would take the source for unchanged.  The one
\* exception is a reload that comes before the boot has kept what it loaded; then
\* it lasts until the source changes again.
\* (load, manager.go:108-116, against manager.go:48)
DigestIsCurrent ==
  boot \in {"listen", "topics", "up"} => overtaken \/ Digest = Datalayer

\* A layer that is up has a configuration, whatever the source has become since
\* and however often it could not be read.  (manager.go:82-101, 109-113)
UpHasConfig == boot = "up" => Datalayer \in Configs

\* A layer that is up has asked for every topic of the configuration in use, also
\* of one that was loaded between the registration of the listener and the topics
\* of the boot: the broker has the topic or has not created it when asked, or the
\* layer is still going to ask.  (producer.go:40-60, manager.go:115-121)
NoTopicForgotten ==
  boot = "up" =>
    \/ TopicsOf[Datalayer] \subseteq topics \cup refused
    \/ job = "notify"
    \/ notified > 0

\* When the source stays at a configuration that can be used, the layer comes to
\* use it for good, through tokens that run out, unreadable sources, panics of the
\* listener and restarts; unless a reload overtakes the boot.  (manager.go:60-117)
ConfigConverges ==
  \A c \in Configs \ NoSettings :
    <>[](source = c) => <>[](boot = "up" /\ (Datalayer = c \/ overtaken))

\* "Every 120s (or otherwise configured) the server will look for updated config's,
\* and load these if it detect changes": without the exception.  (README.md:39)
ChangesAreLoaded ==
  \A c \in Configs \ NoSettings :
    <>[](source = c) => <>[](boot = "up" /\ Datalayer = c)

\* A layer that is up and stays with a configuration comes to ask for its topics;
\* a topic the broker has not created when asked is not asked for again.
\* (producer.go:40-60)
TopicsCreated ==
  \A c \in Configs \ NoSettings :
    (boot = "up" /\ Datalayer = c) ~>
      (TopicsOf[c] \subseteq topics \cup refused \/ Datalayer # c \/ boot # "up")

=============================================================================
