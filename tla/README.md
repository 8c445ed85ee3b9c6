# A TLA+ model of kafka-datalayer

kafka-datalayer is an HTTP service in front of Kafka. It exposes topics as
datasets that a client reads in steps, from token to token
(`GET /datasets/:dataset/changes`), and writes posted entities to topics
(`POST /datasets/:dataset/entities`). This directory holds TLA+ modules of its
core logic, the TLC configurations that check them on small instances, and
proofs checked by TLAPS.

All paths below are relative to `src/internal/` unless they start with `src/`.

## 1. Inventory

| component | state it keeps | operations | interacts with |
|---|---|---|---|
| **Reading a dataset** `kafka/consumer.go`, `web/consumerhandler.go` | per request: the locals of `ChangeSet` (since token, `partitionOffsets`, `count`, `nilCount`, the `runState`); per process: the map `running` under a lock | `consume`, `ChangeSet`, `resetOffsets`, `since`/`decodeSince` | the broker, the configuration, the decoder and encoder, the client (callback writes to the response) |
| **Kafka group** (external) | logs, committed offsets, members, assignment, positions | join, leave, rebalance, commit, fetch, eviction | every `kafka.Consumer` of the dataset's group |
| **Configuration manager** `conf/manager.go` | `Datalayer`, `State.Digest`, `updateListenerFuncs` | boot (`NewConfigurationManager`, `Init`), reload job (`Run`), `load`, listeners | the source (file or URL), everybody who reads `Datalayer` without a lock |
| **Topic creation** `kafka/producer.go` | topics of the broker | `initTopics` at the start and in `onUpdate` | configuration manager, admin client |
| **Writing a dataset** `web/producerhandler.go`, `coder/parser.go`, `coder/entity.go`, `kafka/producer.go` | per request: entities not written yet; per process: the map of writers, without a lock | `produce`, `ParseStream`, `ProduceEntities`, `StripProps` | the configuration, kafka-go's writer (external), the recover middleware |
| **Decoders** `coder/decoder.go` | schema cache per request | `NewDecoder`, `Decode` | schema registry |
| **Encoder** `coder/encoder.go` | none (pure) | `Encode`, `EncodeWithHeaders`, `flatten` | - |
| **Dataset listing** `web/datasethandler.go` | none | list of configured datasets | configuration |
| **Access control** `web/middleware.go`, `web/middlewares/*` | JWKS cache | JWT check, scope check, panic recovery | every request |
| **Token provider** `security/auth0.go` | cached token and its end | `Token` | configuration manager |
| **Web server, start order** `web/web.go`, `app/app.go` | routes, middleware, listening socket | fx hooks | all |
| **Panic recovery** `web/middlewares/recover.go` | none | turns a panic behind it into an error | every handler |
| **Logging, statsd, environment** `conf/logger.go`, `conf/statsd.go`, `conf/environment.go`, `web/middlewares/loggerfilter.go` | settings read at the start | log, count | all |

### What is hard in this code, and what makes each part correct

**Reading.** The layer stores no offsets for its clients. A request *commits* the
offsets of its token to the group, subscribes, and hopes to be handed its
messages from there. So a request is a dance of three parties (the handler, the
group, and other requests on the dataset), with a rebalance or a crash possible
between any two steps:

- The comment at `consumer.go:126` says at most one request runs per group and
  topic. The check and the registration are under two lock sections, a request
  that ends deletes whatever entry there is, and a request closes the consumer
  of another while that one may be about to reset, to subscribe or to poll.
- The handler never looks whether the client is still there, so a client that
  gives up leaves a request behind that commits offsets later.
- A token need not name every partition; the others start where the group was.
- A rebalance rewinds every partition to the committed offset.

What must hold: *no token skips a message the client never got*, whatever
overlaps; a full read is full; within a request and from one to the next
messages come in order; every request ends; a client that keeps asking catches up.

**Configuration.** The job that reloads runs beside the boot; the digest decides
whether anything is loaded; loading fails in several ways; each new
configuration starts a goroutine per listener, which reads whatever
configuration there is when it runs. The broker answers for each topic, and its
answers are only logged. What must hold: a layer that is up has a configuration, the
digest is that of the configuration in use, the layer comes to use the last
configuration, and no topic of it is forgotten.

**Writing.** Batches of 10000 with an incomplete last one, a panic or failure
half way, a parser that does not report a broken payload, a map of writers
without a lock, a writer that asks for no acknowledgement, a reload in between. What
must hold: 200 means that all entities have been sent, in order and once, and whatever
else happens none is sent twice; batches are not sent in part by a panic; every request
is answered as long as the process lives; entities go to the configured topic.

**Encoding.** The fields of an object are visited in Go's random order, names are
put together from keys that may have dots in them, and a mapping goes by the last
key only. What must hold: whatever the order, nothing a message or its headers say
is left out and nothing else gets in; a mapping's `path` and the names of
properties mean the same; headers survive; and it is known which messages panic.

**Getting in.** The socket opens while middleware and routes are still being added;
keys are cached while the issuer changes them or fails to answer; scopes and subjects
are looked for in text; a handler looks a dataset up several times while the
configuration is replaced. What must hold: no handler runs without a token that
entitles to it, from the first request on; a request that has one is not refused; new
keys become known; what the listing says was so.

**The token of the configuration source.** It is cached until a deadline that is
counted from another moment than the one the service counts from, and nothing is
tried again but by the next reload. What must hold: the layer still comes to use the
last configuration.

The list of hazards, with their lines and the properties that cover them, is in
`PROJECT.json`.

## 2. Modules

| module | what it is | code |
|---|---|---|
| `KafkaGroup` | external: one topic and one consumer group | what `consumer.go` uses of librdkafka and the broker |
| `ChangeSet` | extends it: requests on one dataset, the client, crashes | `consumer.go`, `consumerhandler.go` |
| `ChangeFeed` | abstract: a feed read from token to token | what `ChangeSet` promises to a client that waits |
| `MCChangeSet` | constants for TLC | |
| `ChangeSetProofs` | proofs about `ChangeSet`, for any client | |
| `ChangeFeedProofs` | proofs for a client that waits, and of the refinement of `ChangeFeed` | |
| `TokenCache` | the token shown to the source of the configuration | `security/auth0.go`, `token.go` |
| `ConfigManager` | extends it: boot, reloads, listeners, topic creation | `manager.go`, `producer.go:40-60,154-195` |
| `MCConfigManager`, `ConfigManagerProofs` | constants for TLC; proofs | |
| `Producer` | payloads posted to one dataset | `producerhandler.go`, `parser.go`, `producer.go:84-152`, `entity.go` |
| `MCProducer`, `ProducerProofs` | constants for TLC; proofs | |
| `Encoder` | from a message to an entity | `encoder.go` |
| `MCEncoder`, `EncoderProofs` | messages, headers and mappings for TLC; proofs about headers | |
| `EncoderLeafProofs` | what the recursive functions of `Encoder` compute, for any document | |
| `EncoderWalkProofs` | proofs about the whole walk | |
| `Web` | hooks, socket, middleware, keys, lookups and the listing | `web.go`, `middleware.go`, `middlewares/auth0.go`, `authorization.go`, `datasethandler.go`, `app.go` |
| `MCWeb`, `WebProofs` | constants for TLC; proofs | |

How they fit together: `Web` takes a request from the socket to its handler. Where it
says `Changes`, `ChangeSet` goes on; where it says `Write`, `Producer` does. `ChangeSet`
takes what `Encoder` and the decoders do with one message as one step.
`ConfigManager` is what `Reload` stands for in `Web` and `Producer` and `ConfigGone` in
`ChangeSet`. These are cut where the state of one is not read by the other; only the
group and the token cache are shared closely enough to be composed by `EXTENDS`.

Operators headed *Seeded fault* are not part of a specification. Each is a
plausible bug in the definition that follows it, and is substituted for that
definition to see the property it should break being violated.

### ChangeSet

One element of `Requests` is a slot for a handler goroutine; its steps are the
places where the code takes a lock or calls the broker:

| action | code |
|---|---|
| `Request` | the request arrives, limit and since are read (`consume`) |
| `ConfigGone` | one of three lookups fails: 404, recovered nil dereference, error |
| `CancelPrevious` | `consumer.go:129-137`, under the read lock |
| `Create`, `CreateFails` | `NewConsumer`, `NewDecoder` |
| `Register` | `running[...] = state`, under the write lock |
| `ResetOffsets`, `ResetFails` | `resetOffsets` |
| `Subscribe`, `SubscribeFails` | `Subscribe` |
| `Deliver`, `Panic`, `PollNil`, `PollAllBrokersDown` | what `Poll` returns |
| `LeaveLoop` | `ctx.Done()` or a signal |
| `Finish` | the continuation |
| `Cleanup`, `Deregister` | the deferred function, in its two parts |
| `EndOfResponse` | `consume` returns; the client takes the response, if it still waits |

`stop[r]` is "the context is cancelled or a signal is pending". `count` stands
for `count` and `sinceCount`, which are always equal; `isBeginning` is
`count = 0`. `read` is `partitionOffsets`, a partition that is not in the map
having the value `NoOffset`.
`running` holds the one entry of this topic and group.

The client is the *single* client that `src/README.md:178` asks for. It sends
the token of the last response it accepted. It does not accept a response that
breaks off. With `ClientGivesUp` it may abandon a request, with
`ClientRestarts` drop its token. `got` and `synced` record what it has received.

`KafkaGroup` keeps what matters of the broker: a commit by a consumer that is
not a member is accepted only while the group is empty (the layer always commits
before it subscribes); joining and leaving rebalances eagerly with any
assignment and rewinds all partitions to the committed offset.

Data that is abstracted: a message is its partition and offset; what is in it
only counts as `Undecodable` (an error) or `Poison` (a panic). The token's
base64 and JSON are left out: `since` and `decodeSince` are inverse to each
other, and anything that does not decode is the empty map, i.e. `NoToken`.

### ChangeFeed

The promise in one page: the token moves forward over messages that were
received, or back to the start. `ChangeSet!ImplementsFeed` is the refinement,
with `logEnd`, `token` and `synced` for themselves and `disturbed` for "a consumer
has been evicted"; until then it is the exact feed, in which what has been received
is just what the token stands for.

### ConfigManager

`boot` goes through load, apply, schedule, assign, listen, topics; `job` is the
reload job. A content of the source is a model value, and is its own digest.
`Unreadable` stands for an error, a 404 or something that does not parse; the
code treats them alike. `Assign` is its own step because `config.Datalayer =
config.Init()` (`manager.go:48`) happens after the job is scheduled. The job may run
from then on: its interval is a cron expression, which can be due at any moment.
`overtaken` records that a reload put a new configuration in place between the two,
which `Assign` then overwrites.

`CreateTopics` is `initTopics` returning nil. The broker answers for each topic, and the
layer logs the answers and does nothing else with them, so that any of the topics may
have been created. `refused` records those that the layer has asked for in vain since it
was started: by such an answer, or because the whole call failed (`CreateTopicsFails`).
`CreateTopicsPanics` is the nil dereference at `producer.go:162` (or of a nil
configuration), in the boot or in a listener's goroutine, where it ends the
process; then the process is started again.

A source that is `secured` is a URL with a token provider, and a load then begins with
`Token` (`BootToken`, `JobToken`). `TokenCache` has no clock but two deadlines: the
service's, after which it refuses the token, and the layer's, after which it asks for
another. The second is later, by the time the answer took. A token that cannot be got
is only logged, and the load goes out without one and is refused.

### Producer

A payload is a sequence of kinds of values. `batch` holds the positions of the
entities not sent yet, `sent` what kafka-go's writer has sent, where to. The writer is
made without `RequiredAcks` (`producer.go:89-93`), which is to ask for no acknowledgement:
when `WriteMessages` returns nil the batch has been sent, and neither the layer nor the
model knows whether Kafka has taken it. A payload that stops being JSON is the sequence
of the values before that, since nothing tells the handler of the break. The lookup
of the writer and its storing (`producer.go:88-94`) are two steps, since the map
is not locked; `MapRace` is the runtime noticing that, which ends the process, and its
requests are cut off without an answer. A write
that fails may have sent any of the batch, in order (`Parts`).

### Encoder

One behaviour is the encoding of one message. `stack` is Go's call stack of
`flatten`: the objects the walk is in, with the fields it has not visited; `Visit`
takes any of them, as the iteration over a Go map does. `phase` says whether the
message or its headers are walked. JSON values are names, and what they consist of
is a constant: `KindOf`, `FieldsOf`, `ElementsOf`, and `Depth`, of which is only said
that a part is less deep than the whole, so that a document is a finite tree. `Numeral`
is how an index is written (`%v` of an int). A name is the sequence of its pieces, so that the key `"o.n"` and the
field `n` of `o` can be told apart and become the same name. `Writes` is the default
branch of the switch. `Get` and `Child` are gjson, external, for paths of fields and
indices. Left out are the constants an id or a reference is put together with.

`Leaves` is the reference definition the walk is compared with: the places of a
document where there is something to write. `NamesArePaths` only speaks of those no
key with a dot leads to. With `{"o.n": 1, "o": {"n": {"n": 1}}}` the property `o.n` is
alone of its name in the entity, but the path `o.n` leads to the object; the message
`both` of `MCEncoder` is of that kind. The names of the elements of an array have the
index between dots (`phones.0.number`), as gjson wants them and `encoder.go:82` writes
them; section 3 says who expects something else.

### Web

`Hooks` is the order in which fx runs the start hooks: that in which the objects are
made, of which each handler needs the middleware and its producers or consumers.
`RunHook` runs one, `Listen` is the goroutine of the first, `TopicsFail` the only hook
that can fail. A request does `Find` (echo's router), `Enter` (which middleware there
is by now), `JwtLoad` and `Jwt`, `Route` (the authorizer of the route) and the steps of
its handler. `Refresh`, `Expire` and `JwtLoad` are the loading cache, external; what is
loaded is `LoadKeys`: any JSON is taken for keys, also the body of an error, and it is
then that there are none. `seen` records the configurations there were while a
request was in its handler.

A token is a record of what is looked at: key, issuer, audience, algorithm, whether it
is an application's, its scope, whether it is an administrator's, and whether it has a
subject. `scope` is the claim as the layer takes it apart: a sequence of the parts between
commas, each the set of the scopes between spaces, of which only the first part counts
(`auth0.go:40-42`, `authorization.go:24-27`). `place` says where in the URI of a request
the subject of its token is: a piece of the path, some other part of the text (a part of a
longer name, the query), or nowhere. The layer does not tell the first two apart, and it
finds an empty subject in every URI (`InUri`, `authorization.go:41-46`).

`Allowed` is what the layer does; `Genuine` and `Entitled` say independently of it who
should be served. Where the two differ the properties name it: `TakenForNamed` (a user
without subject, or with a subject that is there by chance, is served) and `AfterComma`
(an application whose scope comes after a comma is refused).

## 3. Runs

Every run checks for deadlock but `Encode`, whose behaviours end with the message, and
`Serve`, where the application stops for good when a hook fails.

| run | question | instance |
|---|---|---|
| `Sequential` | does a client that waits read everything, in order, exactly once until an eviction, and without a gap after it | 2 partitions of 1 to 3 messages, one that does not decode and one that panics, limits -1, 0, 1, 2, 1 eviction, crashes |
| `Overlap` | does a token ever skip a message, or a consumer outlive its request, with two requests at a time that commit early or late | 2 partitions of 2 messages, limit 1 (so that tokens are partial), the client gives up and starts over, crashes |
| `Answered` | does every request end and leave nothing behind, and skip nothing when it is rewound | 2 requests without limit, 3 messages of which the last panics, the client gives up, 1 eviction |
| `CatchingUp` | does a client that keeps asking reach the end | 2 partitions, messages being written, 1 eviction |
| `Reload` | configuration and topics under reloads | 4 configurations (one lacks `topicSettings`), unreadable sources, with and without a token that runs out, topics that are not created, 1 failure of the broker, reloads from the moment the job is scheduled, restarts |
| `Produce` | what 200 means, batches, answers | 2 requests, batches of 2, up to two batches and panics in the first or second, a reload, a failing write |
| `Encode` | what becomes of a message, in whatever order it is walked | 8 messages, 3 lists of headers and 4 of mappings whose names collide |
| `Serve` | who is served, from the first request on | 9 tokens (right, wrong in one way, a scope after a comma, a user without subject), subjects in three places, 2 keys, one without certificate, a change of keys, a failure of the issuer, a reload |

Four further runs show that the code does not do what a comment or document
says; each finds a counterexample, and `PROJECT.json` (findings) quotes the line:

| run | property | what happens |
|---|---|---|
| `OnlyOneRunning` | `AtMostOneRunning` | both requests look at `running` before either registers |
| `FullReadAfterGivingUp` | `FullRead` | an abandoned request commits its token between the reset of a full read and its first message |
| `ReloadedTopic` | `SentToConfigured` | the cached writer keeps the old topic |
| `OvertakenBoot` | `ChangesAreLoaded` | the boot overwrites what a reload has loaded, and the digest hides that from later reloads |

More of the kind has no run of its own:

- The end of a broken stream looks like the end of the payload: `ParseStream` never looks
  at the decoder's error (`parser.go:11-18`). What came before is sent and answered with
  200, where the handler means to answer 400 "could not parse the json payload"
  (`producerhandler.go:74`).
- "The producer normally will write all received entities" (`src/README.md:107`): what has
  been answered with 200 has been sent. As no acknowledgement is asked for, it can be lost
  without anybody being told, which is why `AcceptedIsSent` says no more.
- For an array of objects the integration test expects names like
  `ns0:phones[0].number` (`src/integration_test.go:166`), and the encoder writes
  `phones.0.number` (`encoder.go:82`). `NamesArePaths` holds the names to gjson's syntax, which
  `src/README.md:233` asks of paths, and so is with the code and not with that test.
- A creation of topics that fails in the listener, and a topic that the broker does not
  create in the boot or in the listener, is only logged and not tried again:
  `NoTopicForgotten` and `TopicsCreated` say that every topic is asked for, not that it
  comes to exist. After a reload nothing makes a payload wait until that has happened.
- An application whose scope comes after a comma of its claim is refused, and a user whose
  token has no subject is let in everywhere, one with a subject wherever the URI has it in
  its text. `GoodIsServed` and `OnlyAuthorized` name these as `AfterComma` and
  `TakenForNamed`.
- `position=latest` (`src/README.md:182`) is never read: a read without a token always
  starts at the beginning (`consumer.go:144`, `consumer.go:325-345`).
- A message that panics (`Poison`: an array such as `["a", null]`, `encoder.go:94`, or an
  Avro message of less than five bytes, `decoder.go:64`) breaks the response off, and
  every later response at the same place: with a message in `Poison`, of which
  `CatchingUp.cfg` has none, `CaughtUp` fails. The tests of the encoder say "should not
  stop streaming" of messages that cannot be mapped (`encoder_test.go:52`).
- A mapping goes by the last key of a field. A header, or a field of a nested object,
  that has the name of the id field sets the id, again or instead, which is why
  `NamesArePaths` and `HeadersKept` except fields that a mapping asks for.
- The name of a property is not always the path of its value (`src/README.md:233`): if
  a key has a dot in it, the path can lead to a part of another field, which is why
  `NamesArePaths` excepts what such a key leads to.
- A response can have the `@context` of one configuration and the entities of
  another; `StableIsServed` speaks only of datasets that both have.
- An answer of the issuer that is JSON without keys empties the cache of keys until
  the next refresh. `GoodIsServed` excepts it.
- A key without certificate panics in the JWT middleware (`auth0.go:185`), which is
  outside of the recovering one: the connection just breaks.

### Bounds

- `Backlog`, `MaxEnd` (messages per partition): up to 3 for one request at a time,
  so that a token is before, between and after messages and one is written while a
  request runs. With two requests at a time 2, the least number at which a commit can
  be behind a message the client has not got: that of another request, or one of its own
  that came late. Two partitions make tokens that leave one out; an eviction on top
  of those is too much for TLC, so that `Overlap` has the one, and `Answered` the other
  and one partition with a message more.
- `Requests`: two slots. A slot is used again, so the number of requests over
  time is not bounded; three requests at once are not checked by TLC, but the
  proofs are for any number.
- `NilLimit` is 10 in the code, 1 or 2 here: only "before the last empty poll" and
  "the last" differ.
- `MaxCount` bounds the messages one request handles, which matters only with
  rewinds (otherwise the log does it), and in `Answered`, where the last of three messages
  is left to another request.
- `MaxEvictions`: one rewind at any moment. Other rewinds come from joins, of which
  `Overlap` has plenty.
- `BatchSize` is 10000 in the code, 2 here: no, one incomplete, one full, a full and an
  incomplete, and two full batches each occur.
- `MaxChanges`, `MaxFailures`, `MaxReloads`, `MaxRotations`, `MaxFaults` bound what the
  environment does. One reload is enough for a lookup or a listing to meet two
  configurations, one change of keys for the cache to be stale, one fault for it to be
  empty or the request refused.
- `Serve` has one slot for requests, used again and again: requests share nothing in
  `Web` but the key cache, and what another request does to that (`JwtLoad`) `Refresh`
  does as well. The theorems of section 4 are for any number.
- `Encode` has objects three deep, arrays of objects, of scalars, of arrays, empty, and
  mixed in both orders; a key with a dot beside the object of that name; a field
  named like the prefix of headers; mappings of each kind (id, id from the Kafka key,
  deleted, reference, ignored, renamed, by a path into an array), two of which write
  to one name. Deeper documents repeat these.
- Symmetry over requests and partitions in `Overlap` only, which checks invariants alone.

### Fairness

`FairHandlers` is weak fairness of each handler: a goroutine is scheduled and
every call it makes returns. That is all `RequestEnds` needs: nobody can
keep a request in its poll loop, for messages are finitely many here, and in the
code as long as they are produced slower than read.

`CaughtUp` needs an environment that does not fail for ever, which is stated in
`FairEnvironment` and is an assumption about the surroundings and not about this
code: the client keeps asking, the broker and the configuration come back (strong
fairness of `CancelPrevious`, `Create`, `ResetOffsets`), and a consumer is given
a partition and a message before ten empty polls are over, at least sometimes
(strong fairness of joining while polling, and of `DeliverNext`). The code only
waits 15 seconds for that.

In `ConfigManager` the boot and the job run on, intervals end, and a supervisor
restarts a process that ended. With a secured source `TokenFairness` adds that a token
that has run out for the service does so for the layer (its deadline is a number of
seconds away), that the provider does not fail for ever, and that not every token
runs out between `Token` and the answer. The last two are asked of the boots and of the
reloads separately: a provider that fails whenever the layer boots keeps it down,
however well it serves reloads. In `Web` a request goes on, and the keys are
refreshed, which they are when a request needs them. In `Producer` every handler that
has something to do does it.

## 4. What is proved

For every value of the constants (any number of partitions and overlapping
requests, any limits, payloads, bounds and faults), from the named assumptions of the
modules, which say no more than what the constants are, and those given here:

| theorem | states | assuming |
|---|---|---|
| `ChangeSetProofs!TypeCorrect` | `TypeOK` | |
| `ChangeSetProofs!MembersServed` | `MembersAreServed` | |
| `ChangeSetProofs!CommittedRead` | `CommittedIsRead` | |
| `ChangeSetProofs!NothingIsLost` | `NoLoss` | |
| `ChangeSetProofs!RegisteredLive` | `RegisteredIsLive` | |
| `ChangeSetProofs!LimitHolds` | `LimitRespected` | |
| `ChangeFeedProofs!ReadsInFull` | `FullRead` | `~ClientGivesUp` |
| `ChangeFeedProofs!ReadsInOrder` | `InOrder` | `~ClientGivesUp` |
| `ChangeFeedProofs!FeedImplemented` | `ImplementsFeed` | `~ClientGivesUp` |
| `ConfigManagerProofs!TypeCorrect` | `TypeOK` | |
| `ConfigManagerProofs!UpConfigured` | `UpHasConfig` | |
| `ConfigManagerProofs!DigestCurrent` | `DigestIsCurrent` | |
| `ConfigManagerProofs!TopicsRemembered` | `NoTopicForgotten` | |
| `ProducerProofs!TypeCorrect` | `TypeOK` | |
| `ProducerProofs!BatchesWhole` | `WholeBatches` | |
| `ProducerProofs!AcceptedSent` | `AcceptedIsSent` | |
| `ProducerProofs!SentRises` | `SentInOrder` | |
| `EncoderProofs!HeadersSurvive` | `HeadersKept` | |
| `EncoderWalkProofs!EverythingWritten` | `EveryFieldWritten` | |
| `EncoderWalkProofs!PanicsExactlyOnMixed` | `PanicsOnMixed` | |
| `EncoderWalkProofs!NamesLeadBack` | `NamesArePaths` | |
| `EncoderWalkProofs!AnyOrder` | what all leaves that write to a slot agree on is there | |
| `WebProofs!TypeCorrect` | `TypeOK` | |
| `WebProofs!Authorization` | `OnlyAuthorized` | |
| `WebProofs!GoodServed` | `GoodIsServed` | |
| `WebProofs!ListingTold` | `ListingIsOfTheTime` | |
| `WebProofs!StableServed` | `StableIsServed` | |

The one assumption cannot be dropped: the run `FullReadAfterGivingUp` is a
counterexample to `FullRead` for a client that gives up.

### Nothing is lost

A token is only accepted with the response it
belongs to, so it is enough that at any time what a request has read or started
from is in `got` or in what it has `sent`. Neither `NoLoss` nor `CommittedIsRead`
is inductive, because a request reads from where the *group* is, not from where
its own token is. The inductive invariant `IInv` has three parts beside the types:

- `GroupInv`: whoever is a member is in the right part of its request, and
  partitions have owners among the members;
- `StartInv`: everything before the committed offset of every partition, and
  everything that any request's since token stands for, is in `got`: that is why
  a late commit by an abandoned request does no harm;
- `ReadInv`: everything before the position of an assigned partition is in `got`
  or has been sent by its owner since the last rebalance, and everything before
  what a request has read likewise; so the token that `Finish` puts together from
  `read` and `since` stands only for messages that are in `got` or `sent`.

Each part has a lemma for a step (one named step per action), and `Invariance`
puts them together. `RegisteredIsLive` is inductive by itself.

### The limit

`LimitRespected` is about what was sent, and the loop only looks at `count`. `CountInv`
says that `count` is not behind the number of messages sent, and that a request which
goes on polling has not reached its limit.

### A client that waits

With one request at a time a good deal more is so than `NoLoss`: `FeedInv` says of every
step of a request how the group, the log and the token stand to each other, and has a
part for each:

- `Alone`: whatever is under way, is the request of the client; there is no other;
- `ClientInv`: the client has received what its token stands for (`Matches`), and no
  more than that until a consumer has been evicted; and from its first token on, the
  group starts after messages it has received;
- `ResetInv`: once the offsets are reset, the group starts after the token the request
  has been sent, and nobody else is in the group while the request subscribes and polls;
- `PollInv`: everything before the position of a consumer is with the client or in the
  response; until an eviction the position is right after the continuation token, and a
  consumer that is no member has read nothing;
- `TokenInv`: with the response, the client will have what the continuation token stands
  for, and that token is not behind the one that was sent.

`InLog` and `EarlyInv` are the bounds these need. `FullRead` is the first half of
`Matches`. `InOrder` is an action property: of all steps only a delivery touches
what it speaks of, and that step continues where `PollInv` says. For `FeedImplemented`
the abstract state is a part of the concrete one, so that there is nothing to choose: an
initial state is one of `ChangeFeed`, taking a response is `ChangeFeed`'s step of
reading (`FeedInv` says that the messages are those between the two tokens), dropping
the token is going back to the start, a message that is written is one there, an
eviction is what sets `disturbed`, and every other step stutters.

### Writing

`AcceptedIsSent` is about the end of a request. Its invariant follows the payload: what
was sent and what is in the batch are, one after the other, the entities among the
values read (`Follow`, `Ordered`); a batch that is being sent is full or the last one, so that
an incomplete batch is followed by the answer and never by another (`Progress`). `Fits`
bounds the batch, without which `TypeOK` is not inductive. A request that failed to
write a batch, or whose process ended, is left out of `Ordered`: part of its last batch
may have been sent. For `SentInOrder` it is enough that this part goes on where `Follow`
ends (`PartRises`) and that nothing is sent after it.

### Configuration

`DigestCurrent` needs to know where the boot is: until the job is scheduled nobody else
loads (`BootInv`), and from then on a reload that puts something new in place is either
followed by `Assign`, and then `overtaken`, or stays. For `TopicsRemembered`, `TopicsInv`
says that the listener is registered before the boot asks for topics. So whoever replaces
the configuration after that notifies it, and whoever asks (`Asked`) leaves no topic of the
configuration that is neither with the broker nor among those refused.

### Encoding

`HeadersKept` speaks of the end of the walk. `HeaderInv` says that the walk through the
headers is never deeper than the headers themselves, since every value is a string
(`encoder.go:58`, the assumption on `Headers`), and that a header which has been visited is
either claimed by a mapping or in the entity, where no other header can replace it
(`NamesDiffer`, `WritesOwn`). The lemma `MaxOfIndices` is what makes `SelectLastInSeq`,
that is Go's "the last one wins", do what it says.

The other properties compare the whole walk with `Leaves`, and `Get` is recursive, too.
No prover here takes the induction theorems of the library, so that these functions are what their
definitions say (`LeavesDef`, `GetDef`) is shown without them. The set of depths at which
there is no solution of the equation has a least element (`LeastNumber`) unless it is
empty, and just there the solution for the depths below could be continued; two
solutions agree by the same argument (`SolutionsAgree`), so that those of all depths are
one function. `ByDepth` is this principle for sets of places, and shows that leaves are
places (`LeavesType`) and that paths lead to them (`PathsLead`).

`WalkInv` is what is inductive. `PendingOf(stack)` are the leaves in what the stack still
has; `Inside` says that they are leaves of the message or of the headers, whichever is
walked; `Covered` that every leaf has been handled, is pending, or is one of the headers
while the message is walked; `Sourced` that every slot of the entity has what some leaf
writes to it; `Blamed` that a panic has a leaf to blame. All that a visit does is, by `VisitEffect`,
to panic on a pending leaf that is mixed, to write a pending leaf, or to open an object or
an array without changing what is pending. That needs of `Frames` that an array is one
leaf or none, and in the latter case has just the leaves of the objects in it
(`LeavesOfArray`, `WholeArray`). At the end nothing is pending, and `EveryFieldWritten`,
`AnyOrder` and, with a little about cardinalities, `PanicsOnMixed` follow. For
`NamesArePaths`, what is in the slot comes from a leaf of its name, of which there is only one.

`NameAssumption` is the one assumption that is not about a constant: that
`"kafka_header"` is a string, which the provers cannot see.

### Getting in

`PassInv` is what is so of each request by itself: a user is
only set for a token that was accepted, a handler is only reached behind its
authorizer, and a route that was found is there, so the hooks before it have run.
`OnlyAuthorized` follows since a token that was accepted is `Genuine`, and whom the layer
allows is `Entitled` or `TakenForNamed`. For `GoodIsServed` the cache must not be without the
key of the token: `CacheInv` says that it is empty or has the issuer's keys, unless these
have changed or the issuer has failed. The rest of `RefuseInv` (`Guarded`) is about the
start: a request that finds a route of datasets meets the middleware too, though it looks
for the route first, so nobody is refused for want of a user the middleware would have
set. For the two properties about reloads, `SeenInv` ties what a handler has looked up
so far, and what it answers, to the configurations in `seen`.

### Only model-checked

- Liveness, which TLAPS's provers do not handle with fairness: `RequestEnds`, `CaughtUp`,
  `ConfigConverges`, `TopicsCreated`, `Answered`, `KeysLearned`.
- The properties that a run refutes.

## 5. What is not modelled

- Two clients on one dataset, which `src/README.md:178` rules out.
- Messages a consumer has prefetched when it is thrown out of the group and that
  it delivers before it notices.
- A topic that is not in the metadata (then nothing is committed), and offsets
  committed beyond the end of the log or before its start by retention.
- Retries within kafka-go and librdkafka, which may send a message twice.
- What becomes of messages that have been sent to Kafka: the writer asks for no
  acknowledgement, and nothing in the layer depends on it.
- Errors from `Poll` other than that all brokers are down (`consumer.go:250-260`). They
  change nothing and are not counted as empty polls, so that an endless stream of them
  would keep a request without messages for ever; `RequestEnds` rests on there being none.
- That a consumer whose `NewDecoder` fails is never closed: it has not subscribed.
- A payload that does not start with its context: its first value is taken for it.
- The process being ended by `MapRace` in the middle of a write. The requests it cuts off
  are answered by nobody, which `Answered` excepts.
- Which text a subject is, and how it can come to be in a URI: only the three `Places`.
- Two contents with the same digest, or a digest equal to that of nothing.
- What the decoders compute (Avro and protobuf are libraries, JSON is taken as it is),
  and what `StripProps` makes of names, but for whether it panics.
- The formatting of ids and references, and gjson's modifiers, wildcards and queries
  in a mapping's `path`.
- CORS preflight requests, signatures and dates of tokens (the JWT library's), and
  `SigningKey`, which nobody calls.
- The goroutine that decodes a payload staying blocked when a batch cannot be written
  (`parser.go:11`): no request is affected by it.
- What echo does inside while a hook adds a route or middleware and a request looks for
  one: a hook is one step, and what it adds is there for whoever comes later.
- `conf/logger.go`, `statsd.go`, `environment.go`, `config.go`, `loggerfilter.go`: output, and
  settings that are read once.

## 6. Plan

Done: the modules above, in the order in which they are listed, since reading is
the core of the system; then encoding, the token of the source, and the way of a
request into the layer.

Proved since: all safety invariants and action properties that a run checks, and the
refinement. What is left to TLC is liveness.

Next:

1. Lemmas about `Continuation`, to be cited where the proofs unfold it.
2. A finer `Reload` in `Producer` and `Web`: the configuration manager itself, composed by
   `INSTANCE`, instead of what it does to them.
