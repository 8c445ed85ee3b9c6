-------------------------------- MODULE Web ---------------------------------
(***************************************************************************)
(* The way of a request through the web server (internal/web), from the    *)
(* start of the server on.                                                 *)
(*                                                                         *)
(* The hooks of the application run one after the other.  The first opens  *)
(* the socket, and a request that comes while the others run finds those   *)
(* routes and that middleware that are there already: the route first,     *)
(* then the middleware.  With the middleware it has to show a token that   *)
(* is signed with a key of the issuer; those keys are cached, and change.  *)
(* A handler then looks the dataset up, more than once, in a configuration *)
(* that can be replaced in between.                                        *)
(***************************************************************************)
EXTENDS Integers, Sequences, FiniteSets

CONSTANTS
  Requests,       \* requests at one time
  Datasets,
  Configs,        \* configurations: [producers, consumers], sets of datasets
  Keys,           \* keys the issuer of tokens may sign with
  NoCertificate,  \* those it publishes without a certificate
  Tokens,         \* [key, iss, aud, alg, machine, scope, adm, subject]: the claims of
                  \* a token; its scope is the parts of that claim between commas, a
                  \* set of names each; does it have a subject
  NoToken,        \* no Authorization header, or no bearer token
  MaxReloads,     \* bound: reloads of the configuration
  MaxRotations,   \* bound: changes of the issuer's keys
  MaxFaults       \* bound: answers of the issuer without its keys

ASSUME WebAssumption ==
  /\ Configs \subseteq [producers : SUBSET Datasets, consumers : SUBSET Datasets]
  /\ Datasets # {}
  /\ NoToken \notin Tokens
  /\ \A t \in Tokens : {t.machine, t.adm, t.subject} \subseteq BOOLEAN /\ 1 \in DOMAIN t.scope
  /\ NoCertificate \subseteq Keys
  /\ {MaxReloads, MaxRotations, MaxFaults} \subseteq Nat

VARIABLES
  noop,           \* env.Auth.Middleware = "noop"
  hook,           \* how many hooks have run
  listening,      \* is the socket open
  stopping,       \* has a hook failed
  config, reloads,
  keys, rotations,  \* what the issuer publishes
  cached, jwks,   \* is it cached, and what the cache has
  faults,
  req             \* the requests

appVars    == <<noop, hook, listening, stopping>>
configVars == <<config, reloads>>
issuerVars == <<keys, rotations>>
keyVars    == <<issuerVars, cached, jwks, faults>>
vars == <<appVars, configVars, keyVars, req>>

\* Seeded fault: the middleware comes after the routes.
MiddlewareLast == <<"server", "list", "topics", "write", "read", "middleware">>

\* The hooks in the order in which the objects are made that the handlers need.
Hooks == <<"server", "middleware", "list", "topics", "write", "read">>

Kinds == {"health", "list", "write", "read"}

\* Where in the URI of a request the subject of its token is: a piece of the path,
\* some other part of the text, or nowhere.
Places == {"piece", "part", "nowhere"}

Idle == [pc |-> "idle", kind |-> "health", token |-> NoToken, place |-> "nowhere", dataset |-> CHOOSE d \in Datasets : TRUE,
         found |-> FALSE, user |-> FALSE, answer |-> "none",
         seen |-> {}, posts |-> {}, listing |-> {}]

TypeOK ==
  /\ noop \in BOOLEAN
  /\ hook \in 0..Len(Hooks)
  /\ listening \in BOOLEAN
  /\ stopping \in BOOLEAN
  /\ config \in Configs /\ reloads \in 0..MaxReloads
  /\ keys \subseteq Keys /\ rotations \in 0..MaxRotations
  /\ cached \in BOOLEAN /\ jwks \subseteq Keys /\ faults \in 0..MaxFaults
  /\ req \in [Requests ->
       [pc : {"idle", "find", "enter", "jwt", "route", "answered",
              "list", "list2", "write", "read", "context", "changes"},
        kind : Kinds, token : Tokens \cup {NoToken}, place : Places, dataset : Datasets, found : BOOLEAN,
        user : BOOLEAN, answer : {"none", "200", "400", "401", "403", "404", "500", "broken", "empty"},
        seen : SUBSET Configs, posts : SUBSET Datasets,
        listing : SUBSET (Datasets \X SUBSET {"GET", "POST"})]]

Init ==
  /\ noop \in BOOLEAN
  /\ hook = 0
  /\ listening = FALSE
  /\ stopping = FALSE
  /\ config \in Configs /\ reloads = 0
  /\ keys \in SUBSET Keys \ {{}} /\ rotations = 0
  /\ cached = FALSE /\ jwks = {} /\ faults = 0
  /\ req = [r \in Requests |-> Idle]

-----------------------------------------------------------------------------
(***************************************************************************)
(* The start                                                               *)
(***************************************************************************)

Done(h) == \E i \in 1..hook : Hooks[i] = h

\* Seeded fault: one hook too many.
RunHookPastEnd ==
  /\ ~stopping
  /\ hook <= Len(Hooks)
  /\ hook' = hook + 1
  /\ UNCHANGED <<noop, listening, stopping, configVars, keyVars, req>>

RunHook ==
  /\ ~stopping
  /\ hook < Len(Hooks)
  /\ hook' = hook + 1
  /\ UNCHANGED <<noop, listening, stopping, configVars, keyVars, req>>

\* The application stops again, and the server first answers who is there.
TopicsFail ==
  /\ ~stopping
  /\ hook < Len(Hooks) /\ Hooks[hook + 1] = "topics"
  /\ stopping' = TRUE
  /\ listening' = FALSE
  /\ UNCHANGED <<noop, hook, configVars, keyVars, req>>

\* The goroutine of the hook "server".
Listen ==
  /\ Done("server") /\ ~listening /\ ~stopping
  /\ listening' = TRUE
  /\ UNCHANGED <<noop, hook, stopping, configVars, keyVars, req>>

-----------------------------------------------------------------------------
(***************************************************************************)
(* The environment                                                         *)
(***************************************************************************)

\* The configuration manager puts another configuration in place.
Reload ==
  /\ reloads < MaxReloads
  /\ reloads' = reloads + 1
  /\ config' \in Configs \ {config}
  /\ req' = [r \in Requests |-> [req[r] EXCEPT !.seen = IF @ = {} THEN @ ELSE @ \cup {config'}]]
  /\ UNCHANGED <<appVars, keyVars>>

Rotate ==
  /\ rotations < MaxRotations
  /\ rotations' = rotations + 1
  /\ keys' \in SUBSET Keys \ {{}, keys}
  /\ UNCHANGED <<appVars, configVars, cached, jwks, faults, req>>

\* What the issuer answers is taken for its keys whatever the status is: JSON that
\* has none gives no error, but no keys either.
LoadKeys ==
  /\ cached' = TRUE
  /\ \/ jwks' = keys /\ UNCHANGED faults
     \/ jwks' = {} /\ faults < MaxFaults /\ faults' = faults + 1

\* Seeded fault: keys are not loaded again.
NeverRefresh == FALSE /\ UNCHANGED vars

\* An access after 60 seconds starts a load in the background.  Where it fails the
\* old keys stay.
Refresh ==
  /\ cached
  /\ LoadKeys
  /\ UNCHANGED <<appVars, configVars, issuerVars, req>>

\* The keys have not been needed for 10 seconds.
Expire ==
  /\ cached
  /\ cached' = FALSE
  /\ jwks' = {}
  /\ UNCHANGED <<appVars, configVars, issuerVars, faults, req>>

-----------------------------------------------------------------------------
(***************************************************************************)
(* The way to the handler                                                  *)
(***************************************************************************)

To(r, pc) == req' = [req EXCEPT ![r].pc = pc]
Answer(r, code) == req' = [req EXCEPT ![r].pc = "answered", ![r].answer = code]
Only == UNCHANGED <<appVars, configVars, keyVars>>

Arrive(r) ==
  /\ listening
  /\ req[r].pc \in {"idle", "answered"}
  /\ \E kind \in Kinds, t \in IF noop THEN {NoToken} ELSE Tokens \cup {NoToken},
        d \in Datasets, place \in Places :
       /\ kind # "read" => d = Idle.dataset
       /\ t = NoToken \/ ~t.subject => place = Idle.place
       /\ req' = [req EXCEPT ![r] = [Idle EXCEPT !.pc = "find", !.kind = kind, !.dataset = d,
                                                 !.token = t, !.place = place]]
  /\ Only

Find(r) ==
  /\ req[r].pc = "find"
  /\ req' = [req EXCEPT ![r].pc = "enter", ![r].found = req[r].kind = "health" \/ Done(req[r].kind)]
  /\ Only

\* The skipper lets a request for /health through.
Enter(r) ==
  /\ req[r].pc = "enter"
  /\ To(r, IF Done("middleware") /\ ~noop /\ req[r].kind # "health" THEN "jwt" ELSE "route")
  /\ Only

\* The first request, and one after the keys have expired, waits for them.
JwtLoad(r) ==
  /\ req[r].pc = "jwt" /\ req[r].token # NoToken /\ ~cached
  /\ \/ LoadKeys /\ UNCHANGED req
     \/ faults < MaxFaults /\ faults' = faults + 1 /\ Answer(r, "401") /\ UNCHANGED <<cached, jwks>>
  /\ UNCHANGED <<appVars, configVars, issuerVars>>

\* Seeded fault: a check that succeeds makes the error of an earlier one forgotten.
LastCheckWins(t) == t.alg = "RS256"

\* Audience and issuer are those of auth0 or those of the own token service,
\* depending on who says to be the issuer; a token without them passes.
ClaimsMatch(t) ==
  LET side == IF t.iss = "auth0" THEN "auth0" ELSE "own"
  IN t.aud \in {side, "none"} /\ t.iss \in {side, "none"} /\ t.alg = "RS256"

\* getPemCert.  A key without certificate panics, outside of the recovering middleware.
CertOf(t) ==
  CASE t.key \notin jwks -> "none"
    [] t.key \in jwks \cap NoCertificate -> "panic"
    [] t.key \in jwks \ NoCertificate -> "cert"

Jwt(r) ==
  LET t == req[r].token IN
  /\ req[r].pc = "jwt"
  /\ \/ t = NoToken /\ Answer(r, "401")
     \/ /\ t # NoToken /\ cached
        /\ \/ CertOf(t) = "none" /\ Answer(r, "401")
           \/ CertOf(t) = "panic" /\ Answer(r, "broken")
           \/ CertOf(t) = "cert" /\ ~ClaimsMatch(t) /\ Answer(r, "401")
           \/ CertOf(t) = "cert" /\ ClaimsMatch(t)
              /\ req' = [req EXCEPT ![r].pc = "route", ![r].user = TRUE]
  /\ Only

Scope(kind) == IF kind = "write" THEN "datahub:w" ELSE "datahub:r"

\* Is the subject in the URI?  (strings.Index, which finds an empty one everywhere.)
InUri(t, place) == ~t.subject \/ place # "nowhere"

\* Authorize: an application needs the scope of the route, in the first part of the
\* claim; a user has to be an administrator or to be in the URI.
Allowed(t, kind, place) ==
  IF t.machine THEN Scope(kind) \in t.scope[1] ELSE t.adm \/ InUri(t, place)

\* Seeded fault: everybody who has a token may do everything.
AnyUser(r) == noop \/ req[r].user

\* Without the middleware no user has been set.
Authorized(r) == noop \/ (req[r].user /\ Allowed(req[r].token, req[r].kind, req[r].place))

Route(r) ==
  /\ req[r].pc = "route"
  /\ \/ ~req[r].found /\ Answer(r, "404")
     \/ req[r].found /\ req[r].kind = "health" /\ Answer(r, "200")
     \/ req[r].found /\ req[r].kind # "health" /\ ~Authorized(r) /\ Answer(r, "403")
     \/ /\ req[r].found /\ req[r].kind # "health" /\ Authorized(r)
        /\ req' = [req EXCEPT ![r].pc = req[r].kind, ![r].seen = {config}]
  /\ Only

-----------------------------------------------------------------------------
(***************************************************************************)
(* The handlers                                                            *)
(***************************************************************************)

\* Seeded fault: a dataset that has consumers is not listed for its producers.
ListingOfOneType(posts, gets) ==
  {<<d, IF d \in gets THEN {"GET"} ELSE {"POST"}>> : d \in posts \cup gets}

Listing(posts, gets) ==
  {<<d, {m \in {"GET", "POST"} : d \in IF m = "GET" THEN gets ELSE posts}>> : d \in posts \cup gets}

ListProducers(r) ==
  /\ req[r].pc = "list"
  /\ req' = [req EXCEPT ![r].pc = "list2", ![r].posts = config.producers]
  /\ Only

ListConsumers(r) ==
  /\ req[r].pc = "list2"
  /\ req' = [req EXCEPT ![r].pc = "answered", ![r].answer = "200",
                        ![r].listing = Listing(req[r].posts, config.consumers)]
  /\ Only

\* Seeded fault: the dataset is looked for among those that are written.
Writable(d) == d \in config.producers

Readable(d) == d \in config.consumers

\* consume: does the dataset exist, its context, and the request of its changes
\* (ChangeSet).  Without a configuration the second panics, after the status has
\* been sent; the third leaves the response without a continuation.
Exists(r) ==
  /\ req[r].pc = "read"
  /\ IF Readable(req[r].dataset) THEN To(r, "context") ELSE Answer(r, "404")
  /\ Only

Context(r) ==
  /\ req[r].pc = "context"
  /\ IF Readable(req[r].dataset) THEN To(r, "changes") ELSE Answer(r, "broken")
  /\ Only

Changes(r) ==
  /\ req[r].pc = "changes"
  /\ Answer(r, IF Readable(req[r].dataset) THEN "200" ELSE "empty")
  /\ Only

\* produce, which is Producer.
Write(r) ==
  /\ req[r].pc = "write"
  /\ \E code \in {"200", "400", "500"} : Answer(r, code)
  /\ Only

Handle(r) ==
  \/ ListProducers(r) \/ ListConsumers(r)
  \/ Exists(r) \/ Context(r) \/ Changes(r)
  \/ Write(r)

Serve(r) == Find(r) \/ Enter(r) \/ JwtLoad(r) \/ Jwt(r) \/ Route(r) \/ Handle(r)

Next ==
  \/ RunHook \/ TopicsFail \/ Listen
  \/ Reload \/ Rotate \/ Refresh \/ Expire
  \/ \E r \in Requests : Arrive(r) \/ Serve(r)

\* Requests are served, and the cache is accessed again and again.
Spec == Init /\ [][Next]_vars /\ WF_vars(Refresh) /\ \A r \in Requests : WF_vars(Serve(r))

-----------------------------------------------------------------------------
(***************************************************************************)
(* Properties                                                              *)
(***************************************************************************)

InHandler(r) == req[r].pc \in {"list", "list2", "write", "read", "context", "changes"}

\* The token is one of the issuer's, for this layer.
Genuine(t) ==
  /\ t # NoToken
  /\ t.key \in Keys \ NoCertificate
  /\ <<t.iss, t.aud>> \in ({"own", "none"} \X {"own", "none"}) \cup ({"auth0"} \X {"auth0", "none"})
  /\ t.alg = "RS256"

\* An application has been given the scope of the route, wherever in its claim; a
\* user is an administrator, or the path names him.
Entitled(t, kind, place) ==
  \/ t.machine /\ kind = "write" /\ \E i \in DOMAIN t.scope : "datahub:w" \in t.scope[i]
  \/ t.machine /\ kind # "write" /\ \E i \in DOMAIN t.scope : "datahub:r" \in t.scope[i]
  \/ ~t.machine /\ t.adm
  \/ ~t.machine /\ t.subject /\ place = "piece"

\* The layer looks for a user by the text of the URI only: it also takes one without
\* a subject, and one whose subject is there by chance.
TakenForNamed(t, place) == ~t.machine /\ (~t.subject \/ place = "part")

\* The scope comes after a comma of its claim, where the layer does not look.
AfterComma(t, kind) ==
  t.machine /\ (IF kind = "write" THEN "datahub:w" ELSE "datahub:r") \notin t.scope[1]

\* A handler of datasets only runs for a request with a genuine token, of an
\* application or user entitled to it or of a user the layer takes for named, also
\* for a request that comes while the application still starts.
\* (middleware.go:59-68, auth0.go:89-160, authorization.go:12-55)
OnlyAuthorized ==
  \A r \in Requests : InHandler(r) =>
    \/ noop
    \/ /\ Genuine(req[r].token)
       /\ \/ Entitled(req[r].token, req[r].kind, req[r].place)
          \/ TakenForNamed(req[r].token, req[r].place)

\* A request that needs no token, or has one that is genuine and entitles to it.
MayPass(r) ==
  \/ noop
  \/ req[r].kind = "health"
  \/ Genuine(req[r].token) /\ Entitled(req[r].token, req[r].kind, req[r].place)

\* A request that may pass is not refused, unless the issuer has changed its keys
\* or failed to give them, or the scope comes after a comma: not while the
\* application starts either, when there is no route yet, or the route is there and
\* the middleware has to be.
\* (web.go:35-42, middleware.go:49-68, auth0.go:40-42, authorization.go:24-27)
GoodIsServed ==
  \A r \in Requests :
    req[r].answer \in {"401", "403"} /\ MayPass(r) =>
      \/ rotations + faults > 0
      \/ req[r].token # NoToken /\ req[r].token.key \notin keys
      \/ req[r].token # NoToken /\ AfterComma(req[r].token, req[r].kind)

\* What /datasets says of a dataset was so at some time while it was asked, and
\* what was so all the time it says, though the two halves of the listing can be
\* of two configurations.  (datasethandler.go:41-65)
ListingIsOfTheTime ==
  \A r \in Requests : req[r].kind = "list" /\ req[r].answer = "200" =>
    \A d \in Datasets :
      LET posts == \E l \in req[r].listing : l[1] = d /\ "POST" \in l[2]
          gets  == \E l \in req[r].listing : l[1] = d /\ "GET" \in l[2]
      IN /\ posts => \E c \in req[r].seen : d \in c.producers
         /\ gets  => \E c \in req[r].seen : d \in c.consumers
         /\ (\A c \in req[r].seen : d \in c.producers) => posts
         /\ (\A c \in req[r].seen : d \in c.consumers) => gets

\* A reload does not disturb the read of a dataset that both configurations have.
\* (consumerhandler.go:51-71, consumer.go:77-119)
StableIsServed ==
  \A r \in Requests :
    /\ req[r].kind = "read" /\ req[r].pc = "answered" /\ req[r].seen # {}
    /\ \A c \in req[r].seen : req[r].dataset \in c.consumers
    => req[r].answer = "200"

\* The layer comes to know the keys the issuer stays with.  (auth0.go:66-87)
KeysLearned ==
  \A k \in Keys :
    /\ <>[](k \in keys) => []<>(~cached \/ k \in jwks)
    /\ <>[](k \notin keys) => []<>(~cached \/ k \notin jwks)

=============================================================================
