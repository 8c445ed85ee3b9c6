----------------------------- MODULE WebProofs ------------------------------
(***************************************************************************)
(* Proofs about Web, for any requests, tokens, keys and configurations:    *)
(* its types, who gets to a handler and who is refused, and what reads and *)
(* the listing see of a configuration that is replaced under them.         *)
(***************************************************************************)
EXTENDS Web, TLAPS

Pcs == {"idle", "find", "enter", "jwt", "route", "answered",
        "list", "list2", "write", "read", "context", "changes"}
Answers == {"none", "200", "400", "401", "403", "404", "500", "broken", "empty"}
Listings == SUBSET (Datasets \X SUBSET {"GET", "POST"})

RequestType ==
  [pc : Pcs, kind : Kinds, token : Tokens \cup {NoToken}, place : Places, dataset : Datasets, found : BOOLEAN,
   user : BOOLEAN, answer : Answers, seen : SUBSET Configs, posts : SUBSET Datasets, listing : Listings]

-----------------------------------------------------------------------------
(***************************************************************************)
(* Types                                                                   *)
(***************************************************************************)

LEMMA IdleType == Idle \in RequestType
BY WebAssumption DEF Idle, RequestType, Kinds, Places, Pcs, Answers, Listings

\* A step that changes one request and keeps its type keeps all types.
LEMMA OneRequest ==
  ASSUME req \in [Requests -> RequestType], NEW r \in Requests, NEW new \in RequestType,
         req' = [req EXCEPT ![r] = new]
  PROVE  req' \in [Requests -> RequestType]
OBVIOUS

\* The middleware and the handlers do so.
LEMMA AnswerType ==
  ASSUME req \in [Requests -> RequestType], NEW r \in Requests, NEW code \in Answers,
         Answer(r, code)
  PROVE  req' \in [Requests -> RequestType]
<1>1. "answered" \in Pcs
  BY DEF Pcs
<1>2. [req[r] EXCEPT !.pc = "answered", !.answer = code] \in RequestType
  BY <1>1 DEF RequestType
<1>3. req' = [req EXCEPT ![r] = [req[r] EXCEPT !.pc = "answered", !.answer = code]]
  BY DEF Answer
<1>4. QED
  BY <1>2, <1>3, OneRequest

LEMMA ToType ==
  ASSUME req \in [Requests -> RequestType], NEW r \in Requests, NEW pc \in Pcs, To(r, pc)
  PROVE  req' \in [Requests -> RequestType]
BY DEF To, RequestType

LEMMA ListingType ==
  ASSUME NEW posts \in SUBSET Datasets, NEW gets \in SUBSET Datasets
  PROVE  Listing(posts, gets) \in Listings
BY DEF Listing, Listings

LEMMA ServeType ==
  ASSUME req \in [Requests -> RequestType], config \in Configs,
         NEW r \in Requests, Serve(r)
  PROVE  req' \in [Requests -> RequestType]
<1>1. CASE Find(r)
  <2>1. "enter" \in Pcs
    BY DEF Pcs
  <2>2. (req[r].kind = "health" \/ Done(req[r].kind)) \in BOOLEAN
    BY DEF Done
  <2>3. [req[r] EXCEPT !.pc = "enter", !.found = req[r].kind = "health" \/ Done(req[r].kind)] \in RequestType
    BY <2>1, <2>2 DEF RequestType
  <2>4. QED
    BY <1>1, <2>3, OneRequest DEF Find
<1>2. CASE Enter(r)
  BY <1>2, ToType DEF Enter, Pcs
<1>3. CASE JwtLoad(r)
  BY <1>3, AnswerType DEF JwtLoad, Answers
<1>4. CASE Jwt(r)
  <2>1. CASE \E code \in {"401", "broken"} : Answer(r, code)
    BY <2>1, AnswerType DEF Answers
  <2>2. CASE req' = [req EXCEPT ![r].pc = "route", ![r].user = TRUE]
    <3>1. "route" \in Pcs
      BY DEF Pcs
    <3>2. [req[r] EXCEPT !.pc = "route", !.user = TRUE] \in RequestType
      BY <3>1 DEF RequestType
    <3>3. QED
      BY <2>2, <3>2, OneRequest
  <2>3. QED
    BY <1>4, <2>1, <2>2 DEF Jwt
<1>5. CASE Route(r)
  <2>1. CASE \E code \in {"404", "200", "403"} : Answer(r, code)
    BY <2>1, AnswerType DEF Answers
  <2>2. CASE /\ req[r].kind # "health"
             /\ req' = [req EXCEPT ![r].pc = req[r].kind, ![r].seen = {config}]
    <3>1. req[r].kind \in Pcs /\ {config} \in SUBSET Configs
      BY <2>2 DEF RequestType, Kinds, Pcs
    <3>2. [req[r] EXCEPT !.pc = req[r].kind, !.seen = {config}] \in RequestType
      BY <3>1 DEF RequestType
    <3>3. QED
      BY <2>2, <3>2, OneRequest
  <2>3. QED
    BY <1>5, <2>1, <2>2 DEF Route
<1>6. CASE ListProducers(r)
  <2>1. config.producers \in SUBSET Datasets /\ "list2" \in Pcs
    BY WebAssumption DEF Pcs
  <2>2. [req[r] EXCEPT !.pc = "list2", !.posts = config.producers] \in RequestType
    BY <2>1 DEF RequestType
  <2>3. QED
    BY <1>6, <2>2, OneRequest DEF ListProducers
<1>7. CASE ListConsumers(r)
  <2>1. config.consumers \in SUBSET Datasets /\ req[r].posts \in SUBSET Datasets
    BY WebAssumption DEF RequestType
  <2>2. Listing(req[r].posts, config.consumers) \in Listings /\ "answered" \in Pcs /\ "200" \in Answers
    BY <2>1, ListingType DEF Pcs, Answers
  <2>3. [req[r] EXCEPT !.pc = "answered", !.answer = "200",
                       !.listing = Listing(req[r].posts, config.consumers)] \in RequestType
    BY <2>2 DEF RequestType
  <2>4. QED
    BY <1>7, <2>3, OneRequest DEF ListConsumers
<1>8. CASE Exists(r) \/ Context(r) \/ Changes(r)
  BY <1>8, ToType, AnswerType DEF Exists, Context, Changes, Pcs, Answers
<1>9. CASE Write(r)
  BY <1>9, AnswerType DEF Write, Answers
<1>10. QED
  BY <1>1, <1>2, <1>3, <1>4, <1>5, <1>6, <1>7, <1>8, <1>9 DEF Serve, Handle

LEMMA ArriveType ==
  ASSUME req \in [Requests -> RequestType], NEW r \in Requests, Arrive(r)
  PROVE  req' \in [Requests -> RequestType]
<1>1. PICK kind \in Kinds, t \in Tokens \cup {NoToken}, d \in Datasets, place \in Places :
        req' = [req EXCEPT ![r] = [Idle EXCEPT !.pc = "find", !.kind = kind, !.dataset = d,
                                               !.token = t, !.place = place]]
  BY DEF Arrive
<1>2. [Idle EXCEPT !.pc = "find", !.kind = kind, !.dataset = d, !.token = t, !.place = place] \in RequestType
  <2>1. "find" \in Pcs
    BY DEF Pcs
  <2>2. QED
    BY <2>1, IdleType DEF RequestType
<1>3. QED
  BY <1>1, <1>2, OneRequest

LEMMA ReloadType ==
  ASSUME req \in [Requests -> RequestType], Reload
  PROVE  req' \in [Requests -> RequestType]
<1>1. SUFFICES ASSUME NEW r \in Requests
               PROVE  [req[r] EXCEPT !.seen = IF @ = {} THEN @ ELSE @ \cup {config'}] \in RequestType
  BY DEF Reload
<1>2. config' \in Configs
  BY DEF Reload
<1>3. QED
  BY <1>2 DEF RequestType

\* The types of the variables but req.
OtherTypes ==
  /\ noop \in BOOLEAN
  /\ hook \in 0..Len(Hooks)
  /\ listening \in BOOLEAN
  /\ stopping \in BOOLEAN
  /\ config \in Configs /\ reloads \in 0..MaxReloads
  /\ keys \subseteq Keys /\ rotations \in 0..MaxRotations
  /\ cached \in BOOLEAN /\ jwks \subseteq Keys /\ faults \in 0..MaxFaults

LEMMA TypesTogether == TypeOK <=> OtherTypes /\ req \in [Requests -> RequestType]
BY DEF TypeOK, OtherTypes, RequestType, Pcs, Answers, Listings

LEMMA HookCount == Len(Hooks) = 6
BY DEF Hooks

LEMMA Bounds == MaxReloads \in Nat /\ MaxRotations \in Nat /\ MaxFaults \in Nat
BY WebAssumption

\* A load of the keys, whatever comes of it, gives keys.
LEMMA LoadType ==
  ASSUME OtherTypes, LoadKeys
  PROVE  cached' \in BOOLEAN /\ jwks' \subseteq Keys /\ faults' \in 0..MaxFaults
BY Bounds DEF LoadKeys, OtherTypes

\* What a request does to the rest: it may load keys.
LEMMA ServeOthers ==
  ASSUME OtherTypes, NEW r \in Requests, Serve(r)
  PROVE  OtherTypes'
<1>1. CASE JwtLoad(r)
  <2>1. cached' \in BOOLEAN /\ jwks' \subseteq Keys /\ faults' \in 0..MaxFaults
    BY <1>1, LoadType, Bounds DEF JwtLoad, OtherTypes
  <2>2. QED
    BY <1>1, <2>1 DEF JwtLoad, OtherTypes, appVars, configVars, issuerVars
<1>2. CASE Only
  BY <1>2 DEF Only, OtherTypes, appVars, configVars, keyVars, issuerVars
<1>3. QED
  BY <1>1, <1>2
  DEF Serve, Handle, Find, Enter, Jwt, Route, ListProducers, ListConsumers, Exists, Context, Changes, Write

\* The variables always have their types: no more hooks run than there are, and the
\* cache only ever holds keys, whatever the issuer answers.  (web.go, middleware.go)
THEOREM TypeCorrect == Spec => []TypeOK
<1>1. Init => TypeOK
  <2>1. Init => hook \in 0..Len(Hooks) /\ reloads \in 0..MaxReloads
               /\ rotations \in 0..MaxRotations /\ faults \in 0..MaxFaults
    BY HookCount, Bounds DEF Init
  <2>2. Init => OtherTypes
    BY <2>1, Zenon DEF Init, OtherTypes
  <2>3. Init => req \in [Requests -> RequestType]
    BY IdleType DEF Init
  <2>4. QED
    BY <2>2, <2>3, TypesTogether
<1>2. TypeOK /\ [Next]_vars => TypeOK'
  <2> SUFFICES ASSUME OtherTypes, req \in [Requests -> RequestType], [Next]_vars
               PROVE  OtherTypes' /\ req' \in [Requests -> RequestType]
    BY TypesTogether DEF TypeOK, OtherTypes, RequestType, Pcs, Answers, Listings
  <2>1. CASE RunHook \/ TopicsFail \/ Listen
    <3>1. hook' \in 0..Len(Hooks)
      BY <2>1, HookCount DEF RunHook, TopicsFail, Listen, OtherTypes
    <3>2. UNCHANGED <<noop, config, reloads, keys, rotations, cached, jwks, faults, req>>
      BY <2>1 DEF RunHook, TopicsFail, Listen, configVars, keyVars, issuerVars
    <3>3. listening' \in BOOLEAN /\ stopping' \in BOOLEAN
      BY <2>1, Zenon DEF RunHook, TopicsFail, Listen, OtherTypes
    <3>4. QED
      BY <3>1, <3>2, <3>3 DEF OtherTypes
  <2>2. CASE Reload
    <3>1. OtherTypes'
      BY <2>2, Bounds DEF Reload, OtherTypes, appVars, keyVars, issuerVars
    <3>2. QED
      BY <2>2, <3>1, ReloadType
  <2>3. CASE Rotate
    BY <2>3, Bounds DEF Rotate, OtherTypes, appVars, configVars
  <2>4. CASE Refresh \/ Expire
    BY <2>4, LoadType DEF Refresh, Expire, OtherTypes, appVars, configVars, issuerVars
  <2>5. ASSUME NEW r \in Requests, Arrive(r)
        PROVE  OtherTypes' /\ req' \in [Requests -> RequestType]
    <3>1. OtherTypes'
      BY <2>5 DEF Arrive, Only, OtherTypes, appVars, configVars, keyVars, issuerVars
    <3>2. QED
      BY <2>5, <3>1, ArriveType
  <2>6. ASSUME NEW r \in Requests, Serve(r)
        PROVE  OtherTypes' /\ req' \in [Requests -> RequestType]
    BY <2>6, ServeOthers, ServeType DEF OtherTypes
  <2>7. CASE UNCHANGED vars
    BY <2>7 DEF vars, OtherTypes, appVars, configVars, keyVars, issuerVars
  <2>8. QED
    BY <2>1, <2>2, <2>3, <2>4, <2>5, <2>6, <2>7 DEF Next
<1>3. QED
  BY <1>1, <1>2, PTL DEF Spec

-----------------------------------------------------------------------------
(***************************************************************************)
(* Who gets to a handler, and when                                         *)
(***************************************************************************)

\* The user is only set for a request with a token the layer accepts.
Accepted(t) ==
  /\ t # NoToken
  /\ t.key \in Keys \ NoCertificate
  /\ ClaimsMatch(t)

\* What is so of one request: its user is one, it is in a handler behind the
\* authorizer, and it has found its route when that was there.
Passed(r) ==
  /\ req[r].user => Accepted(req[r].token)
  /\ InHandler(r) => Authorized(r)
  /\ req[r].found => req[r].kind = "health" \/ Done(req[r].kind)
  /\ InHandler(r) => req[r].found /\ req[r].kind # "health"
  /\ req[r].pc = "write" => req[r].kind = "write"

PassInv == \A r \in Requests : Passed(r)

LEMMA GenuineIfAccepted ==
  ASSUME NEW t, Accepted(t)
  PROVE  Genuine(t)
<1>1. <<t.iss, t.aud>> \in ({"own", "none"} \X {"own", "none"}) \cup ({"auth0"} \X {"auth0", "none"})
  BY DEF Accepted, ClaimsMatch
<1>2. QED
  BY <1>1 DEF Genuine, Accepted, ClaimsMatch

\* Who is allowed is entitled, or a user taken for one that is.
LEMMA EntitledIfAllowed ==
  ASSUME NEW t \in Tokens, NEW kind \in Kinds, NEW place \in Places, Allowed(t, kind, place)
  PROVE  Entitled(t, kind, place) \/ TakenForNamed(t, place)
<1>1. {t.machine, t.adm, t.subject} \subseteq BOOLEAN /\ 1 \in DOMAIN t.scope
  BY WebAssumption
<1>2. CASE t.machine
  BY <1>1, <1>2 DEF Allowed, Entitled, Scope
<1>3. CASE ~t.machine
  BY <1>1, <1>3 DEF Allowed, InUri, Entitled, TakenForNamed, Places
<1>4. QED
  BY <1>1, <1>2, <1>3

\* Hooks that have run stay so.
LEMMA DoneKept ==
  ASSUME OtherTypes, NEW h, Done(h), hook' \in {hook, hook + 1}
  PROVE  Done(h)'
BY HookCount DEF OtherTypes, Done

\* What is so of a request stays so while it does nothing.
LEMMA PassedKept ==
  ASSUME NEW r \in Requests, Passed(r), noop' = noop,
         \A h \in Kinds : Done(h) => Done(h)', req[r].kind \in Kinds,
         /\ req'[r].pc = req[r].pc /\ req'[r].kind = req[r].kind
         /\ req'[r].token = req[r].token /\ req'[r].place = req[r].place
         /\ req'[r].user = req[r].user /\ req'[r].found = req[r].found
  PROVE  Passed(r)'
BY DEF Passed, InHandler, Authorized

\* A step of a request that stays in its part keeps what is so of it.
LEMMA PassedServe ==
  ASSUME OtherTypes, req \in [Requests -> RequestType], NEW r \in Requests,
         Passed(r), Serve(r), noop' = noop, hook' = hook
  PROVE  Passed(r)'
<1> USE DEF RequestType
<1>1. \A h : Done(h)' = Done(h)
  BY DEF Done
<1>2. CASE Find(r)
  <2>1. /\ req'[r].pc = "enter" /\ req'[r].user = req[r].user /\ req'[r].token = req[r].token /\ req'[r].place = req[r].place
        /\ req'[r].kind = req[r].kind
        /\ req'[r].found = (req[r].kind = "health" \/ Done(req[r].kind))
    BY <1>2 DEF Find
  <2>2. QED
    BY <1>1, <2>1 DEF Passed, InHandler, Accepted
<1>3. CASE Enter(r)
  BY <1>1, <1>3 DEF Enter, To, Passed, InHandler
<1>4. ASSUME NEW code, Answer(r, code) PROVE Passed(r)'
  BY <1>1, <1>4 DEF Answer, Passed, InHandler
<1>5. CASE JwtLoad(r)
  <2>1. CASE UNCHANGED req
    BY <1>1, <2>1 DEF Passed, InHandler, Authorized
  <2>2. QED
    BY <1>4, <1>5, <2>1 DEF JwtLoad
<1>6. CASE Jwt(r)
  <2>1. CASE /\ req[r].token # NoToken
             /\ CertOf(req[r].token) = "cert" /\ ClaimsMatch(req[r].token)
             /\ req' = [req EXCEPT ![r].pc = "route", ![r].user = TRUE]
    <3>1. Accepted(req[r].token)
      BY <2>1 DEF Accepted, CertOf, OtherTypes
    <3>2. QED
      BY <1>1, <2>1, <3>1 DEF Passed, InHandler
  <2>2. QED
    BY <1>4, <1>6, <2>1 DEF Jwt
<1>7. CASE Route(r)
  <2>1. CASE /\ req[r].found /\ req[r].kind # "health" /\ Authorized(r)
             /\ req' = [req EXCEPT ![r].pc = req[r].kind, ![r].seen = {config}]
    <3>1. /\ req'[r].pc = req[r].kind /\ req'[r].user = req[r].user /\ req'[r].token = req[r].token /\ req'[r].place = req[r].place
          /\ req'[r].kind = req[r].kind /\ req'[r].found = req[r].found
      BY <2>1
    <3>2. QED
      BY <1>1, <2>1, <3>1 DEF Passed, InHandler, Authorized
  <2>2. QED
    BY <1>4, <1>7, <2>1 DEF Route
<1>8. CASE ListProducers(r) \/ ListConsumers(r)
  BY <1>1, <1>8 DEF ListProducers, ListConsumers, Passed, InHandler, Authorized
<1>9. ASSUME NEW pc \in {"context", "changes"}, To(r, pc), InHandler(r) PROVE Passed(r)'
  BY <1>1, <1>9 DEF To, Passed, InHandler, Authorized
<1>10. CASE Exists(r) \/ Context(r) \/ Changes(r)
  BY <1>4, <1>9, <1>10 DEF Exists, Context, Changes, InHandler
<1>11. CASE Write(r)
  BY <1>4, <1>11 DEF Write
<1>12. QED
  BY <1>2, <1>3, <1>5, <1>6, <1>7, <1>8, <1>10, <1>11 DEF Serve, Handle

\* Of the two kinds of steps of a request, both leave the others alone.
LEMMA OthersKept ==
  ASSUME req \in [Requests -> RequestType], NEW r \in Requests, Arrive(r) \/ Serve(r),
         NEW q \in Requests \ {r}
  PROVE  req'[q] = req[q]
BY DEF Arrive, Serve, Handle, Find, Enter, JwtLoad, Jwt, Route, ListProducers, ListConsumers,
       Exists, Context, Changes, Write, Answer, To

LEMMA PassedStep ==
  ASSUME TypeOK, PassInv, [Next]_vars
  PROVE  PassInv'
<1>1. OtherTypes /\ req \in [Requests -> RequestType]
  BY TypesTogether
<1>2. \A r \in Requests : req[r].kind \in Kinds
  BY <1>1 DEF RequestType
<1>3. noop' = noop
  BY DEF Next, vars, RunHook, TopicsFail, Listen, Reload, Rotate, Refresh, Expire, Arrive, Serve, Handle,
         Find, Enter, JwtLoad, Jwt, Route, ListProducers, ListConsumers, Exists, Context, Changes, Write,
         Only, appVars
<1>4. hook' \in {hook, hook + 1}
  BY DEF Next, vars, RunHook, TopicsFail, Listen, Reload, Rotate, Refresh, Expire, Arrive, Serve, Handle,
         Find, Enter, JwtLoad, Jwt, Route, ListProducers, ListConsumers, Exists, Context, Changes, Write,
         Only, appVars
<1>5. \A h \in Kinds : Done(h) => Done(h)'
  BY <1>1, <1>4, DoneKept
<1>6. ASSUME NEW r \in Requests, req'[r] = req[r] PROVE Passed(r)'
  BY <1>2, <1>3, <1>5, <1>6, PassedKept DEF PassInv
<1>7. CASE UNCHANGED req
  BY <1>6, <1>7 DEF PassInv
<1>8. CASE Reload
  <2>1. ASSUME NEW r \in Requests
        PROVE  /\ req'[r].pc = req[r].pc /\ req'[r].kind = req[r].kind
               /\ req'[r].token = req[r].token /\ req'[r].place = req[r].place
               /\ req'[r].user = req[r].user /\ req'[r].found = req[r].found
    BY <1>1, <1>8 DEF Reload, RequestType
  <2>2. QED
    BY <1>2, <1>3, <1>5, <2>1, PassedKept DEF PassInv
<1>9. ASSUME NEW r \in Requests, Arrive(r) PROVE PassInv'
  <2>1. req'[r].pc = "find" /\ req'[r].user = FALSE /\ req'[r].found = FALSE
    BY <1>1, <1>9 DEF Arrive, Idle
  <2>2. Passed(r)'
    BY <2>1 DEF Passed, InHandler
  <2>3. QED
    BY <1>1, <1>6, <1>9, <2>2, OthersKept DEF PassInv
<1>10. ASSUME NEW r \in Requests, Serve(r) PROVE PassInv'
  <2>1. hook' = hook
    BY <1>10 DEF Serve, Handle, Find, Enter, JwtLoad, Jwt, Route, ListProducers, ListConsumers, Exists,
                 Context, Changes, Write, Only, appVars
  <2>2. Passed(r)'
    BY <1>1, <1>3, <1>10, <2>1, PassedServe DEF PassInv
  <2>3. QED
    BY <1>1, <1>6, <1>10, <2>2, OthersKept DEF PassInv
<1>11. QED
  BY <1>7, <1>8, <1>9, <1>10
  DEF Next, vars, RunHook, TopicsFail, Listen, Rotate, Refresh, Expire

LEMMA Passes == Spec => [](TypeOK /\ PassInv)
<1>1. Init => PassInv
  BY DEF Init, Idle, PassInv, Passed, InHandler
<1>2. QED
  BY <1>1, TypeCorrect, PassedStep, PTL DEF Spec

\* A handler of datasets only ever runs for a request with a genuine token that
\* entitles to it, or of a user taken for one it does, in whatever order requests,
\* hooks, changes of keys and loads of them come.
\* (middleware.go:59-68, auth0.go:89-160, authorization.go:12-55)
THEOREM Authorization == Spec => []OnlyAuthorized
<1>1. TypeOK /\ PassInv => OnlyAuthorized
  <2> SUFFICES ASSUME TypeOK, PassInv, NEW r \in Requests, InHandler(r), ~noop
               PROVE  /\ Genuine(req[r].token)
                      /\ \/ Entitled(req[r].token, req[r].kind, req[r].place)
                         \/ TakenForNamed(req[r].token, req[r].place)
    BY DEF OnlyAuthorized
  <2>1. req[r].kind \in Kinds /\ req[r].token \in Tokens \cup {NoToken} /\ req[r].place \in Places
    BY TypesTogether DEF RequestType
  <2>2. Accepted(req[r].token) /\ Allowed(req[r].token, req[r].kind, req[r].place)
    BY DEF PassInv, Passed, Authorized
  <2>3. req[r].token \in Tokens
    BY <2>1, <2>2 DEF Accepted
  <2>4. QED
    BY <2>1, <2>2, <2>3, GenuineIfAccepted, EntitledIfAllowed
<1>2. QED
  BY <1>1, Passes, PTL

-----------------------------------------------------------------------------
(***************************************************************************)
(* What a request sees of the configuration                                *)
(*                                                                         *)
(* The handlers look the configuration up more than once.  What they say   *)
(* is of a time while the request ran because every configuration they     *)
(* look at is among those it has seen, and because those are never         *)
(* forgotten.                                                              *)
(***************************************************************************)

Consuming(r) == req[r].pc \in {"read", "context", "changes"}

\* Where a request is, and what it has been answered, follows from its route.
OnRoute(r) ==
  /\ req[r].pc \in {"list", "list2"} => req[r].kind = "list"
  /\ Consuming(r) => req[r].kind = "read"
  /\ req[r].pc # "answered" => req[r].answer = "none"

\* A handler runs on the configurations the request has seen.
Sees(r) ==
  /\ InHandler(r) => config \in req[r].seen
  /\ ~InHandler(r) /\ req[r].pc # "answered" => req[r].seen = {}
  /\ req[r].pc = "list2" => \E c \in req[r].seen : req[r].posts = c.producers

\* So does the answer it has given.
Tells(r) ==
  /\ req[r].kind = "list" /\ req[r].answer = "200" =>
       \E c, d \in req[r].seen : req[r].listing = Listing(c.producers, d.consumers)
  /\ req[r].kind = "read" /\ req[r].pc = "answered" /\ req[r].seen # {} =>
       req[r].answer = "200" \/ \E c \in req[r].seen : req[r].dataset \notin c.consumers

Truthful(r) == OnRoute(r) /\ Sees(r) /\ Tells(r)

SeenInv == \A r \in Requests : Truthful(r)

\* More configurations seen disturb nothing, if the one in place is among them.
LEMMA TruthfulKept ==
  ASSUME NEW r \in Requests, Truthful(r),
         /\ req'[r].pc = req[r].pc /\ req'[r].kind = req[r].kind
         /\ req'[r].answer = req[r].answer /\ req'[r].dataset = req[r].dataset
         /\ req'[r].posts = req[r].posts /\ req'[r].listing = req[r].listing,
         \/ req'[r].seen = req[r].seen /\ (config' = config \/ req[r].seen = {})
         \/ req[r].seen # {} /\ req'[r].seen = req[r].seen \cup {config'}
  PROVE  Truthful(r)'
<1>1. OnRoute(r)'
  BY DEF Truthful, OnRoute, Consuming
<1>2. Sees(r)'
  BY DEF Truthful, Sees, InHandler
<1>3. Tells(r)'
  BY DEF Truthful, Tells, Listing
<1>4. QED
  BY <1>1, <1>2, <1>3 DEF Truthful

\* A request outside of the handlers goes on, or is answered, without having seen any.
LEMMA TruthfulBefore ==
  ASSUME NEW r \in Requests, Truthful(r), ~InHandler(r), req[r].pc # "answered",
         req'[r].kind = req[r].kind, req'[r].seen = req[r].seen,
         \/ /\ req'[r].pc \in {"enter", "jwt", "route"}
            /\ req'[r].answer = req[r].answer
         \/ req'[r].pc = "answered" /\ (req'[r].answer = "200" => req[r].kind = "health")
  PROVE  Truthful(r)'
BY DEF Truthful, OnRoute, Consuming, Sees, Tells, InHandler

\* A step of a request keeps what is so of it.
LEMMA TruthfulServe ==
  ASSUME req \in [Requests -> RequestType], NEW r \in Requests,
         Truthful(r), Passed(r), Serve(r), config' = config
  PROVE  Truthful(r)'
<1> USE DEF RequestType
<1>1. ASSUME NEW code, Answer(r, code)
      PROVE  /\ req'[r].pc = "answered" /\ req'[r].answer = code
             /\ req'[r].kind = req[r].kind /\ req'[r].dataset = req[r].dataset
             /\ req'[r].seen = req[r].seen
  BY <1>1 DEF Answer
<1>2. ASSUME NEW pc, To(r, pc)
      PROVE  /\ req'[r].pc = pc /\ req'[r].answer = req[r].answer
             /\ req'[r].kind = req[r].kind /\ req'[r].dataset = req[r].dataset
             /\ req'[r].seen = req[r].seen
  BY <1>2 DEF To
<1>3. CASE Find(r)
  <2>1. /\ req'[r].pc = "enter" /\ req'[r].answer = req[r].answer
        /\ req'[r].kind = req[r].kind /\ req'[r].seen = req[r].seen
    BY <1>3 DEF Find
  <2>2. QED
    BY <1>3, <2>1, TruthfulBefore DEF Find, InHandler
<1>4. CASE Enter(r)
  BY <1>2, <1>4, TruthfulBefore DEF Enter, InHandler
<1>5. CASE JwtLoad(r)
  <2>1. CASE UNCHANGED req
    BY <2>1, TruthfulKept
  <2>2. QED
    BY <1>1, <1>5, <2>1, TruthfulBefore DEF JwtLoad, InHandler
<1>6. CASE Jwt(r)
  <2>1. CASE req' = [req EXCEPT ![r].pc = "route", ![r].user = TRUE]
    <3>1. /\ req'[r].pc = "route" /\ req'[r].answer = req[r].answer
          /\ req'[r].kind = req[r].kind /\ req'[r].seen = req[r].seen
      BY <2>1
    <3>2. QED
      BY <1>6, <3>1, TruthfulBefore DEF Jwt, InHandler
  <2>2. QED
    BY <1>1, <1>6, <2>1, TruthfulBefore DEF Jwt, InHandler
<1>7. CASE Route(r)
  <2>1. CASE /\ req[r].found /\ req[r].kind # "health" /\ Authorized(r)
             /\ req' = [req EXCEPT ![r].pc = req[r].kind, ![r].seen = {config}]
    <3>1. /\ req'[r].pc = req[r].kind /\ req'[r].answer = req[r].answer
          /\ req'[r].kind = req[r].kind /\ req'[r].seen = {config}
      BY <2>1
    <3>2. req[r].kind \in {"list", "write", "read"} /\ req[r].answer = "none"
      BY <1>7, <2>1 DEF Route, Kinds, Truthful, OnRoute
    <3>3. QED
      BY <3>1, <3>2 DEF Truthful, OnRoute, Consuming, Sees, Tells, InHandler
  <2>2. QED
    BY <1>1, <1>7, <2>1, TruthfulBefore DEF Route, InHandler
<1>8. CASE ListProducers(r)
  <2>1. /\ req[r].pc = "list" /\ req'[r].pc = "list2" /\ req'[r].answer = req[r].answer
        /\ req'[r].kind = req[r].kind /\ req'[r].seen = req[r].seen
        /\ req'[r].posts = config.producers
    BY <1>8 DEF ListProducers
  <2>2. QED
    BY <2>1 DEF Truthful, OnRoute, Consuming, Sees, Tells, InHandler
<1>9. CASE ListConsumers(r)
  <2>1. /\ req[r].pc = "list2" /\ req'[r].pc = "answered"
        /\ req'[r].kind = req[r].kind /\ req'[r].seen = req[r].seen
        /\ req'[r].listing = Listing(req[r].posts, config.consumers)
    BY <1>9 DEF ListConsumers
  <2>2. PICK c \in req[r].seen : req[r].posts = c.producers
    BY <2>1 DEF Truthful, Sees
  <2>3. config \in req[r].seen /\ req[r].kind = "list"
    BY <2>1 DEF Truthful, OnRoute, Sees, InHandler
  <2>4. \E x, d \in req'[r].seen : req'[r].listing = Listing(x.producers, d.consumers)
    BY <2>1, <2>2, <2>3
  <2>5. QED
    BY <2>1, <2>3, <2>4 DEF Truthful, OnRoute, Consuming, Sees, Tells, InHandler, Listing
<1>10. CASE Exists(r) \/ Context(r) \/ Changes(r)
  <2>1. req[r].kind = "read" /\ config \in req[r].seen /\ req[r].answer = "none"
    BY <1>10 DEF Exists, Context, Changes, Truthful, OnRoute, Consuming, Sees, InHandler
  <2>2. CASE \E pc \in {"context", "changes"} : To(r, pc)
    BY <1>2, <1>10, <2>1, <2>2 DEF Truthful, OnRoute, Consuming, Sees, Tells, InHandler
  <2>3. CASE \E code : Answer(r, code) /\ (code = "200" \/ ~Readable(req[r].dataset))
    BY <1>1, <2>1, <2>3 DEF Truthful, OnRoute, Consuming, Sees, Tells, InHandler, Readable
  <2>4. QED
    BY <1>10, <2>2, <2>3 DEF Exists, Context, Changes
<1>11. CASE Write(r)
  <2>1. req[r].kind = "write"
    BY <1>11 DEF Write, Passed
  <2>2. QED
    BY <1>1, <1>11, <2>1 DEF Write, Truthful, OnRoute, Consuming, Sees, Tells, InHandler
<1>12. QED
  BY <1>3, <1>4, <1>5, <1>6, <1>7, <1>8, <1>9, <1>10, <1>11 DEF Serve, Handle

LEMMA SeenStep ==
  ASSUME TypeOK, PassInv, SeenInv, [Next]_vars
  PROVE  SeenInv'
<1>1. req \in [Requests -> RequestType]
  BY TypesTogether
<1>2. CASE Reload
  <2>1. ASSUME NEW r \in Requests
        PROVE  /\ req'[r].pc = req[r].pc /\ req'[r].kind = req[r].kind
               /\ req'[r].answer = req[r].answer /\ req'[r].dataset = req[r].dataset
               /\ req'[r].posts = req[r].posts /\ req'[r].listing = req[r].listing
               /\ req'[r].seen = IF req[r].seen = {} THEN {} ELSE req[r].seen \cup {config'}
    BY <1>1, <1>2 DEF Reload, RequestType
  <2>2. QED
    BY <2>1, TruthfulKept DEF SeenInv
<1>3. ASSUME ~Reload PROVE config' = config
  BY <1>3 DEF Next, vars, RunHook, TopicsFail, Listen, Rotate, Refresh, Expire, Arrive, Serve, Handle,
              Find, Enter, JwtLoad, Jwt, Route, ListProducers, ListConsumers, Exists, Context, Changes, Write,
              Only, configVars
<1>4. ASSUME ~Reload, NEW r \in Requests, req'[r] = req[r] PROVE Truthful(r)'
  BY <1>3, <1>4, TruthfulKept DEF SeenInv
<1>5. ASSUME ~Reload, NEW r \in Requests, Arrive(r) PROVE SeenInv'
  <2>1. /\ req'[r].pc = "find" /\ req'[r].seen = {} /\ req'[r].answer = "none"
    BY <1>1, <1>5 DEF Arrive, Idle
  <2>2. Truthful(r)'
    BY <2>1 DEF Truthful, OnRoute, Consuming, Sees, Tells, InHandler
  <2>3. QED
    BY <1>1, <1>4, <1>5, <2>2, OthersKept DEF SeenInv
<1>6. ASSUME ~Reload, NEW r \in Requests, Serve(r) PROVE SeenInv'
  <2>1. Truthful(r)'
    BY <1>1, <1>3, <1>6, TruthfulServe DEF SeenInv, PassInv
  <2>2. QED
    BY <1>1, <1>4, <1>6, <2>1, OthersKept DEF SeenInv
<1>7. CASE ~Reload /\ UNCHANGED req
  BY <1>4, <1>7 DEF SeenInv
<1>8. QED
  BY <1>2, <1>5, <1>6, <1>7
  DEF Next, vars, RunHook, TopicsFail, Listen, Rotate, Refresh, Expire

LEMMA Truthfulness == Spec => []SeenInv
<1>1. Init => SeenInv
  BY DEF Init, Idle, SeenInv, Truthful, OnRoute, Consuming, Sees, Tells, InHandler
<1>2. TypeOK /\ PassInv /\ SeenInv /\ [Next]_vars => SeenInv'
  BY SeenStep
<1>3. QED
  BY <1>1, <1>2, Passes, PTL DEF Spec

\* What a listing says of a dataset.
Says(listing, d, method) == \E l \in listing : l[1] = d /\ method \in l[2]

LEMMA ListingSays ==
  ASSUME NEW posts, NEW gets, NEW d
  PROVE  /\ Says(Listing(posts, gets), d, "POST") <=> d \in posts
         /\ Says(Listing(posts, gets), d, "GET") <=> d \in gets
<1> DEFINE methods(x) == {m \in {"GET", "POST"} : x \in IF m = "GET" THEN gets ELSE posts}
<1>1. \A l \in Listing(posts, gets) : l[2] = methods(l[1])
  BY DEF Listing
<1>2. ("POST" \in methods(d) <=> d \in posts) /\ ("GET" \in methods(d) <=> d \in gets)
  OBVIOUS
<1>3. d \in posts \cup gets => <<d, methods(d)>> \in Listing(posts, gets)
  BY DEF Listing
<1>4. QED
  BY <1>1, <1>2, <1>3 DEF Says

\* What /datasets says of a dataset was so at some time while it was asked, however
\* many reloads come in between.  (datasethandler.go:41-65)
THEOREM ListingTold == Spec => []ListingIsOfTheTime
<1>1. SeenInv => ListingIsOfTheTime
  <2> SUFFICES ASSUME SeenInv, NEW r \in Requests, req[r].kind = "list", req[r].answer = "200",
                      NEW d \in Datasets
               PROVE  /\ Says(req[r].listing, d, "POST") => \E c \in req[r].seen : d \in c.producers
                      /\ Says(req[r].listing, d, "GET") => \E c \in req[r].seen : d \in c.consumers
                      /\ (\A c \in req[r].seen : d \in c.producers) => Says(req[r].listing, d, "POST")
                      /\ (\A c \in req[r].seen : d \in c.consumers) => Says(req[r].listing, d, "GET")
    BY Zenon DEF ListingIsOfTheTime, Says
  <2>1. PICK b, c \in req[r].seen : req[r].listing = Listing(b.producers, c.consumers)
    BY DEF SeenInv, Truthful, Tells
  <2>2. /\ Says(req[r].listing, d, "POST") <=> d \in b.producers
        /\ Says(req[r].listing, d, "GET") <=> d \in c.consumers
    BY <2>1, ListingSays
  <2>3. QED
    BY <2>1, <2>2
<1>2. QED
  BY <1>1, Truthfulness, PTL

\* The read of a dataset that all configurations of its time have is served.
\* (consumerhandler.go:51-71, consumer.go:77-119)
THEOREM StableServed == Spec => []StableIsServed
<1>1. SeenInv => StableIsServed
  BY DEF SeenInv, Truthful, Tells, StableIsServed
<1>2. QED
  BY <1>1, Truthfulness, PTL

-----------------------------------------------------------------------------
(***************************************************************************)
(* Who is refused                                                          *)
(*                                                                         *)
(* As long as the issuer neither changes its keys nor fails to give them,  *)
(* the cache has them all or nothing.  That a request is not refused while *)
(* the application starts rests on the order of the hooks: a request that  *)
(* finds a route of datasets meets the middleware too, though it looks for *)
(* the route first.                                                        *)
(***************************************************************************)

Undisturbed == rotations = 0 /\ faults = 0

CacheInv == Undisturbed /\ cached => jwks = keys

\* The refusals that are left.
Excepted(r) ==
  /\ req[r].token # NoToken
  /\ req[r].token.key \notin keys \/ AfterComma(req[r].token, req[r].kind)

\* Who shows a token has to; who has found a route has met the middleware.
Guarded(r) ==
  /\ req[r].pc = "jwt" => ~noop /\ req[r].kind # "health"
  /\ req[r].pc = "route" /\ req[r].found /\ req[r].kind # "health" => noop \/ req[r].user
  /\ /\ req[r].answer \in {"401", "403"} /\ MayPass(r) /\ Undisturbed
     => Excepted(r)

RefuseInv == CacheInv /\ \A r \in Requests : Guarded(r)

\* A route of datasets is only there when the middleware is.
LEMMA MiddlewareBeforeRoutes ==
  ASSUME OtherTypes, NEW kind \in Kinds \ {"health"}, Done(kind)
  PROVE  Done("middleware")
<1>1. PICK i \in 1..hook : Hooks[i] = kind
  BY DEF Done
<1>2. hook \in 0..6
  BY HookCount DEF OtherTypes
<1>3. i # 1
  BY <1>1 DEF Hooks, Kinds
<1>4. 2 \in 1..hook /\ Hooks[2] = "middleware"
  BY <1>2, <1>3 DEF Hooks
<1>5. QED
  BY <1>4 DEF Done

\* What is genuine passes the middleware.
LEMMA GenuinePasses ==
  ASSUME NEW t, Genuine(t)
  PROVE  ClaimsMatch(t) /\ t.key \notin NoCertificate
<1>1. CASE <<t.iss, t.aud>> \in {"own", "none"} \X {"own", "none"}
  <2>1. t.iss \in {"own", "none"} /\ t.aud \in {"own", "none"}
    BY <1>1
  <2>2. QED
    BY <2>1 DEF Genuine, ClaimsMatch
<1>2. CASE <<t.iss, t.aud>> \in {"auth0"} \X {"auth0", "none"}
  <2>1. t.iss = "auth0" /\ t.aud \in {"auth0", "none"}
    BY <1>2
  <2>2. QED
    BY <2>1 DEF Genuine, ClaimsMatch
<1>3. QED
  BY <1>1, <1>2 DEF Genuine

\* Who is entitled passes the authorizer, unless the scope comes after a comma.
LEMMA EntitledPasses ==
  ASSUME NEW t \in Tokens, NEW kind \in Kinds, NEW place \in Places,
         Entitled(t, kind, place), ~AfterComma(t, kind)
  PROVE  Allowed(t, kind, place)
<1>1. CASE t.machine
  BY <1>1 DEF AfterComma, Allowed, Scope
<1>2. CASE ~t.machine
  BY <1>2 DEF Entitled, Allowed, InUri
<1>3. QED
  BY <1>1, <1>2

\* No step calms down what has been disturbed, or takes a hook or a key back before.
LEMMA Calm ==
  ASSUME OtherTypes, [Next]_vars, Undisturbed'
  PROVE  Undisturbed /\ UNCHANGED <<noop, keys>>
<1>1. UNCHANGED noop
  BY DEF Next, vars, RunHook, TopicsFail, Listen, Reload, Rotate, Refresh, Expire, Arrive, Serve, Handle,
         Find, Enter, JwtLoad, Jwt, Route, ListProducers, ListConsumers, Exists, Context, Changes, Write,
         Only, appVars
<1>2. CASE Rotate
  BY <1>2 DEF Rotate, Undisturbed, OtherTypes
<1>3. CASE Refresh \/ \E r \in Requests : JwtLoad(r)
  BY <1>1, <1>3 DEF Refresh, JwtLoad, LoadKeys, issuerVars, Undisturbed, OtherTypes
<1>4. CASE UNCHANGED <<keys, rotations, faults>>
  BY <1>1, <1>4 DEF Undisturbed
<1>5. QED
  BY <1>2, <1>3, <1>4
  DEF Next, vars, RunHook, TopicsFail, Listen, Reload, Expire, Arrive, Serve, Handle,
      Find, Enter, Jwt, Route, ListProducers, ListConsumers, Exists, Context, Changes, Write,
      Only, keyVars, issuerVars

LEMMA CacheStep ==
  ASSUME OtherTypes, CacheInv, [Next]_vars
  PROVE  CacheInv'
<1> SUFFICES ASSUME Undisturbed', cached' PROVE jwks' = keys'
  BY DEF CacheInv
<1>1. Undisturbed /\ keys' = keys
  BY Calm
<1>2. CASE LoadKeys
  BY <1>1, <1>2 DEF LoadKeys, Undisturbed, OtherTypes
<1>3. CASE Expire
  BY <1>3 DEF Expire
<1>4. CASE UNCHANGED <<cached, jwks>>
  BY <1>1, <1>4 DEF CacheInv
<1>5. QED
  BY <1>2, <1>3, <1>4
  DEF Next, vars, RunHook, TopicsFail, Listen, Reload, Rotate, Refresh, Arrive, Serve, Handle,
      Find, Enter, JwtLoad, Jwt, Route, ListProducers, ListConsumers, Exists, Context, Changes, Write,
      Only, keyVars

\* What is so of a request stays so while it does nothing.
LEMMA GuardedKept ==
  ASSUME OtherTypes, [Next]_vars, noop' = noop, NEW r \in Requests, Guarded(r),
         /\ req'[r].pc = req[r].pc /\ req'[r].kind = req[r].kind
         /\ req'[r].token = req[r].token /\ req'[r].answer = req[r].answer
         /\ req'[r].place = req[r].place
         /\ req'[r].user = req[r].user /\ req'[r].found = req[r].found
  PROVE  Guarded(r)'
<1>1. MayPass(r)' <=> MayPass(r)
  BY DEF MayPass, Genuine, Entitled
<1>2. keys' = keys => (Excepted(r)' <=> Excepted(r))
  BY DEF Excepted, AfterComma
<1>3. QED
  BY <1>1, <1>2, Calm DEF Guarded

\* So it does in a step of its own that does not refuse it.
LEMMA GuardedUnrefused ==
  ASSUME NEW r \in Requests, req'[r].answer \notin {"401", "403"}, req'[r].pc \notin {"jwt", "route"}
  PROVE  Guarded(r)'
BY DEF Guarded

\* A refusal is right if what is refused must not pass.
LEMMA GuardedAnswer ==
  ASSUME OtherTypes, [Next]_vars, req \in [Requests -> RequestType], NEW r \in Requests, NEW code,
         Answer(r, code),
         /\ code \in {"401", "403"} /\ noop' = noop /\ MayPass(r) /\ Undisturbed
         => Excepted(r)
  PROVE  Guarded(r)'
<1>1. /\ req'[r].pc = "answered" /\ req'[r].answer = code
      /\ req'[r].kind = req[r].kind /\ req'[r].token = req[r].token /\ req'[r].place = req[r].place
  BY DEF Answer, RequestType
<1>2. Undisturbed' => Undisturbed /\ UNCHANGED <<noop, keys>>
  BY Calm
<1>3. noop' = noop => (MayPass(r)' <=> MayPass(r))
  BY <1>1 DEF MayPass, Genuine, Entitled
<1>4. keys' = keys => (Excepted(r)' <=> Excepted(r))
  BY <1>1 DEF Excepted, AfterComma
<1>5. QED
  BY <1>1, <1>2, <1>3, <1>4 DEF Guarded

LEMMA GuardedServe ==
  ASSUME TypeOK, PassInv, SeenInv, RefuseInv, [Next]_vars, NEW r \in Requests, Serve(r), noop' = noop
  PROVE  Guarded(r)'
<1>1. /\ OtherTypes /\ req \in [Requests -> RequestType]
      /\ Guarded(r) /\ CacheInv /\ Passed(r) /\ OnRoute(r)
  BY TypesTogether DEF RefuseInv, PassInv, SeenInv, Truthful
<1>2. /\ req[r].kind \in Kinds /\ req[r].token \in Tokens \cup {NoToken} /\ req[r].place \in Places
      /\ req[r] \in RequestType
  BY <1>1 DEF RequestType
<1>3. CASE Find(r)
  <2>1. req'[r].pc = "enter" /\ req'[r].answer = req[r].answer
    BY <1>1, <1>3 DEF Find, RequestType
  <2>2. QED
    BY <1>1, <1>3, <2>1, GuardedUnrefused DEF Find, OnRoute
<1>4. CASE Enter(r)
  <2>1. /\ req'[r].answer = "none" /\ req'[r].kind = req[r].kind /\ req'[r].found = req[r].found
        /\ req'[r].pc = IF Done("middleware") /\ ~noop /\ req[r].kind # "health" THEN "jwt" ELSE "route"
    BY <1>1, <1>4 DEF Enter, To, OnRoute, RequestType
  <2>2. req[r].found /\ req[r].kind # "health" => Done("middleware")
    BY <1>1, <1>2, MiddlewareBeforeRoutes DEF Passed
  <2>3. QED
    BY <2>1, <2>2 DEF Guarded
<1>5. CASE JwtLoad(r)
  <2>1. CASE UNCHANGED req
    BY <1>1, <2>1, GuardedKept
  <2>2. CASE faults' = faults + 1 /\ Answer(r, "401")
    <3>1. ~Undisturbed'
      BY <1>1, <2>2 DEF Undisturbed, OtherTypes
    <3>2. req'[r].pc = "answered"
      BY <1>1, <2>2 DEF Answer, RequestType
    <3>3. QED
      BY <3>1, <3>2 DEF Guarded
  <2>3. QED
    BY <1>5, <2>1, <2>2 DEF JwtLoad
<1>6. CASE Jwt(r)
  <2>1. ~noop /\ req[r].kind # "health"
    BY <1>1, <1>6 DEF Jwt, Guarded
  <2>2. CASE req[r].token = NoToken /\ Answer(r, "401")
    BY <1>1, <2>1, <2>2, GuardedAnswer DEF MayPass, Genuine, Entitled
  <2>3. CASE CertOf(req[r].token) = "none" /\ cached /\ req[r].token # NoToken /\ Answer(r, "401")
    <3>1. req[r].token.key \notin jwks
      BY <2>3 DEF CertOf
    <3>2. QED
      BY <1>1, <2>3, <3>1, GuardedAnswer DEF CacheInv, Excepted
  <2>4. CASE CertOf(req[r].token) = "panic" /\ Answer(r, "broken")
    BY <1>1, <2>4, GuardedAnswer
  <2>5. CASE req[r].token # NoToken /\ ~ClaimsMatch(req[r].token) /\ Answer(r, "401")
    <3>1. ~MayPass(r)
      BY <2>1, <2>5, GenuinePasses DEF MayPass
    <3>2. QED
      BY <1>1, <2>5, <3>1, GuardedAnswer
  <2>6. CASE req' = [req EXCEPT ![r].pc = "route", ![r].user = TRUE]
    <3>1. req'[r].pc = "route" /\ req'[r].user = TRUE /\ req'[r].answer = req[r].answer
      BY <1>1, <2>6 DEF RequestType
    <3>2. req[r].answer = "none"
      BY <1>1, <1>6 DEF Jwt, OnRoute
    <3>3. QED
      BY <3>1, <3>2 DEF Guarded
  <2>7. QED
    BY <1>6, <2>2, <2>3, <2>4, <2>5, <2>6 DEF Jwt
<1>7. CASE Route(r)
  <2>1. CASE \E code \in {"404", "200"} : Answer(r, code)
    BY <1>1, <2>1, GuardedAnswer
  <2>2. CASE req[r].found /\ req[r].kind # "health" /\ ~Authorized(r) /\ Answer(r, "403")
    <3>1. ~noop /\ req[r].user
      BY <1>1, <1>7, <2>2 DEF Route, Guarded, Authorized
    <3>2. ~Allowed(req[r].token, req[r].kind, req[r].place) /\ req[r].token \in Tokens
      BY <1>1, <1>2, <2>2, <3>1 DEF Authorized, Passed, Accepted
    <3>3. MayPass(r) => AfterComma(req[r].token, req[r].kind) /\ req[r].token # NoToken
      BY <1>2, <2>2, <3>1, <3>2, EntitledPasses DEF MayPass, Genuine
    <3>4. QED
      BY <1>1, <2>2, <3>3, GuardedAnswer DEF Excepted
  <2>3. CASE req' = [req EXCEPT ![r].pc = req[r].kind, ![r].seen = {config}]
    <3>1. req'[r].pc = req[r].kind /\ req'[r].answer = req[r].answer
      BY <1>1, <2>3 DEF RequestType
    <3>2. req[r].kind \notin {"jwt", "route"} /\ req[r].answer = "none"
      BY <1>1, <1>2, <1>7 DEF Route, OnRoute, Kinds
    <3>3. QED
      BY <3>1, <3>2, GuardedUnrefused
  <2>4. QED
    BY <1>7, <2>1, <2>2, <2>3 DEF Route
<1>8. CASE ListProducers(r)
  <2>1. req'[r].pc = "list2" /\ req'[r].answer = req[r].answer
    BY <1>1, <1>8 DEF ListProducers, RequestType
  <2>2. QED
    BY <1>1, <1>8, <2>1, GuardedUnrefused DEF ListProducers, OnRoute
<1>9. CASE ListConsumers(r)
  <2>1. req'[r].pc = "answered" /\ req'[r].answer = "200"
    BY <1>1, <1>9 DEF ListConsumers, RequestType
  <2>2. QED
    BY <2>1, GuardedUnrefused
<1>10. CASE Exists(r) \/ Context(r) \/ Changes(r) \/ Write(r)
  <2>1. CASE \E pc \in {"context", "changes"} : To(r, pc)
    <3>1. req'[r].pc \in {"context", "changes"} /\ req'[r].answer = req[r].answer
      BY <1>1, <2>1 DEF To, RequestType
    <3>2. req[r].answer = "none"
      BY <1>1, <1>10 DEF Exists, Context, Changes, Write, OnRoute
    <3>3. QED
      BY <3>1, <3>2, GuardedUnrefused
  <2>2. CASE \E code \in {"404", "broken", "200", "empty", "400", "500"} : Answer(r, code)
    BY <1>1, <2>2, GuardedAnswer
  <2>3. QED
    BY <1>10, <2>1, <2>2 DEF Exists, Context, Changes, Write
<1>11. QED
  BY <1>3, <1>4, <1>5, <1>6, <1>7, <1>8, <1>9, <1>10 DEF Serve, Handle

LEMMA RefuseStep ==
  ASSUME TypeOK, PassInv, SeenInv, RefuseInv, [Next]_vars
  PROVE  RefuseInv'
<1>1. OtherTypes /\ req \in [Requests -> RequestType] /\ CacheInv
  BY TypesTogether DEF RefuseInv
<1>2. CacheInv'
  BY <1>1, CacheStep
<1>3. noop' = noop
  BY DEF Next, vars, RunHook, TopicsFail, Listen, Reload, Rotate, Refresh, Expire, Arrive, Serve, Handle,
         Find, Enter, JwtLoad, Jwt, Route, ListProducers, ListConsumers, Exists, Context, Changes, Write,
         Only, appVars
<1>4. ASSUME NEW r \in Requests, req'[r] = req[r] PROVE Guarded(r)'
  BY <1>1, <1>3, <1>4, GuardedKept DEF RefuseInv
<1>5. CASE UNCHANGED req
  BY <1>2, <1>4, <1>5 DEF RefuseInv
<1>6. CASE Reload
  <2>1. ASSUME NEW r \in Requests
        PROVE  /\ req'[r].pc = req[r].pc /\ req'[r].kind = req[r].kind
               /\ req'[r].token = req[r].token /\ req'[r].answer = req[r].answer
         /\ req'[r].place = req[r].place
               /\ req'[r].user = req[r].user /\ req'[r].found = req[r].found
    BY <1>1, <1>6 DEF Reload, RequestType
  <2>2. QED
    BY <1>1, <1>2, <1>3, <2>1, GuardedKept DEF RefuseInv
<1>7. ASSUME NEW r \in Requests, Arrive(r) PROVE RefuseInv'
  <2>1. req'[r].pc = "find" /\ req'[r].answer = "none"
    BY <1>1, <1>7 DEF Arrive, Idle
  <2>2. Guarded(r)'
    BY <2>1, GuardedUnrefused
  <2>3. QED
    BY <1>1, <1>2, <1>4, <1>7, <2>2, OthersKept DEF RefuseInv
<1>8. ASSUME NEW r \in Requests, Serve(r) PROVE RefuseInv'
  <2>1. Guarded(r)'
    BY <1>3, <1>8, GuardedServe
  <2>2. QED
    BY <1>1, <1>2, <1>4, <1>8, <2>1, OthersKept DEF RefuseInv
<1>9. QED
  BY <1>5, <1>6, <1>7, <1>8
  DEF Next, vars, RunHook, TopicsFail, Listen, Rotate, Refresh, Expire

\* A request that may pass is not refused while the issuer stays with its keys and
\* gives them, unless its scope comes after a comma: not while the application
\* starts either.
\* (web.go:35-42, middleware.go:49-68, auth0.go:40-42, authorization.go:24-27)
THEOREM GoodServed == Spec => []GoodIsServed
<1>1. Init => RefuseInv
  BY DEF Init, Idle, RefuseInv, CacheInv, Guarded
<1>2. TypeOK /\ PassInv /\ SeenInv /\ RefuseInv /\ [Next]_vars => RefuseInv'
  BY RefuseStep
<1>3. TypeOK /\ RefuseInv => GoodIsServed
  <2> SUFFICES ASSUME TypeOK, RefuseInv, NEW r \in Requests, req[r].answer \in {"401", "403"}, MayPass(r),
                      ~(rotations + faults > 0)
               PROVE  Excepted(r)
    BY DEF GoodIsServed, Excepted
  <2>1. Undisturbed
    BY TypesTogether DEF OtherTypes, Undisturbed
  <2>2. QED
    BY <2>1 DEF RefuseInv, Guarded
<1>4. QED
  BY <1>1, <1>2, <1>3, Passes, Truthfulness, PTL DEF Spec

=============================================================================
