----------------------------- MODULE TokenCache -----------------------------
(***************************************************************************)
(* The token the layer shows to the service it loads its configuration     *)
(* from (internal/security/auth0.go).                                      *)
(*                                                                         *)
(* There is no clock: what matters of the time is on which side of two     *)
(* deadlines the cached token is.  The service counts its validity from    *)
(* when it was issued, the layer (cache.until) from when it arrived, so    *)
(* there is a while in which the layer shows a token that has run out.     *)
(***************************************************************************)

VARIABLES
  secured,        \* is there a provider, and is the location a URL
  token,          \* the cache: "none", or a token that is "valid", "late" (run
                  \* out, but not yet for the layer) or "over" (now after until)
  bearer          \* does the load that is running show the cached token

tokenVars == <<token, bearer>>

TokenTypeOK ==
  /\ secured \in BOOLEAN
  /\ token \in {"none", "valid", "late", "over"}
  /\ bearer \in BOOLEAN

TokenInit ==
  /\ secured \in BOOLEAN
  /\ token = "none"
  /\ bearer = FALSE

\* Seeded fault: a token once cached is never replaced.
KeepForEver == token # "none"

\* generateOrGetToken need not ask for a token.
Cached == token \notin {"none", "over"}

\* generateOrGetToken asks for a token and gets one.  Any time may pass until the
\* answer is there, but that is counted.
Renew ==
  /\ ~Cached
  /\ token' = "valid"
  /\ bearer' = TRUE

\* Token, of a load that starts.  An error is only logged: the request is sent all
\* the same, with an empty header.
GetToken ==
  \/ ~secured /\ UNCHANGED tokenVars
  \/ secured /\ Cached /\ bearer' = TRUE /\ UNCHANGED token
  \/ secured /\ Renew
  \/ secured /\ ~Cached /\ bearer' = FALSE /\ UNCHANGED token

\* The service answers the request of the load with 200.
Authorised == ~secured \/ (bearer /\ token = "valid")

TokenRunsOut ==
  /\ token = "valid"
  /\ token' = "late"
  /\ UNCHANGED <<secured, bearer>>

UntilIsOver ==
  /\ token = "late"
  /\ token' = "over"
  /\ UNCHANGED <<secured, bearer>>

=============================================================================
