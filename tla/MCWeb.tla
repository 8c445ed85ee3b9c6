------------------------------- MODULE MCWeb --------------------------------
(***************************************************************************)
(* Small instances of Web: two configurations that share a dataset, and    *)
(* tokens that are right, or wrong in one way.                             *)
(***************************************************************************)
EXTENDS Web

CONSTANTS r1, a, b, k1, k2   \* model values

MCConfigs ==
  {[producers |-> {a}, consumers |-> {a, b}], [producers |-> {b}, consumers |-> {a}]}

App(key, iss, aud, alg, scope) ==
  [key |-> key, iss |-> iss, aud |-> aud, alg |-> alg, machine |-> TRUE, scope |-> scope,
   adm |-> FALSE, subject |-> FALSE]

User(key, iss, adm, subject) ==
  [key |-> key, iss |-> iss, aud |-> "none", alg |-> "RS256", machine |-> FALSE, scope |-> <<{}>>,
   adm |-> adm, subject |-> subject]

MCTokens ==
  {App(k1, "own", "own", "RS256", <<{"datahub:r", "datahub:w"}>>),
   App(k1, "auth0", "own", "RS256", <<{"datahub:r"}>>),
   App(k1, "auth0", "auth0", "RS256", <<{"datahub:r"}, {"datahub:w"}>>),
   App(k1, "own", "own", "HS256", <<{"datahub:r"}>>),
   App(k2, "own", "none", "RS256", <<{"datahub:w"}>>),
   User(k1, "none", FALSE, TRUE), User(k1, "other", TRUE, FALSE), User(k1, "own", FALSE, FALSE),
   User(k1, "own", TRUE, TRUE)}

MCBroken == {k2}

=============================================================================
