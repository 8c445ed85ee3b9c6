-------------------------- MODULE MCConfigManager --------------------------
(***************************************************************************)
(* Small instances of ConfigManager for TLC: an empty configuration, one   *)
(* with a topic and one with two.                                          *)
(***************************************************************************)
EXTENDS ConfigManager, TLC

CONSTANTS empty, one, two, bare, t1, t2   \* model values

MCTopicsOf == empty :> {} @@ one :> {t1} @@ two :> {t1, t2} @@ bare :> {t2}

Bare == {bare}

=============================================================================
