----------------------------- MODULE MCEncoder ------------------------------
(***************************************************************************)
(* Messages, headers and mappings for Encoder that share names where they  *)
(* can get into each other's way.                                          *)
(***************************************************************************)
EXTENDS Encoder

Objs ==
  "flat"   :> (<<"id">> :> "1" @@ <<"name">> :> "x" @@ <<"gone">> :> "true")
  @@ "nested" :> (<<"id">> :> "1" @@ <<"o">> :> "inner" @@ <<"name">> :> "nil")
  @@ "inner"  :> (<<"id">> :> "2" @@ <<"list">> :> "objects" @@ <<"names">> :> "xs")
  @@ "o1"     :> (<<"n">> :> "1")
  @@ "o2"     :> (<<"n">> :> "2" @@ <<"name">> :> "y")
  @@ "dotted" :> (<<"o", "n">> :> "1" @@ <<"o">> :> "o2")
  @@ "mixed"  :> (<<"id">> :> "1" @@ <<"list">> :> "ofMixed")
  @@ "o3"     :> (<<"names">> :> "xAndNil")
  @@ "odd"    :> (<<"a">> :> "nilAndX" @@ <<"b">> :> "xss" @@ <<"c">> :> "none" @@ <<"d">> :> "oAndX")
  @@ "both"   :> (<<"o", "n">> :> "1" @@ <<"o">> :> "deeper" @@ <<"list">> :> "xs")
  @@ "deeper" :> (<<"n">> :> "o1")
  @@ "header" :> (<<"kafka_header">> :> "o2" @@ <<"n">> :> "3")

Arrs ==
  "objects" :> <<"o1", "o2">> @@ "xs" :> <<"x", "y">> @@ "xAndNil" :> <<"x", "nil">>
  @@ "ofMixed" :> <<"o1", "o3">> @@ "nilAndX" :> <<"nil", "x">> @@ "xss" :> <<"xs", "xs">>
  @@ "none" :> <<>> @@ "oAndX" :> <<"o1", "x">>

MCKinds ==
  [v \in DOMAIN Objs |-> "object"] @@ [v \in DOMAIN Arrs |-> "array"]
  @@ [v \in {"1", "2", "3"} |-> "number"] @@ [v \in {"x", "y", "text"} |-> "string"]
  @@ "true" :> "bool" @@ "nil" :> "null"

MCValues   == DOMAIN MCKinds

MCDepth[v \in MCValues] ==
  LET parts == IF v \in DOMAIN Objs THEN {Objs[v][k] : k \in DOMAIN Objs[v]}
               ELSE IF v \in DOMAIN Arrs THEN ToSet(Arrs[v]) ELSE {}
  IN 1 + Max({0} \cup {MCDepth[w] : w \in parts})

MCNumerals == [i \in 0..9 |-> ToString(i)]

MCMessages == {"flat", "nested", "dotted", "mixed", "odd", "both", "header", "text"}

Header(k, v) == [key |-> k, value |-> v]
MCHeaders ==
  {<<>>, <<Header(<<"n">>, "x"), Header(<<"n">>, "y")>>, <<Header(<<"id">>, "x"), Header(<<"o">>, "y")>>}

Mapping(f, p, path, use) == [field |-> f, property |-> p, path |-> path, use |-> use]
MCMappingLists ==
  LET id   == Mapping(<<"id">>, <<>>, <<"id">>, {"id"})
      keyed == Mapping(<<"id">>, <<>>, KafkaKey, {"id"})
      gone == Mapping(<<"gone">>, <<>>, <<"gone">>, {"deleted"})
      link == Mapping(<<"name">>, <<"link">>, <<"name">>, {"ref"})
      none == Mapping(<<"n">>, <<>>, <<"n">>, {"ignore", "id"})
      deep == Mapping(<<"name">>, <<"o">>, <<"o", "list", "1", "n">>, {})
  IN {<<>>, <<id, gone, link>>, <<keyed, none>>, <<link, deep, id>>}

=============================================================================
