----------------------------- MODULE MCTransport -----------------------------
(* The instance of Transport, and with it of Router, that TLC checks: two        *)
(* methods, of which p may have an additional binding, and at most two external  *)
(* rules; two callers, each with one call.                                       *)
EXTENDS Transport

Binding(path, verb, method) ==
    [path |-> path, verb |-> verb, method |-> method, supported |-> TRUE]

Pool == {
    Binding(<<"a">>, "", "GET"), Binding(<<"*">>, "", "POST"), Binding(<<"*">>, "v", "GET"),
    Binding(<<"a:v">>, "", "*"), Binding(<<"a", "b">>, "", "POST"),
    Binding(<<"*", "b">>, "", "GET"), Binding(<<"a", "**">>, "v", "*"),
    Binding(<<"**">>, "", "GET")}

Plain == Binding(<<"b">>, "", "GET")
Unsupported == [Plain EXCEPT !.supported = FALSE]
Lists(n) == UNION {[1 .. k -> Pool] : k \in 0 .. n}

External(p, b) == [procedure |-> p, bindings |-> <<b>>]
Externals == {<<>>}
    \cup {<<External("q", b)>> : b \in Pool}
    \cup {<<External("q", Binding(<<"a">>, "", "GET")), External("q", Plain)>>,
          <<External("q", Unsupported)>>, <<External("unknown", Plain)>>}

MCConfigs ==
    {[embedded |-> [p |-> ps, q |-> qs], external |-> ext] :
        ps \in Lists(2), qs \in Lists(1) \cup {<<Unsupported>>}, ext \in Externals}

MCPaths == UNION {[1 .. n -> {"a", "b"}] : n \in 1 .. 3}
MCJoined(segment, verb) == IF segment = "a" /\ verb = "v" THEN "a:v" ELSE "other"

MCSpecs == {[procedure |-> p, schema |-> "method"] : p \in {"p", "q", "unknown"}}
           \cup {[procedure |-> "q", schema |-> "none"]}
=============================================================================
