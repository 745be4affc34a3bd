----------------------------- MODULE MCTransfer -----------------------------
(* Projects with one or two flags, files with up to three strategies.       *)
EXTENDS Transfer

MCText == {"pro", "free", "2", "3", "1.2.0", "1.3.0", "1.3", "1.3.0-rc1", "0.2.1", "0.3.0", "2.0.0",
           "^1.2.0", "^0.2.1", "u1", "p"}
MCNumberOf == ("2" :> 2) @@ ("3" :> 3)
MCDateOf == <<>>
MCPartsOf == ("2" :> <<2>>) @@ ("3" :> <<3>>) @@ ("1.2.0" :> <<1, 2, 0>>)
    @@ ("1.3.0" :> <<1, 3, 0>>) @@ ("0.2.1" :> <<0, 2, 1>>) @@ ("0.3.0" :> <<0, 3, 0>>)
    @@ ("2.0.0" :> <<2, 0, 0>>) @@ ("1.3" :> <<1, 3>>) @@ ("1.3.0-rc1" :> <<1, 3, 0>>)
\* A release is its three numbers, a prerelease has more to it, "1.3" is no version.
MCSemverOf == [v \in {"1.2.0", "1.3.0", "0.2.1", "0.3.0", "2.0.0"} |-> MCPartsOf[v]]
    @@ ("1.3.0-rc1" :> <<1, 3, 0, "rc1">>)
MCRangeOf == ("^1.2.0" :> [op |-> "^", base |-> "1.2.0"])
    @@ ("^0.2.1" :> [op |-> "^", base |-> "0.2.1"])
MCTextTest == [startsWith |-> {<<"pro", "p">>}, contains |-> {<<"pro", "p">>}, regex |-> {}]
MCCallers ==
    {ctx \in UNION {[S -> {"pro", "free", "2", "3", "1.3.0", "1.3.0-rc1", "u1"}] : S \in SUBSET {"plan", "build", "userId"}} :
        /\ "plan" \in DOMAIN ctx => ctx["plan"] \in {"pro", "free"}
        /\ "build" \in DOMAIN ctx => ctx["build"] \in {"2", "3", "1.3.0", "1.3.0-rc1"}
        /\ "userId" \in DOMAIN ctx => ctx["userId"] = "u1"}

C(field, op, values) == [field |-> field, op |-> op, values |-> values]
F(type, values) == [type |-> type, values |-> values]

NativeLists ==
    {<<>>, <<{}>>, <<{C("plan", "in", <<"pro">>)}>>,
     <<{C("plan", "notIn", <<"free">>), C("build", "gte", <<"3">>)}, {C("plan", "equals", <<"free">>)}>>,
     <<{C("build", "eq", <<"1.3.0">>)}>>, <<{C("gone", "equals", <<"pro">>)}>>,
     <<{C("plan", "is", <<"pro">>)}>>}    \* written when plan was a boolean

FieldsOfOrigin ==
    {("plan" :> F("string", {})) @@ ("build" :> F(t, {})) : t \in {"number", "version"}}

MCOrigins ==
    {[fields |-> f, flags |-> "f" :> [row |-> r, strategies |-> ("production" :> l) @@ ("staging" :> m)]] :
        f \in FieldsOfOrigin, l \in NativeLists, m \in {<<>>, <<{C("plan", "in", <<"pro">>)}>>},
        r \in {("production" :> a) @@ ("staging" :> b) : a, b \in BOOLEAN} \cup {"production" :> TRUE}}

U(env, name, rollout, constraints) ==
    [feature |-> "f", env |-> env, name |-> name, disabled |-> FALSE, segments |-> FALSE,
     rollout |-> rollout, userIds |-> <<"u1">>, constraints |-> constraints]
UC(field, op, values, inverted) ==
    [field |-> field, operator |-> op, values |-> values, inverted |-> inverted]

Convertible ==
    {U(e, "default", "100", <<UC("plan", "IN", <<"pro">>, inv)>>) :
        e \in {None, "production"}, inv \in BOOLEAN}
    \cup {U("production", "default", "100", <<UC("build", "NUM_GT", <<"3">>, inv)>>) : inv \in BOOLEAN}
    \cup {U("production", "default", "100", <<UC("build", op, <<"1.3.0">>, inv)>>) :
            op \in {"SEMVER_EQ", "SEMVER_GT"}, inv \in BOOLEAN}
    \cup {U("production", "default", "100", <<UC("build", "SEMVER_EQ", <<"1.3">>, FALSE)>>)}
    \cup {U("staging", "userWithId", "100", <<>>)}
Odd ==
    {U(None, "flexibleRollout", "50", <<>>), U(None, "flexibleRollout", "100", <<>>),
     U("production", None, "100", <<>>),
     [U("production", "default", "100", <<>>) EXCEPT !.segments = TRUE],
     [U("production", "default", "100", <<>>) EXCEPT !.disabled = TRUE],
     U("staging", "default", "100", <<UC("plan", "IN", <<"pro">>, FALSE), UC("free", "STR_ENDS_WITH", <<"p">>, FALSE)>>)}

S(feature, env, on) == [feature |-> feature, env |-> env, enabled |-> on]
MCUnleashFiles ==
    {[features |-> <<[name |-> "f", archived |-> FALSE], [name |-> "g", archived |-> st = <<>>]>>,
      states |-> st, strategies |-> l,
      fields |-> IF Len(st) = 1 THEN "plan" :> {"pro", "free"} ELSE <<>>] :
        st \in {<<>>, <<S("g", "production", TRUE)>>, <<S("f", "production", TRUE)>>,
                <<S("f", "production", TRUE), S("f", "staging", TRUE), S("f", "production", FALSE)>>},
        l \in {<<>>} \cup {<<a>> : a \in Convertible \cup Odd}
              \cup {<<a, b>> : a \in Convertible, b \in Odd}}

MCLocals ==
    {[fields |-> f, envs |-> {"development", "production"}, protected |-> {"production"},
      approval |-> a, default |-> IF a THEN "on" ELSE "dev", flags |-> fl] :
        f \in {<<>>, "plan" :> F("enum", {"pro"}), "plan" :> F("boolean", {}), ("plan" :> F("string", {})) @@ ("build" :> F("number", {}))},
        a \in BOOLEAN,
        fl \in {<<>>} \cup
               {"f" :> [row |-> r, strategies |->
                          ("production" :> <<{C("plan", "equals", <<"pro">>)}>>) @@ ("development" :> <<>>)] :
                 r \in {("production" :> FALSE) @@ ("development" :> TRUE), "production" :> TRUE}}}

MCMaps == {<<>>, "staging" :> "development", "staging" :> "production"}
=============================================================================
