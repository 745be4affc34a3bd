------------------------------- MODULE Unleash -------------------------------
(***************************************************************************)
(* The Unleash adapter: toNative and fromNative, two pure conversions       *)
(* between Unleash's export format and the native document.                 *)
(*                                                                          *)
(* A native document is [fields, flags]: fields a partial function from     *)
(* FieldKey to [type, values], flags a sequence of [key, envs], envs a       *)
(* sequence of [name, enabled, strategies].  An Unleash document keeps the   *)
(* states and the strategies of all features in one list each; the list of   *)
(* strategies is taken in its sort order.                                   *)
(***************************************************************************)
EXTENDS Evaluate, SequencesExt

CONSTANTS None, LegalKey    \* LegalKey: the names that are legal context field keys

FromUnleashOperator ==
    [IN |-> "in", NOT_IN |-> "notIn", STR_CONTAINS |-> "contains",
     STR_STARTS_WITH |-> "startsWith", NUM_EQ |-> "eq", NUM_GT |-> "gt",
     NUM_GTE |-> "gte", NUM_LT |-> "lt", NUM_LTE |-> "lte", DATE_AFTER |-> "after",
     DATE_BEFORE |-> "before", SEMVER_EQ |-> "eq"]

InvertedFromUnleashOperator ==
    [IN |-> "notIn", NOT_IN |-> "in", NUM_EQ |-> "neq", NUM_GT |-> "lte",
     NUM_GTE |-> "lt", NUM_LT |-> "gte", NUM_LTE |-> "gt"]

ToUnleashOperator ==
    [in |-> "IN", notIn |-> "NOT_IN", equals |-> "IN", is |-> "IN",
     contains |-> "STR_CONTAINS", startsWith |-> "STR_STARTS_WITH", eq |-> "NUM_EQ",
     gt |-> "NUM_GT", gte |-> "NUM_GTE", lt |-> "NUM_LT", lte |-> "NUM_LTE",
     after |-> "DATE_AFTER", before |-> "DATE_BEFORE"]

OperatorFamily ==
    [SEMVER_EQ |-> "version", SEMVER_GT |-> "version", SEMVER_LT |-> "version",
     DATE_AFTER |-> "date", DATE_BEFORE |-> "date", NUM_EQ |-> "number",
     NUM_GT |-> "number", NUM_GTE |-> "number", NUM_LT |-> "number", NUM_LTE |-> "number"]

-----------------------------------------------------------------------------
(* Unleash to native. *)

ConstraintsOf(file) == UNION {Range(file.strategies[i].constraints) : i \in DOMAIN file.strategies}

Families(file, name) ==
    {OperatorFamily[c.operator] : c \in
        {d \in ConstraintsOf(file) :
            /\ d.field = name
            /\ d.operator \in DOMAIN FromUnleashOperator \cap DOMAIN OperatorFamily}}

LegalValues(file, name) == IF name \in DOMAIN file.fields THEN file.fields[name] ELSE {}

\* How the file uses a field says its type.
InferFieldTypes(file) ==
    [name \in DOMAIN file.fields \cup {c.field : c \in ConstraintsOf(file)} |->
        LET families == Families(file, name) IN
        IF Cardinality(families) = 1
        THEN [type |-> CHOOSE f \in families : TRUE, values |-> {}]
        ELSE IF LegalValues(file, name) # {}
        THEN [type |-> "enum", values |-> LegalValues(file, name)]
        ELSE [type |-> "string", values |-> {}]]

\* Both functions' values; f's where both have one.
Over(f, g) ==
    [x \in DOMAIN f \cup DOMAIN g |-> IF x \in DOMAIN f THEN f[x] ELSE g[x]]

\* userWithId strategies land on a field of their own.
InferredFields(file) ==
    Over(InferFieldTypes(file),
         [k \in {"userId" : s \in {x \in Range(file.strategies) :
                                     x.name = "userWithId" /\ ~x.disabled}} |->
            [type |-> "string", values |-> {}]])

OperatorTable(c) == IF c.inverted THEN InvertedFromUnleashOperator ELSE FromUnleashOperator

HasOperator(c, fields) ==
    /\ c.operator \in DOMAIN OperatorTable(c)
    /\ fields[c.field].type = "enum"
         => OperatorTable(c)[c.operator] \in {"in", "notIn", "equals"}

\* Mutant: a strategy with a constraint that has no equivalent loses the
\* constraint and stays.
ConvertsLoosely(s, fields) ==
    /\ ~s.disabled
    /\ ~s.segments
    /\ \/ s.name = "default"
       \/ s.name = "flexibleRollout" /\ s.rollout = "100"
       \/ s.name = "userWithId" /\ s.userIds # <<>>

\* convertStrategy carries the strategy over.  name is None when the file gives
\* none; the other names (remoteAddress, ...) have no equivalent.
Converts(s, fields) ==
    /\ ~s.disabled
    /\ ~s.segments
    /\ \A c \in Range(s.constraints) : HasOperator(c, fields) /\ c.values # <<>>
    /\ \/ s.name = "default"
       \/ s.name = "flexibleRollout" /\ s.rollout = "100"
       \/ s.name = "userWithId" /\ s.userIds # <<>>

ConvertStrategy(s, fields) ==
    {[field |-> c.field, op |-> OperatorTable(c)[c.operator], values |-> c.values] :
        c \in {d \in Range(s.constraints) : HasOperator(d, fields)}}
    \cup IF s.name = "userWithId"
         THEN {[field |-> "userId", op |-> "in", values |-> s.userIds]} ELSE {}

\* The elements of s that are in S, in their order.
Among(s, S) == FlattenSeq([i \in DOMAIN s |-> IF s[i] \in S THEN <<s[i]>> ELSE <<>>])

\* The environments in which the file gives a feature a state.
StatedIn(file, feature) == {e.env : e \in {x \in Range(file.states) : x.feature = feature}}

\* Where a strategy that names no environment belongs, if that is clear.
ImpliedEnvironment(file, feature) ==
    LET own == StatedIn(file, feature) all == {e.env : e \in Range(file.states)} IN
    IF Cardinality(own) = 1 THEN CHOOSE e \in own : TRUE
    ELSE IF Cardinality(all) = 1 THEN CHOOSE e \in all : TRUE ELSE None

EnvironmentOf(file, s) ==
    IF s.env # None THEN s.env ELSE ImpliedEnvironment(file, s.feature)

StrategiesOf(file, feature) == {s \in Range(file.strategies) : s.feature = feature}

\* The strategies of a feature that end up in an environment of the document.
PlacedIn(file, feature, env) ==
    Among(file.strategies, {s \in StrategiesOf(file, feature) : EnvironmentOf(file, s) = env})

\* Of a feature's rows for one environment the last one counts.
EnabledIn(file, feature, env) ==
    LET rows == Among(file.states, {e \in Range(file.states) : e.feature = feature /\ e.env = env})
    IN  rows # <<>> /\ Last(rows).enabled

\* The strategies placed in an environment that are dropped, by their places.
Dropped(file, feature, env) ==
    LET placed == PlacedIn(file, feature, env) IN
    {i \in DOMAIN placed : env = None \/ ~Converts(placed[i], InferredFields(file))}

\* A feature's environments: those with a state row, then those only a strategy names.
FlagEnvironments(file, feature) ==
    LET fields == InferredFields(file)
        own == StatedIn(file, feature)
        named == {EnvironmentOf(file, s) : s \in StrategiesOf(file, feature)} \ {None}
        entry(env) ==
            [name |-> env,
             enabled |-> EnabledIn(file, feature, env),
             strategies |->
               LET placed == PlacedIn(file, feature, env)
                   kept == Among(placed, {s \in Range(placed) : Converts(s, fields)})
               IN  [i \in DOMAIN kept |-> ConvertStrategy(kept[i], fields)]]
        order == SetToSeq(own) \o SetToSeq(named \ own)
    IN  [i \in DOMAIN order |-> entry(order[i])]

\* A warning; of says which warning of its kind it is: the name and the place there
\* of the strategy it is on, place 0 when it is on the name itself.
Warning(env, kind, name, place) == [env |-> env, kind |-> kind, of |-> <<name, place>>]

DroppedKind(env) == IF env = None THEN "unknown-environment" ELSE "unsupported-strategy"

NamesOf(file, feature) == {EnvironmentOf(file, s) : s \in StrategiesOf(file, feature)}

\* Mutant: an environment in which something was dropped gets one warning.
FlagWarningsOnce(file, feature) ==
    {Warning(env, DroppedKind(env), env, 1) :
        env \in {e \in NamesOf(file, feature) : Dropped(file, feature, e) # {}}}

\* The warnings on a feature: one for every strategy that is dropped.
FlagWarnings(file, feature) ==
    UNION {{Warning(env, DroppedKind(env), env, i) : i \in Dropped(file, feature, env)} :
             env \in NamesOf(file, feature)}

ToNative(file) ==
    LET live == Among(file.features, {f \in Range(file.features) : ~f.archived}) IN
    [fields |-> [k \in DOMAIN InferredFields(file) \cap LegalKey |-> InferredFields(file)[k]],
     flags |-> [i \in DOMAIN live |->
                  [key |-> live[i].name, envs |-> FlagEnvironments(file, live[i].name)]],
     warnings |-> [k \in {live[i].name : i \in DOMAIN live} |-> FlagWarnings(file, k)]]

-----------------------------------------------------------------------------
(* Native to Unleash. *)

TypeIn(document, key) ==
    IF key \in DOMAIN document.fields THEN document.fields[key].type ELSE "string"

ToUnleashConstraint(c, type) ==
    [field |-> c.field, inverted |-> FALSE,
     operator |-> IF type = "version" THEN "SEMVER_EQ" ELSE ToUnleashOperator[c.op],
     values |-> IF c.op \in {"equals", "is"} THEN SubSeq(c.values, 1, 1) ELSE c.values]

Expressible(c, type) ==
    c.op \in DOMAIN ToUnleashOperator /\ (type = "version" => c.op = "eq")

FromNative(document) ==
    LET strategiesOf(key, env) ==
            LET kept == Among(env.strategies, {s \in Range(env.strategies) :
                          \A c \in s : Expressible(c, TypeIn(document, c.field))}) IN
            [i \in DOMAIN kept |->
               [feature |-> key, env |-> env.name, name |-> "default", disabled |-> FALSE,
                segments |-> FALSE, rollout |-> "100", userIds |-> <<>>,
                constraints |-> SetToSeq({ToUnleashConstraint(c, TypeIn(document, c.field)) :
                                            c \in kept[i]})]]
        flattened(f(_, _)) ==
            FlattenSeq([i \in DOMAIN document.flags |->
                FlattenSeq([j \in DOMAIN document.flags[i].envs |->
                    f(document.flags[i].key, document.flags[i].envs[j])])])
    IN  [features |-> [i \in DOMAIN document.flags |->
                         [name |-> document.flags[i].key, archived |-> FALSE]],
         states |-> flattened(LAMBDA key, env :
                      <<[feature |-> key, env |-> env.name, enabled |-> env.enabled]>>),
         strategies |-> flattened(strategiesOf),
         fields |-> [k \in DOMAIN document.fields |-> document.fields[k].values]]
=============================================================================
