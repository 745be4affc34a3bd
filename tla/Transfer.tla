------------------------------ MODULE Transfer ------------------------------
(***************************************************************************)
(* A transfer of flags between two projects: the export of the one          *)
(* (exportProject, fromNative) or a file from elsewhere, then its import     *)
(* into the other (toNative, importProject), and the same import once more.  *)
(*                                                                          *)
(* An import is one transaction, and a dry run is the same transaction       *)
(* rolled back: the import is one action here.  FlagServing has the import   *)
(* beside the other writes.                                                 *)
(*                                                                          *)
(* A project is [fields, envs, protected, approval, default, flags]: flags    *)
(* a partial function from keys to [row, strategies], row a partial function *)
(* from slugs to the flag's state, strategies one from slugs to lists.       *)
(***************************************************************************)
EXTENDS Unleash

CONSTANTS
    MaxFields,      \* MAX_CONTEXT_FIELDS_PER_PROJECT
    Origins,        \* the projects exported from
    UnleashFiles,   \* Unleash documents from elsewhere
    Locals,         \* the projects imported into
    EnvironmentMaps,\* partial functions from names to slugs
    SemverOf        \* what Unleash reads in a text that is a version to it

VARIABLES
    stage,          \* "start", "native" or "unleash" (a file at hand), "converted",
                    \* "imported", "again" or "refused"
    origin,         \* the project exported, None for a file from elsewhere
    file,           \* the file, None before there is one
    document,       \* the native document imported
    args,           \* onConflict and environmentMap
    local,          \* the project imported into
    before,         \* what it was before the last import
    report          \* the last import's report

vars == <<stage, origin, file, document, args, local, before, report>>

\* The rows of context_fields: a partial function on keys.
AreFields(f) == f \in [DOMAIN f -> [type: Types, values: SUBSET Text]] /\ DOMAIN f \subseteq FieldKey

Constraint ==
    [field: FieldKey, op: UNION {OperatorsByType[t] : t \in Types}, values: Seq(Text) \ {<<>>}]

\* A flag has a list of strategies in every environment, and a row in most.
IsFlag(f) ==
    /\ f \in [row: [DOMAIN f.row -> BOOLEAN],
              strategies: [DOMAIN f.strategies -> Seq(SUBSET Constraint)]]
    /\ \A s \in DOMAIN f.strategies : \A i \in DOMAIN f.strategies[s] : IsFiniteSet(f.strategies[s][i])
    /\ DOMAIN f.row \subseteq DOMAIN f.strategies
    /\ IsFiniteSet(DOMAIN f.strategies)
    /\ None \notin DOMAIN f.strategies

IsProject(p) ==
    /\ p \in [fields: {p.fields}, envs: {p.envs}, protected: SUBSET p.envs,
              approval: BOOLEAN, default: {"on", "off", "dev"}, flags: {p.flags}]
    /\ AreFields(p.fields)
    /\ p.flags = [k \in DOMAIN p.flags |-> p.flags[k]]
    /\ \A k \in DOMAIN p.flags : IsFlag(p.flags[k]) /\ DOMAIN p.flags[k].strategies = p.envs

IsList(s) == s \in Seq(Range(s))

\* Where Unleash compares with an order, it compares with one value.
IsUnleashFile(f) ==
    /\ IsList(f.features) /\ IsList(f.states) /\ IsList(f.strategies)
    /\ \A i \in DOMAIN f.states : f.states[i].env # None
    /\ \A i \in DOMAIN f.strategies : \A c \in Range(f.strategies[i].constraints) :
          /\ IsList(c.values)
          /\ c.inverted /\ c.operator \notin {"IN", "NOT_IN"} => Len(c.values) = 1

-----------------------------------------------------------------------------
(* exportProject *)

\* Mutant: environments in which the flag is off are left out.
ExportEnabled(project) ==
    LET keys == SetToSeq(DOMAIN project.flags)
        on(flag) == SetToSeq({s \in DOMAIN flag.row : flag.row[s]})
    IN  [fields |-> project.fields,
         flags |-> [i \in DOMAIN keys |->
            [key |-> keys[i],
             envs |-> [j \in DOMAIN on(project.flags[keys[i]]) |->
                LET slug == on(project.flags[keys[i]])[j] IN
                [name |-> slug, enabled |-> TRUE,
                 strategies |-> project.flags[keys[i]].strategies[slug]]]]],
         warnings |-> [k \in DOMAIN project.flags |-> {}]]

\* Strategies of an environment the flag has no row in are left out.
Export(project) ==
    LET keys == SetToSeq(DOMAIN project.flags)
        entry(flag, slug) ==
            [name |-> slug, enabled |-> flag.row[slug], strategies |-> flag.strategies[slug]]
        envs(flag) ==
            LET slugs == SetToSeq(DOMAIN flag.row) IN
            [i \in DOMAIN slugs |-> entry(flag, slugs[i])]
    IN  [fields |-> project.fields,
         flags |-> [i \in DOMAIN keys |->
                      [key |-> keys[i], envs |-> envs(project.flags[keys[i]])]],
         warnings |-> [k \in DOMAIN project.flags |-> {}]]

\* parseVersion yields numbers of which none is negative; a file is not None.
ASSUME TransferAssumption ==
    /\ PartsOf \in [DOMAIN PartsOf -> Seq(Nat)]
    /\ NumberOf \in [DOMAIN NumberOf -> Int]
    /\ DOMAIN TextTest = {"startsWith", "contains", "regex"}
    /\ \A p \in Locals : IsProject(p)
    /\ \A p \in Origins :
          /\ AreFields(p.fields)
          /\ IsFiniteSet(DOMAIN p.flags)
          /\ \A k \in DOMAIN p.flags : IsFlag(p.flags[k])
    /\ \A f \in UnleashFiles : IsUnleashFile(f)
    /\ None \notin UnleashFiles \cup {FromNative(Export(p)) : p \in Origins}

-----------------------------------------------------------------------------
(* applyImport *)

Resolve(a, name) == IF name \in DOMAIN a.map THEN a.map[name] ELSE name

\* Mutant: the approval flow is not asked.
GuardedNever(project, slug) == FALSE

Guarded(project, slug) == project.approval /\ slug \in project.protected

\* initialEnabled without the permission to open a protected environment.
InitialEnabled(project, slug) ==
    /\ slug \notin project.protected
    /\ \/ project.default = "on"
       \/ project.default = "dev" /\ slug = "development"

Flags(doc) == {doc.flags[i].key : i \in DOMAIN doc.flags}

\* The places of the document that speak of flag k in slug: entry p[1], state p[2].
Landing(a, doc, k, slug) ==
    UNION {{<<i, j>> : j \in {n \in DOMAIN doc.flags[i].envs :
                                Resolve(a, doc.flags[i].envs[n].name) = slug}} :
             i \in {n \in DOMAIN doc.flags : doc.flags[n].key = k}}

\* What is said there last.
LastWord(doc, landing) ==
    LET i == Max({p[1] : p \in landing})
        j == Max({p[2] : p \in {q \in landing : q[1] = i}})
    IN  doc.flags[i].envs[j]

\* What the document makes of a state, unless it is refused or silent.
StateAfter(project, a, doc, k, slug, otherwise) ==
    LET landing == Landing(a, doc, k, slug) IN
    IF landing = {} \/ Guarded(project, slug) THEN otherwise ELSE LastWord(doc, landing).enabled

\* filterStrategies: a strategy with an illegal constraint goes whole.
Filter(fields, strategies) ==
    Among(strategies, {s \in Range(strategies) : \A c \in s : ~ConstraintError(fields, c)})

\* Mutant: an updated flag keeps the strategies it had.
UpdatedAdds(project, fields, a, doc, k) ==
    LET old == project.flags[k] IN
    [row |-> [s \in DOMAIN old.row |-> StateAfter(project, a, doc, k, s, old.row[s])],
     strategies |-> [s \in project.envs |->
        LET landing == Landing(a, doc, k, s) IN
        old.strategies[s] \o
        IF landing = {} THEN <<>> ELSE Filter(fields, LastWord(doc, landing).strategies)]]

\* The rows there are get their states, and every list of which the document
\* speaks is replaced, one entry after the other.
Updated(project, fields, a, doc, k) ==
    LET old == project.flags[k] IN
    [row |-> [s \in DOMAIN old.row |-> StateAfter(project, a, doc, k, s, old.row[s])],
     strategies |-> [s \in project.envs |->
        LET landing == Landing(a, doc, k, s) IN
        IF landing = {} THEN old.strategies[s]
        ELSE Filter(fields, LastWord(doc, landing).strategies)]]

\* The last entry of a flag; of a new flag, the only one.
EntryOf(doc, k) == doc.flags[Max({i \in DOMAIN doc.flags : doc.flags[i].key = k})]

\* The lists of an entry that land in one environment are added up.
Gathered(fields, a, envs, slug) ==
    FlattenSeq([j \in DOMAIN envs |->
        IF Resolve(a, envs[j].name) = slug THEN Filter(fields, envs[j].strategies) ELSE <<>>])

\* Every environment gets a row.
Created(project, fields, a, doc, k) ==
    [row |-> [s \in project.envs |->
                StateAfter(project, a, doc, k, s, InitialEnabled(project, s))],
     strategies |-> [s \in project.envs |-> Gathered(fields, a, EntryOf(doc, k).envs, s)]]

\* The strategies that Filter leaves out, by their places.
Rejected(fields, strategies) ==
    {i \in DOMAIN strategies : \E c \in strategies[i] : ConstraintError(fields, c)}

\* The warnings the import itself puts on a flag: one for every name that is not
\* found, every state refused and every strategy left out.
ImportWarnings(project, fields, a, flag) ==
    LET placed == {e \in Range(flag.envs) : Resolve(a, e.name) \in project.envs} IN
    {Warning(e.name, "unknown-environment", e.name, 0) : e \in Range(flag.envs) \ placed}
    \cup {Warning(Resolve(a, e.name), "approval-required", e.name, 0) :
        e \in {x \in placed : Guarded(project, Resolve(a, x.name))}}
    \cup UNION {{Warning(Resolve(a, e.name), "constraint-rejected", e.name, i) :
                    i \in Rejected(fields, e.strategies)} : e \in placed}

\* The flag's entry in the report.
Entry(project, fields, a, flag, doc) ==
    LET exists == flag.key \in DOMAIN project.flags
        skipped == exists /\ a.onConflict = "skip"
    IN  [action |-> IF skipped THEN "skipped" ELSE IF exists THEN "updated" ELSE "created",
         warnings |-> doc.warnings[flag.key]
                      \cup IF skipped THEN {} ELSE ImportWarnings(project, fields, a, flag)]

\* Context fields: what is missing is created, what exists is not touched.
FieldsAfter(project, doc) == Over(project.fields, doc.fields)

\* A new key that appears twice violates the unique index; more fields than the
\* limit are refused.  Both roll everything back.
Refused(project, doc) ==
    \/ Cardinality(DOMAIN FieldsAfter(project, doc)) > MaxFields
    \/ \E i, j \in DOMAIN doc.flags :
          i # j /\ doc.flags[i].key = doc.flags[j].key
                /\ doc.flags[i].key \notin DOMAIN project.flags

FlagAfter(project, fields, a, doc, k) ==
    IF k \notin DOMAIN project.flags THEN Created(project, fields, a, doc, k)
    ELSE IF a.onConflict = "skip" THEN project.flags[k]
    ELSE Updated(project, fields, a, doc, k)

ProjectAfter(project, doc, a) ==
    LET fields == FieldsAfter(project, doc) IN
    [project EXCEPT
        !.fields = fields,
        !.flags = Over([k \in Flags(doc) |-> FlagAfter(project, fields, a, doc, k)], @)]

Report(project, doc, a) ==
    [k \in Flags(doc) |-> Entry(project, FieldsAfter(project, doc), a, EntryOf(doc, k), doc)]

-----------------------------------------------------------------------------
NoArgs == [onConflict |-> "skip", map |-> <<>>]

Init ==
    /\ stage = "start"
    /\ origin = None
    /\ file = None
    /\ document = None
    /\ args = NoArgs
    /\ local \in Locals
    /\ before = local
    /\ report = <<>>

\* GET transfer/export
ExportNative ==
    /\ stage = "start"
    /\ \E o \in Origins : origin' = o /\ document' = Export(o)
    /\ stage' = "converted"
    /\ UNCHANGED <<file, args, local, before, report>>

\* GET transfer/export/unleash
ExportUnleash ==
    /\ stage = "start"
    /\ \E o \in Origins : origin' = o /\ file' = FromNative(Export(o))
    /\ stage' = "unleash"
    /\ UNCHANGED <<document, args, local, before, report>>

\* External: a file that Unleash wrote.
ReceiveUnleash ==
    /\ stage = "start"
    /\ file' \in UnleashFiles
    /\ stage' = "unleash"
    /\ UNCHANGED <<origin, document, args, local, before, report>>

\* External: somebody pasted two exports together.
RepeatFlags ==
    /\ stage = "converted"
    /\ file = None
    /\ Len(document.flags) = 1
    /\ document' = [document EXCEPT !.flags = @ \o @]
    /\ UNCHANGED <<stage, origin, file, args, local, before, report>>

\* toNative, before the import's transaction.
Convert ==
    /\ stage = "unleash"
    /\ document' = ToNative(file)
    /\ stage' = "converted"
    /\ UNCHANGED <<origin, file, args, local, before, report>>

Apply(a) ==
    /\ local' = ProjectAfter(local, document, a)
    /\ report' = Report(local, document, a)
    /\ before' = local

Import ==
    /\ stage = "converted"
    /\ \E a \in [onConflict : {"skip", "overwrite"}, map : EnvironmentMaps] :
          /\ args' = a
          /\ IF Refused(local, document)
             THEN stage' = "refused" /\ UNCHANGED <<local, before, report>>
             ELSE stage' = "imported" /\ Apply(a)
    /\ UNCHANGED <<origin, file, document>>

\* The same file with the same arguments once more.
ImportAgain ==
    /\ stage = "imported"
    /\ stage' = "again"
    /\ Apply(args)
    /\ UNCHANGED <<origin, file, document, args>>

Next ==
    \/ ExportNative \/ ExportUnleash \/ ReceiveUnleash \/ RepeatFlags
    \/ Convert \/ Import \/ ImportAgain

Spec == Init /\ [][Next]_vars

-----------------------------------------------------------------------------
(* What the file means where it comes from. *)

\* External: what one Unleash constraint asks of a caller, for the operators
\* that are known here.  Of versions, that Unleash reads the same in both.
UnleashHolds(c, ctx) ==
    LET some(type, op) ==
            /\ c.field \in DOMAIN ctx
            /\ \E i \in DOMAIN c.values : Test(type, op, ctx[c.field], <<c.values[i]>>)
        plain ==
            CASE c.operator = "IN" -> some("string", "equals")
              [] c.operator = "NOT_IN" -> ~some("string", "equals")
              [] c.operator \in {"STR_CONTAINS", "STR_STARTS_WITH"} ->
                    some("string", FromUnleashOperator[c.operator])
              [] c.operator = "SEMVER_EQ" ->
                    /\ c.field \in DOMAIN ctx
                    /\ \E i \in DOMAIN c.values :
                          /\ {ctx[c.field], c.values[i]} \subseteq DOMAIN SemverOf
                          /\ SemverOf[ctx[c.field]] = SemverOf[c.values[i]]
              [] OTHER -> some(OperatorFamily[c.operator], FromUnleashOperator[c.operator])
    IN  c.operator \in DOMAIN FromUnleashOperator /\ (c.inverted <=> ~plain)

\* External: the Unleash strategy is on for this caller whatever else the file,
\* which holds no segments, leaves open.
UnleashMatches(s, ctx) ==
    /\ ~s.disabled /\ ~s.segments
    /\ \/ s.name = "default"
       \/ s.name = "flexibleRollout" /\ s.rollout = "100"
       \/ s.name = "userWithId" /\ "userId" \in DOMAIN ctx /\ ctx["userId"] \in Range(s.userIds)
    /\ \A c \in Range(s.constraints) : UnleashHolds(c, ctx)

\* The environments a flag has something to say about, and what it says there.
SourceNames(k) ==
    IF file = None THEN DOMAIN origin.flags[k].row
    ELSE StatedIn(file, k) \cup {EnvironmentOf(file, s) : s \in StrategiesOf(file, k)}

SourceList(k, name) ==
    IF file = None THEN origin.flags[k].strategies[name] ELSE PlacedIn(file, k, name)

SourceEnabled(k, name) ==
    IF file = None THEN origin.flags[k].row[name]
    ELSE EnabledIn(file, k, name)

SourceTargets(k, name, ctx) ==
    LET list == SourceList(k, name) IN
    \/ list = <<>>
    \/ \E i \in DOMAIN list :
          IF file = None THEN StrategyMatches(list[i], TypesOf(origin.fields), ctx)
          ELSE UnleashMatches(list[i], ctx)

-----------------------------------------------------------------------------
(* Properties *)

Done == stage \in {"imported", "again"}

Written == {k \in DOMAIN report : report[k].action # "skipped"}

\* The names of a flag's environments that have a slug of the project to themselves.
Placed(k) ==
    {n \in SourceNames(k) \ {None} :
        /\ Resolve(args, n) \in local.envs
        /\ \A m \in SourceNames(k) \ {n} : Resolve(args, m) # Resolve(args, n)}

NeedsApproval(slug) == before.approval /\ slug \in before.protected

StateIn(project, k, slug) ==
    IF slug \in DOMAIN project.flags[k].row THEN project.flags[k].row[slug] ELSE FALSE

IsOn(project, k, slug, ctx) ==
    EvaluateFlag(StateIn(project, k, slug), project.flags[k].strategies[slug],
                 TypesOf(project.fields), ctx)

\* exportProject, applyImport: a native file that overwrites carries the flags over
\* exactly, state and targeting, where the flag has a row to write and the
\* strategies are legal on both sides.
CleanImportIsExact ==
    stage = "imported" /\ file = None =>
        \A k \in Written : \A n \in Placed(k) :
            LET slug == Resolve(args, n) list == origin.flags[k].strategies[n] IN
            /\ Filter(local.fields, list) = list => local.flags[k].strategies[slug] = list
            /\ slug \in DOMAIN local.flags[k].row /\ ~NeedsApproval(slug)
                 => local.flags[k].row[slug] = origin.flags[k].row[n]

\* applyImport: the same import once more changes nothing, unless two names of
\* the file share a slug.
ImportAgainChangesNothing ==
    stage = "again" /\ (\A k \in Written : SourceNames(k) \ {None} \subseteq
                           Placed(k) \cup {n \in SourceNames(k) : Resolve(args, n) \notin local.envs})
        => local = before

\* applyImport: no file opens or closes a flag in an environment behind the
\* approval flow, and a flag it creates is closed there.
ApprovalKeepsState ==
    Done => \A k \in DOMAIN local.flags : \A slug \in {s \in local.envs : NeedsApproval(s)} :
        StateIn(local, k, slug) = IF k \in DOMAIN before.flags
                                  THEN StateIn(before, k, slug) ELSE FALSE

\* A constraint that is legal where the file comes from, and whose field is read
\* here as it is there.
ReadAlike(c) ==
    /\ c.field \in DOMAIN document.fields
    /\ c.op \in OperatorsByType[document.fields[c.field].type]
    /\ {document.fields[c.field].type, local.fields[c.field].type} # {"number", "version"}

\* Unleash reads the text as the release that parseVersion finds in it.  It reads no
\* version in "1.2", and tells "1.2.0-rc1" from "1.2.0"; parseVersion does neither.
IsRelease(text) == text \in DOMAIN SemverOf /\ SemverOf[text] = ParseVersion(text)

\* As far as the list compares this caller's versions, all of them are releases.
ComparesReleases(list, ctx) ==
    \A i \in DOMAIN list : \A c \in list[i] :
        local.fields[c.field].type = "version" /\ c.field \in DOMAIN ctx =>
            \A text \in ({ctx[c.field]} \cup Range(c.values)) \cap DOMAIN PartsOf : IsRelease(text)

\* applyImport, toNative: whoever an imported flag is on for, it was on for where
\* the file comes from, save in the two ways an import is known to widen: none of
\* the strategies survived, or an Unleash constraint compares a version that is
\* not a release.
WidensOnlyAsKnown ==
    Done => \A k \in Written : \A n \in Placed(k) :
        LET slug == Resolve(args, n) list == local.flags[k].strategies[slug] IN
        /\ list # <<>> \/ SourceList(k, n) = <<>>
        /\ \A i \in DOMAIN list : \A c \in list[i] : ReadAlike(c)
        => \A ctx \in {x \in Callers : file # None => ComparesReleases(list, x)} :
             IsOn(local, k, slug, ctx) =>
               SourceTargets(k, n, ctx) /\ (SourceEnabled(k, n) \/ NeedsApproval(slug))

\* The warnings on lost strategies of one of a flag's names.
LossWarnings(k, n) ==
    {w \in report[k].warnings : w.of[1] = n /\ w.kind # "approval-required"}

\* applyImport, toNative: every strategy of the file that the flag did not get has a
\* warning of its own, or its environment is not found and has one for all of them.
\* Names that share a slug are left out: of the lists for a flag that is there
\* already the last one stays, and nothing speaks of the others.
EveryLossIsReported ==
    Done => \A k \in Written : \A n \in SourceNames(k) :
        /\ n \in Placed(k) =>
              Len(SourceList(k, n)) = Len(local.flags[k].strategies[Resolve(args, n)])
                                      + Cardinality(LossWarnings(k, n))
        /\ n = None => Len(SourceList(k, n)) = Cardinality(LossWarnings(k, n))
        /\ n # None /\ Resolve(args, n) \notin local.envs =>
              Warning(n, "unknown-environment", n, 0) \in LossWarnings(k, n)

\* matchConstraint fails closed on a missing value: telling more about a caller
\* never closes a flag for them.
ContextOnlyAdds ==
    Done => \A k \in DOMAIN local.flags : \A slug \in local.envs :
        LET on == {ctx \in Callers : IsOn(local, k, slug, ctx)} IN
        \A ctx \in Callers \ on : \A f \in DOMAIN ctx :
            [g \in DOMAIN ctx \ {f} |-> ctx[g]] \notin on

\* versionSatisfies: a caret range holds the versions compatible with its base.
CaretIsCompatible ==
    stage = "start" =>
        \A range \in {r \in DOMAIN RangeOf : RangeOf[r].op = "^"} :
            RangeOf[range].base \in DOMAIN PartsOf => \A v \in DOMAIN PartsOf :
                VersionSatisfies(v, range)
                    <=> Compatible(ParseVersion(v), ParseVersion(RangeOf[range].base))
=============================================================================
