------------------------------ MODULE Projects ------------------------------
(***************************************************************************)
(* The rows of one project that its settings pages edit: the settings       *)
(* groups, the environments, the context fields and the API keys.  Each     *)
(* admin request is a sequence of SQL statements with no lock between them  *)
(* (READ COMMITTED), and the requests in flight interleave.                 *)
(*                                                                          *)
(* during is a history field: the settings that were in force at some time  *)
(* while a request was in flight.                                           *)
(***************************************************************************)
EXTENDS Integers, FiniteSets

CONSTANTS
    Env,        \* ids an environment may get
    Field,      \* keys a context field may have
    KeyId,      \* ids an API key may get
    Request,    \* admin requests that may be in flight at once
    Lifetime,   \* keyTtlDays, None for no expiry; also the other group's values
    MaxEnvironments, MaxFields,
    Mixes,      \* the kinds of requests that meet in one behaviour
    LastDay,    \* bound on the clock
    None

Kinds == {"createEnv", "deleteEnv", "createField", "deleteField", "createKey",
          "revokeKey", "patch", "deleteProject", "import"}

ASSUME ProjectsAssumption ==
    /\ IsFiniteSet(Env) /\ IsFiniteSet(Field) /\ IsFiniteSet(Request) /\ Request # {}
    /\ MaxEnvironments \in Nat /\ MaxFields \in Nat /\ LastDay \in Nat
    /\ \A t \in Lifetime : t = None \/ t \in Nat
    /\ None \in Lifetime /\ None \notin Env /\ None \notin Field /\ None \notin KeyId
    /\ Mixes \subseteq SUBSET Kinds

VARIABLES
    mix,        \* the kinds of requests of this behaviour
    now,
    live,       \* the projects row exists
    settings,   \* projects.settings, by group
    env, fields, keys,
    request     \* request[r]: what admin request r is doing

rows == <<live, settings, env, fields, keys>>
projectVars == <<mix, now, rows, request>>

Group == {"security", "flagDefaults"}
Settings == [Group -> Lifetime]
EnvLife == {"unborn", "open", "protected", "deleted"}
Expiry == Nat \cup {None}
KeyRow == [life: {"unborn", "live", "revoked", "cascaded"}, env: Env \cup {None}, expires: Expiry]

Phase == {"idle", "insertEnv", "deleteEnv", "checkField", "insertField", "insertKey",
          "update", "evict"}
RequestFields == [phase: Phase, env: Env \cup {None}, planned: SUBSET Field,
                  key: KeyId \cup {None}, expires: Expiry, named: SUBSET Group,
                  read: Settings, wanted: Settings, during: SUBSET Settings]

\* What the next statement of a request needs to know is there.
Carries(q) ==
    /\ q.phase \in {"checkField", "insertField"} => q.planned # {}
    /\ q.phase = "deleteEnv" => q.env # None
    /\ q.phase = "evict" => q.key # None

RequestState == {q \in RequestFields : Carries(q)}

Unset == [g \in Group |-> None]
Idle == [phase |-> "idle", env |-> None, planned |-> {}, key |-> None, expires |-> None,
         named |-> {}, read |-> Unset, wanted |-> Unset, during |-> {}]

Environments == {e \in Env : env[e] \in {"open", "protected"}}

\* createProject has inserted the default environments: there may be no room left.
ProjectsInit ==
    /\ mix \in Mixes
    /\ now = 0
    /\ live = TRUE
    /\ settings \in Settings
    /\ env \in [Env -> {"unborn", "open"}]
    /\ Cardinality(Environments) <= MaxEnvironments
    /\ fields = {}
    /\ keys = [k \in KeyId |-> [life |-> "unborn", env |-> None, expires |-> None]]
    /\ request = [r \in Request |-> Idle]

-----------------------------------------------------------------------------
Starts(r, kind, to) ==
    /\ kind \in mix
    /\ request[r].phase = "idle"
    /\ request' = [request EXCEPT ![r] = [to EXCEPT !.during = {settings}]]

Ends(r) == request' = [request EXCEPT ![r] = Idle]

\* Mutant: the limit itself still leaves room.
HasRoomFor(count, max) == count <= max

HasRoom(count, max) == count < max

CountEnvironments(r) ==
    /\ HasRoom(Cardinality(Environments), MaxEnvironments)
    /\ Starts(r, "createEnv", [Idle EXCEPT !.phase = "insertEnv"])
    /\ UNCHANGED <<mix, now, rows>>

\* Mutant: a new environment's protected column is left without a value.
InsertEnvironmentUnset(r) ==
    /\ request[r].phase = "insertEnv" /\ live
    /\ \E e \in Env : env[e] = "unborn" /\ env' = [env EXCEPT ![e] = None]
    /\ Ends(r)
    /\ UNCHANGED <<mix, now, live, settings, fields, keys>>

InsertEnvironment(r) ==
    /\ request[r].phase = "insertEnv" /\ live
    /\ \E e \in Env, level \in {"open", "protected"} :
         env[e] = "unborn" /\ env' = [env EXCEPT ![e] = level]
    /\ Ends(r)
    /\ UNCHANGED <<mix, now, live, settings, fields, keys>>

\* updateEnvironment is one UPDATE.
UpdateEnvironment(e) ==
    /\ "deleteEnv" \in mix /\ e \in Environments
    /\ \E level \in {"open", "protected"} : env' = [env EXCEPT ![e] = level]
    /\ UNCHANGED <<mix, now, live, settings, fields, keys, request>>

CheckUnprotected(r, e) ==
    /\ env[e] = "open"
    /\ Starts(r, "deleteEnv", [Idle EXCEPT !.phase = "deleteEnv", !.env = e])
    /\ UNCHANGED <<mix, now, rows>>

\* Mutant: the foreign key of api_keys does not cascade.
CascadeNothing(gone) == UNCHANGED keys

\* ON DELETE CASCADE takes the keys of the environments with them.
Cascade(gone) ==
    keys' = [k \in KeyId |-> IF keys[k].life = "live" /\ keys[k].env \in gone
                             THEN [keys[k] EXCEPT !.life = "cascaded"] ELSE keys[k]]

DeleteEnvironment(r) ==
    LET gone == {request[r].env} \cap Environments IN
    /\ request[r].phase = "deleteEnv"
    /\ env' = [e \in Env |-> IF e \in gone THEN "deleted" ELSE env[e]]
    /\ Cascade(gone)
    /\ Ends(r)
    /\ UNCHANGED <<mix, now, live, settings, fields>>

CountFields(r, f) ==
    /\ HasRoom(Cardinality(fields), MaxFields)
    /\ Starts(r, "createField", [Idle EXCEPT !.phase = "checkField", !.planned = {f}])
    /\ UNCHANGED <<mix, now, rows>>

CheckField(r) ==
    /\ request[r].phase = "checkField" /\ request[r].planned \cap fields = {}
    /\ request' = [request EXCEPT ![r].phase = "insertField"]
    /\ UNCHANGED <<mix, now, rows>>

\* applyImport: the fields the file has and the project has not, counted once.
CountImport(r, new) ==
    /\ live /\ new # {} /\ new \cap fields = {}
    /\ Cardinality(fields) + Cardinality(new) <= MaxFields
    /\ Starts(r, "import", [Idle EXCEPT !.phase = "insertField", !.planned = new])
    /\ UNCHANGED <<mix, now, rows>>

\* The unique constraint on (project, key) refuses a second one, and with it all
\* that an import's transaction inserts.
InsertField(r) ==
    /\ request[r].phase = "insertField" /\ live /\ request[r].planned \cap fields = {}
    /\ fields' = fields \cup request[r].planned
    /\ Ends(r)
    /\ UNCHANGED <<mix, now, live, settings, env, keys>>

\* deleteContextField is one DELETE.
DeleteField(f) ==
    /\ "deleteField" \in mix /\ f \in fields
    /\ fields' = fields \ {f}
    /\ UNCHANGED <<mix, now, live, settings, env, keys, request>>

\* createKey: a client key is for an environment of the project; an admin key
\* takes the lifetime the settings prescribe.
CheckKeyEnvironment(r, e) ==
    /\ e \in Environments
    /\ Starts(r, "createKey", [Idle EXCEPT !.phase = "insertKey", !.env = e])
    /\ UNCHANGED <<mix, now, rows>>

ReadLifetime(r) ==
    LET days == IF live THEN settings["security"] ELSE None IN
    /\ Starts(r, "createKey", [Idle EXCEPT !.phase = "insertKey",
                                           !.expires = IF days = None THEN None ELSE now + days])
    /\ UNCHANGED <<mix, now, rows>>

\* Both foreign keys are checked by the INSERT.
InsertKey(r) ==
    LET q == request[r] IN
    /\ q.phase = "insertKey" /\ live
    /\ q.env = None \/ q.env \in Environments
    /\ \E k \in KeyId :
         /\ keys[k].life = "unborn"
         /\ keys' = [keys EXCEPT ![k] = [life |-> "live", env |-> q.env, expires |-> q.expires]]
    /\ Ends(r)
    /\ UNCHANGED <<mix, now, live, settings, env, fields>>

\* deleteKey is one DELETE; the route then evicts the key from the cache.
RevokeKey(r, k) ==
    /\ keys[k].life = "live"
    /\ Starts(r, "revokeKey", [Idle EXCEPT !.phase = "evict", !.key = k])
    /\ keys' = [keys EXCEPT ![k].life = "revoked"]
    /\ UNCHANGED <<mix, now, live, settings, env, fields>>

ReadSettings(r) ==
    /\ live
    /\ \E named \in SUBSET Group \ {{}}, wanted \in Settings :
         /\ \A g \in Group \ named : wanted[g] = None
         /\ Starts(r, "patch", [Idle EXCEPT !.phase = "update", !.read = settings,
                                            !.named = named, !.wanted = wanted])
    /\ UNCHANGED <<mix, now, rows>>

\* Mutant: the settings are replaced, not merged.
Replaced(q) == q.wanted

Merged(q) == [g \in Group |-> IF g \in q.named THEN q.wanted[g] ELSE q.read[g]]

UpdateSettings(r) ==
    /\ request[r].phase = "update" /\ live
    /\ settings' = Merged(request[r])
    /\ request' = [q \in Request |->
                     IF q = r \/ request[q].phase = "idle" THEN Idle
                     ELSE [request[q] EXCEPT !.during = @ \cup {settings'}]]
    /\ UNCHANGED <<mix, now, live, env, fields, keys>>

\* deleteProject is one DELETE that cascades to every table; no route evicts.
DeleteProject ==
    /\ "deleteProject" \in mix /\ live
    /\ live' = FALSE
    /\ env' = [e \in Env |-> IF e \in Environments THEN "deleted" ELSE env[e]]
    /\ fields' = {}
    /\ Cascade(Env \cup {None})
    /\ UNCHANGED <<mix, now, settings, request>>

\* A statement fails, on a constraint or for any other reason, and the request
\* with it; a patch is rolled back.
Fails(r) ==
    /\ request[r].phase \notin {"idle", "evict"}
    /\ Ends(r)
    /\ UNCHANGED <<mix, now, rows>>

\* The step of request r, its eviction apart.
RequestStep(r) ==
    \/ CountEnvironments(r) \/ InsertEnvironment(r)
    \/ \E e \in Env : CheckUnprotected(r, e) \/ CheckKeyEnvironment(r, e)
    \/ DeleteEnvironment(r)
    \/ \E f \in Field : CountFields(r, f)
    \/ \E new \in SUBSET Field : CountImport(r, new)
    \/ CheckField(r) \/ InsertField(r)
    \/ ReadLifetime(r) \/ InsertKey(r)
    \/ \E k \in KeyId : RevokeKey(r, k)
    \/ ReadSettings(r) \/ UpdateSettings(r)
    \/ Fails(r)

ProjectStep ==
    \/ \E e \in Env : UpdateEnvironment(e)
    \/ \E f \in Field : DeleteField(f)
    \/ DeleteProject

Evicted(r) ==
    /\ request[r].phase = "evict"
    /\ Ends(r)
    /\ UNCHANGED <<mix, now, rows>>

Tick ==
    /\ now < LastDay
    /\ now' = now + 1
    /\ UNCHANGED <<mix, rows, request>>

ProjectsNext ==
    \/ \E r \in Request : RequestStep(r) \/ Evicted(r)
    \/ ProjectStep
    \/ Tick

ProjectsSpec == ProjectsInit /\ [][ProjectsNext]_projectVars

-----------------------------------------------------------------------------
\* The variables have these types.
ProjectsTypeOK ==
    /\ mix \in Mixes
    /\ now \in 0..LastDay
    /\ live \in BOOLEAN
    /\ settings \in Settings
    /\ env \in [Env -> EnvLife]
    /\ fields \subseteq Field
    /\ keys \in [KeyId -> KeyRow]
    /\ request \in [Request -> RequestState]

\* Count, then insert, under no lock: requests that overlap pass the limits.  An
\* environment comes by one row a request, so by no more than one row for each request
\* beside the one that fills the last place (createEnvironment); fields come by as
\* many as an import counted room for, so each request may fill the limit once
\* (createContextField, applyImport).
OvershootIsBounded ==
    /\ Cardinality(Environments) <= MaxEnvironments + Cardinality(Request) - 1
    /\ Cardinality(fields) <= MaxFields * Cardinality(Request)

\* No key is left, or created, for an environment or a project that is gone,
\* whatever deletions come between the statements of createKey.
NoOrphanKeys ==
    \A k \in KeyId : keys[k].life = "live" =>
        live /\ (keys[k].env = None \/ keys[k].env \in Environments)

\* patchProject merges settings it read earlier: a patch may undo the groups it
\* does not name, but only back to what they were while it was in flight.
PatchUndoesOnlyOverlapping ==
    [][\A r \in Request : request[r].phase = "update" /\ settings' # settings
          /\ request'[r].phase = "idle" =>
            \A g \in Group \ request[r].named :
                \E s \in request[r].during : settings'[g] = s[g]]_projectVars

\* "Merge one level deep so updating one group leaves the others untouched"
\* (project.service.ts:71): a patch changes the groups it names and no other.
\* This does not hold: see README, section 6.
OnlyNamedGroupsChange ==
    [][\A g \in Group : settings'[g] # settings[g] =>
          \E r \in Request : request[r].phase = "update" /\ g \in request[r].named]_projectVars
=============================================================================
