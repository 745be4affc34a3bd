---------------------------- MODULE FlagServing ----------------------------
(***************************************************************************)
(* How one server process answers GET /client/features from its cache while *)
(* admin requests write the rows behind it.  One project with the           *)
(* environments Env and one flag; the cache key flagState(project, e) is    *)
(* the environment e itself.                                                *)
(*                                                                          *)
(* A miss starts loadEnvState, which runs three SELECTs outside any         *)
(* transaction: enabled rows, targeting strategies, context-field types.    *)
(* The cache runs one load at a time for a key: the requests that missed    *)
(* wait for the key's lock in turn, and each looks again before it loads.   *)
(* A write commits first and evicts afterwards, in a separate step; some    *)
(* routes evict one key, some the whole project, some nothing.              *)
(*                                                                          *)
(* Two history flags say what an entry has been through.  disturbed: its    *)
(* key was evicted since the request that loaded it called the cache, or a  *)
(* write that changes the result committed while the load ran.  unreported: *)
(* a write changed what it should hold, and the request that wrote failed   *)
(* after its commit, before its eviction.                                   *)
(***************************************************************************)
EXTENDS Cache, Sequences, Naturals

CONSTANTS
    Env,        \* environments of the project
    Writer,     \* admin requests that may be in flight at once
    FieldType,  \* types a context field may have
    MaxWaiting, \* bound: requests that wait for one key's lock
    Writes      \* the kinds of write admins send, a subset of WriteKind

WriteKind == {"toggle", "strategies", "createFlag", "deleteFlag", "createField",
              "updateField", "deleteField", "createEnv", "deleteEnv", "import",
              "deleteProject"}

ASSUME KeyAssumption == Key = Env /\ Writes \subseteq WriteKind

VARIABLES
    db,         \* the rows of the project
    waiting,    \* waiting[e]: the requests that wait for the lock of key e, first to
                \* last; TRUE when the key was evicted since the request called
    loader,     \* loader[e]: the factory running for key e, under its lock
    writer      \* writer[w]: what admin request w is doing

vars == <<store, knownKeys, db, waiting, loader, writer>>

Life == {"unborn", "live", "deleted"}
Toggle == {"none", "off", "on"}         \* none: no flag_environments row
Rules == {"everyone", "targeted"}       \* everyone: no strategy rows
FieldRow == {"none"} \cup FieldType     \* none: no context_fields row
Database == [project: {"live", "deleted"}, flag: Life, env: [Env -> Life],
             row: [Env -> Toggle], rules: [Env -> Rules], field: FieldRow]

\* What is cached: the plain state, and the two history flags.
EnvState == [row: Toggle, rules: Rules, field: FieldRow]
Entry == [state: EnvState, disturbed: BOOLEAN, unreported: BOOLEAN]

ASSUME NoneAssumption == None \notin Entry

\* A flag without a row in the environment is left out, whatever its strategies.
StateOf(row, rules, field) ==
    [row |-> row, rules |-> IF row = "none" THEN "everyone" ELSE rules, field |-> field]

\* What loadEnvState would return if it ran at one instant of database d.
Current(d, e) == StateOf(d.row[e], d.rules[e], d.field)

NoLoad == [pc |-> "idle", row |-> "none", rules |-> "everyone", field |-> "none",
           disturbed |-> FALSE]
Load == [pc: {"idle", "flags", "strategies", "fields", "return"}, row: Toggle,
         rules: Rules, field: FieldRow, disturbed: BOOLEAN]

\* value: the requested toggle, strategy list or field type; env: the target.
WriteValue == {"on", "off"} \cup Rules \cup FieldType
NoWrite == [pc |-> "idle"]
Write == [pc: {"checked", "committed"}, kind: Writes, env: Env, value: WriteValue]

TypeOK ==
    /\ store \in [Key -> Entry \cup {None}]
    /\ knownKeys \subseteq Key
    /\ db \in Database
    /\ waiting \in [Env -> Seq(BOOLEAN)]
    /\ loader \in [Env -> Load]
    /\ writer \in [Writer -> Write \cup {NoWrite}]

Init ==
    /\ EmptyCache
    /\ db \in [project: {"live"}, flag: {"unborn"}, env: [Env -> {"unborn", "live"}],
               row: [Env -> {"none"}], rules: [Env -> {"everyone"}], field: FieldRow]
    /\ waiting = [e \in Env |-> <<>>]
    /\ loader = [e \in Env |-> NoLoad]
    /\ writer = [w \in Writer |-> NoWrite]

-----------------------------------------------------------------------------
(* Reads *)

\* A client request.  A hit changes nothing but knownKeys; a miss waits for the
\* key's lock.  A client key outlives its environment while it is cached, so a
\* deleted environment is still asked for.
ClientRequest(e) ==
    /\ db.env[e] # "unborn"
    /\ Track(e)
    /\ \/ store[e] # None /\ UNCHANGED waiting
       \/ /\ store[e] = None /\ Len(waiting[e]) < MaxWaiting
          /\ waiting' = [waiting EXCEPT ![e] = Append(@, FALSE)]
    /\ UNCHANGED <<store, db, loader, writer>>

\* The load before it has ended, well or not, or there was none: the first that
\* waits looks into the store again, and loads what is not there.  It does not
\* track the key a second time.
AcquireLock(e) ==
    /\ loader[e].pc = "idle" /\ waiting[e] # <<>>
    /\ waiting' = [waiting EXCEPT ![e] = Tail(@)]
    /\ loader' = IF store[e] # None THEN loader
                 ELSE [loader EXCEPT ![e].pc = "flags", ![e].disturbed = Head(waiting[e])]
    /\ UNCHANGED <<store, knownKeys, db, writer>>

ReadFlags(e) ==
    /\ loader[e].pc = "flags"
    /\ loader' = [loader EXCEPT ![e].pc = "strategies", ![e].row = db.row[e]]
    /\ UNCHANGED <<store, knownKeys, db, waiting, writer>>

\* Mutant: the strategy rows end up in the wrong column of the result.
ReadStrategiesSwapped(e) ==
    /\ loader[e].pc = "strategies"
    /\ loader' = [loader EXCEPT ![e].pc = "fields", ![e].rules = db.row[e]]
    /\ UNCHANGED <<store, knownKeys, db, waiting, writer>>

ReadStrategies(e) ==
    /\ loader[e].pc = "strategies"
    /\ loader' = [loader EXCEPT ![e].pc = "fields", ![e].rules = db.rules[e]]
    /\ UNCHANGED <<store, knownKeys, db, waiting, writer>>

ReadFields(e) ==
    /\ loader[e].pc = "fields"
    /\ loader' = [loader EXCEPT ![e].pc = "return", ![e].field = db.field]
    /\ UNCHANGED <<store, knownKeys, db, waiting, writer>>

Loaded(e) == StateOf(loader[e].row, loader[e].rules, loader[e].field)

\* The factory returns and the cache keeps its result.
StoreResult(e) ==
    /\ loader[e].pc = "return"
    /\ Put(e, [state |-> Loaded(e), disturbed |-> loader[e].disturbed, unreported |-> FALSE])
    /\ loader' = [loader EXCEPT ![e] = NoLoad]
    /\ UNCHANGED <<knownKeys, db, waiting, writer>>

\* Mutant: a query that fails counts as one that found no row.
LoadFailsSoft(e) ==
    /\ loader[e].pc \in {"flags", "strategies", "fields"}
    /\ Put(e, [state |-> Loaded(e), disturbed |-> loader[e].disturbed, unreported |-> FALSE])
    /\ loader' = [loader EXCEPT ![e] = NoLoad]
    /\ UNCHANGED <<knownKeys, db, waiting, writer>>

\* A query fails: the request gets a 500, nothing is cached, and the next one that
\* waits runs its own load.
LoadFails(e) ==
    /\ loader[e].pc \in {"flags", "strategies", "fields"}
    /\ loader' = [loader EXCEPT ![e] = NoLoad]
    /\ UNCHANGED <<store, knownKeys, db, waiting, writer>>

TimeToLive(e) ==
    /\ Expire(e)
    /\ UNCHANGED <<db, waiting, loader, writer>>

-----------------------------------------------------------------------------
(* Writes *)

ValuesOf(kind) ==
    CASE kind = "toggle"     -> {"on", "off"}
      [] kind = "strategies" -> Rules
      [] kind \in {"createField", "updateField"} -> FieldType
      [] OTHER               -> {"off"}

\* What the handler looks up before it writes; a miss is a 404 or a 400.
Accepted(kind, e, value) ==
    /\ kind \in {"toggle", "strategies"} => db.flag = "live" /\ db.env[e] = "live"
    /\ (kind = "strategies" /\ value = "targeted") => db.field # "none"
    /\ kind = "deleteEnv" => db.env[e] = "live"

WriteRequest(w) ==
    /\ writer[w] = NoWrite
    /\ \E kind \in Writes, e \in Env : \E value \in ValuesOf(kind) :
         /\ Accepted(kind, e, value)
         /\ writer' = [writer EXCEPT
              ![w] = [pc |-> "checked", kind |-> kind, env |-> e, value |-> value]]
    /\ UNCHANGED <<store, knownKeys, db, waiting, loader>>

\* The databases the statement or transaction of a write can leave; none when
\* it fails (unique or foreign-key violation, or no row matched).  A project's
\* flag, and each environment, lives once: a key created again is a new row.
ToggleWritten(d, e, value) ==
    {n \in {[d EXCEPT !.row = [@ EXCEPT ![e] = value]]} : d.flag = "live" /\ d.env[e] = "live"}

\* An empty list deletes the rows there are and inserts none.  It may delete
\* none: of a flag that is gone, or of a list that an overlapping PUT commits
\* meanwhile (see Strategies).
StrategiesWritten(d, e, value) ==
    {n \in {[d EXCEPT !.rules = [@ EXCEPT ![e] = value]]} :
        d.flag = "live" /\ d.env[e] = "live"}
    \cup {n \in {d} : value = "everyone"}

\* A row for every environment there is, on or off by the project's default.
FlagCreated(d) ==
    {[d EXCEPT !.flag = "live", !.row = r] :
        r \in {q \in [Env -> Toggle] :
                 /\ d.project = "live" /\ d.flag = "unborn"
                 /\ \A x \in Env : q[x] = "none" <=> d.env[x] # "live"}}

FlagDeleted(d) ==
    {n \in {[d EXCEPT !.flag = "deleted", !.row = [x \in Env |-> "none"],
                     !.rules = [x \in Env |-> "everyone"]]} : d.flag = "live"}

FieldCreated(d, type) ==
    {n \in {[d EXCEPT !.field = type]} : d.project = "live" /\ d.field = "none"}
FieldUpdated(d, type) == {n \in {[d EXCEPT !.field = type]} : d.field # "none"}
FieldDeleted(d) == {n \in {[d EXCEPT !.field = "none"]} : d.field # "none"}

EnvCreated(d, e) ==
    {n \in {[d EXCEPT !.env = [@ EXCEPT ![e] = "live"]]} :
        d.project = "live" /\ d.env[e] = "unborn"}

\* Its flag and strategy rows go with it; deleting it twice changes nothing.
EnvDeleted(d, e) ==
    {[d EXCEPT !.env = [@ EXCEPT ![e] = "deleted"], !.row = [@ EXCEPT ![e] = "none"],
               !.rules = [@ EXCEPT ![e] = "everyone"]]}

\* A file with the flag and a context field.  A field that is there already stays
\* as it is; a new flag gets a row for every environment, an old one keeps the
\* rows it has; the environments the file speaks of get its lists.
FlagImported(d) ==
    {[d EXCEPT !.flag = "live", !.row = p[1], !.rules = p[2], !.field = p[3]] :
        p \in {q \in [Env -> Toggle] \X [Env -> Rules] \X FieldRow :
                 /\ d.project = "live" /\ d.flag # "deleted"
                 /\ d.field # "none" => q[3] = d.field
                 /\ \A x \in Env :
                      /\ q[1][x] = "none" <=> IF d.flag = "live" THEN d.row[x] = "none"
                                             ELSE d.env[x] # "live"
                      /\ \/ q[2][x] = d.rules[x]
                         \/ d.env[x] = "live" /\ (q[2][x] = "targeted" => q[3] # "none")}}

\* Every row of the project goes with it.
ProjectDeleted(d) ==
    {n \in {[project |-> "deleted",
             flag |-> IF d.flag = "live" THEN "deleted" ELSE d.flag,
             env |-> [x \in Env |-> IF d.env[x] = "live" THEN "deleted" ELSE d.env[x]],
             row |-> [x \in Env |-> "none"], rules |-> [x \in Env |-> "everyone"],
             field |-> "none"]} : d.project = "live"}

Written(d, kind, e, value) ==
    CASE kind = "toggle"      -> ToggleWritten(d, e, value)
      [] kind = "strategies"  -> StrategiesWritten(d, e, value)
      [] kind = "createFlag"  -> FlagCreated(d)
      [] kind = "deleteFlag"  -> FlagDeleted(d)
      [] kind = "createField" -> FieldCreated(d, value)
      [] kind = "updateField" -> FieldUpdated(d, value)
      [] kind = "deleteField" -> FieldDeleted(d)
      [] kind = "createEnv"   -> EnvCreated(d, e)
      [] kind = "deleteEnv"   -> EnvDeleted(d, e)
      [] kind = "import"      -> FlagImported(d)
      [] kind = "deleteProject" -> ProjectDeleted(d)

\* Mutant: replacing the strategies evicts nothing.
CoveredButStrategies(kind, e) ==
    CASE kind = "toggle" -> {e}
      [] kind \in {"createField", "createEnv", "deleteProject", "strategies"} -> {}
      [] OTHER -> Env

\* The keys a route evicts once its write has committed.
Covered(kind, e) ==
    CASE kind = "toggle" -> {e}
      [] kind \in {"createField", "createEnv", "deleteProject"} -> {}
      [] OTHER -> Env

Disturb(ld, K) ==
    [e \in Env |-> IF e \in K /\ ld[e].pc # "idle"
                   THEN [ld[e] EXCEPT !.disturbed = TRUE] ELSE ld[e]]

\* The statement or transaction of w commits; running loads may see both sides.
CommitRows(w) ==
    /\ writer[w].pc = "checked"
    /\ \E d \in Written(db, writer[w].kind, writer[w].env, writer[w].value) :
         /\ db' = d
         /\ loader' = Disturb(loader, {e \in Env : Current(d, e) # Current(db, e)})
    /\ UNCHANGED <<knownKeys, waiting>>

Commit(w) ==
    /\ CommitRows(w)
    /\ writer' = IF Covered(writer[w].kind, writer[w].env) = {}
                 THEN [writer EXCEPT ![w] = NoWrite]
                 ELSE [writer EXCEPT ![w].pc = "committed"]
    /\ UNCHANGED store

\* The rows are written, yet the handler throws before it evicts: createFlag reads
\* the flag back after its transaction, and any commit can lose its answer.
CommitUnreported(w) ==
    /\ CommitRows(w)
    /\ Covered(writer[w].kind, writer[w].env) # {}
    /\ writer' = [writer EXCEPT ![w] = NoWrite]
    /\ store' = [e \in Env |->
         IF store[e] = None \/ Current(db', e) = Current(db, e) THEN store[e]
         ELSE [store[e] EXCEPT !.unreported = TRUE]]

\* The statement fails, for one of the reasons above or on a database error.
WriteFails(w) ==
    /\ writer[w].pc = "checked"
    /\ writer' = [writer EXCEPT ![w] = NoWrite]
    /\ UNCHANGED <<store, knownKeys, db, waiting, loader>>

Evict(w) ==
    /\ writer[w].pc = "committed"
    /\ IF writer[w].kind = "toggle" THEN Delete(writer[w].env)
       ELSE DeleteByPrefix(Covered(writer[w].kind, writer[w].env))
    /\ loader' = Disturb(loader, Covered(writer[w].kind, writer[w].env))
    /\ waiting' = [e \in Env |-> IF e \in Covered(writer[w].kind, writer[w].env)
                                 THEN [i \in 1 .. Len(waiting[e]) |-> TRUE]
                                 ELSE waiting[e]]
    /\ writer' = [writer EXCEPT ![w] = NoWrite]
    /\ UNCHANGED db

-----------------------------------------------------------------------------
\* The process dies and starts again: cache and requests are lost, rows are not.
Restart ==
    /\ ClearedCache
    /\ waiting' = [e \in Env |-> <<>>]
    /\ loader' = [e \in Env |-> NoLoad]
    /\ writer' = [w \in Writer |-> NoWrite]
    /\ UNCHANGED db

LoadStep(e) ==
    ReadFlags(e) \/ ReadStrategies(e) \/ ReadFields(e) \/ StoreResult(e)

Next ==
    \/ \E e \in Env : ClientRequest(e) \/ AcquireLock(e)
    \/ \E e \in Env : LoadStep(e) \/ LoadFails(e)
    \/ \E e \in Env : TimeToLive(e)
    \/ \E w \in Writer : WriteRequest(w) \/ WriteFails(w) \/ Evict(w)
    \/ \E w \in Writer : Commit(w) \/ CommitUnreported(w)
    \/ Restart

Spec == Init /\ [][Next]_vars

\* Every handler and every query runs on, and the clock moves: an entry that
\* stays is dropped when its ttl ends.  No client or admin has to come.
Fairness ==
    /\ \A e \in Env :
         WF_vars(AcquireLock(e)) /\ WF_vars(LoadStep(e)) /\ WF_vars(TimeToLive(e))
    /\ \A w \in Writer : /\ WF_vars(Commit(w) \/ CommitUnreported(w) \/ WriteFails(w))
                         /\ WF_vars(Evict(w))

FairSpec == Spec /\ Fairness

-----------------------------------------------------------------------------
Fresh(e) == store[e] = None \/ store[e].state = Current(db, e)

\* What an entry holds that lacks no more than a new context field.
UpToNewField(d, e) == {Current(d, e), [Current(d, e) EXCEPT !.field = "none"]}

EvictionDue(e) ==
    \E w \in Writer : /\ writer[w].pc = "committed"
                      /\ e \in Covered(writer[w].kind, writer[w].env)

\* An entry is never out of date when no write changed it during its load, no
\* eviction fell between its request's call and its store, and no request failed
\* between a commit and its eviction; except while that eviction is still due, by a
\* context field created since, or when the project is gone: those two evict nothing.
UndisturbedIsFresh ==
    \A e \in Env :
        (store[e] # None /\ ~store[e].disturbed /\ ~store[e].unreported) =>
            \/ store[e].state \in UpToNewField(db, e)
            \/ EvictionDue(e)
            \/ db.project = "deleted"

\* Every later eviction by prefix finds the key of such an entry.
UndisturbedIsTracked ==
    \A e \in Env : (store[e] # None /\ ~store[e].disturbed) => e \in knownKeys

\* So it does for a request that waits, unless the key was evicted since its call.
UndisturbedWaitIsTracked ==
    \A e \in Env : \A i \in 1 .. Len(waiting[e]) : ~waiting[e][i] => e \in knownKeys

\* What a load that overlaps no write has read so far is still current, and its
\* key is tracked.
UndisturbedLoadIsCurrent ==
    \A e \in Env :
        (loader[e].pc # "idle" /\ ~loader[e].disturbed) =>
            /\ e \in knownKeys
            /\ loader[e].pc \in {"strategies", "fields", "return"} =>
                   loader[e].row = db.row[e]
            /\ (loader[e].pc \in {"fields", "return"} /\ loader[e].row # "none") =>
                   loader[e].rules = db.rules[e]
            /\ loader[e].pc = "return" => loader[e].field = db.field

\* Why an undisturbed entry is fresh: from the request's call to the end of its
\* entry, no eviction, failed load or later turn at the lock leaves a value that the
\* next eviction would not find.
UndisturbedLoads ==
    UndisturbedIsTracked /\ UndisturbedWaitIsTracked /\ UndisturbedLoadIsCurrent

\* The expiry bounds what races leave behind: once admins stop writing, every
\* entry is eventually, and then for ever, what the database holds.
EventuallyFresh ==
    <>[](\A w \in Writer : writer[w] = NoWrite) => <>[](\A e \in Env : Fresh(e))

=============================================================================
