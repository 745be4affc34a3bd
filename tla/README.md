# Formal models of flagraft

TLA+ models of the flagraft feature-flag server, with the TLC runs that check
small instances and TLAPS proofs for instances of any size. Paths are relative
to the repository root. `PROJECT.json` maps every definition to the lines it
models and lists runs, mutants, findings, hazards and theorems.

To check a run, `tlc -config Owners.cfg MCOwners`; to check a proof module,
`tlapm Owners_proofs.tla`.

## 1. Inventory

flagraft is one Fastify process over Postgres, with an in-memory cache, an admin
UI, and two SDKs that call it. README.md:277 and docs/ROADMAP.md:176-185 allow one
server instance for now. Node runs one callback at a time, so two requests
interleave only at an `await`: a query, a hash, a cache call. Postgres runs at its
default, READ COMMITTED.

| component | state | operations | interacts with | hard behaviour |
|---|---|---|---|---|
| cache (`src/cache`) | entries with a ttl, `knownKeys` | getOrSet, delete, deleteByPrefix | client serving, authentication, every write route | a fill overlapping an eviction |
| client serving (`src/modules/client`) | none | `loadEnvState` (three SELECTs), evaluate, ETag | cache, all tables clients read | reads of three tables outside a transaction |
| flags (`src/modules/flags`) | feature_flags, flag_environments, pending_flag_toggles | create, patch, delete, enable, disable | cache, settings, environments | two-person approval under concurrency |
| strategies | targeting_strategies | replace the list | cache, context fields | delete-then-insert under concurrency |
| context fields | context_fields | create, update, delete | cache | a limit counted before the insert |
| environments, projects | environments, projects, settings, memberships | CRUD, settings | cascades to everything | checks in one statement, writes in another; a merge of settings read earlier |
| users (`src/modules/users`) | users | invite, accept, patch, delete, reset | sessions | last-owner guard, stale reads across hashing |
| auth, keys (`src/plugins/auth.ts`, `src/modules/{auth,keys}`) | sessions (JWT + session_version), api_keys | login, authenticate, create, revoke | cache | revocation against a load in flight |
| evaluation (`client/evaluate.ts`, `strategies/constraint-rules.ts`) | none | match strategies and constraints | serving, transfer | a pure algorithm |
| transfer, Unleash adapter | none | export, import, convert | flags, strategies, fields, approval | data that means something else on the other side |
| SDKs (`packages/sdk-js`, `packages/sdk-python`) | three caches, a backoff clock | isEnabled, getFeatures | server | concurrent calls, stale fallback, 304, 429, threads |
| admin UI (`packages/admin-ui`) | what each screen shows, drafts, dialogs, the active project | reads, writes, bulk actions, import, settings | server | answers in any order, late or never; drafts from old reads |
| bootstrap, migrations, CLI, mail, health, logging | | | | not modelled: wiring and I/O |

What makes each of them correct:

- cache and serving: an entry is a state the database held while it was loaded,
  and a write's effect is not hidden longer than until its eviction;
- approval: no single person changes a flag of a protected environment;
- users: somebody can always act as owner;
- accounts: what is reset, used or suspended stays so;
- strategies: the list in force is one that somebody sent;
- projects and keys: limits hold, no key outlives what it belongs to, a patch undoes
  nothing it does not name, a dead key is refused;
- transfer: an import of an export means the same, and what is lost is reported;
- SDK: a reading is preferred to a default, and answers are of bounded age;
- admin UI: what is shown once nothing is awaited is what was asked for, and a save
  replaces what its author saw.

The hazards of `PROJECT.json` name the lines where these can fail.

## 2. Plan

The plan, most important first, with what each module composes. All of it is built.

| step | modules | composes | abstract specification |
|---|---|---|---|
| 1 | `Cache`, `FlagServing` | FlagServing INSTANCEs Cache | `CacheContract` through `FlagServingContract` |
| 2 | `ApprovalFlow` | | `TwoPersonToggle` |
| 3 | `Owners`, `Strategies` | | |
| 4 | `Projects`, `KeyAuth` | KeyAuth EXTENDS Projects, INSTANCEs Cache | |
| 5 | `Accounts` | | |
| 6 | `TtlCache`, `SdkClient`, `SdkThreads` | SdkThreads EXTENDS SdkClient, which INSTANCEs TtlCache three times | |
| 7 | `Evaluate`, `Unleash`, `Transfer` | Transfer EXTENDS Unleash EXTENDS Evaluate | |
| 8 | `AdminApi`, `ListScreen`, `ListActions`, `FlagPage`, `RuleEditor`, `ImportDialog`, `Workspace`, `AdminUi` | AdminUi EXTENDS the screens, they EXTEND AdminApi | |

Open, should the project go on: the creation of projects and the membership of users.

## 3. Modules

### Cache, FlagServing (MCFlagServing), FlagServing_proofs

`Cache` is the wrapper in `src/cache/index.ts`: `store` is BentoCache's memory
driver and `knownKeys` the wrapper's set. `getOrSet` is `Track` at the call and
`Put` at the factory's return. BentoCache is a library, modelled by what the
wrapper relies on: a lock for each key, for which the callers that missed wait in turn,
each looking again before it runs its own factory, and deletion that leaves a running
factory and those who wait alone. With the memory driver
`deleteByPrefix` is one step: it runs through promises that are already resolved.

`FlagServing` is one project with environments `Env` and one flag. `db` holds
the columns clients are served from: whether the flag exists, and per
environment its row (`none`, `off`, `on`), whether it has strategies
(`targeted`) or none (`everyone`), and the type of one context field.
`waiting[e]` are the requests that wait for the lock of key e, in turn, each with whether
the key was evicted since its call; `loader[e]` is the factory running under that lock,
with what each SELECT has returned; `writer[w]` is an admin request between its lookups, its commit and
its eviction.

| action | code |
|---|---|
| `ClientRequest` | GET /client/features reaching getOrSet: a hit, or a miss, which waits for the key's lock |
| `AcquireLock` | the first that waits looks again, and starts its factory if there is still nothing; only `ClientRequest` tracked the key |
| `ReadFlags`, `ReadStrategies`, `ReadFields`, `StoreResult` | the three awaits of `loadEnvState` and its return |
| `LoadFails` | one of the queries throws; BentoCache caches nothing, and the next that waits runs its own factory |
| `WriteRequest` | the lookups of an admin handler, with their 404s and 400s |
| `Commit`, `WriteFails` | its statement or transaction |
| `CommitUnreported` | the rows are written but the handler throws before its eviction: createFlag's read after its transaction fails, or the answer to a commit is lost |
| `Evict` | the route's `cache.delete` or `deleteByPrefix`, after the commit |
| `TimeToLive`, `Restart` | expiry; a new process with an empty cache |

There are eleven kinds of write, the import of a file and the deletion of the project
among them. `Covered` is where the routes differ: a toggle evicts its environment's key,
most writes the whole project, and the creation of a context field or an environment and
the deletion of the project nothing. Two history flags are kept. `disturbed`, of a
load and of the entry it made: a write that changed what the load would return committed
while it ran, or its key was evicted since its request called the cache, be it while that
request was still waiting. `unreported`, of an entry: it was changed by a `CommitUnreported`.

Abstractions: one flag stands for any (rows of different flags do not meet in
`loadEnvState` but in the same three reads); a flag and an environment live once,
since a key or slug created again is a new row with a new id; a list of strategies
is present or absent, because mixing lists is the subject of `Strategies`; an
empty list sent by one of two overlapping PUTs may delete nothing. `WriteFails`
covers every refusal the model does not keep: limits, protection, required
descriptions.

### CacheContract, FlagServingContract (FlagServing_proofs)

`CacheContract` says what a read-through cache owes when a load reads the three parts of
a value one after another: what it holds is the answer to three parts of its own key,
each of which was true at an instant of one load, in the order of the reads. `After` says
what a change of the truth adds to what the reads may have found: those made keep what
they found, the rest are made after the change. `FlagServingContract` adds the history
variable `window[e]`, what the SELECTs of e's load may have found, and maps `truth` to the
rows of an environment (`PartsOf`), `held` to the cached states, `witnessed` to `window`
and `Answer` to how `loadEnvState` puts the parts together.

**Torn loads.** The contract holds for all kinds of write together (run `contract`, theorem
`ServingRefines`). It excludes values that no row ever had, that are another key's, that are
from before or after the load or read in part only. It allows parts of different times,
because the code does. A flag that is on for a targeted few is turned off, and its
strategies are then removed; a load that read its row before and its strategies after
combines the two into a flag that is on for everyone. The database never held that state,
and where the load stores after the writes' evictions it is served until the entry expires
(`EventuallyFresh` bounds it; `UndisturbedIsFresh` says an entry without overlap has no such
state).

### ApprovalFlow (MCApprovalFlow), TwoPersonToggle, ApprovalFlow_proofs

One flag in one environment. `call[c]` goes through the preHandler (`Begin`), the
two reads of `setFlagEnabled`, and the statements of `requestOrConfirmToggle`.
`pending` is the row of pending_flag_toggles and `holder` the transaction that has
it locked. `Select` is `SELECT ... FOR UPDATE`: it finds nothing, locks the row,
or waits. When the lock is released, PostgreSQL gives a waiter the row's new
version (`Acquire`), or no row if it was deleted (`Confirm` sends the waiters to
`insert`). `Decide` is the rest of the transaction with its commit: it holds the
lock throughout, so nothing can be seen of its separate statements. `Insert`
meets the unique constraint. A transaction that fails changes nothing and
releases the lock. `calls` is a history variable, who has asked for each value
since the flag last changed; calls still in flight stay in it across a change.

`TwoPersonToggle` is the rule as the comments state it, one step per call.
`StrictSpec` is the flow while the rule is in force: protected, approval required,
settings not edited.

### Owners (MCOwners), Owners_proofs

PATCH and DELETE of users, with `assertNotLastOwner`. `Snapshot` is the moment its
SELECT takes its snapshot, `LockRow` the locking of one row of it, which waits for
other transactions and, once locked, looks at the row again and drops it if it no
longer is an active owner. `Update` is the UPDATE or DELETE by id, which waits for
the row, and the commit. Two guards may wait for each other; PostgreSQL aborts one
of them, which `Refuse` includes, so no such state is stuck. `Invite`,
`CancelInvite` and `Activate` are the writes of other routes; `Activate` stands for
accepting an invite and for a password reset, which update by id whatever they
read earlier. An invite cannot grant ownership. `Growth` says whether anybody may
*become* an active owner while requests run.

### Strategies (MCStrategies), Targeting_proofs

The two statements of `replaceStrategies` for one flag in one environment. The rows
of a PUT come and go together, so the table is the set `rows` of PUTs. `StartDelete`
is the DELETE's snapshot, `DeleteRow` the locking and deletion of one PUT's rows,
`Commit` the INSERT and the commit. `missed` is a history variable: the lists
committed since the snapshot. An import replaces the lists of the flags it updates
in the same way.

### Projects, KeyAuth (MCKeyAuth), KeyAuth_proofs

`Projects` is one project row with its settings groups, environments, context fields
and API keys. A request is the sequence of its statements: `request[r].phase` says
which is next. Counting environments or fields and inserting one are two steps, so are
reading settings and writing the merge of them with the patch. An import counts once and
then inserts the many fields it found missing (`CountImport`; `planned` are those a request has
still to insert). Foreign keys are
enforced in the step that inserts, and cascades are part of the step that deletes.
`mix` is the kinds of request of a behaviour: TLC looks at those that share a table,
the proofs at any mix.

`KeyAuth` is the authPlugin's cached lookup over the same `Cache` module as the
serving path: `Authenticate` finds the key or starts its factory, `LoadApiKey` reads the
row, `StoreKey` returns it, `Evict` is the deletion of the key from the cache after a
revocation's DELETE commits. The cascades of an environment or a project evict nothing, as in
the code. `granted` is the request that the last step let through, which
`EventuallyRefused` is about.

### Accounts (MCAccounts), Accounts_proofs

A users row with its password (a model value stands for a password and its hash),
`session_version` and invite token, the cookies out there, and requests that read the
row, hash or verify for long, and then update by id. `ReadInvite`/`AcceptInvite`, `ReadForReset`/
`ResetPassword` and the two halves of a login are the two sides of that wait;
`InviteUser` and `SetToken` are two statements. `raced` notes on requests, rows and sessions that a
write came between, for what the code does promise is only about those without.

### TtlCache, SdkClient, SdkThreads (MCSdk), Sdk_proofs

`TtlCache` is the class of both SDKs: entries in insertion order with two deadlines,
purging on lookup, eviction of the oldest at the limit. `SdkClient` is the JavaScript
client: a call runs up to its request and after the answer without interruption.
`SdkThreads` is the Python client, which takes a cache's lock for one lookup at a time,
so what is one step in JavaScript is up to seven there; the shared handling of an
answer is the same action. `runtime` picks one of them for a behaviour.

The server is `history`, the states of one flag with the time each began. An answer is
any state that held within `ServerLag` of the request's arrival, with its tag; requests may be answered
late, out of order, with 304, 404, another 4xx, 429, 5xx, or never. A 429 starts the pause
before its body has come (`RateLimited`, then `Limited`). The tag is the state:
it is a hash of it and of the context. Time passes only where nothing is ready to run
in the process, since a handler takes no time that the caches would notice.

The JavaScript client ends a request, its body included, by `AbortSignal.timeout`
(`TimerKept`); where the platform has none, or timeoutMs is 0, `Timeout` is 0 and a request
lasts as long as it likes. Python's timeout is one of each socket operation
(packages/sdk-python/README.md:102), so there nothing bounds a request (`ThreadTick`).
`slowest` is a history variable: the longest that a request whose answer was taken has
lasted, which is what the age of an answer depends on in both.

### Evaluate, Unleash, Transfer (MCTransfer), Targeting_proofs

`Evaluate` is evaluate.ts and constraint-rules.ts as operators: which operators a type
has, versions with carets and tildes, a strategy as the conjunction of its constraints.
Texts are members of `Text`; what `Number`, `Date.parse` and splitting at dots make of
them is data of the instance. `Unleash` is the adapter in both directions. `Transfer`
exports a project (natively or as Unleash), converts a file back, imports it and imports
it once more. An import is one transaction, so one action; a dry run is the same
transaction rolled back. `sortOrder` is the order of a sequence.

The code's loops are written as what they leave behind: `Landing` is the set of places in
the document that speak of a flag in an environment, `LastWord` the one whose write
stays, `Gathered` the lists that a new flag gets one after the other, `Among` a filter and
`Over` a merge of two maps. None of them recurs, so they can be reasoned about.

A warning has a kind and the place in the file it is about (`of`), so that two lost
strategies have two warnings. `EveryLossIsReported` counts them: what the file has for a
name is what the flag got plus its warnings. Names that share a slug are left out,
since of their lists the last one stays and the code says nothing of the others (section 6).

Versions are read twice: `ParseVersion` is the code's, which drops a prerelease and fills up a short
version, and `SemverOf` is what Unleash's semver operators read, which is data of the
instance. In `MCTransfer` it has no "1.3", and tells "1.3.0-rc1" from "1.3.0".
A file from Unleash may therefore widen: `WidensOnlyAsKnown` names this as one of two
ways, next to the flag none of whose strategies survive, and excludes every other.

`ReadAlike`, on which `WidensOnlyAsKnown` depends, says when a constraint means here
what it meant at the origin: its operator is one of its field's type there, and the two
types are not number and version. The first half is needed because `updateContextField`
(modules/context-fields/context-field.service.ts:81-101) changes a field's type without a
look at the constraints on it. Such a constraint is never met at the origin; imported
into a project where the field has the type it was written for, it is met again, and the flag is
on for callers it was off for.

### AdminApi, the screens, AdminUi (MCAdminUi), AdminUi_proofs

`AdminApi` is api.ts as the screens see it: writes are sent, and carried out or refused
at any later time; the browser gets an answer, an error or a timeout, and a timeout leaves open
what the server did or will do. What a read returns is the set of the user's own
writes carried out so far; other users are left out, since a screen cannot know of them.

| module | code | state |
|---|---|---|
| `ListScreen` | FlagsScreen, UsersScreen, KeysScreen, SettingsMembers and their hooks | what the list asks for, reads under way, rows shown, selection |
| `ListActions` | bulk actions, rows, the keys dialogs | writes under way, the key on show |
| `FlagPage` | FlagDetailScreen | page, its reads, the switches under way |
| `RuleEditor` | EnvStrategies with StrategyEditorModal, ContextFieldsSection with its dialog | list, draft, save |
| `ImportDialog` | ImportFlagsModal | file, options, report, run |
| `Workspace` | ProjectContext, ProjectSwitcherModal, settings sections, EnvironmentsScreen | projects, active one, copies of settings, environments |

`Workspace.moved` is a history variable: the projects saved to since the list on show was
asked for, and since the list under way was. A copy taken from a list is `behind` if its
project is among them.

A React handler and the effects that follow it are one action; between two awaits
nothing interrupts. The areas share nothing but the API, so `part` picks one of them
for a behaviour: lists and flag page together, or one of the three others. Debouncing
is a read that starts later.

Environments that arrive free the busy button of the dialog that issues a key
(`EnvironmentsArrive`), as does the table when it is built anew (`Rebuild`). On the users
screen some rows are reported as done without a read (`RowSucceedsQuietly`: an invite
sent again, a reset password, a user added to a project shown already), of writes that no
list shows, so they are not among `reported`.

History flags (`strayed`, `careful`, `rushed`, `overlapped`) mark what the user did while
something was awaited, where the code promises nothing; section 6 lists what happens then.

## 4. Runs

| run | instance | shows |
|---|---|---|
| serving | 1 environment, 2 writers, 2 field types, 2 waiting requests, all kinds of write | an entry whose load no write or eviction overlapped is current, unless its eviction is due or was never reached, a field was created since, or the project is gone; evictions by prefix find it |
| contract | 1 environment, 1 writer, 1 field type, 1 waiting request, all kinds of write | refinement of `CacheContract`; when admins stop writing every entry becomes and stays fresh |
| approval | 3 admins, 1 editor, 3 calls, rule in force | two distinct admins for every change; refinement of `TwoPersonToggle` |
| approval_settings | 1 admin, 1 editor, 2 calls, settings edited | every call is answered |
| owners | 3 users, 2 requests, no growth | an active owner remains |
| promotion (violation) | 2 users, 2 requests, growth | an owner promoted after the guard's snapshot is invisible to it |
| strategies | 4 PUTs | a PUT replaces all but the lists committed while it ran |
| keys | 3 environment ids, 5 fields, 1 key, 2 requests, limits of 1 and 2, a clock of 1 day | environments pass their limit by no more than one for each further request, fields by no more than the limit for each; no orphan keys; a patch undoes only what overlapped; a revoked key is evicted, a dead one eventually refused for good |
| accounts | 1 user, 2 passwords, 2 tokens, 2 requests, 2 resets, 3 hours | old passwords and used links stop working; a reset lifts no suspension |
| sdk | 2 calls, 2 contexts, all ttls, lag and timeout of 1, room for 1 entry, 3 ticks, 1 change, Retry-After missing or above the maximum; both runtimes | a tag belongs to its body; the age of an answer is bounded by the slowest request, in JavaScript by the timeout; a call gives up only without a reading from before it began |
| transfer | the projects, files and maps of `MCTransfer`: one or two flags, up to three strategies | exactness, idempotence, approval, widening, a warning for each loss, and two facts about evaluation |
| ui | 2 of everything | what is shown once nothing is awaited, what saves replace, a new key is not lost |

Each run ends within three minutes with two workers. The largest, `sdk`, has
3.7 million distinct states, `ui` 2.6, `accounts` 2.4 and `serving` 2.2; `transfer` has 0.2.

Bounds. Environments meet only in evictions by prefix and in writes to all of a
project, so one environment shows the races of one key. Two writers are needed for an
eviction by one request to fall into another's window, and two waiting requests for one to
load after another has failed; a third adds no new pair. The proofs of `serving` and
`contract` cover any number of each. In `contract` one writer tears a load by two writes in
turn. Three calls to the approval
flow give a holder, a waiter and a newcomer; three admins a requester, a confirmer and
one who comes late. Two guards and three users give both a guard waiting for another
and an owner who is neither's target. Four PUTs let one wait for a row while a third
and a fourth commit. Two overlapping requests at a limit of one environment leave
two, and a third id shows that there are no more; two imports at a limit of two fields leave
four, and there is a fifth field. One account suffices as accounts meet only in the
last-owner guard; two passwords and two tokens are an old one and a new one. In `sdk`, one
entry of room and two contexts make the calls evict each other, three ticks let an
entry go stale and be gone, a second call overtakes the first. In `ui`, two reads under way
can end in either order, and two writes can overlap or depend on each other. Every
counter has its bound as a CONSTANT: `MaxVersion`, `LastHour`, `LastDay`, `Horizon`,
`MaxChanges`, `MaxWaiting`, `MaxReads`, `MaxFetches`, `MaxLoads`, `MaxEnvReads`.

Symmetry permutes writers and field types (`serving`), calls and admins (`approval`), users
and requests (`owners`), PUTs (`strategies`), passwords, tokens and requests (`accounts`),
writes and queries (`ui`); no property names a member of these sets, and no run with
liveness uses it.

Deadlock is checked except in `strategies`, `accounts`, `sdk`, `transfer` and `ui`, where
tokens, calls, writes or stages are used up and the system stops.

Fairness. `FlagServing`: a free lock is given to the next that waits, a load's next step and
a request's next step are taken (queries return or fail, statements commit or fail, handlers
run on to their eviction), and time passes, so an entry that stays expires. No client or
admin is assumed to come. `ApprovalFlow`: statements are executed (weak), and the lock queue
of a row serves its waiters in order, so a waiter that finds the row free again and again
gets it (strong). `KeyAuth`: loads end, entries expire, and a revocation that has committed
goes on to its eviction (weak).

## 5. Proofs

| module | theorem | assumption | states |
|---|---|---|---|
| `FlagServing_proofs` | `TypeCorrect` | none | types, and that a request's value fits its kind |
| | `Freshness` | none | `UndisturbedIsFresh`, `UndisturbedLoads` |
| | `ServingRefines` | none | `ImplementsContract` |
| `ApprovalFlow_proofs` | `RowLock` | none | types, `LockedRowIsCurrent` |
| | `TwoPersons`, `Refinement` | `~SettingsChange` | `TwoPersonRule`, `ImplementsRule` |
| `Owners_proofs` | `CountedOwners` | none | types, `CountedOwnersStay` |
| | `LastOwnerKept` | `~Growth` | `AnOwnerRemains` |
| `Targeting_proofs` | `PutReplaces` | none | `ReplacesWhatItSaw` |
| | `ContextAdds`, `Carets` | none | `ContextOnlyAdds`, `CaretIsCompatible` |
| | `ApprovalHolds` | none | `ApprovalKeepsState` |
| | `CleanImport`, `SecondImport` | none | `CleanImportIsExact`, `ImportAgainChangesNothing` |
| | `LossesAreReported` | none | `EveryLossIsReported` |
| | `WidensNoOther` | none | `WidensOnlyAsKnown` |
| `KeyAuth_proofs` | `TypeCorrect` | none | types of `Projects` and `KeyAuth` |
| | `KeysHaveOwners` | none | `NoOrphanKeys` |
| | `PatchesUndoOnlyOverlapping` | none | `PatchUndoesOnlyOverlapping` |
| | `RevokedKeysAreEvicted` | none | `RevokedIsEvicted` |
| | `LimitsHoldUpToRequests` | none | `OvershootIsBounded` |
| `Accounts_proofs` | `TypeCorrect` | none | types |
| | `LinksWorkOnce`, `ResetsKeepSuspensions`, `OldPasswordsLockedOut` | none | `LinkWorksOnce`, `ResetKeepsSuspension`, `OldPasswordsAreLockedOut` |
| `Sdk_proofs` | `TypeCorrect` | none | types, one entry of a key, and the caches' limit |
| | `EtagsMatch` | none | `EtagMatchesBody` |
| | `RecentAnswers` | none | `AnswersAreRecent` |
| | `GivingUp` | none | `GivesUpOnlyWithoutReading` |
| `AdminUi_proofs` | `TypesHold` | none | types of every part |
| | `ListsAreCurrent` | none | `RowsAreCurrent` |
| | `NoKeysAreLost` | none | `NoKeyIsLost` |
| | `PagesShowTheirFlags` | none | `PageShowsItsFlag` |
| | `ImportsArePreviewed` | none | `ImportIsPreviewed` |
| | `SavesReplaceTheirBase` | none | `SavesBuildOnTheList` |
| | `NoSettingsAreUndone` | none | `NoSettingIsUndone` |
| | `EnvironmentsAreTheProjects` | none | `EnvironmentsMatchProject` |

The modules' own assumptions are that `None`, which stands for null, is not a value of
the kind it stands in for, that `Key = Env`, that switches are BOOLEAN, that bounds and
times are numbers, and that what is counted is finite. Two say more:

- `SdkAssumption`: a missing flag is remembered for some time and the default pause is no
  longer than the longest (packages/sdk-js/src/constants.ts: 5 seconds; 5 and 60), and
  there is room for an entry. The ttls, the server's lag and the timeout, which may be 0
  for none, are any numbers.
- `TransferAssumption`: what `parseVersion` yields are sequences of numbers that are not
  negative, what `Number` yields are numbers (integers in the model), and the tests on
  texts are those of the three text operators. What Unleash reads in a version (`SemverOf`) is left open. An exported project is a project: its
  constraints have values (modules/strategies/strategy.schema.ts:26) and operators of
  some type, though not necessarily of their field's. A file Unleash wrote has one value
  where it compares with an order (modules/transfer/external/unleash.schema.ts:14-16).

*Freshness.* That entries are fresh is not inductive: a load puts into the cache
what it read some steps ago. `UndisturbedLoads` (`UndisturbedIsTracked`,
`UndisturbedWaitIsTracked` and `UndisturbedLoadIsCurrent`) says what an undisturbed load
has read is still in the database and its key is tracked, from the call of its request on;
a commit that changes any of it disturbs the load, and so does an eviction, which is when
the key would stop being tracked. A request that waits hands what has happened to it on
to the load it runs after another has failed. The lemma `ChangedIsCovered` is the fact
about the routes: what a write changes is within what its route evicts, but for the
creation of a field and the deletion of the project. A commit whose eviction is never
reached marks the entries it changes (`CommitUnreportedSafe`).

*ServingRefines.* `WindowInv` says that what a load has read so far, completed by the
rows there are now (`Reading`), is in its window. A SELECT leaves `Reading` as it is, since
it reads what is there; a commit changes only the parts that are still to be read, which
is what `After` allows; and when the last part has been read `Reading` is what the factory
returns.

*RowLock, TwoPersons, Refinement.* `LockedRowIsCurrent` is inductive with the types
(`LockInv`), since a call that decides holds the lock and only calls that hold it, or
meet the unique constraint, write the row. `StrictInv` says that all who have asked are
admins and on record, those in flight and the requester of the pending row, and that
no call takes the direct path. The step that changes the flag is then `Confirm`, whose
two identities differ.

*LastOwnerKept.* A guard that passes has locked every row of its snapshot, so what it
counted stays (`CountedOwnersStay`). With no growth, the snapshot covers all active
owners (`SnapshotCoversOwners`), so either one besides the target remains or the
target is none. `UnguardedIsHarmless` covers the requests that skip the guard.
Without the assumption the theorem is false, as `promotion` shows.

*PutReplaces.* `RowsAreAccountedFor` is inductive with the types: a row leaves what a
PUT has to delete only when its deleter commits, and enters the table only where the
PUT notes it as missed. At the commit nothing is left to lock.

*Evaluation and transfer.* `ContextAdds` rests on `EvaluateMonotone`, that a constraint on
a missing value is not met, whatever its operator; `Carets` compares versions of any
length by their first three parts (`CompareIsLexicographic`).

A file and the lists in it have any length, and `FlattenSeq` is a recursive function, so
what it returns has to be shown by induction, without the library's induction theorems.
`LeastNatural` takes the least number that satisfies a predicate given as a set, and
`FlatPrefix` looks at the shortest prefix that would not be flattened as it should.
`FlattenElements` and `FlattenOne` are what is used from then on: the elements of a flattened
sequence, and the case in which all of its parts but one are empty.

Three invariants carry the stages of a transfer. `Imported` says that both projects have the
shape of a project and that `local` is `ProjectAfter` of what was before. `Documented` says
what the document has to do with the origin: of an export it renders every row (`Renders`),
of a converted file every environment a state or a strategy names (`Reads`, from
`ToNativeReads`). `Accepted` says that no import which ran was to be refused, and that the
second one found what the first had left. `SecondImport` follows from `AgainSame`, where the
flags of the first import are updated with the document that created or updated them
(`CreatedTwice`, `UpdatedTwice`); `CleanImport` from `PlacedIsWritten`, which says that a
name with a slug to itself has the last word there. `LossesAreReported` adds the counts:
what a filter keeps and what it drops are as many as there were (`FilterCounts`), and the
warnings of a conversion (`WarningsCount`, `FlagWarningsOf`) and of an import
(`ImportWarningsOf`) are one for each drop.

`WidensNoOther` goes from the imported strategy back to the one it came from
(`StrategyCarries`). Fields keep legal types (`AlwaysTyped`), and two types that share
an operator test it alike, but for number and version (`TypesAgree`); so a constraint
that is met here is met at the origin of a native file (`AgreedTest`). A converted
constraint is no wider than the Unleash one (`ConstraintCarries`), for which `Opposites` pairs the
operators that stand for an inverted one; `EqualVersions` shows that releases which are equal
here have the same parts, and so are equal to Unleash.

*SDK.* The invariant `Inv` of both runtimes has, beside the types, five parts. `Known`: what
a cache holds was so when it was stored, give or take one request, and a list has its own
tag. `Told`: so is what an answer under way says, and the list kept for a 304 is the one
whose tag was sent. `Timely`: what comes before a request takes no time; the answer to it,
once taken, is no older than `slowest` (`InTime`). `Asked`: a call that has looked into a
cache found nothing fresh, so an entry that is fresh now was stored since it began. `Fits`:
the last result satisfies `AnswersAreRecent`. `StepTo` is what a step of one call may do,
whichever client it is, and one lemma for each action shows that it is such a step; the
lemma on stepping is then proved once. The second half of `AnswersAreRecent` has an
invariant of its own, `InTimer`: where there is a timer, no request lasts longer than its
timeout. `Without` and `With` describe a cache after a deletion and an insertion by
positions, since the library's facts on filtered sequences take an operator.

*Projects and keys.* `LimitsHoldUpToRequests` counts environments together with the requests
that have passed the count and not inserted yet (`Reserved`), each of which was let through
below the limit. For fields (`FieldsReserved`) it counts them together with all that
requests still plan to insert: a count leaves what is there and what is planned within the
limit for each request, whichever of them come in between. `PatchesUndoOnlyOverlapping`
rests on `ReadWhileInFlight`: what a patch read is among the settings in force since it
began. `RevokedKeysAreEvicted` rests on `LoadsAreCurrent`: an undisturbed load that found
the row has it still.

*Accounts.* `LinksAreUnique` (no two rows hold a token, none holds a spent one, and an accept in
flight began before its token was spent) gives `LinksWorkOnce`; `ResetsAreCurrent` (an
unraced reset knows the status) gives `ResetsKeepSuspensions`; `SessionsAreCurrent` and
`LoginsAreCurrent` tie the password of an unraced session or login to the version it
carries.

*Admin UI.* Each theorem has one inductive invariant beside the types: `ListIsCurrent`
(the newest read is the only one whose answer may be shown, and all that was reported
will be in it), `KeysAreSafe`, `PageAgrees`, `ImportAgrees`, `EditorAgrees`,
`SettingsAgree` and `EnvsAgree`. `SettingsAgree` says that a copy of settings is the
server's unless a save of the project was made since the list was asked for or is still to
be answered (`ListsAgree`, `FormAgrees`), and that a save alone on its way will replace
what its form was filled from (`SavesAgree`). `EnvsAgree` says that the one read that counts
is of the active project and has found what is there, or a change of it is still
to be answered. `TypesHold` is put together from an invariant for each part. That a
list awaits exactly its newest read is the only one that is not local to a step: it takes
`ListIsCurrent`, by which there is at most one.

Only model-checked: `EventuallyFresh`, `EveryCallIsAnswered` and `EventuallyRefused`, as
liveness under fairness is out of this prover's reach. Every other property of a passing run
is stated by a theorem.

## 6. Divergences found

One run, `promotion`, ends in a counterexample to what a comment says; the finding in
`PROJECT.json` quotes it. The others below were met while modelling, some of them as
counterexamples of a stronger form of a property; the properties are stated as what
does hold. Paths without a package are under src/.

Server, serving and flags:

- docs/ROADMAP.md:177-178 calls a single server "always consistent". A load that reads
  before a commit and stores after the eviction is served until it expires, and so is a
  torn load. `src/cache/index.ts:17` says all cached keys are tracked, but an eviction
  during a load drops the key the load then stores; and after a load has failed, the requests
  that wait for its lock run their own without tracking the key again, so what they store is
  untracked if the key was evicted since they called. A field created while an entry is
  cached stays unknown to it.
- Deleting a project evicts nothing for serving (modules/projects/project.routes.ts:98-102):
  its flags are served until their entries expire.
- createFlag reads the flag back after its transaction (modules/flags/flag.service.ts:210). If
  that fails the flag is there, the answer is an error, and modules/flags/flag.routes.ts:39
  is not reached, so nothing is evicted. So it is where a commit's answer is lost.
- An editor who passed the preHandler before the environment was protected counts as one
  of the two admins of db/schema.ts:208.
- Two overlapping PUTs of strategies leave both lists (modules/strategies/strategy.service.ts:102).
- modules/users/user.routes.ts:161 calls demoting an owner an owner-to-owner action, but
  reads the target's role before the transaction.
- modules/projects/project.service.ts:69-73 says a patch leaves the other groups alone; it
  writes back what it read of them (`OnlyNamedGroupsChange` of `Projects` is false).
- The limit of context fields is counted before the inserts and under no lock, by an import
  too, which then inserts many (modules/transfer/transfer.service.ts:291-326): overlapping
  imports each fill the limit once, where its comment calls a project over it one that
  cannot be edited back under it.

Accounts:

- An invited user who is suspended gets in with the link: accepting it sets the status to active.
- A PATCH to active keeps the link. A reset then sets a password, and the link, still
  valid, sets another.
- An invite's second statement can overwrite the token of a reissue, so the
  older link works (modules/users/user.service.ts:241-242).
- A login that verified the old password before a reset gets a cookie with the new
  session version.

Transfer:

- README.md:461 says an import never widens an audience. If every strategy of an enabled
  flag is rejected, it is on for everyone; so for ambiguous strategies in an Unleash file.
  SEMVER constraints become tests of versions that drop a prerelease and fill up a short
  version (modules/client/evaluate.ts:29-35; modules/transfer/external/unleash.adapter.ts:17-24):
  SEMVER_EQ 1.2.0 is on for 1.2.0-rc1 and 1.2, which Unleash leaves out.
- A field that exists with another type keeps it, so constraints change their meaning; a
  constraint whose field has another type by now, or is gone, is never met, and comes to
  life where the field has the type it was written for (section 3).
- Strategies of an environment unknown to an Unleash file are dropped uncounted.
- Of two names mapped to one slug the last wins: in a flag that is there already, each list
  replaces the one before, and no warning speaks of the lost ones
  (modules/transfer/transfer.service.ts:464-491).
- The comment at modules/transfer/external/unleash.adapter.ts:176-179 says a conflicted
  field is a string; with legalValues it becomes an enum. Several values of STR_CONTAINS
  or STR_STARTS_WITH match any in Unleash and are not the same here.
- `~1` and `^0` differ from npm's ranges. `etagFor` joins key=value with `&`, so two
  contexts may share a text.

SDKs:

- packages/sdk-js/src/client.ts:165: "A real value we fetched earlier always beats a
  static guess". The catch blocks ask `getStale`, which returns no fresh entry: a reading that another
  call stored while this one waited is passed over for the default
  (`AReadingBeatsTheDefault` is false, in both clients).
- packages/sdk-js/README.md:371 says nothing is sent until the pause ends; a
  second 429 with a shorter Retry-After ends it early (`PauseIsKept` is false).
- Python's timeout is one of each socket operation (packages/sdk-python/README.md:102, and
  client.py:272): a server that sends slowly delays an answer, and the age of what it says,
  without bound. So it is in JavaScript without `AbortSignal.timeout`.
- packages/sdk-js/README.md:258 bounds freshness by the longer of the server's and the
  SDK's ttl; it is their sum. A flag missing from a cached list is remembered as missing
  from when it is asked about, so for a list's ttl longer.
- packages/sdk-js/README.md:348 has onStale receive an age; it receives the date.
- packages/sdk-js/README.md:157: "A 403 or 500 with no stale value still throws". A 5xx
  never does: the call answers its default.

Admin UI:

- FlagsScreen.tsx:89: the selection survives a change of filter or project on the first
  page, so a bulk action reaches rows that are not shown. After deleting a last page's
  rows, the page stays, empty. "Flags enabled" is shown also when the answer is 202,
  pending. When the first bulk write fails, nothing is read again.
- ImportFlagsModal.tsx:169-174: options or the file may change while a preview is under
  way, and the report is then not for them; of two files picked quickly the later parsed
  one is kept under the other's name; a report that comes after the dialog was closed and opened again
  enables the import of no document.
- FlagDetailScreen.tsx: reads are not guarded, so the page may show the flag it was on
  before.
- "Add rule" is enabled while the rules load or failed to, and the save then replaces
  them all. A save that timed out may reach the server after a later one.
- A second issued key replaces the first on show. The busy button should prevent it, but
  the dialog's X works while saving, and environments that arrive start the dialog over
  (KeysScreen.tsx:349-357).
- A single invite sent again, a reset password and a user added to a project shown already
  are reported as done without a read (UsersScreen.tsx:384; UserDetailDrawer.tsx:72-74, 217).
- SettingsScreen.tsx:64-65: the switcher's list is not updated by a save, so going back
  to a project fills the form from old settings, and a save undoes the newer ones. A late
  answer of a save makes its project active again. A created project is not in that list.
- SettingsDefaults compares with `?? 30` where the value may be 'never'. An environment's
  edit sends the `protected` it had at opening. The old project's environments are
  shown until the new ones arrive. Two parts of the users screen state different lifetimes of an invite (24 hours,
  7 days).

## 7. Not modelled

Bootstrap, configuration, health, logging, error texts, rate limiting and mail are wiring
around libraries; migrations, CLI and seed scripts run once. Listing, sorting and paging
on the server are SELECTs without a decision the properties could see. More than one server
instance is excluded by the documentation.

Within modelled components: creation of projects and membership; the throttled update of
an API key's last use (plugins/auth.ts:162-178); the filter on flag keys of an export; in
the SDKs timers, which fire when due, and the transport below a request; in the UI login,
accepting an invite, creating flags and projects, exports, deletion of context fields,
and everything that is only layout or wording.
