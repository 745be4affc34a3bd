---------------------------- MODULE ApprovalFlow ----------------------------
(***************************************************************************)
(* Enabling and disabling one flag in one environment, from the route's     *)
(* preHandler to the commit: POST .../environments/:slug/{enable,disable}.  *)
(* A protected environment of a project with requireApprovalInProd needs a  *)
(* second, distinct admin (requestOrConfirmToggle), who is found by a row   *)
(* of pending_flag_toggles read FOR UPDATE under READ COMMITTED.            *)
(*                                                                          *)
(* The environment and the settings are read before that transaction and    *)
(* may change while calls are in flight.  calls is a history variable: who  *)
(* has asked for each value since the flag last changed.                    *)
(***************************************************************************)
EXTENDS FiniteSets, Naturals

CONSTANTS
    Actor,          \* identities: user:<id> of a session, key:<id> of a key
    Admin,          \* those who may write to a protected environment
    Call,           \* calls that may be in flight at once
    SettingsChange, \* whether admins edit the two settings meanwhile
    None

ASSUME ActorAssumption == Admin \subseteq Actor /\ SettingsChange \in BOOLEAN

VARIABLES
    protected,  \* environments.protected
    approval,   \* settings.security.requireApprovalInProd
    enabled,    \* flag_environments.enabled
    pending,    \* the pending_flag_toggles row, or None
    holder,     \* the call whose transaction has locked that row, or None
    call,       \* call[c]: the state of call c
    calls       \* calls[v]: actors who asked for v since enabled last changed

settings == <<protected, approval>>
vars == <<settings, enabled, pending, holder, call, calls>>

Pending == [want: BOOLEAN, by: Actor]
ASSUME NoneAssumption == None \notin Pending /\ None \notin Call

Step == {"service", "protected", "select", "waiting", "decide", "insert", "direct"}
Idle == [pc |-> "idle"]
InFlight == [pc: Step, actor: Actor, want: BOOLEAN, existing: Pending \cup {None}]

TypeOK ==
    /\ protected \in BOOLEAN /\ approval \in BOOLEAN /\ enabled \in BOOLEAN
    /\ pending \in Pending \cup {None}
    /\ holder \in Call \cup {None}
    /\ call \in [Call -> InFlight \cup {Idle}]
    /\ calls \in [BOOLEAN -> SUBSET Actor]

Init ==
    /\ protected \in BOOLEAN /\ approval \in BOOLEAN /\ enabled \in BOOLEAN
    /\ pending = None
    /\ holder = None
    /\ call = [c \in Call |-> Idle]
    /\ calls = [v \in BOOLEAN |-> {}]

Goto(c, pc) == call' = [call EXCEPT ![c].pc = pc]
Finish(c) == call' = [call EXCEPT ![c] = Idle]

-----------------------------------------------------------------------------
\* requireEnvironmentWrite: an editor is stopped at a protected environment.
Begin(c) ==
    /\ call[c] = Idle
    /\ \E a \in Actor, v \in BOOLEAN :
         /\ a \in Admin \/ ~protected
         /\ call' = [call EXCEPT ![c] =
              [pc |-> "service", actor |-> a, want |-> v, existing |-> None]]
         /\ calls' = [calls EXCEPT ![v] = @ \cup {a}]
    /\ UNCHANGED <<settings, enabled, pending, holder>>

\* setFlagEnabled reads the environment, then the settings if it is protected.
ReadEnvironment(c) ==
    /\ call[c].pc = "service"
    /\ Goto(c, IF protected THEN "protected" ELSE "direct")
    /\ UNCHANGED <<settings, enabled, pending, holder, calls>>

ReadSettings(c) ==
    /\ call[c].pc = "protected"
    /\ Goto(c, IF approval THEN "select" ELSE "direct")
    /\ UNCHANGED <<settings, enabled, pending, holder, calls>>

\* Take the lock on the pending row and keep its contents.
Lock(c) ==
    /\ holder' = c
    /\ call' = [call EXCEPT ![c].pc = "decide", ![c].existing = pending]

\* Mutant: the row is read without FOR UPDATE.
SelectUnlocked(c) ==
    /\ call[c].pc = "select"
    /\ IF pending = None THEN Goto(c, "insert")
       ELSE call' = [call EXCEPT ![c].pc = "decide", ![c].existing = pending]
    /\ UNCHANGED <<settings, enabled, pending, holder, calls>>

\* SELECT ... FOR UPDATE: no row, a row, or a row another transaction has locked.
Select(c) ==
    /\ call[c].pc = "select"
    /\ \/ pending = None /\ Goto(c, "insert") /\ UNCHANGED holder
       \/ pending # None /\ holder = None /\ Lock(c)
       \/ pending # None /\ holder # None /\ Goto(c, "waiting") /\ UNCHANGED holder
    /\ UNCHANGED <<settings, enabled, pending, calls>>

\* The lock is released and the row still there: it is read again as it is now.
Acquire(c) ==
    /\ call[c].pc = "waiting"
    /\ holder = None
    /\ Lock(c)
    /\ UNCHANGED <<settings, enabled, pending, calls>>

\* Mutant: an upsert in place of the insert that a unique constraint refuses.
InsertOverwrites(c) ==
    /\ call[c].pc = "insert"
    /\ pending' = [want |-> call[c].want, by |-> call[c].actor]
    /\ Finish(c)
    /\ UNCHANGED <<settings, enabled, holder, calls>>

\* The first request for the flag.  Nothing was locked, so another may have been
\* inserted since, and the unique constraint makes this one a 409.
Insert(c) ==
    /\ call[c].pc = "insert"
    /\ pending' = IF pending = None
                  THEN [want |-> call[c].want, by |-> call[c].actor] ELSE pending
    /\ Finish(c)
    /\ UNCHANGED <<settings, enabled, holder, calls>>

\* The other state was asked for: the row is rewritten and the count restarts.
Supersede(c) ==
    /\ call[c].pc = "decide"
    /\ call[c].existing.want # call[c].want
    /\ pending' = [want |-> call[c].want, by |-> call[c].actor]
    /\ holder' = None
    /\ Finish(c)
    /\ UNCHANGED <<settings, enabled, calls>>

Repeat(c) ==
    /\ call[c].pc = "decide"
    /\ call[c].existing = [want |-> call[c].want, by |-> call[c].actor]
    /\ holder' = None
    /\ Finish(c)
    /\ UNCHANGED <<settings, enabled, pending, calls>>

\* applyToggle by call c.  Calls still in flight keep their place in the history.
Apply(c) ==
    /\ enabled' = call[c].want
    /\ calls' = IF enabled' = enabled THEN calls
                ELSE [v \in BOOLEAN |->
                        {call[d].actor : d \in {x \in Call \ {c} :
                                                 call[x] # Idle /\ call[x].want = v}}]

\* A second identity wants the same: the row goes and the toggle is applied.
\* The row's other waiters wake to find it deleted and go on as if none existed.
Confirm(c) ==
    /\ call[c].pc = "decide"
    /\ call[c].existing.want = call[c].want
    /\ call[c].existing.by # call[c].actor
    /\ pending' = None
    /\ holder' = None
    /\ Apply(c)
    /\ call' = [d \in Call |-> IF d = c THEN Idle
                               ELSE IF call[d].pc = "waiting"
                               THEN [call[d] EXCEPT !.pc = "insert"] ELSE call[d]]
    /\ UNCHANGED settings

\* Not protected, or no approval needed.  A pending row is left as it is.
Direct(c) ==
    /\ call[c].pc = "direct"
    /\ Apply(c)
    /\ Finish(c)
    /\ UNCHANGED <<settings, pending, holder>>

\* Mutant: the failed transaction is not rolled back and keeps its lock.
FailsHolding(c) ==
    /\ call[c] # Idle
    /\ Finish(c)
    /\ UNCHANGED <<settings, enabled, pending, holder, calls>>

\* A statement fails or the process dies: the transaction rolls back.
Fails(c) ==
    /\ call[c] # Idle
    /\ Finish(c)
    /\ holder' = IF holder = c THEN None ELSE holder
    /\ UNCHANGED <<settings, enabled, pending, calls>>

\* PATCH of the environment or of the project's settings.
ChangeSettings ==
    /\ SettingsChange
    /\ protected' \in BOOLEAN /\ approval' \in BOOLEAN
    /\ settings' # settings
    /\ UNCHANGED <<enabled, pending, holder, call, calls>>

Decide(c) == Insert(c) \/ Supersede(c) \/ Repeat(c) \/ Confirm(c) \/ Direct(c)

Advance(c) == ReadEnvironment(c) \/ ReadSettings(c) \/ Select(c) \/ Decide(c)

Next ==
    \/ \E c \in Call : Begin(c) \/ Advance(c) \/ Acquire(c) \/ Fails(c)
    \/ ChangeSettings

Spec == Init /\ [][Next]_vars

\* Statements are executed, and the lock queue of the row is fair.
Fairness == \A c \in Call : WF_vars(Advance(c)) /\ SF_vars(Acquire(c))

FairSpec == Spec /\ Fairness

\* The rule is in force from the start; it stays when SettingsChange is FALSE.
StrictInit == Init /\ protected /\ approval
StrictSpec == StrictInit /\ [][Next]_vars

-----------------------------------------------------------------------------
\* The row lock works: what a transaction decides on is what the row holds, and
\* no transaction waits for a row that is gone.
LockedRowIsCurrent ==
    \A c \in Call :
        /\ call[c].pc = "decide" =>
             holder = c /\ pending # None /\ call[c].existing = pending
        /\ call[c].pc = "waiting" => pending # None

\* While the rule is in force, the flag changes only when two different admins
\* have asked for the new value since it last changed.
TwoPersonRule ==
    [][enabled' # enabled =>
         \E a, b \in Admin : a # b /\ {a, b} \subseteq calls[enabled']]_vars

\* Every call is answered; none waits for a row for ever.
EveryCallIsAnswered == \A c \in Call : (call[c] # Idle) ~> (call[c] = Idle)

\* With the rule in force the calls, as interleaved transactions, do what the
\* atomic rule does.
Atomic == INSTANCE TwoPersonToggle WITH request <- pending
ImplementsRule == Atomic!Spec
=============================================================================
