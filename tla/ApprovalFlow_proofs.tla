------------------------ MODULE ApprovalFlow_proofs ------------------------
EXTENDS ApprovalFlow, TLAPS

USE ActorAssumption, NoneAssumption DEF Idle

\* The row lock, as an inductive invariant: its holder is the one call deciding,
\* and what that call has read is what the row holds.
LockInv ==
    /\ TypeOK
    /\ LockedRowIsCurrent

\* The lock invariant holds before the first call.
LEMMA LockInvInit == Init => LockInv
BY DEF Init, LockInv, TypeOK, LockedRowIsCurrent

\* Every step of every call keeps it.
LEMMA LockInvStep ==
  ASSUME LockInv, [Next]_vars
  PROVE  LockInv'
<1> USE DEF LockInv, TypeOK, LockedRowIsCurrent, settings
<1>1. ASSUME NEW c \in Call, Begin(c) PROVE LockInv'
  <2>1. PICK a \in Actor, v \in BOOLEAN :
          /\ call' = [call EXCEPT ![c] =
               [pc |-> "service", actor |-> a, want |-> v, existing |-> None]]
          /\ calls' = [calls EXCEPT ![v] = @ \cup {a}]
    BY <1>1 DEF Begin
  <2>2. [pc |-> "service", actor |-> a, want |-> v, existing |-> None] \in InFlight
    BY DEF InFlight, Step
  <2>3. TypeOK'
    BY <1>1, <2>1, <2>2 DEF Begin
  <2> QED BY <1>1, <2>1, <2>3 DEF Begin
<1>2. ASSUME NEW c \in Call, ReadEnvironment(c) \/ ReadSettings(c) PROVE LockInv'
  BY <1>2 DEF ReadEnvironment, ReadSettings, Goto, InFlight, Step
<1>3. ASSUME NEW c \in Call, Select(c) PROVE LockInv'
  BY <1>3 DEF Select, Lock, Goto, InFlight, Step
<1>4. ASSUME NEW c \in Call, Acquire(c) PROVE LockInv'
  <2>1. call[c] \in InFlight /\ pending # None
    BY <1>4 DEF Acquire
  <2>2. [call[c] EXCEPT !.pc = "decide", !.existing = pending] \in InFlight
    BY <2>1 DEF InFlight, Step
  <2>3. call' = [call EXCEPT ![c] = [call[c] EXCEPT !.pc = "decide", !.existing = pending]]
    BY <1>4 DEF Acquire, Lock
  <2>4. TypeOK'
    BY <1>4, <2>2, <2>3 DEF Acquire, Lock
  <2>5. call'[c].pc = "decide" /\ call'[c].existing = pending
    BY <2>1, <2>3 DEF InFlight
  <2> QED BY <1>4, <2>1, <2>3, <2>4, <2>5 DEF Acquire, Lock
<1>5. ASSUME NEW c \in Call, Insert(c) PROVE LockInv'
  BY <1>5 DEF Insert, Finish, InFlight, Pending
<1>6. ASSUME NEW c \in Call, Supersede(c) \/ Repeat(c) PROVE LockInv'
  BY <1>6 DEF Supersede, Repeat, Finish, InFlight, Pending
<1>7. ASSUME NEW c \in Call, Confirm(c) PROVE LockInv'
  BY <1>7 DEF Confirm, Apply, InFlight, Step
<1>8. ASSUME NEW c \in Call, Direct(c) PROVE LockInv'
  BY <1>8 DEF Direct, Apply, Finish, InFlight
<1>9. ASSUME NEW c \in Call, Fails(c) PROVE LockInv'
  BY <1>9 DEF Fails, Finish
<1>10. CASE ChangeSettings
  BY <1>10 DEF ChangeSettings
<1>11. CASE UNCHANGED vars
  BY <1>11 DEF vars
<1> QED
  BY <1>1, <1>2, <1>3, <1>4, <1>5, <1>6, <1>7, <1>8, <1>9, <1>10, <1>11
     DEF Next, Advance, Decide

\* Two transactions never decide on the same row at once, whatever the settings
\* do: the row a deciding call has read is locked by it and still there.
THEOREM RowLock == Spec => [](TypeOK /\ LockedRowIsCurrent)
<1>1. LockInv /\ [Next]_vars => LockInv'
  BY LockInvStep
<1>2. LockInv => TypeOK /\ LockedRowIsCurrent
  BY DEF LockInv
<1> QED BY LockInvInit, <1>1, <1>2, PTL DEF Spec

-----------------------------------------------------------------------------
(* With the rule in force.                                                    *)

\* Every asker is an admin and is on record: those in flight, and the requester
\* of the pending row.
StrictInv ==
    /\ protected /\ approval
    /\ \A v \in BOOLEAN : calls[v] \subseteq Admin
    /\ \A c \in Call : call[c] # Idle =>
          call[c].pc # "direct" /\ call[c].actor \in calls[call[c].want]
    /\ pending # None => pending.by \in calls[pending.want]

\* With the rule in force from the start, the invariant of the rule holds.
LEMMA StrictInvInit == StrictInit => StrictInv
BY DEF StrictInit, Init, StrictInv

\* Every step keeps it as long as the settings do not change.
LEMMA StrictInvStep ==
  ASSUME ~SettingsChange, LockInv, StrictInv, [Next]_vars
  PROVE  StrictInv'
<1> USE DEF StrictInv, LockInv, TypeOK, LockedRowIsCurrent, settings
<1>1. ASSUME NEW c \in Call, Begin(c) PROVE StrictInv'
  BY <1>1 DEF Begin, InFlight, Pending
<1>2. ASSUME NEW c \in Call,
             ReadEnvironment(c) \/ ReadSettings(c) \/ Select(c) \/ Acquire(c)
      PROVE  StrictInv'
  <2>1. call[c] # Idle /\ UNCHANGED <<settings, calls, pending>>
    <3>1. call[c].pc \in {"service", "protected", "select", "waiting"}
      BY <1>2 DEF ReadEnvironment, ReadSettings, Select, Acquire
    <3>2. call[c] # Idle
      BY <3>1
    <3>3. UNCHANGED <<settings, calls, pending>>
      BY <1>2 DEF ReadEnvironment, ReadSettings, Select, Acquire
    <3> QED BY <3>2, <3>3
  <2>2. \A d \in Call : d # c => call'[d] = call[d]
    <3>1. ReadEnvironment(c) \/ ReadSettings(c) => \E pc : Goto(c, pc)
      BY DEF ReadEnvironment, ReadSettings
    <3>2. Select(c) \/ Acquire(c) => Lock(c) \/ \E pc : Goto(c, pc)
      BY DEF Select, Acquire
    <3> QED BY <1>2, <3>1, <3>2 DEF Lock, Goto
  <2>3. /\ call'[c].pc # "direct"
        /\ call'[c].actor = call[c].actor /\ call'[c].want = call[c].want
    <3>1. call[c] \in InFlight
      BY <2>1
    <3>2. ReadEnvironment(c) \/ ReadSettings(c)
          => \E pc \in {"protected", "select"} : Goto(c, pc)
      BY DEF ReadEnvironment, ReadSettings
    <3>3. Select(c) \/ Acquire(c)
          => Lock(c) \/ \E pc \in {"insert", "waiting"} : Goto(c, pc)
      BY DEF Select, Acquire
    <3> QED BY <1>2, <3>1, <3>2, <3>3 DEF Lock, Goto, InFlight
  <2> QED BY <2>1, <2>2, <2>3
<1>4. ASSUME NEW c \in Call, Insert(c) PROVE StrictInv'
  BY <1>4 DEF Insert, Finish, InFlight
<1>3. ASSUME NEW c \in Call, Repeat(c) PROVE StrictInv'
  BY <1>3 DEF Repeat, Finish, InFlight
<1>5. ASSUME NEW c \in Call, Supersede(c) PROVE StrictInv'
  <2>1. call[c] \in InFlight /\ call[c].actor \in calls[call[c].want]
    BY <1>5 DEF Supersede
  <2> QED BY <1>5, <2>1 DEF Supersede, Finish, InFlight
<1>6. ASSUME NEW c \in Call, Confirm(c) PROVE StrictInv'
  <2>1. \A d \in Call : call'[d] # Idle =>
          /\ d # c /\ call[d] # Idle /\ call'[d].pc # "direct"
          /\ call'[d].actor = call[d].actor /\ call'[d].want = call[d].want
    BY <1>6 DEF Confirm, InFlight
  <2>2. \A v \in BOOLEAN : calls'[v] \subseteq Admin
    BY <1>6 DEF Confirm, Apply, InFlight
  <2>3. \A d \in Call : call'[d] # Idle => call'[d].actor \in calls'[call'[d].want]
    BY <1>6, <2>1 DEF Confirm, Apply, InFlight
  <2> QED BY <1>6, <2>1, <2>2, <2>3 DEF Confirm
<1>7. ASSUME NEW c \in Call, Direct(c) PROVE FALSE
  BY <1>7 DEF Direct
<1>8. ASSUME NEW c \in Call, Fails(c) PROVE StrictInv'
  BY <1>8 DEF Fails, Finish
<1>9. CASE ChangeSettings
  BY <1>9 DEF ChangeSettings
<1>10. CASE UNCHANGED vars
  BY <1>10 DEF vars
<1> QED
  BY <1>1, <1>2, <1>3, <1>4, <1>5, <1>6, <1>7, <1>8, <1>9, <1>10
     DEF Next, Advance, Decide

\* The step that changes the flag is a confirmation, and it has two askers.
LEMMA ChangeIsConfirmed ==
  ASSUME ~SettingsChange, LockInv, StrictInv, Next, enabled' # enabled
  PROVE  \E a, b \in Admin : a # b /\ {a, b} \subseteq calls[enabled']
<1>1. PICK c \in Call : Confirm(c) \/ Direct(c)
  BY DEF Next, Advance, Decide, Begin, ReadEnvironment, ReadSettings, Select, Acquire,
         Insert, Supersede, Repeat, Fails, ChangeSettings
<1>2. Confirm(c)
  BY <1>1 DEF Direct, StrictInv
<1>3. /\ enabled' = call[c].want /\ pending # None
      /\ pending.want = call[c].want /\ pending.by # call[c].actor
  BY <1>2 DEF Confirm, Apply, LockInv, LockedRowIsCurrent
<1>4. call[c].actor \in calls[enabled'] /\ pending.by \in calls[enabled']
  BY <1>2, <1>3 DEF StrictInv, Confirm
<1>5. calls[enabled'] \subseteq Admin
  BY <1>2, <1>3 DEF StrictInv, LockInv, TypeOK, Confirm, InFlight
<1> QED BY <1>3, <1>4, <1>5

\* The two-person rule, for any number of admins, editors and concurrent calls.
THEOREM TwoPersons ==
  ASSUME ~SettingsChange
  PROVE  StrictSpec => TwoPersonRule
<1>1. StrictInit => LockInv /\ StrictInv
  BY LockInvInit, StrictInvInit DEF StrictInit
<1>2. LockInv /\ StrictInv /\ [Next]_vars => (LockInv /\ StrictInv)'
  BY LockInvStep, StrictInvStep
<1>3. LockInv /\ StrictInv /\ [Next]_vars =>
        [enabled' # enabled =>
           \E a, b \in Admin : a # b /\ {a, b} \subseteq calls[enabled']]_vars
  BY ChangeIsConfirmed DEF vars
<1> QED BY <1>1, <1>2, <1>3, PTL DEF StrictSpec, TwoPersonRule

\* Interleaved transactions implement the atomic rule.
THEOREM Refinement ==
  ASSUME ~SettingsChange
  PROVE  StrictSpec => ImplementsRule
<1>1. StrictInit => Atomic!Init
  BY DEF StrictInit, Init, Atomic!Init
<1>2. ASSUME LockInv, StrictInv, [Next]_vars PROVE [Atomic!Next]_(Atomic!vars)
  <2> USE DEF Atomic!Next, Atomic!vars, Atomic!Record, Atomic!Confirm, LockInv, TypeOK
  <2>1. ASSUME NEW c \in Call, Insert(c) PROVE [Atomic!Next]_(Atomic!vars)
    <3>1. call[c] \in InFlight
      BY <1>2, <2>1 DEF Insert
    <3> QED BY <2>1, <3>1 DEF Insert, InFlight
  <2>2. ASSUME NEW c \in Call, Supersede(c) PROVE [Atomic!Next]_(Atomic!vars)
    <3>1. call[c] \in InFlight /\ call[c].existing = pending
      BY <1>2, <2>2 DEF Supersede, LockedRowIsCurrent
    <3> QED BY <2>2, <3>1 DEF Supersede, InFlight
  <2>3. ASSUME NEW c \in Call, Confirm(c) PROVE [Atomic!Next]_(Atomic!vars)
    <3>1. call[c] \in InFlight /\ call[c].existing = pending /\ pending # None
      BY <1>2, <2>3 DEF Confirm, LockedRowIsCurrent
    <3> QED BY <2>3, <3>1 DEF Confirm, Apply, InFlight
  <2>4. ASSUME NEW c \in Call, Direct(c) PROVE FALSE
    BY <1>2, <2>4 DEF Direct, StrictInv
  <2>5. ASSUME NEW c \in Call,
               \/ Begin(c) \/ ReadEnvironment(c) \/ ReadSettings(c) \/ Select(c)
               \/ Acquire(c) \/ Repeat(c) \/ Fails(c)
        PROVE  UNCHANGED <<enabled, pending>>
    BY <2>5 DEF Begin, ReadEnvironment, ReadSettings, Select, Acquire, Repeat, Fails
  <2>6. ChangeSettings \/ UNCHANGED vars => UNCHANGED <<enabled, pending>>
    BY DEF ChangeSettings, vars
  <2> QED BY <1>2, <2>1, <2>2, <2>3, <2>4, <2>5, <2>6 DEF Next, Advance, Decide
<1>3. StrictInit => LockInv /\ StrictInv
  BY LockInvInit, StrictInvInit DEF StrictInit
<1>4. LockInv /\ StrictInv /\ [Next]_vars => (LockInv /\ StrictInv)'
  BY LockInvStep, StrictInvStep
<1> QED BY <1>1, <1>2, <1>3, <1>4, PTL DEF StrictSpec, ImplementsRule, Atomic!Spec
=============================================================================
