--------------------------- MODULE Owners_proofs ---------------------------
(***************************************************************************)
(* The guard of Owners, for any users and any number of requests.  What it  *)
(* has counted stays, whatever the others do; and as long as no owner is    *)
(* added meanwhile it has counted every owner, so that one always remains.  *)
(***************************************************************************)
EXTENDS Owners, TLAPS

CountInv == TypeOK /\ CountedOwnersStay

\* A request that skipped the guard takes nobody away.
UnguardedIsHarmless ==
    \A r \in Request : request[r].pc = "update" => ~Guarded(request[r].change)

OwnerInv == CountInv /\ SnapshotCoversOwners /\ UnguardedIsHarmless /\ AnOwnerRemains

\* The end of a request r leaves the others, and the locks they hold, alone.
LEMMA EndOnlyOf ==
    ASSUME TypeOK, NEW r \in Request, End(r)
    PROVE  /\ request' \in [Request -> InFlight \cup {Idle}]
           /\ lock' \in [User -> Request \cup {None}]
           /\ request'[r] = Idle
           /\ \A s \in Request \ {r} :
                 request'[s] = request[s] /\ \A u \in User : lock[u] = s => lock'[u] = s
  BY OwnersAssumption DEF TypeOK, End

\* A change of an account's role and status makes an account again.
LEMMA ChangedType ==
    ASSUME NEW a \in Account, NEW change \in Change
    PROVE  Changed(a, change) \in Account
  BY DEF Account, Change, Patch, Delete, Role, Status, Changed

\* Every step keeps the types.
LEMMA TypeStep == TypeOK /\ [Next]_vars => TypeOK'
<1> SUFFICES ASSUME TypeOK, [Next]_vars PROVE TypeOK'
  OBVIOUS
<1> USE DEF TypeOK
<1>1. ASSUME NEW r \in Request, Begin(r) PROVE TypeOK'
  <2> PICK u \in User, change \in Change :
         request' = [request EXCEPT ![r] =
           [pc |-> IF Guarded(change) THEN "guard" ELSE "update", target |-> u,
            change |-> change, unlocked |-> {}, owners |-> {}]]
    BY <1>1 DEF Begin
  <2>1. [pc |-> IF Guarded(change) THEN "guard" ELSE "update", target |-> u,
         change |-> change, unlocked |-> {}, owners |-> {}] \in InFlight
    BY DEF InFlight
  <2> QED BY <1>1, <2>1 DEF Begin
<1>2. ASSUME NEW r \in Request, Snapshot(r) PROVE TypeOK'
  <2>1. request[r] \in InFlight
    BY <1>2 DEF Snapshot, Idle
  <2>2. [request[r] EXCEPT !.pc = "lock", !.unlocked = ActiveOwners] \in InFlight
    BY <2>1 DEF InFlight, ActiveOwners
  <2>3. request' = [request EXCEPT
          ![r] = [request[r] EXCEPT !.pc = "lock", !.unlocked = ActiveOwners]]
    BY <1>2 DEF Snapshot
  <2> QED BY <1>2, <2>2, <2>3 DEF Snapshot
<1>3. ASSUME NEW r \in Request, NEW u \in User, LockRow(r, u) PROVE TypeOK'
  <2> DEFINE Counted == IF IsActiveOwner(u) THEN request[r].owners \cup {u} ELSE request[r].owners
             Locked == [request[r] EXCEPT !.unlocked = @ \ {u}, !.owners = Counted]
  <2>1. request[r] \in InFlight
    BY <1>3 DEF LockRow, Idle
  <2>2. Locked \in InFlight
    BY <2>1 DEF InFlight
  <2>3. request' = [request EXCEPT ![r] = Locked]
    BY <1>3 DEF LockRow
  <2> QED BY <1>3, <2>2, <2>3 DEF LockRow
<1>4. ASSUME NEW r \in Request, Update(r) PROVE TypeOK'
  <2>1. request[r] \in InFlight
    BY <1>4 DEF Update, GuardPassed, Idle
  <2>2. request[r].target \in User /\ request[r].change \in Change
    BY <2>1 DEF InFlight
  <2>3. account' \in [User -> Account]
    BY <1>4, <2>2, ChangedType DEF Update
  <2> QED BY <1>4, <2>3, EndOnlyOf DEF Update
<1>5. ASSUME NEW r \in Request, Refuse(r) PROVE TypeOK'
  BY <1>5, EndOnlyOf DEF Refuse
<1>6. ASSUME NEW u \in User, Invite(u) \/ CancelInvite(u) \/ Activate(u) PROVE TypeOK'
  BY <1>6 DEF Invite, CancelInvite, Activate, Account, Role, Status
<1>7. CASE UNCHANGED vars
  BY <1>7 DEF vars
<1> QED BY <1>1, <1>2, <1>3, <1>4, <1>5, <1>6, <1>7 DEF Next

\* No step takes a counted owner from the request that counted it.
LEMMA CountStep == CountInv /\ [Next]_vars => CountedOwnersStay'
<1> SUFFICES ASSUME CountInv, [Next]_vars PROVE CountedOwnersStay'
  OBVIOUS
<1> USE DEF CountInv, CountedOwnersStay, TypeOK
<1>1. ASSUME NEW r \in Request, Begin(r) PROVE CountedOwnersStay'
  BY <1>1 DEF Begin, ActiveOwners, IsActiveOwner
<1>2. ASSUME NEW r \in Request, Snapshot(r) PROVE CountedOwnersStay'
  BY <1>2 DEF Snapshot, ActiveOwners, IsActiveOwner, InFlight, Idle
<1>3. ASSUME NEW r \in Request, NEW u \in User, LockRow(r, u) PROVE CountedOwnersStay'
  <2>1. ASSUME NEW s \in Request, s # r, request[s] # Idle
        PROVE  request'[s] = request[s] /\ u \notin request[s].owners
    BY <1>3, <2>1, OwnersAssumption DEF LockRow, Free
  <2>2. request[r] \in InFlight
    BY <1>3 DEF LockRow, Idle
  <2>3. request'[r].owners \subseteq request[r].owners \cup {x \in {u} : IsActiveOwner(x)}
    BY <1>3, <2>2 DEF LockRow, InFlight
  <2>4. request[r] # Idle
    BY <1>3 DEF LockRow, Idle
  <2>5. \A x \in User : IsActiveOwner(x)' = IsActiveOwner(x)
    BY <1>3 DEF LockRow, IsActiveOwner
  <2>6. lock'[u] = r /\ \A x \in User \ {u} : lock'[x] = lock[x]
    BY <1>3 DEF LockRow
  <2>7. request'[r].owners \subseteq {x \in ActiveOwners' : lock'[x] = r}
    BY <2>3, <2>4, <2>5, <2>6 DEF ActiveOwners
  <2>8. ASSUME NEW s \in Request, s # r, request'[s] # Idle
        PROVE  request'[s].owners \subseteq {x \in ActiveOwners' : lock'[x] = s}
    <3>1. request'[s] = request[s]
      BY <1>3, <2>8 DEF LockRow
    <3>2. request[s] # Idle
      BY <2>8, <3>1
    <3>3. u \notin request[s].owners
      BY <2>1, <2>8, <3>2
    <3>4. request[s].owners \subseteq {x \in ActiveOwners : lock[x] = s}
      BY <3>2
    <3> QED BY <3>1, <3>3, <3>4, <2>5, <2>6 DEF ActiveOwners
  <2> QED BY <2>7, <2>8
<1>4. ASSUME NEW r \in Request, End(r), NEW t \in User, Free(t, r),
             \A x \in User \ {t} : account'[x] = account[x]
      PROVE  CountedOwnersStay'
  <2>1. SUFFICES ASSUME NEW s \in Request, s # r, request[s] # Idle, NEW x \in request[s].owners
                 PROVE  x \in ActiveOwners' /\ lock'[x] = s
    BY <1>4, EndOnlyOf
  <2>2. x \in User /\ IsActiveOwner(x) /\ lock[x] = s
    BY <2>1 DEF ActiveOwners
  <2>3. x # t
    BY <1>4, <2>1, <2>2, OwnersAssumption DEF Free
  <2> QED BY <1>4, <2>1, <2>2, <2>3, EndOnlyOf DEF ActiveOwners, IsActiveOwner
<1>5. ASSUME NEW r \in Request, Update(r) PROVE CountedOwnersStay'
  <2>1. request[r].target \in User
    BY <1>5 DEF Update, GuardPassed, InFlight, Idle
  <2> QED BY <1>4, <1>5, <2>1 DEF Update
<1>6. ASSUME NEW r \in Request, Refuse(r) PROVE CountedOwnersStay'
  <2>1. SUFFICES ASSUME NEW s \in Request, s # r, request[s] # Idle, NEW x \in request[s].owners
                 PROVE  x \in ActiveOwners' /\ lock'[x] = s
    BY <1>6, EndOnlyOf DEF Refuse
  <2> QED BY <1>6, <2>1, EndOnlyOf DEF Refuse, ActiveOwners, IsActiveOwner
<1>7. ASSUME NEW u \in User, Invite(u) \/ CancelInvite(u) \/ Activate(u)
      PROVE  CountedOwnersStay'
  <2>1. SUFFICES ASSUME NEW s \in Request, request[s] # Idle, NEW x \in request[s].owners
                 PROVE  x \in ActiveOwners' /\ lock'[x] = s
    BY <1>7 DEF Invite, CancelInvite, Activate
  <2>2. x \in User /\ IsActiveOwner(x) /\ lock[x] = s
    BY <2>1 DEF ActiveOwners
  <2>3. x # u
    BY <1>7, <2>2, OwnersAssumption DEF Invite, CancelInvite, Activate, IsActiveOwner
  <2> QED BY <1>7, <2>2, <2>3 DEF Invite, CancelInvite, Activate, ActiveOwners, IsActiveOwner
<1>8. CASE UNCHANGED vars
  BY <1>8 DEF vars, ActiveOwners, IsActiveOwner
<1> QED BY <1>1, <1>2, <1>3, <1>5, <1>6, <1>7, <1>8 DEF Next

\* Whatever happens around it, an owner that a guard has counted is locked by it
\* and is an active owner (user.service.ts:340-353, the row locks).
THEOREM CountedOwners == Spec => [](TypeOK /\ CountedOwnersStay)
<1>1. Init => CountInv
  BY OwnersAssumption
  DEF Init, CountInv, TypeOK, CountedOwnersStay, Account, Role, Status
<1>2. CountInv /\ [Next]_vars => CountInv'
  BY TypeStep, CountStep DEF CountInv
<1> QED BY <1>1, <1>2, PTL DEF Spec, CountInv

\* While no owner is added, no step lets a guard lose sight of an owner, and
\* none takes the last one away.
LEMMA OwnerStep ==
    ASSUME ~Growth, OwnerInv, [Next]_vars
    PROVE  SnapshotCoversOwners' /\ UnguardedIsHarmless' /\ AnOwnerRemains'
<1> USE DEF OwnerInv, CountInv, TypeOK, SnapshotCoversOwners, UnguardedIsHarmless, AnOwnerRemains
<1> DEFINE Goal == SnapshotCoversOwners' /\ UnguardedIsHarmless' /\ AnOwnerRemains'
<1>1. ASSUME UNCHANGED account PROVE ActiveOwners' = ActiveOwners
  BY <1>1 DEF ActiveOwners, IsActiveOwner
<1>2. ASSUME NEW r \in Request, Begin(r) PROVE Goal
  <2>1. ActiveOwners' = ActiveOwners
    BY <1>1, <1>2 DEF Begin
  <2>2. \A s \in Request : request'[s].pc = "lock" => request'[s] = request[s]
    BY <1>2 DEF Begin
  <2>3. UnguardedIsHarmless'
    BY <1>2 DEF Begin
  <2> QED BY <2>1, <2>2, <2>3
<1>3. ASSUME NEW r \in Request, Snapshot(r) PROVE Goal
  <2>1. ActiveOwners' = ActiveOwners
    BY <1>1, <1>3 DEF Snapshot
  <2>2. request[r] \in InFlight
    BY <1>3 DEF Snapshot, Idle
  <2>3. request'[r].pc = "lock" /\ request'[r].unlocked = ActiveOwners
    BY <1>3, <2>2 DEF Snapshot, InFlight
  <2>4. \A s \in Request \ {r} : request'[s] = request[s]
    BY <1>3 DEF Snapshot
  <2> QED BY <2>1, <2>3, <2>4
<1>4. ASSUME NEW r \in Request, NEW u \in User, LockRow(r, u) PROVE Goal
  <2>1. ActiveOwners' = ActiveOwners
    BY <1>1, <1>4 DEF LockRow
  <2>2. request[r] \in InFlight
    BY <1>4 DEF LockRow, Idle
  <2>3. request'[r].pc = "lock" /\ request'[r].unlocked = request[r].unlocked \ {u}
    BY <1>4, <2>2 DEF LockRow, InFlight
  <2>4. request'[r].owners = IF IsActiveOwner(u) THEN request[r].owners \cup {u}
                             ELSE request[r].owners
    BY <1>4, <2>2 DEF LockRow, InFlight
  <2>5. ActiveOwners \subseteq request'[r].unlocked \cup request'[r].owners
    BY <1>4, <2>3, <2>4 DEF LockRow, ActiveOwners
  <2>6. \A s \in Request \ {r} : request'[s] = request[s]
    BY <1>4 DEF LockRow
  <2> QED BY <2>1, <2>3, <2>5, <2>6
<1>5. ASSUME NEW r \in Request, End(r), ActiveOwners' \subseteq ActiveOwners
      PROVE  SnapshotCoversOwners' /\ UnguardedIsHarmless'
  <2>1. request'[r].pc # "lock" /\ request'[r].pc # "update"
    BY <1>5, EndOnlyOf DEF Idle
  <2>2. \A s \in Request \ {r} : request'[s] = request[s]
    BY <1>5, EndOnlyOf
  <2> QED BY <1>5, <2>1, <2>2
<1>6. ASSUME NEW r \in Request, Update(r) PROVE Goal
  <2> DEFINE t == request[r].target
  <2>1. ActiveOwners' \subseteq ActiveOwners
    BY <1>6 DEF Update, GrowthOnlyIfAllowed
  <2>2. request[r] \in InFlight
    BY <1>6 DEF Update, GuardPassed, Idle
  <2>3. \A x \in User \ {t} : account'[x] = account[x]
    BY <1>6 DEF Update
  <2>4. \A x \in ActiveOwners \ {t} : x \in ActiveOwners'
    BY <2>3 DEF ActiveOwners, IsActiveOwner
  <2>5. ASSUME GuardPassed(r) PROVE AnOwnerRemains'
    <3>1. request[r].pc = "lock" /\ request[r].unlocked = {} /\ request[r].owners # {t}
      BY <2>5 DEF GuardPassed, LastOwner
    <3>2. request[r] # Idle
      BY <3>1 DEF Idle
    <3>3. request[r].owners \subseteq ActiveOwners
      BY <3>2 DEF CountedOwnersStay
    <3>4. ActiveOwners = request[r].owners
      BY <3>1, <3>3
    <3>5. PICK x \in ActiveOwners : x # t
      BY <3>1, <3>4
    <3> QED BY <2>4, <3>5
  <2>6. ASSUME request[r].pc = "update" PROVE AnOwnerRemains'
    <3>1. ~Guarded(request[r].change) /\ request[r].change \in Change /\ t \in User
      BY <2>2, <2>6 DEF InFlight
    <3>2. /\ request[r].change.role \in {"owner", "same"}
          /\ request[r].change.status \in {"active", "same"}
      BY <3>1 DEF Guarded, Change, Patch, Delete, Role
    <3>3. IsActiveOwner(t) => account'[t] = account[t]
      BY <1>6, <3>1, <3>2 DEF Update, IsActiveOwner, Changed
    <3>4. t \in ActiveOwners => t \in ActiveOwners'
      BY <3>3 DEF ActiveOwners, IsActiveOwner
    <3>5. ActiveOwners \subseteq ActiveOwners'
      BY <2>4, <3>4
    <3> QED BY <3>5
  <2>7. AnOwnerRemains'
    BY <1>6, <2>5, <2>6 DEF Update
  <2>8. End(r)
    BY <1>6 DEF Update
  <2>9. SnapshotCoversOwners' /\ UnguardedIsHarmless'
    BY <1>5, <2>1, <2>8
  <2> QED BY <2>7, <2>9
<1>7. ASSUME NEW r \in Request, Refuse(r) PROVE Goal
  BY <1>1, <1>5, <1>7 DEF Refuse
<1>8. ASSUME NEW u \in User, Invite(u) \/ CancelInvite(u) \/ Activate(u) PROVE Goal
  <2>1. UNCHANGED request
    BY <1>8 DEF Invite, CancelInvite, Activate
  <2>2. ActiveOwners' \subseteq ActiveOwners
    BY <1>8 DEF Invite, CancelInvite, Activate, GrowthOnlyIfAllowed, ActiveOwners, IsActiveOwner
  <2>3. ActiveOwners \subseteq ActiveOwners'
    BY <1>8 DEF Invite, CancelInvite, Activate, ActiveOwners, IsActiveOwner
  <2> QED BY <2>1, <2>2, <2>3
<1>9. CASE UNCHANGED vars
  BY <1>1, <1>9 DEF vars
<1> QED BY <1>2, <1>3, <1>4, <1>6, <1>7, <1>8, <1>9 DEF Next

\* However demotions, suspensions and deletions interleave, an active owner
\* remains as long as no owner is added (user.service.ts:340-353).
THEOREM LastOwnerKept ==
    ASSUME ~Growth
    PROVE  Spec => []AnOwnerRemains
<1>1. Init => OwnerInv
  <2>1. Init => CountInv
    BY OwnersAssumption
    DEF Init, CountInv, TypeOK, CountedOwnersStay, Account, Role, Status
  <2> QED BY <2>1
    DEF Init, OwnerInv, SnapshotCoversOwners, UnguardedIsHarmless, AnOwnerRemains, Idle
<1>2. OwnerInv /\ [Next]_vars => OwnerInv'
  BY OwnerStep, TypeStep, CountStep DEF OwnerInv, CountInv
<1>3. OwnerInv => AnOwnerRemains
  BY DEF OwnerInv
<1> QED BY <1>1, <1>2, <1>3, PTL DEF Spec
=============================================================================
