------------------------------- MODULE Owners -------------------------------
(***************************************************************************)
(* Role and status changes of the workspace's users: PATCH and DELETE       *)
(* /admin/users/:id, with the guard that keeps at least one active owner    *)
(* (assertNotLastOwner).  In the transaction, SELECT ... FOR UPDATE under   *)
(* READ COMMITTED takes a snapshot of the active owners and then locks them *)
(* row by row, waiting where another transaction holds a row and dropping   *)
(* the rows that no longer match.  A row that became an active owner after  *)
(* the snapshot is not seen.                                                *)
(***************************************************************************)
EXTENDS FiniteSets

CONSTANTS
    User,
    Request,    \* admin requests that may be in flight at once
    Growth,     \* whether owners may be added: promoted, reactivated, activated
    None

ASSUME OwnersAssumption == None \notin Request /\ Growth \in BOOLEAN

VARIABLES
    account,    \* account[u]: the users row of u
    lock,       \* lock[u]: the request whose transaction has locked that row, or None
    request     \* request[r]: what admin request r is doing

vars == <<account, lock, request>>

Role == {"owner", "other"}      \* other: admin, editor or viewer
Status == {"unborn", "invited", "active", "suspended", "deleted"}
Account == [role: Role, status: Status]

Exists(u) == account[u].status \notin {"unborn", "deleted"}
IsActiveOwner(u) == account[u] = [role |-> "owner", status |-> "active"]
ActiveOwners == {u \in User : IsActiveOwner(u)}

\* The body of a PATCH, "same" where a field is left out; or a DELETE.
Patch == [role: Role \cup {"same"}, status: {"active", "suspended", "same"}]
Delete == [role |-> "same", status |-> "deleted"]
Change == Patch \cup {Delete}

Idle == [pc |-> "idle"]
InFlight == [pc: {"guard", "lock", "update"}, target: User, change: Change,
             unlocked: SUBSET User, owners: SUBSET User]

TypeOK ==
    /\ account \in [User -> Account]
    /\ lock \in [User -> Request \cup {None}]
    /\ request \in [Request -> InFlight \cup {Idle}]

Init ==
    /\ account \in [User -> [role: {"owner"}, status: {"active", "suspended"}]
                            \cup [role: {"other"}, status: {"unborn", "active"}]]
    /\ ActiveOwners # {}
    /\ lock = [u \in User |-> None]
    /\ request = [r \in Request |-> Idle]

-----------------------------------------------------------------------------
\* A demotion, a suspension and a deletion are guarded, whoever the target is.
Guarded(change) == change.role = "other" \/ change.status \in {"suspended", "deleted"}

\* The route lets only an owner touch an owner or grant ownership, which limits
\* who may ask, not what an owner asks for.
Begin(r) ==
    /\ request[r] = Idle
    /\ \E u \in User, change \in Change :
         /\ account[u].status # "unborn"
         /\ request' = [request EXCEPT ![r] =
              [pc |-> IF Guarded(change) THEN "guard" ELSE "update", target |-> u,
               change |-> change, unlocked |-> {}, owners |-> {}]]
    /\ UNCHANGED <<account, lock>>

\* The statement's snapshot: the rows it is going to lock.
Snapshot(r) ==
    /\ request[r].pc = "guard"
    /\ request' = [request EXCEPT ![r].pc = "lock", ![r].unlocked = ActiveOwners]
    /\ UNCHANGED <<account, lock>>

Free(u, r) == lock[u] \in {None, r}

\* Mutant: the owners are counted without FOR UPDATE.
CountUnlocked(r, u) ==
    /\ request[r].pc = "lock"
    /\ u \in request[r].unlocked
    /\ request' = [request EXCEPT
         ![r].unlocked = @ \ {u},
         ![r].owners = IF IsActiveOwner(u) THEN @ \cup {u} ELSE @]
    /\ UNCHANGED <<account, lock>>

\* One row of the snapshot is locked and counted, if it still is an active owner.
LockRow(r, u) ==
    /\ request[r].pc = "lock"
    /\ u \in request[r].unlocked
    /\ Free(u, r)
    /\ lock' = [lock EXCEPT ![u] = r]
    /\ request' = [request EXCEPT
         ![r].unlocked = @ \ {u},
         ![r].owners = IF IsActiveOwner(u) THEN @ \cup {u} ELSE @]
    /\ UNCHANGED account

LastOwner(r) == request[r].owners = {request[r].target}

GuardPassed(r) ==
    request[r].pc = "lock" /\ request[r].unlocked = {} /\ ~LastOwner(r)

\* Commit or roll back: the request is answered and its locks are released.
End(r) ==
    /\ request' = [request EXCEPT ![r] = Idle]
    /\ lock' = [u \in User |-> IF lock[u] = r THEN None ELSE lock[u]]

Changed(a, change) ==
    [role   |-> IF change.role = "same" THEN a.role ELSE change.role,
     status |-> IF change.status = "same" THEN a.status ELSE change.status]

GrowthOnlyIfAllowed == Growth \/ ActiveOwners' \subseteq ActiveOwners

\* The UPDATE or DELETE by id, and the commit.  It matches nothing when the row
\* is gone.
Update(r) ==
    /\ request[r].pc = "update" \/ GuardPassed(r)
    /\ Free(request[r].target, r)
    /\ account' = IF Exists(request[r].target)
                  THEN [account EXCEPT ![request[r].target] = Changed(@, request[r].change)]
                  ELSE account
    /\ GrowthOnlyIfAllowed
    /\ End(r)

\* 409 for the last owner; or an error anywhere, a deadlock's victim included.
Refuse(r) ==
    /\ request[r] # Idle
    /\ End(r)
    /\ UNCHANGED account

-----------------------------------------------------------------------------
(* One-statement writes of the other routes.  They wait for a row lock too. *)

Invite(u) ==
    /\ account[u].status = "unborn"
    /\ account' = [account EXCEPT ![u] = [role |-> "other", status |-> "invited"]]
    /\ UNCHANGED <<lock, request>>

CancelInvite(u) ==
    /\ account[u].status = "invited" /\ lock[u] = None
    /\ account' = [account EXCEPT ![u].status = "deleted"]
    /\ UNCHANGED <<lock, request>>

\* acceptInvite and resetPassword update by id: what they read may be stale, so
\* the account they activate need not be invited any more.
Activate(u) ==
    /\ Exists(u) /\ lock[u] = None
    /\ account' = [account EXCEPT ![u].status = "active"]
    /\ GrowthOnlyIfAllowed
    /\ UNCHANGED <<lock, request>>

Next ==
    \/ \E r \in Request :
         Begin(r) \/ Snapshot(r) \/ (\E u \in User : LockRow(r, u)) \/ Update(r) \/ Refuse(r)
    \/ \E u \in User : Invite(u) \/ CancelInvite(u) \/ Activate(u)

Spec == Init /\ [][Next]_vars

-----------------------------------------------------------------------------
\* The owners a guard has counted are locked by it and still are active owners:
\* no other transaction takes one of them away before it commits.
CountedOwnersStay ==
    \A r \in Request :
        request[r] # Idle => request[r].owners \subseteq {u \in ActiveOwners : lock[u] = r}

\* A guard that has its snapshot loses sight of no active owner.  It needs that
\* no owner is added, and is what makes the next property inductive.
SnapshotCoversOwners ==
    \A r \in Request :
        request[r].pc = "lock" => ActiveOwners \subseteq request[r].unlocked \cup request[r].owners

\* src/src/modules/users/user.service.ts:340-353: no change leaves the workspace
\* without an active owner.  True when no owner is added; false otherwise, as a
\* guard whose snapshot is older than a promotion takes the target for no owner.
AnOwnerRemains == ActiveOwners # {}
=============================================================================
