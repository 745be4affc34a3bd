------------------------------ MODULE KeyAuth ------------------------------
(***************************************************************************)
(* How the authPlugin recognises an API key: from the cache, or by loading  *)
(* its row, while the admin requests of Projects create and delete keys.    *)
(* A revocation evicts the key after its DELETE; the cascades of an         *)
(* environment's or a project's deletion evict nothing.                     *)
(*                                                                          *)
(* disturbed is a history flag: a load is disturbed when the key it has     *)
(* read is revoked before the cache stores it.                              *)
(***************************************************************************)
EXTENDS Projects

VARIABLES
    store, knownKeys,   \* the cache: Cache.tla
    loader,             \* loader[k]: the factory running for key k
    granted             \* the key this step lets a request through with, or None

INSTANCE Cache WITH Key <- KeyId

authVars == <<store, knownKeys, loader, granted>>
vars == <<projectVars, authVars>>

\* CachedApiKey, as far as anything decides on it.
Cached == [expires: Expiry, disturbed: BOOLEAN]
NoLoad == [pc |-> "idle", found |-> FALSE, expires |-> None, disturbed |-> FALSE]
Load == [pc: {"idle", "select", "return"}, found: BOOLEAN, expires: Expiry, disturbed: BOOLEAN]

Init ==
    /\ ProjectsInit
    /\ EmptyCache
    /\ loader = [k \in KeyId |-> NoLoad]
    /\ granted = None

-----------------------------------------------------------------------------
\* The key has not expired.  Asked on every request, the cached ones too.
Valid(expires) == expires = None \/ expires > now

Grants(k, expires) == granted' = IF Valid(expires) THEN k ELSE None

\* A request that comes with key k.  A miss starts the factory, or waits for it.
Authenticate(k) ==
    /\ keys[k].life # "unborn"
    /\ Track(k)
    /\ \/ /\ store[k] # None
          /\ Grants(k, store[k].expires)
          /\ UNCHANGED loader
       \/ /\ store[k] = None
          /\ loader' = IF loader[k].pc = "idle" THEN [loader EXCEPT ![k].pc = "select"] ELSE loader
          /\ granted' = None
    /\ UNCHANGED <<projectVars, store>>

LoadApiKey(k) ==
    /\ loader[k].pc = "select"
    /\ loader' = [loader EXCEPT ![k] = [pc |-> "return", found |-> keys[k].life = "live",
                                        expires |-> keys[k].expires, disturbed |-> FALSE]]
    /\ granted' = None
    /\ UNCHANGED <<projectVars, store, knownKeys>>

\* The factory returns: the requests that wait for it are answered from its
\* result, and a row is kept.  No row is kept as no key.
StoreKey(k) ==
    LET result == loader[k] IN
    /\ result.pc = "return"
    /\ IF result.found
       THEN /\ Put(k, [expires |-> result.expires, disturbed |-> result.disturbed])
            /\ Grants(k, result.expires)
       ELSE Put(k, None) /\ granted' = None
    /\ loader' = [loader EXCEPT ![k] = NoLoad]
    /\ UNCHANGED <<projectVars, knownKeys>>

LoadFails(k) ==
    /\ loader[k].pc = "select"
    /\ loader' = [loader EXCEPT ![k] = NoLoad]
    /\ granted' = None
    /\ UNCHANGED <<projectVars, store, knownKeys>>

\* The DELETE of a revocation disturbs a load that has read the row.
Revoke(r, k) ==
    /\ RevokeKey(r, k)
    /\ loader' = IF loader[k].pc = "return" THEN [loader EXCEPT ![k].disturbed = TRUE] ELSE loader
    /\ granted' = None
    /\ UNCHANGED <<store, knownKeys>>

\* Mutant: the route evicts under the key's id, which is not what the cache knows.
EvictById(r) ==
    /\ Evicted(r)
    /\ Forget({})
    /\ granted' = None
    /\ UNCHANGED loader

Evict(r) ==
    /\ Evicted(r)
    /\ Delete(request[r].key)
    /\ granted' = None
    /\ UNCHANGED loader

TimeToLive(k) ==
    /\ Expire(k)
    /\ granted' = None
    /\ UNCHANGED <<projectVars, loader>>

\* The process dies and starts again: cache and requests are lost, rows are not.
Restart ==
    /\ ClearedCache
    /\ loader' = [k \in KeyId |-> NoLoad]
    /\ request' = [r \in Request |-> Idle]
    /\ granted' = None
    /\ UNCHANGED <<mix, now, rows>>

\* What the admin requests do beside the cache.
Other ==
    /\ \/ \E r \in Request : RequestStep(r) /\ request'[r].phase # "evict"
       \/ ProjectStep
       \/ Tick
    /\ granted' = None
    /\ UNCHANGED <<store, knownKeys, loader>>

Next ==
    \/ \E k \in KeyId : Authenticate(k) \/ LoadApiKey(k) \/ StoreKey(k) \/ LoadFails(k) \/ TimeToLive(k)
    \/ \E r \in Request, k \in KeyId : Revoke(r, k)
    \/ \E r \in Request : Evict(r)
    \/ Other
    \/ Restart

Spec == Init /\ [][Next]_vars

\* Queries return, handlers run on, and an entry is dropped when its ttl ends.
Fairness ==
    /\ \A k \in KeyId : WF_vars(LoadApiKey(k) \/ LoadFails(k)) /\ WF_vars(StoreKey(k)) /\ WF_vars(TimeToLive(k))
    /\ \A r \in Request : WF_vars(Evict(r))

FairSpec == Spec /\ Fairness

-----------------------------------------------------------------------------
\* The variables have these types.
TypeOK ==
    /\ ProjectsTypeOK
    /\ store \in [KeyId -> Cached \cup {None}]
    /\ knownKeys \subseteq KeyId
    /\ loader \in [KeyId -> Load]
    /\ granted \in KeyId \cup {None}

EvictionDue(k) == \E r \in Request : request[r].phase = "evict" /\ request[r].key = k

\* Once a revocation's eviction is done the key is no longer held, unless the
\* load that holds it had read the row before the revocation (key.routes.ts:93).
RevokedIsEvicted ==
    \A k \in KeyId :
        (store[k] # None /\ ~store[k].disturbed /\ keys[k].life = "revoked") => EvictionDue(k)

\* A key whose row is gone, by a revocation that raced its load or by a cascade
\* that evicts nothing, is eventually refused for good: its ttl sees to it.
EventuallyRefused ==
    \A k \in KeyId : keys[k].life \in {"revoked", "cascaded"} ~> [](granted # k)
=============================================================================
