------------------------------- MODULE Cache -------------------------------
(***************************************************************************)
(* The in-memory cache of the server: createCache in src/src/cache/index.ts *)
(* over BentoCache's memory driver.  A key is a member of Key, and a miss   *)
(* is the value None.  The wrapper keeps, next to the store, the set of     *)
(* keys it has seen, because the driver cannot scan by prefix;              *)
(* deleteByPrefix only reaches the keys of that set.                        *)
(*                                                                          *)
(* The wrapper's getOrSet is two of these operators: Track when it is       *)
(* called, and Put when the factory it passed to BentoCache has returned.   *)
(* BentoCache runs one factory at a time for a key; the modules that extend *)
(* this one say what their factory does between the two.                    *)
(***************************************************************************)
CONSTANTS Key, None

VARIABLES
    store,      \* store[k]: the value held for key k, or None
    knownKeys   \* keys deleteByPrefix can find

cacheVars == <<store, knownKeys>>

EmptyCache ==
    /\ store = [k \in Key |-> None]
    /\ knownKeys = {}

ClearedCache ==
    /\ store' = [k \in Key |-> None]
    /\ knownKeys' = {}

\* Mutant: getOrSet forgets knownKeys.add.
TrackNothing(k) == UNCHANGED knownKeys

Track(k) == knownKeys' = knownKeys \cup {k}

Put(k, value) == store' = [store EXCEPT ![k] = value]

\* Drop the values of the keys in gone and stop tracking them.
Forget(gone) ==
    /\ store' = [k \in Key |-> IF k \in gone THEN None ELSE store[k]]
    /\ knownKeys' = knownKeys \ gone

Delete(k) == Forget({k})

\* covered: the keys that start with the prefix.
DeleteByPrefix(covered) == Forget(covered \cap knownKeys)

\* Mutant: the ttl is not handed to BentoCache.
ExpireNever(k) == store[k] # None /\ FALSE

\* The entry outlives its ttl.  The key stays in knownKeys.
Expire(k) ==
    /\ store[k] # None
    /\ Put(k, None)
    /\ UNCHANGED knownKeys
=============================================================================
