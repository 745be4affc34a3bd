------------------------------ MODULE TtlCache ------------------------------
(***************************************************************************)
(* The SDKs' in-memory cache (cache.ts, _cache.py), as operators on a store  *)
(* value.  A JavaScript Map and a Python dict keep their keys in the order   *)
(* of insertion, so a store is a sequence of entries, the oldest first.      *)
(* A lookup yields the set of its hits: one entry, or none.                  *)
(***************************************************************************)
EXTENDS Integers, SequencesExt

CONSTANTS
    Ttl,            \* how long an entry is fresh; 0 switches the cache off
    StaleTtl,       \* how long after that it is kept as a fallback
    MaxEntries

\* Mutant: an entry is still usable when its time is over.
UsableOnceMore(e, now) == now - e.at <= Ttl + StaleTtl

Usable(e, now) == now - e.at < Ttl + StaleTtl

Positions(store, key) == {i \in DOMAIN store : store[i].key = key}

\* A store has a key once or not at all.
Delete(store, key) ==
    IF Positions(store, key) = {} THEN store
                                  ELSE RemoveAt(store, CHOOSE i \in Positions(store, key) : TRUE)

Read(store, key, now) ==
    IF Ttl = 0 THEN {} ELSE {e \in ToSet(store) : e.key = key /\ Usable(e, now)}

\* What is left of the store after a lookup: an entry found unusable is dropped.
Purged(store, key, now) ==
    IF Ttl # 0 /\ \E i \in Positions(store, key) : ~Usable(store[i], now)
    THEN Delete(store, key) ELSE store

Get(store, key, now) == {e \in Read(store, key, now) : now - e.at < Ttl}

GetStale(store, key, now) == Read(store, key, now) \ Get(store, key, now)

\* Mutant: the oldest makes room only past the limit.
PutBeyond(store, key, value, now) ==
    LET others == Delete(store, key) IN
    IF Ttl = 0 THEN store
    ELSE Append(IF Len(others) > MaxEntries THEN Tail(others) ELSE others,
                [key |-> key, value |-> value, at |-> now])

\* A key set again counts as the newest; the oldest makes room at the limit.
Put(store, key, value, now) ==
    LET others == Delete(store, key) IN
    IF Ttl = 0 THEN store
    ELSE Append(IF Len(others) >= MaxEntries THEN Tail(others) ELSE others,
                [key |-> key, value |-> value, at |-> now])

=============================================================================
