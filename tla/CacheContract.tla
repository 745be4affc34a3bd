--------------------------- MODULE CacheContract ---------------------------
(***************************************************************************)
(* What a read-through cache owes its readers when a load reads the three   *)
(* parts of a value one after another, outside any transaction: everything  *)
(* it holds is the answer to three parts of its own key that were true at   *)
(* three instants of one load, in the order of the reads.  The parts may be *)
(* of different times (a torn load); none is of another key, of a time      *)
(* before or after the load, or made up.  It may hold a value for as long   *)
(* as it likes, and may drop anything at any time.                          *)
(***************************************************************************)
CONSTANTS Key, None, Row, Rules, Field,
    Answer      \* Answer[p]: the value made of the parts p

VARIABLES
    truth,      \* truth[k]: the parts of k as they are now
    held,       \* held[k]: the cached value, or None
    witnessed   \* witnessed[k]: what the reads of k's load may have found so far, the
                \* reads to come taken from truth; empty when no load runs

vars == <<truth, held, witnessed>>

Parts == [row: Row, rules: Rules, field: Field]

Init ==
    /\ truth \in [Key -> Parts]
    /\ held = [k \in Key |-> None]
    /\ witnessed = [k \in Key |-> {}]

\* The reads W may have found, once the truth has become now: those made keep what
\* they found, and the rest are made after the change.
After(W, now) ==
    W \cup {[p EXCEPT !.field = now.field] : p \in W}
      \cup {[now EXCEPT !.row = p.row] : p \in W}
      \cup {now}

\* The truth of any keys changes, while loads run.
Change ==
    /\ truth' \in [Key -> Parts]
    /\ witnessed' = [k \in Key |->
         IF witnessed[k] = {} \/ truth'[k] = truth[k] THEN witnessed[k]
         ELSE After(witnessed[k], truth'[k])]
    /\ UNCHANGED held

BeginLoad(k) ==
    /\ witnessed[k] = {}
    /\ witnessed' = [witnessed EXCEPT ![k] = {truth[k]}]
    /\ UNCHANGED <<truth, held>>

EndLoad(k) ==
    /\ \E p \in witnessed[k] : held' = [held EXCEPT ![k] = Answer[p]]
    /\ witnessed' = [witnessed EXCEPT ![k] = {}]
    /\ UNCHANGED truth

\* Expiry, eviction, a restart: values are dropped and loads abandoned.
Lose ==
    /\ \E gone, abandoned \in SUBSET Key :
         /\ held' = [k \in Key |-> IF k \in gone THEN None ELSE held[k]]
         /\ witnessed' = [k \in Key |-> IF k \in abandoned THEN {} ELSE witnessed[k]]
    /\ UNCHANGED truth

Next ==
    \/ Change
    \/ \E k \in Key : BeginLoad(k) \/ EndLoad(k)
    \/ Lose

Spec == Init /\ [][Next]_vars
=============================================================================
