----------------------------- MODULE Strategies -----------------------------
(***************************************************************************)
(* Concurrent PUTs of the targeting strategies of one flag in one           *)
(* environment (replaceStrategies; an import does the same for each flag it *)
(* updates).  A PUT is a transaction of two statements under READ           *)
(* COMMITTED: DELETE the rows there are, then INSERT its own.  The DELETE   *)
(* takes a snapshot and locks its rows one by one, waiting for a row that   *)
(* another transaction is deleting and skipping it once it is gone.  Rows   *)
(* inserted after the snapshot are left alone.                              *)
(*                                                                          *)
(* The rows of one PUT come and go together, so the table is the set of the *)
(* PUTs whose rows it holds.                                                *)
(***************************************************************************)
EXTENDS FiniteSets, Naturals

CONSTANT Put    \* the PUTs ever sent; each runs once

VARIABLES
    rows,       \* the PUTs whose strategies are in targeting_strategies
    put         \* put[p]: how far PUT p is

putVars == <<rows, put>>

\* empty: p's list has no strategy.  unlocked, deleted: the rows of the snapshot
\* still to lock, and those deleted.  missed: lists committed since the snapshot.
Transaction == [pc: {"new", "delete", "committed", "aborted"}, empty: BOOLEAN,
                unlocked: SUBSET Put, deleted: SUBSET Put, missed: SUBSET Put]

TypeOK == rows \subseteq Put /\ put \in [Put -> Transaction]

PutsInit ==
    /\ rows = {}
    /\ put \in [Put -> [pc: {"new"}, empty: BOOLEAN, unlocked: {{}}, deleted: {{}},
                        missed: {{}}]]

\* The DELETE starts: its snapshot holds the rows committed so far.
StartDelete(p) ==
    /\ put[p].pc = "new"
    /\ put' = [put EXCEPT ![p].pc = "delete", ![p].unlocked = rows]
    /\ UNCHANGED rows

\* No other transaction in flight has deleted the rows of q.
Free(q, p) == \A r \in Put \ {p} : put[r].pc = "delete" => q \notin put[r].deleted

\* Mutant: the DELETE does not wait for a row another transaction is deleting.
DeleteRowNoWait(p, q) ==
    /\ put[p].pc = "delete"
    /\ q \in put[p].unlocked
    /\ put' = [put EXCEPT ![p].unlocked = @ \ {q},
                          ![p].deleted = IF Free(q, p) THEN @ \cup {q} ELSE @]
    /\ UNCHANGED rows

DeleteRow(p, q) ==
    /\ put[p].pc = "delete"
    /\ q \in put[p].unlocked
    /\ Free(q, p)
    /\ put' = [put EXCEPT ![p].unlocked = @ \ {q},
                          ![p].deleted = IF q \in rows THEN @ \cup {q} ELSE @]
    /\ UNCHANGED rows

Inserted(p) == IF put[p].empty THEN {} ELSE {p}

\* The INSERT, if there is anything to insert, and the commit.
Commit(p) ==
    /\ put[p].pc = "delete"
    /\ put[p].unlocked = {}
    /\ rows' = (rows \ put[p].deleted) \cup Inserted(p)
    /\ put' = [q \in Put |->
         IF q = p THEN [put[p] EXCEPT !.pc = "committed"]
         ELSE IF put[q].pc = "delete"
         THEN [put[q] EXCEPT !.missed = @ \cup Inserted(p)] ELSE put[q]]

\* An error, or a deadlock's victim: the transaction is rolled back.
Abort(p) ==
    /\ put[p].pc = "delete"
    /\ put' = [put EXCEPT ![p].pc = "aborted"]
    /\ UNCHANGED rows

PutsNext ==
    \E p \in Put :
        StartDelete(p) \/ (\E q \in Put : DeleteRow(p, q)) \/ Commit(p) \/ Abort(p)

PutsSpec == PutsInit /\ [][PutsNext]_putVars

-----------------------------------------------------------------------------
\* A running PUT accounts for every row: it deletes it, or it is of a PUT that
\* has committed since this one's snapshot.
RowsAreAccountedFor ==
    \A p \in Put :
        put[p].pc = "delete" =>
            rows \subseteq put[p].unlocked \cup put[p].deleted \cup put[p].missed

\* A PUT that commits has replaced every list but those of the PUTs that have
\* committed while it ran: two lists are mixed only if their PUTs overlapped.
ReplacesWhatItSaw ==
    [][\A p \in Put :
         put[p].pc = "delete" /\ put'[p].pc = "committed"
            => rows' \subseteq Inserted(p) \cup put[p].missed]_putVars
=============================================================================
