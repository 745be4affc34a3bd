------------------------ MODULE FlagServingContract ------------------------
(***************************************************************************)
(* FlagServing with one history variable, what the three SELECTs of each    *)
(* running load may have found, which makes CacheContract's variables       *)
(* expressible.  A write between two SELECTs tears the load: see README,    *)
(* "Torn loads".                                                            *)
(***************************************************************************)
EXTENDS FlagServing

VARIABLE window     \* window[e]: what the reads of e's load may have found so far

varsH == <<store, knownKeys, db, waiting, loader, writer, window>>

Parts == [row: Toggle, rules: Rules, field: FieldRow]

\* The rows of environment e in database d, before loadEnvState puts them together.
PartsOf(d, e) == [row |-> d.row[e], rules |-> d.rules[e], field |-> d.field]

Contract == INSTANCE CacheContract WITH
    Row       <- Toggle,
    Field     <- FieldRow,
    Answer    <- [p \in Parts |-> StateOf(p.row, p.rules, p.field)],
    truth     <- [e \in Env |-> PartsOf(db, e)],
    held      <- [e \in Env |-> IF store[e] = None THEN None ELSE store[e].state],
    witnessed <- window

InitH == Init /\ window = [e \in Env |-> {}]

\* Advance window along with any step of FlagServing.
Observe ==
    window' = [e \in Env |->
        IF loader'[e].pc = "idle" THEN {}
        ELSE IF loader[e].pc = "idle" THEN {PartsOf(db', e)}
        ELSE IF PartsOf(db', e) = PartsOf(db, e) THEN window[e]
        ELSE Contract!After(window[e], PartsOf(db', e))]

NextH == Next /\ Observe

SpecH == InitH /\ [][NextH]_varsH

FairSpecH == SpecH /\ Fairness

\* The serving path implements the contract of a read-through cache, whatever is
\* written while its loads run (loadEnvState over createCache).
ImplementsContract == Contract!Spec
=============================================================================
