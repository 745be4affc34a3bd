------------------------------ MODULE RuleEditor ------------------------------
(***************************************************************************)
(* A list that is edited in a dialog and saved whole: the targeting rules of *)
(* one environment of a flag (EnvStrategies, StrategyEditorModal), or one    *)
(* context field (ContextFieldsSection, ContextFieldDialog).  The server     *)
(* replaces what it has by what it is sent, so a save undoes whatever its    *)
(* draft did not start from.  A list, and a draft, is named by the write     *)
(* that made it; None is the list as the server had it before.               *)
(***************************************************************************)
EXTENDS AdminApi

CONSTANT MaxLoads       \* bound on the reads of the list under way

VARIABLES
    kind,       \* "rules" or "fields", the same throughout
    rules,      \* the list the server has
    base,       \* for each write made: what its draft started from
    state,      \* "away", "loading", "ready" or "failed"
    mine,       \* the list the card shows
    loads,      \* its reads under way
    editor,     \* the dialog, and what its draft started from
    saving,     \* the save under way, or None
    doubt       \* history: what the card shows may have missed a save

editing == <<kind, rules, base, state, mine, loads, editor, saving, doubt>>

Rules == Write \cup {None}
Unmade == [from |-> None, careful |-> FALSE]
Closed == [open |-> FALSE, from |-> None, careful |-> FALSE]
Load == [id: 1..MaxLoads, clean: BOOLEAN, seen: {"nothing"} \cup Rules]

EditorInit ==
    /\ kind \in {"rules", "fields"}
    /\ rules = None /\ base = [w \in Write |-> Unmade]
    /\ state = "away" /\ mine = "unread" /\ loads = {}
    /\ editor = Closed /\ saving = None /\ doubt = FALSE

EditorTypeOK ==
    /\ kind \in {"rules", "fields"} /\ rules \in applied \cup {None}
    /\ \A w \in Write : w \in unsent => base[w] = Unmade
    /\ state \in {"away", "loading", "ready", "failed"}
    /\ mine \in Rules \cup {"unread"}
    /\ loads \subseteq Load /\ \A k, l \in loads : k.id = l.id => k = l
    /\ state = "loading" => loads # {}
    /\ editor.open => state # "away"
    /\ saving \in (Write \ unsent) \cup {None}
    /\ doubt \in BOOLEAN

\* What is shown is the answer to the last of reads and saves that did not overlap.
Settled == state = "ready" /\ loads = {} /\ saving = None /\ ~doubt

-----------------------------------------------------------------------------
\* useStrategies, useContextFields: a read beside the ones under way; those of
\* refetch() are not cancelled by a later one.
Reload ==
    \E id \in (1..MaxLoads) \ {l.id : l \in loads} :
        /\ \A i \in 1..(id - 1) : \E l \in loads : l.id = i
        /\ loads' = {[l EXCEPT !.clean = FALSE] : l \in loads} \cup
                    {[id |-> id, clean |-> loads = {} /\ queued = {}, seen |-> "nothing"]}
        /\ state' = "loading"

MountCard ==
    /\ state = "away"
    /\ Reload
    /\ mine' = "unread" /\ editor' = Closed /\ saving' = None
    /\ UNCHANGED <<kind, rules, base, doubt, api>>

LeaveCard ==
    /\ state # "away"
    /\ state' = "away" /\ mine' = "unread" /\ loads' = {}
    /\ editor' = Closed /\ saving' = None
    /\ UNCHANGED <<kind, rules, base, doubt, api>>

RetryLoad ==
    /\ state = "failed" /\ ~editor.open
    /\ Reload
    /\ UNCHANGED <<kind, rules, base, mine, editor, saving, doubt, api>>

ServerLoads(l) ==
    /\ l \in loads /\ l.seen = "nothing"
    /\ loads' = (loads \ {l}) \cup {[l EXCEPT !.seen = rules]}
    /\ UNCHANGED <<kind, rules, base, state, mine, editor, saving, doubt, api>>

\* Mutant: the open editor keeps its draft when the list arrives.
KeptDraft(list, settled) == [editor EXCEPT !.careful = settled]

\* The effect on initialStrategies: the open editor starts over from the list.
\* A context field is copied when its dialog opens.
Redraft(list, settled) ==
    IF editor.open /\ kind = "rules"
    THEN [open |-> TRUE, from |-> list, careful |-> settled]
    ELSE editor

LoadArrives(l) ==
    /\ l \in loads /\ l.seen # "nothing"
    /\ loads' = loads \ {l}
    /\ mine' = l.seen
    /\ state' = "ready"
    /\ doubt' = (~l.clean \/ loads' # {})
    /\ editor' = Redraft(l.seen, saving = None /\ ~doubt')
    /\ UNCHANGED <<kind, rules, base, saving, api>>

LoadFails(l) ==
    /\ l \in loads
    /\ loads' = loads \ {l}
    /\ state' = "failed"
    /\ UNCHANGED <<kind, rules, base, mine, editor, saving, doubt, api>>

-----------------------------------------------------------------------------
\* "Add rule" is there whatever became of the read; a field's pencil is in the table.
OpenEditor ==
    /\ ~editor.open
    /\ IF kind = "rules" THEN state # "away" ELSE state = "ready"
    /\ editor' = [open |-> TRUE, from |-> mine, careful |-> Settled]
    /\ UNCHANGED <<kind, rules, base, state, mine, loads, saving, doubt, api>>

\* Cancel; the cross, Escape and the backdrop work while a save is under way.
CloseEditor ==
    /\ editor.open
    /\ editor' = Closed
    /\ UNCHANGED <<kind, rules, base, state, mine, loads, saving, doubt, api>>

\* A draft that validates is sent whole.  A save that was given up may still come
\* after it.
Save(w) ==
    /\ editor.open /\ saving = None
    /\ Send({w})
    /\ saving' = w
    /\ base' = [v \in Write |->
                 IF v = w THEN [from |-> editor.from, careful |-> editor.careful /\ Settled]
                 ELSE [base[v] EXCEPT !.careful = @ /\ v \notin queued]]
    /\ loads' = {[l EXCEPT !.clean = FALSE] : l \in loads}
    /\ UNCHANGED <<kind, rules, state, mine, editor, doubt>>

\* PUT .../strategies, PATCH .../context-fields/:id.
Replace(w) ==
    /\ Carry(w)
    /\ rules' = w
    /\ UNCHANGED <<kind, base, state, mine, loads, editor, saving, doubt>>

\* onSaved, onClose: whichever editor is open by then is closed.
SaveSucceeds ==
    /\ saving \in applied
    /\ saving' = None
    /\ editor' = Closed
    /\ Reload
    /\ UNCHANGED <<kind, rules, base, mine, doubt, api>>

\* Refused, or the answer did not come: the server may have, or may yet, replace it.
SaveFails ==
    /\ saving # None
    /\ saving' = None
    /\ doubt' = (doubt \/ saving \in queued \cup applied)
    /\ UNCHANGED <<kind, rules, base, state, mine, loads, editor, api>>

EditorNext ==
    \/ MountCard \/ LeaveCard \/ RetryLoad
    \/ \E l \in loads : ServerLoads(l) \/ LoadArrives(l) \/ LoadFails(l)
    \/ OpenEditor \/ CloseEditor \/ SaveSucceeds \/ SaveFails
    \/ \E w \in Write : Save(w) \/ Replace(w)

-----------------------------------------------------------------------------
\* What the server replaces is what the editor had started from: no save of the
\* user's undoes an earlier one they were not shown, unless the draft was taken
\* or saved while reads and saves of the list overlapped or had failed.
SavesBuildOnTheList ==
    [][\A w \in Write : w \in queued \cap applied' /\ base[w].careful => rules = base[w].from]_<<api, editing>>
=============================================================================
