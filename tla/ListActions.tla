------------------------------ MODULE ListActions ------------------------------
(***************************************************************************)
(* What the list screens change: bulk actions on the selection, single rows, *)
(* and the dialogs of the keys screen, which show a new key once.  A write   *)
(* reported as done is followed by a read of the list (refetch).             *)
(***************************************************************************)
EXTENDS ListScreen

VARIABLES
    issue,      \* the dialog that issues a key: open or not, its button busy or not
    issuing,    \* keys being issued
    issued,     \* keys reported as issued
    reveal,     \* the key on offer in the dialog that shows it, or None
    dismissed,  \* keys the user has closed that dialog on
    overlapped  \* history: a key was submitted while another one was being issued

keys == <<issue, issuing, issued, reveal, dismissed, overlapped>>

NoIssue == [open |-> FALSE, saving |-> FALSE]

KeysBlank ==
    /\ issue = NoIssue /\ issuing = {} /\ issued = {}
    /\ reveal = None /\ dismissed = {} /\ overlapped = FALSE

ListTypeOK ==
    /\ ApiTypeOK
    /\ screen \in Kind \cup {None}
    /\ screen = None => ListBlank /\ KeysBlank
    /\ screen # None => ask \in Ask
    /\ reads \subseteq Read
    /\ Cardinality({r \in reads : r.newest}) = (IF status \in {"loading", "refreshing"} THEN 1 ELSE 0)
    /\ status \in {"away", "loading", "refreshing", "idle", "failed"}
    /\ shown \in Shown \cup {None}
    /\ selected \in BOOLEAN
    /\ bulk.op \in {None, "all", "resend"} /\ bulk.writes \cup row \cup reported \subseteq Write \ unsent
    /\ (bulk.op = None) = (bulk.writes = {})
    /\ issue \in [open: BOOLEAN, saving: BOOLEAN]
    /\ issuing \cup issued \subseteq Write \ unsent /\ dismissed \subseteq issued /\ reveal \in Write \cup {None}
    /\ overlapped \in BOOLEAN

-----------------------------------------------------------------------------
\* The bar is there while rows are selected; the users screen counts only the
\* selected rows of the page it shows.
BarIsUp ==
    /\ selected /\ bulk.writes = {}
    /\ \/ screen = "flags"
       \/ screen = "users" /\ shown # None

\* Enable, disable or delete all; change the role, suspend, reinstate, add to a
\* project: one request for each row, all at once.
StartBulk(op, ws) ==
    /\ BarIsUp
    /\ op = "resend" => screen = "users"
    /\ Send(ws)
    /\ bulk' = [op |-> op, writes |-> ws]
    /\ UNCHANGED <<screen, ask, reads, status, shown, selected, row, reported, keys>>

\* onDone: the selection goes and the list is read again.
BulkDone(done) ==
    /\ reported' = reported \cup done
    /\ bulk' = NoBulk
    /\ selected' = FALSE
    /\ Fetch(ask)

\* Mutant: the first answer ends the action.
SomeSucceeded(ws) == \E w \in ws : w \in applied

\* Promise.all
AllSucceeded(ws) == ws \subseteq applied

BulkSucceeds ==
    /\ bulk.op = "all" /\ AllSucceeded(bulk.writes)
    /\ BulkDone(bulk.writes)
    /\ UNCHANGED <<screen, shown, row, api, keys>>

\* The first failure ends the action; what the other requests do is not awaited.
BulkFails ==
    /\ bulk.op = "all"
    /\ bulk' = NoBulk
    /\ UNCHANGED <<screen, ask, reads, status, shown, selected, row, reported, api, keys>>

\* Promise.allSettled: those that succeeded are reported, unless none did.
ResendEnds(done) ==
    /\ bulk.op = "resend" /\ done \subseteq bulk.writes \cap applied
    /\ IF done = {}
       THEN bulk' = NoBulk /\ UNCHANGED <<ask, reads, status, selected, reported>>
       ELSE BulkDone(done)
    /\ UNCHANGED <<screen, shown, row, api, keys>>

-----------------------------------------------------------------------------
\* A switch, a row's menu, the revocation of a key; the drawer of a user and the
\* invitation of one are there without the table.
StartRow(w) ==
    /\ TableIsUp \/ screen \in {"users", "members"}
    /\ ~issue.open /\ reveal = None
    /\ Send({w})
    /\ row' = row \cup {w}
    /\ UNCHANGED <<screen, ask, reads, status, shown, selected, bulk, reported, keys>>

RowSucceeds(w) ==
    /\ w \in row \cap applied
    /\ row' = row \ {w}
    /\ reported' = reported \cup {w}
    /\ Fetch(ask)
    /\ UNCHANGED <<screen, shown, selected, bulk, api, keys>>

\* A single invite sent again, a password reset, a user added to a project they are
\* shown in: the success is reported without a read, of writes no list shows.
RowSucceedsQuietly(w) ==
    /\ screen = "users" /\ w \in row \cap applied
    /\ row' = row \ {w}
    /\ UNCHANGED <<screen, ask, reads, status, shown, selected, bulk, reported, api, keys>>

RowFails(w) ==
    /\ w \in row
    /\ row' = row \ {w}
    /\ UNCHANGED <<screen, ask, reads, status, shown, selected, bulk, reported, api, keys>>

-----------------------------------------------------------------------------
\* The keys screen shows its dialogs only with the table.
OpenIssue ==
    /\ screen = "keys" /\ TableIsUp /\ ~issue.open /\ reveal = None
    /\ issue' = [open |-> TRUE, saving |-> FALSE]
    /\ UNCHANGED <<issuing, issued, reveal, dismissed, overlapped, list, api>>

\* The dialog's cross works while the key is being issued.
CloseIssue ==
    /\ TableIsUp /\ issue.open
    /\ issue' = [issue EXCEPT !.open = FALSE]
    /\ UNCHANGED <<issuing, issued, reveal, dismissed, overlapped, list, api>>

SubmitIssue(w) ==
    /\ TableIsUp /\ issue.open /\ ~issue.saving
    /\ Send({w})
    /\ issue' = [issue EXCEPT !.saving = TRUE]
    /\ issuing' = issuing \cup {w}
    /\ overlapped' = (overlapped \/ issuing # {})
    /\ UNCHANGED <<issued, reveal, dismissed, list>>

\* Mutant: the key is kept in the dialog, which the read of the list takes down.
RevealInDialog(w) == None

\* setRevealKey
Revealed(w) == w

IssueSucceeds(w) ==
    /\ w \in issuing \cap applied
    /\ issuing' = issuing \ {w}
    /\ issued' = issued \cup {w}
    /\ issue' = NoIssue
    /\ reveal' = Revealed(w)
    /\ reported' = reported \cup {w}
    /\ Fetch(ask)
    /\ UNCHANGED <<screen, shown, selected, bulk, row, dismissed, overlapped, api>>

IssueFails(w) ==
    /\ w \in issuing
    /\ issuing' = issuing \ {w}
    /\ issue' = [issue EXCEPT !.saving = FALSE]
    /\ UNCHANGED <<issued, reveal, dismissed, overlapped, list, api>>

DismissReveal ==
    /\ TableIsUp /\ reveal # None
    /\ dismissed' = dismissed \cup {reveal}
    /\ reveal' = None
    /\ UNCHANGED <<issue, issuing, issued, overlapped, list, api>>

\* The dialog is built anew with the table: its button is free again.
Rebuild ==
    /\ issue' = [issue EXCEPT !.saving = FALSE]
    /\ UNCHANGED <<issuing, issued, reveal, dismissed, overlapped>>

\* The project's environments are read anew; the open dialog starts over, its
\* button free whatever is being issued.
EnvironmentsArrive ==
    /\ TableIsUp /\ issue.open
    /\ issue' = [issue EXCEPT !.saving = FALSE]
    /\ UNCHANGED <<issuing, issued, reveal, dismissed, overlapped, list, api>>

Arrive(r) ==
    /\ RowsArrive(r)
    /\ IF IsCurrent(r) THEN Rebuild ELSE UNCHANGED keys

Leave == Unmount /\ issue' = NoIssue /\ issuing' = {} /\ issued' = {} /\ reveal' = None /\ dismissed' = {} /\ overlapped' = FALSE

-----------------------------------------------------------------------------
ListInit == ListBlank /\ KeysBlank

ListRequests ==
    \E r \in reads : (ServerReads(r) /\ UNCHANGED keys) \/ Arrive(r) \/ (ReadFails(r) /\ UNCHANGED keys)

ListClicks ==
    /\ \/ \E q \in Query : ChangeQuery(q)
       \/ \E p \in Page : TurnPage(p)
       \/ Refresh \/ SelectRows \/ ClearSelection
    /\ UNCHANGED keys

ListWrites ==
    \/ \E ws \in SUBSET Write, op \in {"all", "resend"} : StartBulk(op, ws)
    \/ BulkSucceeds \/ BulkFails
    \/ \E done \in SUBSET Write : ResendEnds(done)
    \/ \E w \in Write : StartRow(w) \/ RowSucceeds(w) \/ RowSucceedsQuietly(w) \/ RowFails(w)

KeyDialogs ==
    \/ OpenIssue \/ CloseIssue \/ DismissReveal \/ EnvironmentsArrive
    \/ \E w \in Write : SubmitIssue(w) \/ IssueSucceeds(w) \/ IssueFails(w)

ListNext == ListRequests \/ ListClicks \/ ListWrites \/ KeyDialogs

-----------------------------------------------------------------------------
\* Once nothing is awaited, the rows answer what the screen asks for now and hold
\* every write the screen has reported as done, in whatever order the answers to
\* earlier reads came back.
RowsAreCurrent == status = "idle" => shown.ask = ask /\ reported \subseteq shown.seen

\* A key the screen has issued stays on offer until the user closes the dialog
\* that shows it, the reads and errors of the list notwithstanding, unless a second
\* key was submitted while one was being issued.  The busy button is there to rule
\* that out; a reopened dialog and newly read environments free it.
NoKeyIsLost == ~overlapped => issued \subseteq dismissed \cup {reveal}
=============================================================================
