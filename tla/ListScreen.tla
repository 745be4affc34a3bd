------------------------------ MODULE ListScreen ------------------------------
(***************************************************************************)
(* The lists of the admin UI: flags, users, API keys, and the members of the *)
(* project in its settings (FlagsScreen, UsersScreen, KeysScreen and         *)
(* SettingsMembers with their hooks).                                        *)
(* Every change of a filter, the sort order, the project or the page starts  *)
(* a read, and so does every reported write.  Reads are never cancelled, so  *)
(* several may be under way and end in any order; only the newest may be     *)
(* shown.  React runs a handler and the effects that follow it without       *)
(* interruption: each is one action here.                                    *)
(***************************************************************************)
EXTENDS AdminApi

CONSTANTS
    Query,      \* the project, filters, sort order and page size of a list
    Page,       \* 0..n: page offsets
    MaxReads    \* bound on the reads under way when another one starts

Kind == {"flags", "users", "keys", "members"}

ASSUME ListAssumption == 0 \in Page /\ MaxReads \in Nat \ {0} /\ None \notin Query \cup Kind \cup {"all", "resend"}

VARIABLES
    screen,     \* the list mounted, or None
    ask,        \* what the screen asks for now
    reads,      \* its reads under way
    status,
    shown,      \* what its rows are: the ask they answer and the writes in them
    selected,   \* rows are selected
    bulk,       \* the writes of the bulk action under way
    row,        \* writes of single rows and dialogs under way
    reported    \* writes the screen has told the user were done

list == <<screen, ask, reads, status, shown, selected, bulk, row, reported>>

Ask == [query: Query, offset: Page]
Read == [ask: Ask, newest: BOOLEAN, seen: {None} \cup SUBSET Write]
Shown == [ask: Ask, seen: SUBSET Write]
NoBulk == [op |-> None, writes |-> {}]

ListBlank ==
    /\ screen = None
    /\ ask = None /\ reads = {} /\ status = "away" /\ shown = None
    /\ selected = FALSE /\ bulk = NoBulk /\ row = {} /\ reported = {}

-----------------------------------------------------------------------------
\* The read of ask a becomes the newest; the older ones stay under way.
Reading(rs, a) ==
    {[r EXCEPT !.newest = FALSE] : r \in rs} \cup {[ask |-> a, newest |-> TRUE, seen |-> None]}

CanRead == Cardinality(reads) < MaxReads

\* The first answer, an error too, ends "loading"; the keys screen goes back to it.
Busy == IF status = "loading" \/ screen = "keys" THEN "loading" ELSE "refreshing"

Fetch(a) ==
    /\ CanRead
    /\ ask' = a
    /\ reads' = Reading(reads, a)
    /\ status' = Busy

Mount(kind, q) ==
    /\ screen = None
    /\ screen' = kind
    /\ ask' = [query |-> q, offset |-> 0]
    /\ reads' = Reading({}, ask')
    /\ status' = "loading"
    /\ shown' = None
    /\ selected' = FALSE /\ bulk' = NoBulk /\ row' = {} /\ reported' = {}
    /\ UNCHANGED api

\* Its requests go on at the server; nothing of theirs reaches a screen again.
Unmount ==
    /\ screen # None
    /\ screen' = None
    /\ ask' = None /\ reads' = {} /\ status' = "away" /\ shown' = None
    /\ selected' = FALSE /\ bulk' = NoBulk /\ row' = {} /\ reported' = {}

-----------------------------------------------------------------------------
\* The server reads the rows, and the answer reaches the screen.
ServerReads(r) ==
    /\ r \in reads /\ r.seen = None
    /\ reads' = (reads \ {r}) \cup {Answered(r)}
    /\ UNCHANGED <<screen, ask, status, shown, selected, bulk, row, reported, api>>

\* Mutant: an answer is shown whether or not it is to the newest read.
IsCurrentAlways(r) == TRUE

\* id === requestId.current
IsCurrent(r) == r.newest

RowsArrive(r) ==
    /\ r \in reads /\ r.seen # None
    /\ reads' = reads \ {r}
    /\ IF IsCurrent(r)
       THEN shown' = [ask |-> r.ask, seen |-> r.seen] /\ status' = "idle"
       ELSE UNCHANGED <<shown, status>>
    /\ UNCHANGED <<screen, ask, selected, bulk, row, reported, api>>

\* An error or the timeout: the rows go, a later read can bring them back.
ReadFails(r) ==
    /\ r \in reads
    /\ reads' = reads \ {r}
    /\ IF IsCurrent(r)
       THEN shown' = None /\ status' = "failed"
       ELSE UNCHANGED <<shown, status>>
    /\ UNCHANGED <<screen, ask, selected, bulk, row, reported, api>>

-----------------------------------------------------------------------------
\* The table and what it can be clicked for; rows stay up while they are refreshed.
TableIsUp == shown # None /\ status \in (IF screen = "keys" THEN {"idle"} ELSE {"idle", "refreshing"})

\* A filter, the sort order, the environment or the project changes.  The hook's
\* effect reads with the page as it was; the screen's effect then goes back to
\* the first page, which reads again and clears the selection.
ChangeQuery(q) ==
    /\ screen # None /\ q # ask.query
    /\ CanRead
    /\ LET first == [query |-> q, offset |-> 0] IN
       /\ ask' = first
       /\ IF ask.offset = 0
          THEN reads' = Reading(reads, first) /\ UNCHANGED selected
          ELSE /\ reads' = Reading(Reading(reads, [ask EXCEPT !.query = q]), first)
               /\ selected' = FALSE
    /\ status' = Busy
    /\ UNCHANGED <<screen, shown, bulk, row, reported, api>>

TurnPage(offset) ==
    /\ TableIsUp /\ offset # ask.offset
    /\ Fetch([ask EXCEPT !.offset = offset])
    /\ selected' = FALSE
    /\ UNCHANGED <<screen, shown, bulk, row, reported, api>>

\* Refresh, and the retry of the error page.
Refresh ==
    /\ \/ screen = "flags" /\ status = "idle"
       \/ screen # None /\ status = "failed"
    /\ Fetch(ask)
    /\ UNCHANGED <<screen, shown, selected, bulk, row, reported, api>>

SelectRows ==
    /\ TableIsUp /\ screen \in {"flags", "users"}
    /\ selected' = TRUE
    /\ UNCHANGED <<screen, ask, reads, status, shown, bulk, row, reported, api>>

\* Unticking the rows, or the bar's cross, which a running action disables.
ClearSelection ==
    /\ selected
    /\ bulk.writes = {} \/ TableIsUp
    /\ selected' = FALSE
    /\ UNCHANGED <<screen, ask, reads, status, shown, bulk, row, reported, api>>

=============================================================================
