---------------------------- MODULE AdminUi_proofs ----------------------------
(***************************************************************************)
(* Proofs about the admin UI (AdminUi, which composes its screens), for any  *)
(* writes, queries, pages, files and projects.                              *)
(***************************************************************************)
EXTENDS AdminUi, FiniteSetTheorems, TLAPS

\* What is chosen in the import dialog and what is under way for it agree, as long
\* as no choice was made meanwhile.
ImportAgrees ==
    /\ dialog \in [open: BOOLEAN, source: Source, conflict: Conflict,
                   name: File \cup {None}, document: File \cup {None}]
    /\ ~rushed =>
         /\ run # None => run.choice = Now /\ dialog.name = dialog.document
         /\ report # None => report = Now /\ dialog.name = dialog.document
         /\ run # None /\ run.write # None => report # None
         /\ parsing # {} =>
              parsing = {dialog.name} /\ dialog.document = None /\ report = None /\ run = None
         /\ dialog.document # None => dialog.name = dialog.document
         /\ ~dialog.open => report = None /\ run = None

\* A step of the import dialog keeps ImportAgrees.
LEMMA ImportStep ==
    ASSUME ImportAgrees, ImportNext
    PROVE  ImportAgrees'
<1> USE DEF ImportAgrees, Now, Source, Conflict
<1>1. CASE OpenImport
  BY <1>1 DEF OpenImport
<1>2. CASE CloseImport
  BY <1>2 DEF CloseImport, DropReport, Idle
<1>3. CASE Preview
  BY <1>3 DEF Preview
<1>4. CASE RunEnds
  BY <1>4 DEF RunEnds
<1>5. CASE RunFails
  BY <1>5 DEF RunFails
<1>6. ASSUME NEW s \in Source, ChooseSource(s) PROVE ImportAgrees'
  BY <1>6 DEF ChooseSource, DropReport, Idle
<1>7. ASSUME NEW c \in Conflict, ChooseConflict(c) PROVE ImportAgrees'
  BY <1>7 DEF ChooseConflict, DropReport, Idle
<1>8. ASSUME NEW f \in File, PickFile(f) PROVE ImportAgrees'
  BY <1>8 DEF PickFile, DropReport, Idle
<1>9. ASSUME NEW f \in File, FileParsed(f) PROVE ImportAgrees'
  BY <1>9 DEF FileParsed
<1>10. ASSUME NEW f \in File, FileUnreadable(f) PROVE ImportAgrees'
  BY <1>10 DEF FileUnreadable
<1>11. ASSUME NEW t \in Target, SwitchTarget(t) PROVE ImportAgrees'
  BY <1>11 DEF SwitchTarget, Idle
<1>12. ASSUME NEW w \in Write, ImportForReal(w) PROVE ImportAgrees'
  BY <1>12 DEF ImportForReal
<1> QED
  BY <1>1, <1>2, <1>3, <1>4, <1>5, <1>6, <1>7, <1>8, <1>9, <1>10, <1>11, <1>12 DEF ImportNext

\* What is imported is what was previewed, unless a choice was made while a
\* request or a file was awaited (ImportFlagsModal.tsx).
THEOREM ImportsArePreviewed == Spec => []ImportIsPreviewed
<1>1. Init => ImportAgrees
  BY DEF Init, ImportInit, ImportAgrees, Source, Conflict
<1>2. ImportAgrees /\ [Next]_vars => ImportAgrees'
  <2> SUFFICES ASSUME ImportAgrees, [Next]_vars PROVE ImportAgrees'
    OBVIOUS
  <2>1. ImportNext \/ UNCHANGED importing
    BY DEF Next, vars
  <2>2. ASSUME UNCHANGED importing PROVE ImportAgrees'
    BY <2>2 DEF importing, ImportAgrees, Now
  <2> QED
    BY <2>1, <2>2, ImportStep
<1>3. ImportAgrees => ImportIsPreviewed
  BY DEF ImportAgrees, ImportIsPreviewed, Now
<1> QED
  BY <1>1, <1>2, <1>3, PTL DEF Spec

-----------------------------------------------------------------------------
\* The steps of the list screens.
LEMMA ScreensStep ==
    ASSUME [Next]_vars
    PROVE  \/ UNCHANGED <<list, keys>>
           \/ (\E k \in Kind, q \in Query : Mount(k, q)) /\ UNCHANGED keys
           \/ Leave /\ UNCHANGED applied
           \/ ListNext
<1>1. ScreensNext \/ UNCHANGED screens
  BY DEF Next, vars
<1>2. ASSUME UNCHANGED screens PROVE UNCHANGED <<list, keys>>
  BY <1>2 DEF screens
<1>3. ASSUME NEW q \in Query, NEW k \in {"flags", "users", "keys", "members"}, Mount(k, q)
      PROVE  \E i \in Kind, p \in Query : Mount(i, p)
  BY <1>3 DEF Kind
<1>4. ASSUME ScreensNext
      PROVE  \/ UNCHANGED <<list, keys>>
             \/ (\E k \in Kind, q \in Query : Mount(k, q)) /\ UNCHANGED keys
             \/ Leave /\ UNCHANGED applied
             \/ ListNext
  <2>1. ASSUME OpenList \/ FlagToList \/ FlagIsDeleted
        PROVE  (\E k \in Kind, q \in Query : Mount(k, q)) /\ UNCHANGED keys
    BY <1>3, <2>1 DEF OpenList, FlagToList, FlagIsDeleted, Kind
  <2>2. ASSUME CloseList \/ ListToFlag PROVE Leave /\ UNCHANGED applied
    BY <2>2 DEF CloseList, ListToFlag, OpenFlag, api
  <2> QED
    BY <1>4, <2>1, <2>2 DEF ScreensNext
<1> QED
  BY <1>1, <1>2, <1>4

\* While a key is being issued it is the only one and none is on offer, unless one
\* was submitted while another was being issued.
KeysAreSafe ==
    /\ issue \in [open: BOOLEAN, saving: BOOLEAN] /\ issued \subseteq Write
    /\ ~overlapped =>
         /\ issued \subseteq dismissed \cup {reveal}
         /\ issue.open => reveal = None
         /\ issuing # {} => reveal = None /\ \E w \in Write : issuing = {w}

\* A step of the list screens keeps KeysAreSafe.
LEMMA KeysStep ==
    ASSUME KeysAreSafe, ListNext
    PROVE  KeysAreSafe'
<1> USE DEF KeysAreSafe
<1>1. ASSUME UNCHANGED keys PROVE KeysAreSafe'
  BY <1>1 DEF keys
<1>2. ASSUME Rebuild PROVE KeysAreSafe'
  BY <1>2 DEF Rebuild
<1>3. ASSUME OpenIssue PROVE KeysAreSafe'
  BY <1>3 DEF OpenIssue
<1>4. ASSUME CloseIssue PROVE KeysAreSafe'
  BY <1>4 DEF CloseIssue
<1>5. ASSUME DismissReveal PROVE KeysAreSafe'
  BY <1>5 DEF DismissReveal
<1>6. ASSUME NEW w \in Write, SubmitIssue(w) PROVE KeysAreSafe'
  BY <1>6 DEF SubmitIssue
<1>7. ASSUME NEW w \in Write, IssueSucceeds(w) PROVE KeysAreSafe'
  BY <1>7, ApiAssumption DEF IssueSucceeds, NoIssue, Revealed
<1>8. ASSUME NEW w \in Write, IssueFails(w) PROVE KeysAreSafe'
  BY <1>8 DEF IssueFails
<1>9. ASSUME ListRequests PROVE UNCHANGED keys \/ Rebuild
  BY <1>9 DEF ListRequests, Arrive
<1>10. ASSUME ListClicks \/ ListWrites PROVE UNCHANGED keys
  BY <1>10 DEF ListClicks, ListWrites, StartBulk, BulkSucceeds, BulkFails, ResendEnds, StartRow, RowSucceeds,
     RowSucceedsQuietly, RowFails
<1>11. ASSUME EnvironmentsArrive PROVE KeysAreSafe'
  BY <1>11 DEF EnvironmentsArrive
<1> QED
  BY <1>1, <1>2, <1>3, <1>4, <1>5, <1>6, <1>7, <1>8, <1>9, <1>10, <1>11 DEF ListNext, KeyDialogs

\* A key the UI has issued stays on offer until the user closes the dialog that
\* shows it, unless two were being issued at once (KeysScreen.tsx).
THEOREM NoKeysAreLost == Spec => []NoKeyIsLost
<1>1. Init => KeysAreSafe
  BY DEF Init, ListInit, KeysBlank, NoIssue, KeysAreSafe
<1>2. KeysAreSafe /\ [Next]_vars => KeysAreSafe'
  <2> SUFFICES ASSUME KeysAreSafe, [Next]_vars PROVE KeysAreSafe'
    OBVIOUS
  <2>1. ASSUME UNCHANGED keys PROVE KeysAreSafe'
    BY <2>1 DEF keys, KeysAreSafe
  <2>2. ASSUME Leave PROVE KeysAreSafe'
    BY <2>2 DEF Leave, NoIssue, KeysAreSafe
  <2> QED
    BY <2>1, <2>2, ScreensStep, KeysStep
<1>3. KeysAreSafe => NoKeyIsLost
  BY DEF KeysAreSafe, NoKeyIsLost
<1> QED
  BY <1>1, <1>2, <1>3, PTL DEF Spec

-----------------------------------------------------------------------------
\* What is shown, and what the newest read will show, is what is asked for, with
\* every write reported so far; nothing is shown as settled while it is awaited.
ListIsCurrent ==
    /\ part # "screens" => screen = None
    /\ screen = None => ListBlank /\ KeysBlank
    /\ part = "screens" => reported \subseteq applied /\ applied \subseteq Write
    /\ screen # None => ask \in Ask
    /\ reads \subseteq Read
    /\ \A r, q \in reads : r.newest /\ q.newest => r = q
    /\ \A r \in reads : r.newest =>
         r.ask = ask /\ status # "idle" /\ (r.seen # None => reported \subseteq r.seen)
    /\ status = "idle" => shown.ask = ask /\ reported \subseteq shown.seen

\* A new read is of what is asked for, and all the others are older.
LEMMA ReadingStep ==
    ASSUME NEW rs \in SUBSET Read, NEW a \in Ask
    PROVE  /\ Reading(rs, a) \subseteq Read
           /\ \A r \in Reading(rs, a) :
                r.newest => r = [ask |-> a, newest |-> TRUE, seen |-> None]
<1>1. ASSUME NEW r \in rs PROVE [r EXCEPT !.newest = FALSE] \in Read /\ ~[r EXCEPT !.newest = FALSE].newest
  <2>1. r \in Read
    OBVIOUS
  <2> QED
    BY <2>1 DEF Read
<1>2. [ask |-> a, newest |-> TRUE, seen |-> None] \in Read
  BY DEF Read
<1>3. \A r \in Reading(rs, a) : \/ r = [ask |-> a, newest |-> TRUE, seen |-> None]
                                 \/ \E q \in rs : r = [q EXCEPT !.newest = FALSE]
  BY DEF Reading
<1>4. ASSUME NEW r \in Reading(rs, a) 
      PROVE  r \in Read /\ (r.newest => r = [ask |-> a, newest |-> TRUE, seen |-> None])
  <2>1. CASE r = [ask |-> a, newest |-> TRUE, seen |-> None]
    BY <1>2, <2>1
  <2>2. CASE \E q \in rs : r = [q EXCEPT !.newest = FALSE]
    <3>1. PICK q \in rs : r = [q EXCEPT !.newest = FALSE]
      BY <2>2
    <3> QED
      BY <1>1, <3>1
  <2> QED
    BY <1>3, <2>1, <2>2
<1> QED
  BY <1>4

\* A read that has just begun puts everything right.
LEMMA FetchStep ==
    ASSUME NEW a \in Ask, NEW rs \in SUBSET Read, part' = "screens", screen' # None,
           reads' = Reading(rs, a), ask' = a, status' # "idle",
           reported' \subseteq applied', applied' \subseteq Write
    PROVE  ListIsCurrent'
<1>1. /\ reads' \subseteq Read
      /\ \A r \in reads' : r.newest => r = [ask |-> a, newest |-> TRUE, seen |-> None]
  BY ReadingStep
<1>2. \A r \in reads' : r.newest => r.ask = ask' /\ r.seen = None
  BY <1>1
<1> QED
  BY <1>1, <1>2 DEF ListIsCurrent

\* A list does something only while it is mounted.
LEMMA ListIsMounted ==
    ASSUME ListIsCurrent, ListNext
    PROVE  screen # None /\ screen' = screen
<1>1. screen' = screen
  BY DEF ListNext, ListRequests, ServerReads, Arrive, RowsArrive, ReadFails, ListClicks, ChangeQuery, TurnPage,
     Refresh, SelectRows, ClearSelection, ListWrites, StartBulk, BulkSucceeds, BulkFails, ResendEnds, StartRow,
     RowSucceeds, RowSucceedsQuietly, RowFails, KeyDialogs, EnvironmentsArrive, OpenIssue, CloseIssue, DismissReveal, SubmitIssue, IssueSucceeds,
     IssueFails, list
<1>2. ASSUME screen = None PROVE FALSE
  <2>1. /\ reads = {} /\ shown = None /\ selected = FALSE /\ bulk.op = None /\ row = {}
        /\ issuing = {} /\ ~issue.open
    BY <1>2 DEF ListIsCurrent, ListBlank, NoBulk, KeysBlank, NoIssue
  <2>2. ~TableIsUp /\ ~BarIsUp /\ screen \notin {"flags", "users", "keys", "members"}
    BY <1>2, <2>1, ListAssumption DEF TableIsUp, BarIsUp, Kind
  <2>3. bulk.op \notin {"all", "resend"}
    BY <2>1, ListAssumption
  <2>4. status \notin {"idle", "failed"}
    BY <1>2 DEF ListIsCurrent, ListBlank
  <2>5. ~ListRequests
    BY <2>1 DEF ListRequests
  <2>6. ~ListClicks
    BY <1>2, <2>1, <2>2, <2>4 DEF ListClicks, ChangeQuery, TurnPage, Refresh, SelectRows, ClearSelection
  <2>7. ~ListWrites
    BY <1>2, <2>1, <2>2, <2>3 DEF ListWrites, StartBulk, BulkSucceeds, BulkFails, ResendEnds, StartRow,
       RowSucceeds, RowSucceedsQuietly, RowFails
  <2>8. ~KeyDialogs
    BY <1>2, <2>1, <2>2 DEF KeyDialogs, EnvironmentsArrive, OpenIssue, CloseIssue, DismissReveal, SubmitIssue, IssueSucceeds, IssueFails
  <2> QED
    BY <2>5, <2>6, <2>7, <2>8 DEF ListNext
<1> QED
  BY <1>1, <1>2

\* A step of the list screens keeps ListIsCurrent.
LEMMA ListStep ==
    ASSUME ListIsCurrent, ListNext, UNCHANGED part, part = "screens"
    PROVE  ListIsCurrent'
<1>0. /\ reads \in SUBSET Read /\ reported \subseteq applied /\ applied \subseteq Write
      /\ screen # None /\ screen' # None /\ ask \in Ask
      /\ \A r, q \in reads : r.newest /\ q.newest => r = q
      /\ \A r \in reads : r.newest =>
           r.ask = ask /\ status # "idle" /\ (r.seen # None => reported \subseteq r.seen)
      /\ status = "idle" => shown.ask = ask /\ reported \subseteq shown.seen
  BY ListIsMounted DEF ListIsCurrent
<1>1. Busy # "idle"
  BY DEF Busy
<1>2. ASSUME UNCHANGED <<ask, reads, status, shown, reported>>, applied \subseteq applied', applied' \subseteq Write
      PROVE  ListIsCurrent'
  BY <1>0, <1>2 DEF ListIsCurrent
<1>3. ASSUME NEW a \in Ask, Fetch(a), reported' \subseteq applied, UNCHANGED applied PROVE ListIsCurrent'
  BY <1>0, <1>1, <1>3, FetchStep DEF Fetch
<1>4. ASSUME NEW r \in reads, ServerReads(r) PROVE ListIsCurrent'
  <2>1. r \in Read /\ Answered(r) = [r EXCEPT !.seen = applied]
    BY <1>0 DEF Answered
  <2>2. /\ Answered(r) \in Read /\ Answered(r).newest = r.newest /\ Answered(r).ask = r.ask
        /\ Answered(r).seen = applied
    BY <1>0, <2>1 DEF Read
  <2>3. /\ reads' = (reads \ {r}) \cup {Answered(r)}
        /\ UNCHANGED <<screen, ask, status, shown, reported, applied>>
    BY <1>4 DEF ServerReads, api
  <2> QED
    BY <1>0, <2>2, <2>3 DEF ListIsCurrent
<1>5. ASSUME NEW r \in reads, Arrive(r) PROVE ListIsCurrent'
  <2>1. /\ reads' = reads \ {r} /\ r.seen # None
        /\ UNCHANGED <<screen, ask, reported, applied>>
        /\ IF r.newest THEN shown' = [ask |-> r.ask, seen |-> r.seen] /\ status' = "idle"
                       ELSE UNCHANGED <<shown, status>>
    BY <1>5 DEF Arrive, RowsArrive, IsCurrent, api
  <2>2. CASE r.newest
    <3>1. \A q \in reads' : ~q.newest
      BY <1>0, <2>1, <2>2
    <3>2. shown'.ask = ask' /\ reported' \subseteq shown'.seen
      BY <1>0, <2>1, <2>2
    <3> QED
      BY <1>0, <2>1, <3>1, <3>2 DEF ListIsCurrent
  <2>3. CASE ~r.newest
    BY <1>0, <2>1, <2>3 DEF ListIsCurrent
  <2> QED
    BY <2>2, <2>3
<1>6. ASSUME NEW r \in reads, ReadFails(r) PROVE ListIsCurrent'
  <2>1. /\ reads' = reads \ {r} /\ UNCHANGED <<screen, ask, reported, applied>>
        /\ IF r.newest THEN status' = "failed" ELSE UNCHANGED <<shown, status>>
    BY <1>6 DEF ReadFails, IsCurrent, api
  <2>2. CASE r.newest
    <3>1. \A q \in reads' : ~q.newest
      BY <1>0, <2>1, <2>2
    <3> QED
      BY <1>0, <2>1, <2>2, <3>1 DEF ListIsCurrent
  <2>3. CASE ~r.newest
    BY <1>0, <2>1, <2>3 DEF ListIsCurrent
  <2> QED
    BY <2>2, <2>3
<1>7. ASSUME NEW q \in Query, ChangeQuery(q) PROVE ListIsCurrent'
  <2> DEFINE first == [query |-> q, offset |-> 0]
             second == [ask EXCEPT !.query = q]
  <2>1. first \in Ask /\ second \in Ask
    BY <1>0, ListAssumption DEF Ask
  <2>2. Reading(reads, second) \in SUBSET Read
    BY <1>0, <2>1, ReadingStep
  <2>3. /\ reads' \in {Reading(reads, first), Reading(Reading(reads, second), first)}
        /\ ask' = first /\ status' # "idle" /\ UNCHANGED <<reported, applied>>
    BY <1>1, <1>7 DEF ChangeQuery, api
  <2> HIDE DEF first, second
  <2> QED
    BY <1>0, <2>1, <2>2, <2>3, FetchStep
<1>8. ASSUME NEW p \in Page, TurnPage(p) PROVE ListIsCurrent'
  <2>1. [ask EXCEPT !.offset = p] \in Ask
    BY <1>0 DEF Ask
  <2> QED
    BY <1>0, <1>3, <1>8, <2>1 DEF TurnPage, api
<1>9. ASSUME Refresh PROVE ListIsCurrent'
  BY <1>0, <1>3, <1>9 DEF Refresh, api
<1>10. ASSUME SelectRows \/ ClearSelection PROVE ListIsCurrent'
  BY <1>0, <1>2, <1>10 DEF SelectRows, ClearSelection, api
<1>11. ASSUME NEW ws, Send(ws), UNCHANGED <<ask, reads, status, shown, reported>> PROVE ListIsCurrent'
  BY <1>0, <1>2, <1>11 DEF Send
<1>12. ASSUME NEW done, BulkDone(done), done \subseteq applied, UNCHANGED applied PROVE ListIsCurrent'
  BY <1>0, <1>3, <1>12 DEF BulkDone
<1>13. ASSUME ListWrites PROVE ListIsCurrent'
  <2>1. ASSUME NEW ws, NEW op, StartBulk(op, ws) PROVE ListIsCurrent'
    BY <1>11, <2>1 DEF StartBulk
  <2>2. ASSUME BulkSucceeds PROVE ListIsCurrent'
    BY <1>12, <2>2 DEF BulkSucceeds, AllSucceeded, api
  <2>3. ASSUME BulkFails PROVE ListIsCurrent'
    BY <1>0, <1>2, <2>3 DEF BulkFails, api
  <2>4. ASSUME NEW done, ResendEnds(done) PROVE ListIsCurrent'
    BY <1>0, <1>2, <1>12, <2>4 DEF ResendEnds, api
  <2>5. ASSUME NEW w, StartRow(w) PROVE ListIsCurrent'
    BY <1>11, <2>5 DEF StartRow
  <2>6. ASSUME NEW w, RowSucceeds(w) PROVE ListIsCurrent'
    BY <1>0, <1>3, <2>6 DEF RowSucceeds, api
  <2>7. ASSUME NEW w, RowFails(w) PROVE ListIsCurrent'
    BY <1>0, <1>2, <2>7 DEF RowFails, api
  <2>8. ASSUME NEW w, RowSucceedsQuietly(w) PROVE ListIsCurrent'
    BY <1>0, <1>2, <2>8 DEF RowSucceedsQuietly, api
  <2> QED
    BY <1>13, <2>1, <2>2, <2>3, <2>4, <2>5, <2>6, <2>7, <2>8 DEF ListWrites
<1>14. ASSUME KeyDialogs PROVE ListIsCurrent'
  <2>1. ASSUME OpenIssue \/ CloseIssue \/ DismissReveal \/ EnvironmentsArrive PROVE ListIsCurrent'
    BY <1>0, <1>2, <2>1 DEF EnvironmentsArrive, OpenIssue, CloseIssue, DismissReveal, list, api
  <2>2. ASSUME NEW w, SubmitIssue(w) PROVE ListIsCurrent'
    BY <1>11, <2>2 DEF SubmitIssue, list
  <2>3. ASSUME NEW w, IssueSucceeds(w) PROVE ListIsCurrent'
    BY <1>0, <1>3, <2>3 DEF IssueSucceeds, api
  <2>4. ASSUME NEW w, IssueFails(w) PROVE ListIsCurrent'
    BY <1>0, <1>2, <2>4 DEF IssueFails, list, api
  <2> QED
    BY <1>14, <2>1, <2>2, <2>3, <2>4 DEF KeyDialogs
<1>15. ASSUME ListClicks PROVE ListIsCurrent'
  BY <1>7, <1>8, <1>9, <1>10, <1>15 DEF ListClicks
<1>16. ASSUME ListRequests PROVE ListIsCurrent'
  BY <1>4, <1>5, <1>6, <1>16 DEF ListRequests
<1> QED
  BY <1>13, <1>14, <1>15, <1>16 DEF ListNext

\* The server only adds to what is carried out.
LEMMA AppliedStep ==
    ASSUME [Next]_vars, part = "screens", applied \subseteq Write
    PROVE  applied \subseteq applied' /\ applied' \subseteq Write
<1>0. ASSUME ListNext PROVE UNCHANGED applied
  <2>1. ASSUME ListRequests \/ ListClicks PROVE UNCHANGED applied
    BY <2>1 DEF ListRequests, ServerReads, Arrive, RowsArrive, ReadFails, ListClicks, ChangeQuery, TurnPage, Refresh,
       SelectRows, ClearSelection, api
  <2>2. ASSUME ListWrites PROVE UNCHANGED applied
    BY <2>2 DEF ListWrites, StartBulk, BulkSucceeds, BulkFails, ResendEnds, StartRow, RowSucceeds,
     RowSucceedsQuietly, RowFails, Send, api
  <2>3. ASSUME KeyDialogs PROVE UNCHANGED applied
    BY <2>3 DEF KeyDialogs, EnvironmentsArrive, OpenIssue, CloseIssue, DismissReveal, SubmitIssue, IssueSucceeds, IssueFails, Send, api
  <2> QED
    BY <1>0, <2>1, <2>2, <2>3 DEF ListNext
<1>1. ASSUME NEW w \in Write, Carry(w) \/ Refuse(w) PROVE applied \subseteq applied' /\ applied' \subseteq Write
  BY <1>1 DEF Carry, Refuse
<1>2. ASSUME PageRequests \/ PageClicks PROVE UNCHANGED applied
  BY <1>2 DEF PageRequests, PageClicks, ServerFetches, FlagArrives, FetchFails, Ended, Toggled, Edited, ActFails,
     GoTo, RetryFlag, StartAct, Send, api
<1>3. ASSUME NEW w \in Write, CarryAct(w) PROVE Carry(w)
  BY <1>3 DEF CarryAct
<1>4. ASSUME NEW k, NEW q, Mount(k, q) PROVE UNCHANGED applied
  BY <1>4 DEF Mount, api
<1>5. ASSUME CloseList \/ ListToFlag PROVE UNCHANGED applied
  BY <1>5 DEF CloseList, ListToFlag, OpenFlag, api
<1>6. ASSUME ScreensNext PROVE UNCHANGED applied \/ \E w \in Write : Carry(w)
  BY <1>0, <1>2, <1>3, <1>4, <1>5, <1>6 DEF ScreensNext, OpenList, FlagToList, FlagIsDeleted
<1> QED
  BY <1>1, <1>6 DEF Next, ServerWrites, vars, api

\* ListIsCurrent holds in every state.
LEMMA ListStaysCurrent == Spec => []ListIsCurrent
<1>1. Init => ListIsCurrent
  BY DEF Init, ListInit, ListBlank, ApiInit, ListIsCurrent
<1>2. ListIsCurrent /\ [Next]_vars => ListIsCurrent'
  <2> SUFFICES ASSUME ListIsCurrent, [Next]_vars PROVE ListIsCurrent'
    OBVIOUS
  <2>1. UNCHANGED part
    BY DEF Next, vars
  <2>2. CASE part # "screens"
    <3>1. UNCHANGED <<list, keys>>
      BY <2>2 DEF Next, vars, screens
    <3> QED
      BY <2>1, <2>2, <3>1 DEF ListIsCurrent, ListBlank, KeysBlank, list, keys
  <2>3. CASE part = "screens"
    <3>1. ASSUME NEW k \in Kind, NEW q \in Query, Mount(k, q), UNCHANGED keys PROVE ListIsCurrent'
      <4>1. [query |-> q, offset |-> 0] \in Ask
        BY ListAssumption DEF Ask
      <4>2. k # None
        BY ListAssumption
      <4>3. applied \subseteq Write
        BY <2>3 DEF ListIsCurrent
      <4> QED
        BY <2>1, <2>3, <3>1, <4>1, <4>2, <4>3, FetchStep DEF Mount, api
    <3>2. ASSUME Leave, UNCHANGED applied PROVE ListIsCurrent'
      BY <2>1, <2>3, <3>2 DEF Leave, Unmount, NoIssue, ListIsCurrent, ListBlank, KeysBlank
    <3>3. ASSUME UNCHANGED <<list, keys>>, ~ListNext PROVE ListIsCurrent'
      BY <2>1, <2>3, <3>3, AppliedStep DEF ListIsCurrent, ListBlank, KeysBlank, list, keys
    <3> QED
      BY <2>1, <2>3, <3>1, <3>2, <3>3, ScreensStep, ListStep
  <2> QED
    BY <2>2, <2>3
<1> QED
  BY <1>1, <1>2, PTL DEF Spec

\* Once nothing is awaited, a list's rows answer what the screen asks for and hold
\* every write it has reported, in whatever order its reads are answered (useFlags,
\* useUsers, useKeys).
THEOREM ListsAreCurrent == Spec => []RowsAreCurrent
<1>1. ListIsCurrent => RowsAreCurrent
  BY DEF ListIsCurrent, RowsAreCurrent
<1> QED
  BY <1>1, ListStaysCurrent, PTL
-----------------------------------------------------------------------------
\* What the flag's page waits for, while nothing overlapped: one read of the flag
\* the address names, or one write to it, which knows what was reported before.
PageAgrees ==
    /\ part # "screens" => url = None
    /\ part = "screens" => applied \subseteq Write
    /\ url \in FlagKey \cup {None}
    /\ page = None \/ page.key \in FlagKey
    /\ fetches \subseteq Fetching /\ acts \subseteq Act
    /\ part = "screens" => pageReported \subseteq applied
    /\ part = "screens" => \A a \in acts : a.seen # None => a.write \in a.seen /\ a.seen \subseteq applied
    /\ ~strayed /\ url # None =>
         /\ fetches = {} \/ acts = {}
         /\ \A f, g \in fetches : f = g
         /\ \A a, b \in acts : a = b
         /\ \A f \in fetches : f.key = url /\ (f.seen # None => pageReported \subseteq f.seen)
         /\ \A a \in acts : a.key = url /\ (a.seen # None => pageReported \subseteq a.seen)
         /\ fetches = {} /\ ~failed => page.key = url /\ pageReported \subseteq page.seen

\* A read that begins with nothing else under way, of the flag the address names.
LEMMA FetchFlagStep ==
    ASSUME PageAgrees, part = "screens", part' = part, UNCHANGED applied,
           NEW k \in FlagKey, NEW initial \in BOOLEAN, NEW as \in SUBSET Act, 
           FetchFlag(k, url', initial, as), 
           acts' = as \/ acts' = TakenDown(as),
           \A a \in as : a.seen # None => a.write \in a.seen /\ a.seen \subseteq applied,
           pageReported' \subseteq applied, url' \in FlagKey \cup {None},
           page' = None \/ page'.key \in FlagKey
    PROVE  PageAgrees'
<1>1. PICK id \in 1..MaxFetches :
        fetches' = fetches \cup {[id |-> id, key |-> k, initial |-> initial, seen |-> None]}
  BY DEF FetchFlag
<1>2. strayed' = (UnderWay(fetches, as) \/ k # url')
  BY DEF FetchFlag
<1> DEFINE new == [id |-> id, key |-> k, initial |-> initial, seen |-> None]
<1>3. new \in Fetching /\ new.key = k /\ new.seen = None
  BY DEF Fetching
<1>4. \A a \in TakenDown(as) : \E b \in as : a = [b EXCEPT !.busy = @ /\ b.op # "edit"]
  BY DEF TakenDown
<1>5. ASSUME NEW b \in as
      PROVE  LET a == [b EXCEPT !.busy = @ /\ b.op # "edit"] IN
             a \in Act /\ a.seen = b.seen /\ a.write = b.write
  <2>1. b \in Act
    OBVIOUS
  <2>2. (b.busy /\ b.op # "edit") \in BOOLEAN
    OBVIOUS
  <2> QED
    BY <2>1, <2>2 DEF Act
<1>6. acts' \subseteq Act /\ \A a \in acts' : a.seen # None => a.write \in a.seen /\ a.seen \subseteq applied
  <2>1. ASSUME NEW a \in TakenDown(as) PROVE a \in Act /\ (a.seen # None => a.write \in a.seen /\ a.seen \subseteq applied)
    <3>1. PICK b \in as : a = [b EXCEPT !.busy = @ /\ b.op # "edit"]
      BY <1>4
    <3>2. a \in Act /\ a.seen = b.seen /\ a.write = b.write
      BY <1>5, <3>1
    <3> QED
      BY <3>2
  <2> QED
    BY <2>1
<1>7. ASSUME ~strayed' PROVE fetches' = {new} /\ acts' = {} /\ k = url'
  BY <1>1, <1>2, <1>4, <1>7 DEF UnderWay
<1> HIDE DEF new
<1> QED
  BY <1>1, <1>3, <1>6, <1>7 DEF PageAgrees, new

\* A step of the flag page keeps PageAgrees.
LEMMA PageStep ==
    ASSUME PageAgrees, part = "screens", part' = part, PageRequests \/ PageClicks
    PROVE  PageAgrees'
<1> USE DEF PageAgrees
<1>1. ASSUME NEW f \in fetches, ServerFetches(f) PROVE PageAgrees'
  <2>1. f \in Fetching /\ Answered(f) = [f EXCEPT !.seen = applied]
    BY DEF Answered
  <2>2. /\ Answered(f) \in Fetching /\ Answered(f).key = f.key /\ Answered(f).seen = applied
    BY <2>1 DEF Fetching
  <2> QED
    BY <1>1, <2>2 DEF ServerFetches, api
<1>2. ASSUME NEW f \in fetches, FlagArrives(f) PROVE PageAgrees'
  <2>1. /\ fetches' = fetches \ {f} /\ page' = [key |-> f.key, seen |-> f.seen] /\ f.seen # None
        /\ UNCHANGED <<url, pageReported, strayed, failed, acts, applied>>
    BY <1>2 DEF FlagArrives, Ended, api
  <2>2. f.key \in FlagKey /\ page'.key = f.key /\ page'.seen = f.seen
    BY <2>1 DEF Fetching
  <2>3. ASSUME ~strayed, url # None PROVE fetches' = {} /\ acts' = {} /\ f.key = url /\ pageReported \subseteq f.seen
    BY <2>1, <2>3
  <2> QED
    BY <2>1, <2>2, <2>3
<1>3. ASSUME NEW f \in fetches, FetchFails(f) PROVE PageAgrees'
  <2>1. /\ fetches' = fetches \ {f} /\ failed' = TRUE /\ acts' = TakenDown(acts)
        /\ UNCHANGED <<url, page, pageReported, strayed, applied>>
    BY <1>3 DEF FetchFails, Ended, api
  <2>2. ASSUME NEW a \in acts' PROVE \E b \in acts : a = [b EXCEPT !.busy = @ /\ b.op # "edit"]
    BY <2>1, <2>2 DEF TakenDown
  <2>3. ASSUME NEW b \in acts
        PROVE  LET a == [b EXCEPT !.busy = @ /\ b.op # "edit"] IN
               a \in Act /\ a.seen = b.seen /\ a.write = b.write
    <3>1. b \in Act
      OBVIOUS
    <3>2. (b.busy /\ b.op # "edit") \in BOOLEAN
      OBVIOUS
    <3> QED
      BY <3>1, <3>2 DEF Act
  <2>4. ASSUME NEW a \in acts' PROVE a \in Act /\ (a.seen # None => a.write \in a.seen /\ a.seen \subseteq applied)
    <3>1. PICK b \in acts : a = [b EXCEPT !.busy = @ /\ b.op # "edit"]
      BY <2>2
    <3>2. a \in Act /\ a.seen = b.seen /\ a.write = b.write
      BY <2>3, <3>1
    <3> QED
      BY <3>2
  <2>5. ASSUME ~strayed, url # None PROVE acts' = {} /\ fetches' = {}
    BY <2>1, <2>2, <2>5
  <2> QED
    BY <2>1, <2>4, <2>5
<1>4. ASSUME NEW a \in acts, Toggled(a) PROVE PageAgrees'
  <2>1. /\ a.key \in FlagKey /\ acts' = acts \ {a} /\ a.write \in applied
        /\ FetchFlag(a.key, url', FALSE, acts \ {a})
        /\ pageReported' = pageReported \cup {a.write} /\ UNCHANGED <<url, page, applied>>
    BY <1>4 DEF Toggled, Ends, Act, api
  <2>2. /\ acts \ {a} \in SUBSET Act /\ pageReported' \subseteq applied
        /\ \A b \in acts \ {a} : b.seen # None => b.write \in b.seen /\ b.seen \subseteq applied
    BY <2>1
  <2>3. url' \in FlagKey \cup {None} /\ (page' = None \/ page'.key \in FlagKey)
    BY <2>1
  <2> QED
    BY <2>1, <2>2, <2>3, FetchFlagStep
<1>5. ASSUME NEW a \in acts, Edited(a) PROVE PageAgrees'
  <2>1. /\ acts' = acts \ {a} /\ a.seen # None /\ a.write \in a.seen /\ a.write \in applied
        /\ page' = [key |-> a.key, seen |-> a.seen]
        /\ pageReported' = pageReported \cup {a.write} /\ UNCHANGED <<url, failed, fetches, strayed, applied>>
    BY <1>5 DEF Edited, Ends, api
  <2>2. a.key \in FlagKey /\ page'.key = a.key /\ page'.seen = a.seen
    BY <2>1 DEF Act
  <2>3. ASSUME ~strayed, url # None
        PROVE  acts' = {} /\ fetches' = {} /\ a.key = url /\ pageReported' \subseteq a.seen
    BY <2>1, <2>3
  <2> QED
    BY <2>1, <2>2, <2>3
<1>6. ASSUME NEW a \in acts, ActFails(a) PROVE PageAgrees'
  BY <1>6 DEF ActFails, Ends, api
<1>7. ASSUME NEW k \in FlagKey, GoTo(k) PROVE PageAgrees'
  <2>1. /\ FetchFlag(k, url', TRUE, acts) /\ acts' = TakenDown(acts)
        /\ url' = k /\ UNCHANGED <<page, pageReported, applied>>
    BY <1>7 DEF GoTo, api
  <2>2. /\ url' \in FlagKey \cup {None} /\ (page' = None \/ page'.key \in FlagKey)
        /\ acts \in SUBSET Act /\ pageReported' \subseteq applied
    BY <2>1
  <2> QED
    BY <2>1, <2>2, FetchFlagStep
<1>8. ASSUME RetryFlag PROVE PageAgrees'
  <2>1. /\ FetchFlag(url, url', TRUE, acts) /\ UNCHANGED <<url, page, acts, pageReported, applied>>
        /\ url \in FlagKey
    BY <1>8 DEF RetryFlag, api
  <2>2. /\ url' \in FlagKey \cup {None} /\ (page' = None \/ page'.key \in FlagKey)
        /\ acts \in SUBSET Act /\ pageReported' \subseteq applied
    BY <2>1
  <2> QED
    BY <2>1, <2>2, FetchFlagStep
<1>9. ASSUME NEW w \in Write, NEW op \in {"toggle", "edit", "delete"}, StartAct(w, op) PROVE PageAgrees'
  <2> DEFINE key == IF op = "toggle" THEN url ELSE page.key
             new == [write |-> w, op |-> op, key |-> key, seen |-> None, busy |-> TRUE]
  <2>1. /\ Shows /\ acts' = acts \cup {new} /\ strayed' = (strayed \/ UnderWay(fetches, acts))
        /\ UNCHANGED <<url, page, failed, fetches, pageReported, applied>>
    BY <1>9 DEF StartAct, Send
  <2>2. key \in FlagKey
    BY <2>1 DEF Shows
  <2>3. new \in Act /\ new.key = key /\ new.seen = None
    BY <2>2 DEF Act
  <2>4. ASSUME ~strayed' PROVE fetches = {} /\ acts' = {new} /\ key = url
    BY <2>1, <2>4 DEF UnderWay, Shows
  <2> HIDE DEF new, key
  <2> QED
    BY <2>1, <2>3, <2>4 DEF Shows
<1> QED
  BY <1>1, <1>2, <1>3, <1>4, <1>5, <1>6, <1>7, <1>8, <1>9 DEF PageRequests, PageClicks
\* The server carries a write of the page out; its answer is the flag as it is then.
LEMMA CarryActStep ==
    ASSUME PageAgrees, part = "screens", part' = part, NEW w \in Write, CarryAct(w)
    PROVE  PageAgrees'
<1> DEFINE Carried(a) == IF a.write = w THEN [a EXCEPT !.seen = applied'] ELSE a
<1>1. /\ applied' = applied \cup {w} /\ acts' = {Carried(a) : a \in acts}
      /\ UNCHANGED <<url, page, failed, fetches, pageReported, strayed>>
  BY DEF CarryAct, Carry
<1>2. applied \subseteq applied' /\ applied' \subseteq Write
  BY <1>1 DEF PageAgrees
<1>3. ASSUME NEW a \in acts
      PROVE  /\ Carried(a) \in Act /\ Carried(a).key = a.key /\ Carried(a).write = a.write
             /\ Carried(a).seen = IF a.write = w THEN applied' ELSE a.seen
  <2>1. a \in Act
    BY DEF PageAgrees
  <2> QED
    BY <1>2, <2>1 DEF Act
<1>4. ASSUME NEW a \in acts
      PROVE  /\ Carried(a).seen # None => Carried(a).write \in Carried(a).seen /\ Carried(a).seen \subseteq applied'
             /\ ~strayed /\ url # None =>
                  Carried(a).key = url /\ (Carried(a).seen # None => pageReported \subseteq Carried(a).seen)
  BY <1>1, <1>2, <1>3 DEF PageAgrees
<1> HIDE DEF Carried
<1>5. ASSUME NEW b \in acts' PROVE \E a \in acts : b = Carried(a)
  BY <1>1
<1>6. ASSUME NEW b \in acts'
      PROVE  /\ b \in Act
             /\ b.seen # None => b.write \in b.seen /\ b.seen \subseteq applied'
             /\ ~strayed /\ url # None => b.key = url /\ (b.seen # None => pageReported \subseteq b.seen)
  BY <1>3, <1>4, <1>5
<1>7. ASSUME ~strayed, url # None PROVE (\A a, b \in acts' : a = b) /\ (acts = {} => acts' = {})
  BY <1>5, <1>7 DEF PageAgrees
<1>8. pageReported \subseteq applied'
  BY <1>2 DEF PageAgrees
<1> QED
  BY <1>1, <1>2, <1>6, <1>7, <1>8 DEF PageAgrees

\* Once nothing is awaited, the page shows the flag of its address with every write
\* it has reported, if its requests did not overlap (FlagDetailScreen.tsx).
THEOREM PagesShowTheirFlags == Spec => []PageShowsItsFlag
<1>1. Init => PageAgrees
  BY DEF Init, ApiInit, PageBlank, PageAgrees
<1>2. PageAgrees /\ [Next]_vars => PageAgrees'
  <2> SUFFICES ASSUME PageAgrees, [Next]_vars PROVE PageAgrees'
    OBVIOUS
  <2>1. UNCHANGED part
    BY DEF Next, vars
  <2>2. ASSUME UNCHANGED pageVars PROVE PageAgrees'
    <3>1. part = "screens" => applied \subseteq applied' /\ applied' \subseteq Write
      BY AppliedStep DEF PageAgrees
    <3>2. pageReported \subseteq applied \/ part # "screens"
      BY DEF PageAgrees
    <3> QED
      BY <2>1, <2>2, <3>1, <3>2 DEF PageAgrees, pageVars
  <2>3. ASSUME part = "screens", NEW k \in FlagKey, OpenFlag(k) PROVE PageAgrees'
    <3>1. /\ FetchFlag(k, url', TRUE, {}) /\ url' = k /\ page' = None /\ acts' = {} /\ pageReported' = {}
          /\ UNCHANGED applied
      BY <2>3 DEF OpenFlag, api
    <3>2. {} \in SUBSET Act /\ url' \in FlagKey \cup {None} /\ pageReported' \subseteq applied
      BY <3>1
    <3> QED
      BY <2>1, <2>3, <3>1, <3>2, FetchFlagStep
  <2>4. ASSUME part = "screens", LeaveFlag PROVE PageAgrees'
    <3>1. applied \subseteq applied' /\ applied' \subseteq Write
      BY <2>4, AppliedStep DEF PageAgrees
    <3> QED
      BY <2>1, <2>4, <3>1 DEF PageAgrees, LeaveFlag
  <2>5. ASSUME part = "screens", ScreensNext PROVE PageAgrees'
    <3>1. ASSUME OpenList \/ CloseList \/ (ListNext /\ UNCHANGED pageVars) PROVE UNCHANGED pageVars
      <4>1. ASSUME OpenList PROVE UNCHANGED pageVars
        BY <4>1 DEF OpenList
      <4>2. ASSUME CloseList PROVE UNCHANGED pageVars
        BY <4>2 DEF CloseList
      <4> QED
        BY <3>1, <4>1, <4>2
    <3>2. ASSUME ListToFlag PROVE \E k \in FlagKey : OpenFlag(k)
      BY <3>2 DEF ListToFlag
    <3>3. ASSUME FlagToList \/ FlagIsDeleted PROVE LeaveFlag
      BY <3>3 DEF FlagToList, FlagIsDeleted, Deleted
    <3>4. ASSUME (PageRequests \/ PageClicks \/ \E w \in Write : CarryAct(w)) /\ UNCHANGED <<list, keys>>
          PROVE  PageAgrees'
      BY <2>1, <2>5, <3>4, PageStep, CarryActStep
    <3> QED
      BY <2>2, <2>3, <2>4, <2>5, <3>1, <3>2, <3>3, <3>4 DEF ScreensNext
  <2>6. (part = "screens" /\ ScreensNext) \/ UNCHANGED pageVars
    BY DEF Next, vars, screens
  <2> QED
    BY <2>2, <2>5, <2>6
<1>3. PageAgrees => PageShowsItsFlag
  BY DEF PageAgrees, PageShowsItsFlag, Shows, UnderWay
<1> QED
  BY <1>1, <1>2, <1>3, PTL DEF Spec
-----------------------------------------------------------------------------
\* A clean read overlaps no save.  A card that is settled shows the server's list,
\* a careful draft starts from what the card shows, and a careful save is the only
\* one under way and will replace what its draft started from.
EditorAgrees ==
    /\ base \in [Write -> [from: Rules \cup {"unread"}, careful: BOOLEAN]]
    /\ part # "editor" => \A w \in Write : ~base[w].careful
    /\ rules \in Rules /\ mine \in Rules \cup {"unread"} /\ loads \subseteq Load
    /\ editor \in [open: BOOLEAN, from: Rules \cup {"unread"}, careful: BOOLEAN]
    /\ part = "editor" =>
         /\ queued \subseteq Write /\ applied \subseteq Write
         /\ \A l \in loads : l.clean => queued = {} /\ l.seen \in {"nothing", rules}
         /\ state = "ready" /\ loads = {} /\ ~doubt =>
              queued \subseteq {saving} /\ (mine = rules \/ saving \in applied)
         /\ editor.open /\ editor.careful => state = "ready" /\ loads = {} /\ editor.from = mine
         /\ \A w \in Write : w \in queued /\ base[w].careful => queued = {w} /\ rules = base[w].from

\* A read that begins leaves the older ones unclean.
LEMMA ReloadStep ==
    ASSUME EditorAgrees, part = "editor", part' = part, Reload, UNCHANGED <<base, rules, queued, applied>>,
           mine' \in Rules \cup {"unread"},
           editor' \in [open: BOOLEAN, from: Rules \cup {"unread"}, careful: BOOLEAN], ~editor'.open
    PROVE  EditorAgrees'
<1>1. PICK id \in 1..MaxLoads :
        loads' = {[l EXCEPT !.clean = FALSE] : l \in loads} \cup
                 {[id |-> id, clean |-> loads = {} /\ queued = {}, seen |-> "nothing"]}
  BY DEF Reload
<1> DEFINE new == [id |-> id, clean |-> loads = {} /\ queued = {}, seen |-> "nothing"]
<1>2. new \in Load /\ (new.clean => queued = {}) /\ new.seen = "nothing"
  <2>1. (loads = {} /\ queued = {}) \in BOOLEAN
    OBVIOUS
  <2> QED
    BY <2>1 DEF Load
<1>3. ASSUME NEW l \in loads PROVE [l EXCEPT !.clean = FALSE] \in Load /\ ~[l EXCEPT !.clean = FALSE].clean
  <2>1. l \in Load
    BY DEF EditorAgrees
  <2> QED
    BY <2>1 DEF Load
<1>4. \A l \in loads' : l = new \/ \E k \in loads : l = [k EXCEPT !.clean = FALSE]
  BY <1>1
<1> HIDE DEF new
<1>5. ASSUME NEW l \in loads' PROVE l \in Load /\ (l.clean => queued = {} /\ l.seen = "nothing")
  <2>1. CASE l = new
    BY <1>2, <2>1
  <2>2. ASSUME NEW k \in loads, l = [k EXCEPT !.clean = FALSE] PROVE l \in Load /\ ~l.clean
    BY <1>3, <2>2
  <2> QED
    BY <1>4, <2>1, <2>2
<1>6. loads' # {}
  BY <1>1
<1> QED
  BY <1>5, <1>6 DEF EditorAgrees

\* A step of the rule editor keeps EditorAgrees.
LEMMA EditorStep ==
    ASSUME EditorAgrees, part = "editor", part' = part, EditorNext
    PROVE  EditorAgrees'
<1>1. Closed \in [open: BOOLEAN, from: Rules \cup {"unread"}, careful: BOOLEAN] /\ ~Closed.open
  BY DEF Closed, Rules
<1>2. ASSUME MountCard PROVE EditorAgrees'
  BY <1>1, <1>2, ReloadStep DEF MountCard, api
<1>3. ASSUME LeaveCard PROVE EditorAgrees'
  BY <1>1, <1>3 DEF LeaveCard, EditorAgrees, api
<1>4. ASSUME RetryLoad PROVE EditorAgrees'
  BY <1>4, ReloadStep DEF RetryLoad, EditorAgrees, api
<1>5. ASSUME NEW l \in loads, ServerLoads(l) PROVE EditorAgrees'
  <2>1. l \in Load /\ rules \in Rules
    BY DEF EditorAgrees
  <2>2. /\ [l EXCEPT !.seen = rules] \in Load /\ [l EXCEPT !.seen = rules].clean = l.clean
        /\ [l EXCEPT !.seen = rules].seen = rules
    BY <2>1 DEF Load
  <2>3. loads' = (loads \ {l}) \cup {[l EXCEPT !.seen = rules]} 
        /\ UNCHANGED <<rules, base, state, mine, editor, saving, doubt, queued, applied>>
    BY <1>5 DEF ServerLoads, api
  <2> QED
    BY <2>2, <2>3 DEF EditorAgrees
<1>6. ASSUME NEW l \in loads, LoadArrives(l) PROVE EditorAgrees'
  <2>1. /\ loads' = loads \ {l} /\ mine' = l.seen /\ state' = "ready" /\ l.seen # "nothing"
        /\ doubt' = (~l.clean \/ loads' # {})
        /\ UNCHANGED <<rules, base, saving, queued, applied>>
    BY <1>6 DEF LoadArrives, api
  <2>2. mine' \in Rules
    <3>1. l \in Load
      BY DEF EditorAgrees
    <3> QED
      BY <2>1, <3>1 DEF Load
  <2>3. ~doubt' => loads' = {} /\ queued = {} /\ mine' = rules
    BY <2>1 DEF EditorAgrees
  <2>4. /\ editor' \in [open: BOOLEAN, from: Rules \cup {"unread"}, careful: BOOLEAN]
        /\ editor'.open /\ editor'.careful => ~doubt' /\ editor'.from = mine'
    <3>1. editor' = Redraft(l.seen, saving = None /\ ~doubt')
      BY <1>6 DEF LoadArrives
    <3>2. CASE editor.open /\ kind = "rules"
      <4>1. editor' = [open |-> TRUE, from |-> mine', careful |-> saving = None /\ ~doubt']
        BY <2>1, <3>1, <3>2 DEF Redraft
      <4>2. (saving = None /\ ~doubt') \in BOOLEAN
        OBVIOUS
      <4> QED
        BY <2>2, <4>1, <4>2
    <3>3. CASE ~(editor.open /\ kind = "rules")
      <4>1. editor' = editor
        BY <3>1, <3>3 DEF Redraft
      <4> QED
        BY <4>1 DEF EditorAgrees
    <3> QED
      BY <3>2, <3>3
  <2> QED
    BY <2>1, <2>2, <2>3, <2>4 DEF EditorAgrees
<1>7. ASSUME NEW l \in loads, LoadFails(l) PROVE EditorAgrees'
  BY <1>7 DEF LoadFails, EditorAgrees, api
<1>8. Settled => queued = {} /\ (mine = rules) /\ state = "ready" /\ loads = {} /\ saving = None
  BY ApiAssumption DEF Settled, EditorAgrees
<1>9. ASSUME OpenEditor PROVE EditorAgrees'
  <2>1. /\ editor' = [open |-> TRUE, from |-> mine, careful |-> Settled]
        /\ UNCHANGED <<rules, base, state, mine, loads, saving, doubt, queued, applied>>
    BY <1>9 DEF OpenEditor, api
  <2>2. Settled \in BOOLEAN
    BY DEF Settled
  <2>3. /\ editor' \in [open: BOOLEAN, from: Rules \cup {"unread"}, careful: BOOLEAN]
        /\ editor'.careful = Settled /\ editor'.from = mine
    BY <2>1, <2>2 DEF EditorAgrees
  <2> QED
    BY <1>8, <2>1, <2>3 DEF EditorAgrees
<1>10. ASSUME CloseEditor PROVE EditorAgrees'
  BY <1>1, <1>10 DEF CloseEditor, EditorAgrees, api
<1>11. ASSUME SaveSucceeds PROVE EditorAgrees'
  BY <1>1, <1>11, ReloadStep DEF SaveSucceeds, EditorAgrees, api
<1>12. ASSUME SaveFails PROVE EditorAgrees'
  <2>1. /\ doubt' = (doubt \/ saving \in queued \cup applied) /\ saving' = None
        /\ UNCHANGED <<rules, base, state, mine, loads, editor, queued, applied>>
    BY <1>12 DEF SaveFails, api
  <2>2. ~doubt' => ~doubt /\ saving \notin queued /\ saving \notin applied
    BY <2>1
  <2>3. state = "ready" /\ loads = {} /\ ~doubt' => queued = {} /\ mine = rules
    BY <2>2 DEF EditorAgrees
  <2> QED
    BY <2>1, <2>3 DEF EditorAgrees
<1>13. ASSUME NEW w \in Write, Save(w) PROVE EditorAgrees'
  <2>1. /\ saving = None /\ saving' = w /\ queued' = queued \cup {w} /\ editor.open
        /\ loads' = {[l EXCEPT !.clean = FALSE] : l \in loads}
        /\ UNCHANGED <<rules, state, mine, editor, doubt, applied>>
    BY <1>13 DEF Save, Send
  <2>2. base' = [v \in Write |->
                   IF v = w THEN [from |-> editor.from, careful |-> editor.careful /\ Settled]
                   ELSE [base[v] EXCEPT !.careful = @ /\ v \notin queued]]
    BY <1>13 DEF Save
  <2>3. /\ base'[w] \in [from: Rules \cup {"unread"}, careful: BOOLEAN]
        /\ base'[w].careful => editor.careful /\ Settled
        /\ base'[w].from = editor.from
    <3>1. base'[w] = [from |-> editor.from, careful |-> editor.careful /\ Settled]
      BY <2>2
    <3>2. PICK b \in BOOLEAN : b = (editor.careful /\ Settled)
      OBVIOUS
    <3>3. editor.from \in Rules \cup {"unread"}
      BY DEF EditorAgrees
    <3>4. base'[w] = [from |-> editor.from, careful |-> b]
      BY <3>1, <3>2
    <3>5. base'[w].careful = b /\ base'[w].from = editor.from
      BY <3>4
    <3> QED
      BY <3>2, <3>3, <3>4, <3>5
  <2>4. ASSUME NEW v \in Write, v # w
        PROVE  /\ base'[v] \in [from: Rules \cup {"unread"}, careful: BOOLEAN]
               /\ base'[v].careful => v \notin queued
    <3>1. base'[v] = [base[v] EXCEPT !.careful = @ /\ v \notin queued]
      BY <2>2, <2>4
    <3>2. base[v] \in [from: Rules \cup {"unread"}, careful: BOOLEAN]
      BY DEF EditorAgrees
    <3>3. (base[v].careful /\ v \notin queued) \in BOOLEAN
      OBVIOUS
    <3> QED
      BY <3>1, <3>2, <3>3
  <2>5. base' \in [Write -> [from: Rules \cup {"unread"}, careful: BOOLEAN]]
    BY <2>2, <2>3, <2>4
  <2>6. ASSUME NEW v \in Write, v \in queued', base'[v].careful PROVE queued' = {v} /\ rules = base'[v].from
    <3>1. v = w
      BY <2>1, <2>4, <2>6
    <3>2. editor.careful /\ Settled /\ base'[w].from = editor.from
      BY <2>3, <2>6, <3>1
    <3>3. editor.from = mine
      BY <2>1, <3>2 DEF EditorAgrees
    <3> QED
      BY <1>8, <2>1, <3>1, <3>2, <3>3
  <2>7. ASSUME NEW l \in loads' PROVE l \in Load /\ ~l.clean
    <3>1. PICK k \in loads : l = [k EXCEPT !.clean = FALSE]
      BY <2>1
    <3>2. k \in Load
      BY DEF EditorAgrees
    <3> QED
      BY <3>1, <3>2 DEF Load
  <2>8. loads' = {} <=> loads = {}
    BY <2>1
  <2>9. state = "ready" /\ loads = {} /\ ~doubt => queued' = {w} /\ mine = rules
    BY <2>1, ApiAssumption DEF EditorAgrees
  <2> QED
    BY <2>1, <2>5, <2>6, <2>7, <2>8, <2>9 DEF EditorAgrees
<1>14. ASSUME NEW w \in Write, Replace(w) PROVE EditorAgrees'
  <2>1. /\ w \in queued /\ queued' = queued \ {w} /\ applied' = applied \cup {w} /\ rules' = w
        /\ UNCHANGED <<base, state, mine, loads, editor, saving, doubt>>
    BY <1>14 DEF Replace, Carry
  <2>2. \A l \in loads : ~l.clean
    BY <2>1 DEF EditorAgrees
  <2>3. ASSUME NEW v \in Write, v \in queued', base[v].careful PROVE FALSE
    BY <2>1, <2>3 DEF EditorAgrees
  <2>4. w \in Rules
    BY DEF Rules
  <2> QED
    BY <2>1, <2>2, <2>3, <2>4 DEF EditorAgrees
<1> QED
  BY <1>2, <1>3, <1>4, <1>5, <1>6, <1>7, <1>9, <1>10, <1>11, <1>12, <1>13, <1>14 DEF EditorNext

\* What a save replaces at the server is what its draft started from, unless reads
\* and saves of the list had overlapped or failed (StrategyEditorModal.tsx).
THEOREM SavesReplaceTheirBase == Spec => SavesBuildOnTheList
<1>1. Init => EditorAgrees
  BY DEF Init, ApiInit, EditorInit, EditorAgrees, Unmade, Closed, Rules
<1>2. EditorAgrees /\ [Next]_vars => EditorAgrees'
  <2> SUFFICES ASSUME EditorAgrees, [Next]_vars PROVE EditorAgrees'
    OBVIOUS
  <2>1. UNCHANGED part
    BY DEF Next, vars
  <2>2. ASSUME part # "editor", UNCHANGED editing PROVE EditorAgrees'
    BY <2>1, <2>2 DEF EditorAgrees, editing
  <2>3. ASSUME part = "editor", NEW w \in Write, Refuse(w), UNCHANGED editing PROVE EditorAgrees'
    <3>1. queued' = queued \ {w} /\ w \in queued /\ UNCHANGED applied
      BY <2>3 DEF Refuse
    <3> QED
      BY <2>1, <2>3, <3>1 DEF EditorAgrees, editing
  <2>4. ASSUME UNCHANGED <<editing, api>> PROVE EditorAgrees'
    BY <2>1, <2>4 DEF EditorAgrees, editing, api
  <2>5. \/ part = "editor" /\ EditorNext
        \/ part # "editor" /\ UNCHANGED editing
        \/ part = "editor" /\ UNCHANGED editing /\ \E w \in Write : Refuse(w)
        \/ UNCHANGED <<editing, api>>
    BY DEF Next, ServerWrites, vars
  <2> QED
    BY <2>1, <2>2, <2>3, <2>4, <2>5, EditorStep
<1>3. EditorAgrees /\ [Next]_vars =>
        [\A w \in Write : w \in queued \cap applied' /\ base[w].careful => rules = base[w].from]_<<api, editing>>
  BY DEF EditorAgrees
<1> QED
  BY <1>1, <1>2, <1>3, PTL DEF Spec, SavesBuildOnTheList
-----------------------------------------------------------------------------
\* Whatever the user does, a write is sent, and carried out or refused, once.
LEMMA ApiStep ==
    ASSUME [Next]_vars
    PROVE  UNCHANGED api \/ (\E ws : Send(ws)) \/ \E w \in Write : Carry(w) \/ Refuse(w)
<1> DEFINE Kept == UNCHANGED api \/ (\E ws : Send(ws)) \/ \E w \in Write : Carry(w) \/ Refuse(w)
<1>1. ASSUME ListNext PROVE Kept
  <2>1. ASSUME ListRequests \/ ListClicks PROVE UNCHANGED api
    BY <2>1 DEF ListRequests, ServerReads, Arrive, RowsArrive, ReadFails, ListClicks, ChangeQuery, TurnPage, Refresh,
       SelectRows, ClearSelection
  <2>2. ASSUME ListWrites PROVE UNCHANGED api \/ \E ws : Send(ws)
    BY <2>2 DEF ListWrites, StartBulk, BulkSucceeds, BulkFails, ResendEnds, StartRow, RowSucceeds,
     RowSucceedsQuietly, RowFails
  <2>3. ASSUME KeyDialogs PROVE UNCHANGED api \/ \E ws : Send(ws)
    BY <2>3 DEF KeyDialogs, EnvironmentsArrive, OpenIssue, CloseIssue, DismissReveal, SubmitIssue, IssueSucceeds, IssueFails
  <2> QED
    BY <1>1, <2>1, <2>2, <2>3 DEF ListNext
<1>2. ASSUME PageRequests \/ PageClicks PROVE Kept
  BY <1>2 DEF PageRequests, PageClicks, ServerFetches, FlagArrives, FetchFails, Ended, Toggled, Edited, ActFails,
     GoTo, RetryFlag, StartAct
<1>3. ASSUME ScreensNext PROVE Kept
  BY <1>1, <1>2, <1>3 DEF ScreensNext, OpenList, CloseList, ListToFlag, FlagToList, FlagIsDeleted, OpenFlag, Mount, CarryAct
<1>4. ASSUME EditorNext PROVE Kept
  BY <1>4 DEF EditorNext, MountCard, LeaveCard, RetryLoad, ServerLoads, LoadArrives, LoadFails, OpenEditor,
     CloseEditor, SaveSucceeds, SaveFails, Save, Replace
<1>5. ASSUME ImportNext PROVE Kept
  BY <1>5 DEF ImportNext, OpenImport, CloseImport, Preview, RunEnds, RunFails, ChooseSource, ChooseConflict,
     PickFile, FileParsed, FileUnreadable, SwitchTarget, ImportForReal
<1>6. ASSUME WorkspaceNext PROVE Kept
  BY <1>6 DEF WorkspaceNext, ServerLists, ProjectsArrive, ProjectsFail, SwitchProject, ServerReadsEnvs, EnvsArrive,
     EnvsFail, PickEnv, OpenSection, CloseSection, SaveSection, DeleteProject, ChangeEnv, Make, CarryWrite, Saved,
     ProjectDeleted, EnvChanged, WriteFails
<1> QED
  BY <1>3, <1>4, <1>5, <1>6 DEF Next, ServerWrites, vars

\* The writes on their way and those applied are well-typed in every state.
LEMMA WritesAreWrites == Spec => []ApiTypeOK
<1>1. Init => ApiTypeOK
  BY DEF Init, ApiInit, ApiTypeOK
<1>2. ApiTypeOK /\ [Next]_vars => ApiTypeOK'
  BY ApiStep DEF ApiTypeOK, Send, Carry, Refuse, api
<1> QED
  BY <1>1, <1>2, PTL DEF Spec

-----------------------------------------------------------------------------
\* p's settings are the copy, or a save of them is still to be answered.
UpToDate(p, copy) ==
    p \in Exists => settings[p] = copy \/ \E w \in Saves(Pending(p, under)) : w \in applied

Intent == [op: {"none", "save", "delete", "add", "drop"}, project: Project \cup {None}, slug: Slug \cup {None},
           from: Copy, careful: BOOLEAN, alone: BOOLEAN]
Form == [up: BOOLEAN, from: Copy, careful: BOOLEAN, saving: Copy]

WritesAgree ==
    /\ queued \subseteq Write \ unsent /\ applied \subseteq Write \ (unsent \cup queued)
    /\ under \subseteq Write \ unsent /\ settled \in BOOLEAN
    /\ intent \in [Write -> Intent]
    /\ settled => queued \subseteq under

\* A copy the UI took from a list is the server's, unless a save of that project has
\* been made since the list was asked for.
ListsAgree ==
    /\ Exists \subseteq Project /\ \A p \in Exists : settings[p] \in Copy
    /\ DOMAIN known \subseteq Project /\ \A p \in DOMAIN known : known[p] \in Copy
    /\ listing.list # None =>
         DOMAIN listing.list \subseteq Project /\ \A p \in DOMAIN listing.list : listing.list[p] \in Copy
    /\ moved \in [known: SUBSET Project, listing: SUBSET Project]
    /\ \A w \in Saves(queued \cup under) : intent[w].project \in moved.known \cap moved.listing
    /\ \A p \in DOMAIN known \cap Exists : p \notin moved.known => known[p] = settings[p]
    /\ listing.list # None =>
         \A p \in DOMAIN listing.list \cap Exists : p \notin moved.listing => listing.list[p] = settings[p]

\* A save under way alone decides its project's settings, and a careful one will
\* replace what its form was filled from.
SavesAgree ==
    /\ \A w, v \in Saves(queued \cup under) : w # v /\ intent[w].project = intent[v].project => ~intent[w].alone
    /\ \A w \in Saves(under) \cap applied :
         intent[w].alone /\ intent[w].project \in Exists => settings[intent[w].project] = w
    /\ \A w \in queued : intent[w].careful =>
         /\ intent[w].op = "save" /\ Saves(Pending(intent[w].project, under)) = {w}
         /\ intent[w].project \in Exists => settings[intent[w].project] = intent[w].from

FormAgrees ==
    /\ active \in [id: Project \cup {None}, copy: Copy, behind: BOOLEAN]
    /\ form \in Form
    /\ form.up => active.id # None
    /\ settled /\ ~active.behind => UpToDate(active.id, active.copy)
    /\ form.up /\ form.careful /\ settled =>
         UpToDate(active.id, form.from) /\ Saves(Pending(active.id, under)) \subseteq {form.saving}
    /\ form.saving # None =>
         /\ form.up /\ form.saving \in Saves(under)
         /\ intent[form.saving].project = active.id

SettingsAgree ==
    /\ part # "workspace" => active = NoProject /\ Exists \subseteq Project /\ \A w \in Write : ~intent[w].careful
    /\ part = "workspace" => WritesAgree /\ ListsAgree /\ SavesAgree /\ FormAgrees

-----------------------------------------------------------------------------
\* The section mounted for a project carefully has an up-to-date copy, and no save
\* of that project is awaited.
LEMMA MountedAgrees ==
    ASSUME WritesAgree, NEW project \in [id: Project \cup {None}, copy: Copy, behind: BOOLEAN], NEW waited
    PROVE  /\ Mounted(project, waited) \in Form
           /\ Mounted(project, waited).up /\ Mounted(project, waited).from = project.copy
           /\ Mounted(project, waited).saving = None
           /\ Mounted(project, waited).careful =>
                settled /\ ~project.behind /\ Saves(Pending(project.id, waited)) = {}
<1>1. PICK b \in BOOLEAN : b = (settled /\ ~project.behind /\ Saves(Pending(project.id, waited)) = {})
  OBVIOUS
<1>2. Mounted(project, waited) = [up |-> TRUE, from |-> project.copy, saving |-> None, careful |-> b]
  BY <1>1 DEF Mounted
<1>3. project.copy \in Copy /\ None \in Copy
  BY DEF Copy
<1>4. Mounted(project, waited) \in Form
  BY <1>2, <1>3 DEF Form
<1>5. /\ Mounted(project, waited).up /\ Mounted(project, waited).from = project.copy
      /\ Mounted(project, waited).saving = None /\ Mounted(project, waited).careful = b
  BY <1>2
<1> QED
  BY <1>1, <1>4, <1>5

\* A form that is not up is well-typed and saves nothing.
LEMMA NoFormAgrees == NoForm \in Form /\ ~NoForm.up /\ NoForm.saving = None
BY DEF NoForm, Form, Copy

\* Another project becomes active: its copy is up to date unless it is behind, and
\* what is mounted stays right if the project is the same.
LEMMA ActivateStep ==
    ASSUME WritesAgree, FormAgrees, NEW project \in [id: Project \cup {None}, copy: Copy, behind: BOOLEAN],
           NEW waited, waited = under', Activate(project, waited),
           UNCHANGED <<settings, intent, settled, queued, applied>>,
           settled /\ ~project.behind => UpToDate(project.id, project.copy)',
           form.up /\ form.careful /\ settled /\ project.id = active.id =>
             UpToDate(active.id, form.from)' /\ Saves(Pending(active.id, under))' \subseteq {form.saving},
           form.saving # None => form.saving \in under'
    PROVE  FormAgrees'
<1>1. active' = project
  BY DEF Activate
<1>2. CASE project.id = active.id
  <2>1. form' = form
    BY <1>2 DEF Activate
  <2> QED
    BY <1>1, <1>2, <2>1 DEF FormAgrees, UpToDate, Saves, Pending
<1>3. CASE project.id # active.id /\ form' = NoForm
  BY <1>1, <1>3, NoFormAgrees DEF FormAgrees, UpToDate, Saves, Pending
<1>4. CASE project.id # active.id /\ project.id # None /\ form' = Mounted(project, waited)
  <2>1. /\ form' \in Form /\ form'.up /\ form'.from = project.copy /\ form'.saving = None
        /\ form'.careful => settled /\ ~project.behind /\ Saves(Pending(project.id, waited)) = {}
    BY <1>4, MountedAgrees
  <2> QED
    BY <1>1, <1>4, <2>1 DEF FormAgrees, UpToDate, Saves, Pending
<1> QED
  BY <1>2, <1>3, <1>4 DEF Activate

\* A step that leaves the writes and the settings alone.
LEMMA KeepsWrites ==
    ASSUME WritesAgree, UNCHANGED <<unsent, queued, applied, under, settled, intent>>
    PROVE  WritesAgree'
BY DEF WritesAgree

\* SavesAgree depends on nothing but the settings and the writes.
LEMMA KeepsSaves ==
    ASSUME SavesAgree, UNCHANGED <<settings, queued, applied, under, intent>>
    PROVE  SavesAgree'
BY DEF Exists, SavesAgree, Saves, Pending

\* ListsAgree depends on nothing but the settings, the lists and the writes.
LEMMA KeepsLists ==
    ASSUME ListsAgree, UNCHANGED <<settings, listing, known, moved, queued, under, intent>>
    PROVE  ListsAgree'
BY DEF Exists, ListsAgree, Saves

\* FormAgrees depends on nothing but the settings, the writes and the form.
LEMMA KeepsForm ==
    ASSUME FormAgrees, UNCHANGED <<settings, queued, applied, under, settled, intent, active, form>>
    PROVE  FormAgrees'
BY DEF Exists, FormAgrees, UpToDate, Saves, Pending

\* The project list is read and arrives, and the user moves through it.
LEMMA ListsStep ==
    ASSUME WritesAgree, ListsAgree, SavesAgree, FormAgrees,
           \/ ServerLists \/ ProjectsArrive \/ ProjectsFail \/ OpenSection \/ CloseSection
           \/ \E p \in Project : SwitchProject(p)
    PROVE  WritesAgree' /\ ListsAgree' /\ SavesAgree' /\ FormAgrees'
<1>1. UNCHANGED <<settings, intent, under, settled, unsent, queued, applied>>
  BY DEF ServerLists, ProjectsArrive, ProjectsFail, OpenSection, CloseSection, SwitchProject, api
<1>2. WritesAgree' /\ SavesAgree'
  BY <1>1, KeepsWrites, KeepsSaves
<1>3. ASSUME ServerLists PROVE ListsAgree' /\ FormAgrees'
  <2>1. /\ listing' = [up |-> TRUE, list |-> settings]
        /\ UNCHANGED <<known, moved, active, form>>
    BY <1>3 DEF ServerLists, Asked
  <2>2. listing'.list = settings
    BY <2>1
  <2>3. ListsAgree'
    BY <1>1, <2>1, <2>2 DEF Exists, ListsAgree, Saves
  <2> QED
    BY <1>1, <2>1, <2>3, KeepsForm
<1>4. ASSUME ProjectsFail PROVE ListsAgree' /\ FormAgrees'
  <2>1. listing'.list = None /\ UNCHANGED <<known, moved, active, form>>
    BY <1>4 DEF ProjectsFail, Listed
  <2>2. ListsAgree'
    BY <1>1, <2>1 DEF Exists, ListsAgree, Saves
  <2> QED
    BY <1>1, <2>1, <2>2, KeepsForm
<1>5. ASSUME OpenSection PROVE ListsAgree' /\ FormAgrees'
  <2>1. form' = Mounted(active, under) /\ active.id # None /\ UNCHANGED <<listing, known, moved, active>>
    BY <1>5 DEF OpenSection
  <2>2. ListsAgree'
    BY <1>1, <2>1, KeepsLists
  <2>3. active \in [id: Project \cup {None}, copy: Copy, behind: BOOLEAN]
    BY DEF Exists, FormAgrees
  <2>4. /\ form' \in Form /\ form'.up /\ form'.from = active.copy /\ form'.saving = None
        /\ form'.careful => settled /\ ~active.behind /\ Saves(Pending(active.id, under)) = {}
    BY <2>1, <2>3, MountedAgrees
  <2>5. FormAgrees'
    BY <1>1, <2>1, <2>3, <2>4 DEF Exists, FormAgrees, UpToDate, Saves, Pending
  <2> QED
    BY <2>2, <2>5
<1>6. ASSUME CloseSection PROVE ListsAgree' /\ FormAgrees'
  <2>1. form' = NoForm /\ UNCHANGED <<listing, known, moved, active>>
    BY <1>6 DEF CloseSection
  <2>2. ListsAgree'
    BY <1>1, <2>1, KeepsLists
  <2>3. FormAgrees'
    BY <1>1, <2>1, NoFormAgrees DEF Exists, FormAgrees, UpToDate, Saves, Pending
  <2> QED
    BY <2>2, <2>3
<1>7. ASSUME NEW p \in Project, SwitchProject(p) PROVE ListsAgree' /\ FormAgrees'
  <2>1. PICK project : project = [id |-> p, copy |-> known[p], behind |-> p \in moved.known]
    OBVIOUS
  <2>2. p \in DOMAIN known /\ Activate(project, under) /\ UNCHANGED <<listing, known, moved>>
    BY <1>7, <2>1 DEF SwitchProject
  <2>3. ListsAgree'
    BY <1>1, <2>2, KeepsLists
  <2>4. project \in [id: Project \cup {None}, copy: Copy, behind: BOOLEAN]
    <3>1. known[p] \in Copy /\ (p \in moved.known) \in BOOLEAN
      BY <2>2 DEF Exists, ListsAgree
    <3> QED
      BY <2>1, <3>1
  <2>5. settled /\ ~project.behind => UpToDate(project.id, project.copy)'
    BY <1>1, <2>1, <2>2 DEF Exists, ListsAgree, UpToDate
  <2>6. form.saving # None => form.saving \in under'
    BY <1>1 DEF FormAgrees, Saves
  <2>7. form.up /\ form.careful /\ settled /\ project.id = active.id =>
          UpToDate(active.id, form.from)' /\ Saves(Pending(active.id, under))' \subseteq {form.saving}
    <3>1. project.id = active.id => active'.id = active.id /\ form' = form
      BY <2>2 DEF Activate
    <3> QED
      BY <1>1, <3>1 DEF Exists, FormAgrees, UpToDate, Saves, Pending
  <2> QED
    BY <1>1, <2>2, <2>3, <2>4, <2>5, <2>6, <2>7, ActivateStep
<1>8. ASSUME ProjectsArrive PROVE ListsAgree' /\ FormAgrees'
  <2>1. /\ listing.list # None /\ known' = listing.list /\ listing'.list = None
        /\ moved' = [moved EXCEPT !.known = moved.listing]
    BY <1>8 DEF ProjectsArrive, Listed
  <2>2. moved' = [known |-> moved.listing, listing |-> moved.listing]
    BY <2>1 DEF ListsAgree
  <2>3. ListsAgree'
    <3>1. /\ moved'.known = moved.listing /\ moved'.listing = moved.listing
          /\ moved' \in [known: SUBSET Project, listing: SUBSET Project]
      BY <2>2 DEF ListsAgree
    <3> QED
      BY <1>1, <2>1, <3>1 DEF Exists, ListsAgree, Saves
  <2>4. \/ Activate(NoProject, under)
        \/ \E p \in DOMAIN known' :
             Activate([id |-> p, copy |-> known'[p], behind |-> p \in moved.listing], under)
    BY <1>8 DEF ProjectsArrive
  <2>5. form.saving # None => form.saving \in under'
    BY <1>1 DEF FormAgrees, Saves
  <2>6. ASSUME NEW project \in [id: Project \cup {None}, copy: Copy, behind: BOOLEAN],
               Activate(project, under), ~project.behind => UpToDate(project.id, project.copy)'
        PROVE  FormAgrees'
    <3>1. project.id = active.id => active'.id = active.id /\ form' = form
      BY <2>6 DEF Activate
    <3>2. form.up /\ form.careful /\ settled /\ project.id = active.id =>
            UpToDate(active.id, form.from)' /\ Saves(Pending(active.id, under))' \subseteq {form.saving}
      BY <1>1, <3>1 DEF Exists, FormAgrees, UpToDate, Saves, Pending
    <3> QED
      BY <1>1, <2>5, <2>6, <3>2, ActivateStep
  <2>7. ASSUME Activate(NoProject, under) PROVE FormAgrees'
    <3>1. NoProject \in [id: Project \cup {None}, copy: Copy, behind: BOOLEAN] /\ NoProject.id = None
      BY DEF NoProject, Copy
    <3>2. None \notin Exists'
      BY <1>1, WorkspaceAssumption DEF Exists, ListsAgree
    <3> QED
      BY <2>6, <2>7, <3>1, <3>2 DEF UpToDate
  <2>8. ASSUME NEW p \in DOMAIN known',
               Activate([id |-> p, copy |-> known'[p], behind |-> p \in moved.listing], under)
        PROVE  FormAgrees'
    <3>1. PICK project : project = [id |-> p, copy |-> known'[p], behind |-> p \in moved.listing]
      OBVIOUS
    <3>2. p \in Project /\ known'[p] \in Copy /\ (p \in moved.listing) \in BOOLEAN
      BY <2>1 DEF ListsAgree
    <3>3. project \in [id: Project \cup {None}, copy: Copy, behind: BOOLEAN]
      BY <3>1, <3>2
    <3>4. p \notin moved.listing /\ p \in Exists => known'[p] = settings[p]
      BY <2>1 DEF Exists, ListsAgree
    <3>5. ~project.behind => UpToDate(project.id, project.copy)'
      BY <1>1, <3>1, <3>4 DEF Exists, UpToDate
    <3>6. Activate(project, under)
      BY <2>8, <3>1
    <3> QED
      BY <2>6, <3>3, <3>5, <3>6
  <2> QED
    BY <2>3, <2>4, <2>7, <2>8
<1> QED
  BY <1>2, <1>3, <1>4, <1>5, <1>6, <1>7, <1>8

\* A section is saved.
LEMMA SaveSectionStep ==
    ASSUME WritesAgree, ListsAgree, SavesAgree, FormAgrees, NEW w \in Write, SaveSection(w)
    PROVE  WritesAgree' /\ ListsAgree' /\ SavesAgree' /\ FormAgrees'
<1> DEFINE others == Saves(Pending(active.id, under))
<1>1. /\ form.up /\ form.saving = None /\ w \in unsent
      /\ unsent' = unsent \ {w} /\ queued' = queued \cup {w} /\ under' = under \cup {w}
      /\ UNCHANGED <<applied, settings, listing, known, active, settled>>
  BY DEF SaveSection, Send
<1>2. w \notin queued /\ w \notin under /\ w \notin applied /\ w # None /\ w \notin others
  BY <1>1, ApiAssumption DEF WritesAgree, Saves, Pending
<1>3. active.id \in Project /\ active.id # None /\ form \in Form
  BY <1>1 DEF FormAgrees
<1>4. intent' = [v \in Write |->
                   IF v = w THEN [Unset EXCEPT !.op = "save", !.project = active.id, !.from = form.from,
                                  !.careful = form.careful /\ settled /\ others = {}, !.alone = others = {}]
                   ELSE IF v \in others THEN [intent[v] EXCEPT !.careful = FALSE, !.alone = FALSE]
                   ELSE intent[v]]
  BY DEF SaveSection
<1>5. PICK c \in BOOLEAN, a \in BOOLEAN : c = (form.careful /\ settled /\ others = {}) /\ a = (others = {})
  OBVIOUS
<1>6. /\ intent'[w] \in Intent /\ intent'[w].op = "save" /\ intent'[w].project = active.id
      /\ intent'[w].from = form.from /\ intent'[w].careful = c /\ intent'[w].alone = a
  <2>1. intent'[w] = [Unset EXCEPT !.op = "save", !.project = active.id, !.from = form.from,
                      !.careful = form.careful /\ settled /\ others = {}, !.alone = others = {}]
    BY <1>4
  <2>2. intent'[w] = [op |-> "save", project |-> active.id, slug |-> None, from |-> form.from,
                      careful |-> c, alone |-> a]
    BY <1>5, <2>1 DEF Unset
  <2> QED
    BY <1>3, <2>2 DEF Intent, Form
<1>7. ASSUME NEW v \in others
      PROVE  /\ intent'[v] \in Intent /\ intent'[v].op = intent[v].op
             /\ intent'[v].project = intent[v].project /\ intent'[v].from = intent[v].from
             /\ ~intent'[v].careful /\ ~intent'[v].alone
  <2>1. v \in Write /\ v # w /\ intent[v] \in Intent
    BY <1>2 DEF WritesAgree, Saves, Pending
  <2>2. intent'[v] = [intent[v] EXCEPT !.careful = FALSE, !.alone = FALSE]
    BY <1>4, <2>1
  <2> QED
    BY <2>1, <2>2 DEF Intent
<1>8. \A v \in Write : v # w /\ v \notin others => intent'[v] = intent[v]
  BY <1>4
<1>9. \A v \in Write : v # w => intent'[v].op = intent[v].op /\ intent'[v].project = intent[v].project
  BY <1>7, <1>8
<1>10. form' = [form EXCEPT !.saving = w] /\ moved' = [l \in DOMAIN moved |-> moved[l] \cup {active.id}]
  BY DEF SaveSection
<1>11. /\ form' \in Form /\ form'.up /\ form'.from = form.from /\ form'.careful = form.careful
       /\ form'.saving = w
  BY <1>1, <1>3, <1>10 DEF Form, Copy
<1>12. WritesAgree'
  <2>1. intent' \in [Write -> Intent]
    <3>1. \A v \in Write : intent'[v] \in Intent
      BY <1>6, <1>7, <1>8 DEF WritesAgree
    <3> QED
      BY <1>4, <3>1
  <2> QED
    BY <1>1, <2>1 DEF WritesAgree
<1>13. Saves(queued \cup under)' = Saves(queued \cup under) \cup {w}
  <2>1. queued \cup under \subseteq Write
    BY DEF WritesAgree
  <2> QED
    BY <1>1, <1>6, <1>9, <2>1 DEF Saves
<1>14. ListsAgree'
  <2>1. /\ moved' \in [known: SUBSET Project, listing: SUBSET Project]
        /\ moved'.known = moved.known \cup {active.id} /\ moved'.listing = moved.listing \cup {active.id}
    <3>1. moved' = [known |-> moved.known \cup {active.id}, listing |-> moved.listing \cup {active.id}]
      BY <1>10 DEF ListsAgree
    <3> QED
      BY <1>3, <3>1 DEF ListsAgree
  <2>2. ASSUME NEW v \in Saves(queued \cup under)'
        PROVE  intent'[v].project \in moved'.known \cap moved'.listing
    <3>1. CASE v = w
      BY <1>6, <2>1, <3>1
    <3>2. CASE v \in Saves(queued \cup under)
      BY <1>2, <1>9, <2>1, <3>2 DEF ListsAgree, WritesAgree, Saves
    <3> QED
      BY <1>13, <3>1, <3>2
  <2> QED
    BY <1>1, <2>1, <2>2 DEF Exists, ListsAgree
<1>15. Saves(Pending(active.id, under))' = others \cup {w}
  <2>1. queued \cup under \subseteq Write
    BY DEF WritesAgree
  <2> QED
    BY <1>1, <1>6, <1>9, <2>1 DEF Saves, Pending
<1>16. ASSUME NEW p, p # active.id PROVE Saves(Pending(p, under))' = Saves(Pending(p, under))
  <2>1. ASSUME NEW v, v # w PROVE v \in Saves(Pending(p, under))' <=> v \in Saves(Pending(p, under))
    BY <1>1, <1>9, <2>1 DEF WritesAgree, Saves, Pending
  <2>2. w \notin Saves(Pending(p, under))' /\ w \notin Saves(Pending(p, under))
    BY <1>2, <1>6, <1>16 DEF Saves, Pending
  <2> QED
    BY <2>1, <2>2
<1>17. FormAgrees'
  <2>1. settled /\ ~active.behind => UpToDate(active.id, active.copy)'
    BY <1>1, <1>15 DEF Exists, FormAgrees, UpToDate
  <2>2. ASSUME form'.careful, settled
        PROVE  UpToDate(active.id, form.from)' /\ Saves(Pending(active.id, under))' \subseteq {w}
    <3>1. UpToDate(active.id, form.from) /\ others \subseteq {None}
      BY <1>1, <1>11, <2>2 DEF FormAgrees
    <3>2. others \subseteq Write
      BY DEF WritesAgree, Saves, Pending
    <3>3. others = {}
      BY <3>1, <3>2, ApiAssumption
    <3>4. active.id \in Exists => settings[active.id] = form.from
      BY <3>1, <3>3 DEF UpToDate
    <3> QED
      BY <1>1, <1>11, <1>15, <3>3, <3>4 DEF Exists, UpToDate
  <2> QED
    BY <1>1, <1>3, <1>6, <1>11, <2>1, <2>2 DEF FormAgrees, Saves
<1>18. SavesAgree'
  <2>1. ASSUME NEW u \in Saves(queued \cup under)', NEW v \in Saves(queued \cup under)',
               u # v, intent'[u].project = intent'[v].project
        PROVE  ~intent'[u].alone
    <3>1. CASE u = w
      <4>1. v \in others
        BY <1>6, <1>9, <1>13, <2>1, <3>1 DEF Saves, Pending, WritesAgree
      <4> QED
        BY <1>5, <1>6, <3>1, <4>1
    <3>2. CASE v = w
      <4>1. u \in others
        BY <1>6, <1>9, <1>13, <2>1, <3>2 DEF Saves, Pending, WritesAgree
      <4> QED
        BY <1>7, <4>1
    <3>3. CASE u # w /\ v # w
      <4>1. /\ u \in Write /\ u \in Saves(queued \cup under) /\ v \in Saves(queued \cup under)
            /\ intent[u].project = intent[v].project
        BY <1>9, <1>13, <2>1, <3>3 DEF WritesAgree, Saves
      <4>2. ~intent[u].alone
        BY <2>1, <4>1 DEF SavesAgree
      <4> QED
        BY <1>7, <1>8, <3>3, <4>1, <4>2
    <3> QED
      BY <3>1, <3>2, <3>3
  <2>2. ASSUME NEW v \in Saves(under)' \cap applied', intent'[v].alone, intent'[v].project \in Exists'
        PROVE  settings'[intent'[v].project] = v
    <3>1. v # w /\ v \in Write /\ v \in Saves(under) \cap applied
      BY <1>1, <1>2, <1>9, <2>2 DEF WritesAgree, Saves
    <3>2. v \notin others
      BY <1>7, <2>2
    <3> QED
      BY <1>1, <1>8, <2>2, <3>1, <3>2 DEF Exists, SavesAgree
  <2>3. ASSUME NEW v \in queued', intent'[v].careful
        PROVE  /\ intent'[v].op = "save" /\ Saves(Pending(intent[v].project, under))' = {v}
               /\ intent'[v].project \in Exists' => settings'[intent'[v].project] = intent'[v].from
    <3>1. CASE v = w
      <4>1. form.careful /\ settled /\ others = {}
        BY <1>5, <1>6, <2>3, <3>1
      <4>2. active.id \in Exists => settings[active.id] = form.from
        BY <1>1, <4>1 DEF FormAgrees, UpToDate
      <4>3. Saves(Pending(active.id, under))' = {w}
        BY <1>15, <4>1
      <4>4. Saves(Pending(intent[v].project, under))' = Saves(Pending(active.id, under))'
        BY <1>1, <1>6, <3>1 DEF Saves, Pending
      <4> QED
        BY <1>1, <1>6, <3>1, <4>2, <4>3, <4>4 DEF Exists
    <3>2. CASE v # w
      <4>1. v \in Write /\ v \in queued /\ v \notin others /\ intent'[v] = intent[v]
        BY <1>1, <1>7, <1>8, <2>3, <3>2 DEF WritesAgree
      <4>2. /\ intent[v].op = "save" /\ Saves(Pending(intent[v].project, under)) = {v}
            /\ intent[v].project \in Exists => settings[intent[v].project] = intent[v].from
        BY <2>3, <4>1 DEF SavesAgree
      <4>3. intent[v].project # active.id
        BY <4>1, <4>2 DEF Saves, Pending
      <4>4. PICK p : p = intent[v].project
        OBVIOUS
      <4>5. Saves(Pending(p, under))' = {v}
        BY <1>16, <4>2, <4>3, <4>4
      <4>6. Saves(Pending(intent[v].project, under))' = Saves(Pending(p, under))'
        BY <4>1, <4>4 DEF Saves, Pending
      <4> QED
        BY <1>1, <4>1, <4>2, <4>5, <4>6 DEF Exists
    <3> QED
      BY <3>1, <3>2
  <2> QED
    BY <2>1, <2>2, <2>3 DEF SavesAgree
<1> QED
  BY <1>12, <1>14, <1>17, <1>18

\* The other writes: none of them touches a copy of settings.
LEMMA MakeStep ==
    ASSUME WritesAgree, ListsAgree, SavesAgree, FormAgrees, NEW w \in Write,
           NEW what \in Intent, what.op # "save", ~what.careful, Make(w, what), UNCHANGED <<form, moved>>
    PROVE  WritesAgree' /\ ListsAgree' /\ SavesAgree' /\ FormAgrees'
<1>1. /\ w \in unsent /\ unsent' = unsent \ {w} /\ queued' = queued \cup {w} /\ under' = under \cup {w}
      /\ intent' = [intent EXCEPT ![w] = what]
      /\ UNCHANGED <<applied, settings, listing, known, active, settled, form, moved>>
  BY DEF Make, Send
<1>2. w \notin queued /\ w \notin under /\ w \notin applied
  BY <1>1 DEF WritesAgree
<1>3. intent'[w] = what
  BY <1>1 DEF WritesAgree
<1>4. intent'[w] \in Intent /\ intent'[w].op # "save" /\ ~intent'[w].careful
  BY <1>3
<1>5. \A v \in Write : v # w => intent'[v] = intent[v]
  BY <1>1 DEF WritesAgree
<1>6. intent' \in [Write -> Intent]
  BY <1>1, <1>4, <1>5 DEF WritesAgree
<1>7. WritesAgree'
  BY <1>1, <1>6 DEF WritesAgree
<1>8. Saves(queued \cup under)' = Saves(queued \cup under) /\ Saves(under)' = Saves(under)
  BY <1>1, <1>2, <1>4, <1>5 DEF Saves, WritesAgree
<1>9. ASSUME NEW p PROVE Saves(Pending(p, under))' = Saves(Pending(p, under))
  <2>1. ASSUME NEW v, v # w PROVE v \in Saves(Pending(p, under))' <=> v \in Saves(Pending(p, under))
    BY <1>1, <1>5, <2>1 DEF WritesAgree, Saves, Pending
  <2>2. w \notin Saves(Pending(p, under))' /\ w \notin Saves(Pending(p, under))
    BY <1>2, <1>4 DEF Saves, Pending
  <2> QED
    BY <2>1, <2>2
<1>10. Saves(queued \cup under) \subseteq Write \ {w}
  BY <1>2 DEF Saves, WritesAgree
<1>11. ListsAgree'
  BY <1>1, <1>5, <1>8, <1>10 DEF Exists, ListsAgree
<1>12. SavesAgree'
  <2>1. ASSUME NEW u \in Saves(queued \cup under)', NEW v \in Saves(queued \cup under)',
               u # v, intent'[u].project = intent'[v].project
        PROVE  ~intent'[u].alone
    <3>1. /\ u \in Saves(queued \cup under) /\ v \in Saves(queued \cup under)
          /\ intent'[u] = intent[u] /\ intent'[v] = intent[v]
      BY <1>5, <1>8, <1>10
    <3> QED
      BY <2>1, <3>1 DEF SavesAgree
  <2>2. \A v \in Saves(under)' \cap applied' :
          intent'[v].alone /\ intent'[v].project \in Exists' => settings'[intent'[v].project] = v
    BY <1>1, <1>2, <1>5, <1>8 DEF Exists, SavesAgree, WritesAgree
  <2>3. ASSUME NEW v \in queued', intent'[v].careful
        PROVE  /\ intent'[v].op = "save" /\ Saves(Pending(intent[v].project, under))' = {v}
               /\ intent'[v].project \in Exists' => settings'[intent'[v].project] = intent'[v].from
    <3>1. v \in queued /\ v \in Write /\ v # w /\ intent'[v] = intent[v]
      BY <1>1, <1>4, <1>5, <2>3 DEF WritesAgree
    <3>2. PICK p : p = intent[v].project
      OBVIOUS
    <3>3. Saves(Pending(intent[v].project, under))' = Saves(Pending(p, under))'
      BY <3>1, <3>2
    <3> QED
      BY <1>1, <1>9, <2>3, <3>1, <3>2, <3>3 DEF Exists, SavesAgree
  <2> QED
    BY <2>1, <2>2, <2>3 DEF SavesAgree
<1>13. FormAgrees'
  <2>1. ASSUME NEW copy, UpToDate(active.id, copy) PROVE UpToDate(active.id, copy)'
    BY <1>1, <1>9, <2>1 DEF Exists, UpToDate
  <2>2. form.saving # None => form.saving \in Saves(under)' /\ intent'[form.saving] = intent[form.saving]
    BY <1>5, <1>8, <1>10 DEF FormAgrees, Saves
  <2>3. Saves(Pending(active.id, under))' = Saves(Pending(active.id, under))
    <3>1. PICK p : p = active.id
      OBVIOUS
    <3> QED
      BY <1>1, <1>9, <3>1
  <2>4. settled /\ ~active.behind => UpToDate(active.id, active.copy)'
    BY <1>1, <2>1 DEF FormAgrees
  <2>5. form.up /\ form.careful /\ settled => UpToDate(active.id, form.from)'
    BY <1>1, <2>1 DEF FormAgrees
  <2> QED
    BY <1>1, <2>2, <2>3, <2>4, <2>5 DEF FormAgrees
<1> QED
  BY <1>7, <1>11, <1>12, <1>13

\* The server carries a write out.
LEMMA CarryWriteStep ==
    ASSUME WritesAgree, ListsAgree, SavesAgree, FormAgrees, NEW w \in Write, CarryWrite(w)
    PROVE  WritesAgree' /\ ListsAgree' /\ SavesAgree' /\ FormAgrees'
<1>1. /\ w \in queued /\ queued' = queued \ {w} /\ applied' = applied \cup {w}
      /\ UNCHANGED <<unsent, intent, listing, known, active, form, under, moved, settled>>
  BY DEF CarryWrite, Carry
<1>2. PICK p \in Exists : p = intent[w].project
  BY DEF CarryWrite
<1>3. /\ p \in Exists /\ p \in Project /\ Exists' \subseteq Exists
      /\ intent[w].op = "save" => settings'[p] = w /\ \A q \in Exists' : q # p => settings'[q] = settings[q]
      /\ intent[w].op # "save" => \A q \in Exists' : settings'[q] = settings[q]
  BY <1>2 DEF CarryWrite, Exists, ListsAgree
<1>4. WritesAgree'
  BY <1>1 DEF WritesAgree
<1>5. Saves(queued \cup under)' \subseteq Saves(queued \cup under) /\ Saves(under)' = Saves(under)
  BY <1>1 DEF Saves
<1>6. intent[w].op = "save" => w \in Saves(queued \cup under) /\ p \in moved.known \cap moved.listing
  BY <1>1, <1>2 DEF Saves, ListsAgree
<1>7. ListsAgree'
  BY <1>1, <1>3, <1>5, <1>6 DEF Exists, ListsAgree, Copy
<1>8. settled => w \in under
  BY <1>1 DEF WritesAgree
<1>9. settled => \A q : Pending(q, under)' = Pending(q, under)
  BY <1>1, <1>8 DEF Pending
<1>10. ASSUME NEW copy, settled, UpToDate(active.id, copy) PROVE UpToDate(active.id, copy)'
  <2>1. PICK q : q = active.id
    OBVIOUS
  <2>2. UpToDate(q, copy) /\ Pending(q, under)' = Pending(q, under)
    BY <1>9, <1>10, <2>1
  <2>3. Saves(Pending(q, under))' = Saves(Pending(q, under))
    BY <1>1, <2>2 DEF Saves
  <2>4. CASE intent[w].op = "save" /\ q = p
    <3>1. w \in Saves(Pending(q, under))
      BY <1>1, <1>2, <2>4 DEF Saves, Pending
    <3> QED
      BY <1>1, <2>1, <2>3, <3>1 DEF UpToDate
  <2>5. CASE ~(intent[w].op = "save" /\ q = p)
    <3>1. q \in Exists' => q \in Exists /\ settings'[q] = settings[q]
      BY <1>3, <2>5
    <3> QED
      BY <1>1, <2>1, <2>2, <2>3, <3>1 DEF Exists, UpToDate
  <2> QED
    BY <2>4, <2>5
<1>11. FormAgrees'
  <2>1. settled /\ ~active.behind => UpToDate(active.id, active.copy)'
    BY <1>1, <1>10 DEF FormAgrees
  <2>2. form.up /\ form.careful /\ settled => UpToDate(active.id, form.from)'
    BY <1>1, <1>10 DEF FormAgrees
  <2>3. Saves(Pending(active.id, under))' \subseteq Saves(Pending(active.id, under))
    BY <1>1 DEF Saves, Pending
  <2> QED
    BY <1>1, <1>5, <2>1, <2>2, <2>3 DEF FormAgrees
<1>12. SavesAgree'
  <2>1. \A u, v \in Saves(queued \cup under)' :
          u # v /\ intent'[u].project = intent'[v].project => ~intent'[u].alone
    BY <1>1, <1>5 DEF SavesAgree
  <2>2. ASSUME NEW v \in Saves(under)' \cap applied', intent'[v].alone, intent'[v].project \in Exists'
        PROVE  settings'[intent'[v].project] = v
    <3>1. v \in Saves(under) /\ v \in Saves(queued \cup under)
      BY <1>5, <2>2 DEF Saves
    <3>2. CASE v = w
      BY <1>1, <1>2, <1>3, <3>1, <3>2 DEF Saves
    <3>3. CASE v # w /\ intent[w].op = "save"
      <4>1. intent[v].project # p
        BY <1>1, <1>2, <1>6, <2>2, <3>1, <3>3 DEF SavesAgree
      <4> QED
        BY <1>1, <1>3, <2>2, <3>1, <3>3, <4>1 DEF SavesAgree
    <3>4. CASE v # w /\ intent[w].op # "save"
      BY <1>1, <1>3, <2>2, <3>1, <3>4 DEF SavesAgree
    <3> QED
      BY <3>2, <3>3, <3>4
  <2>3. ASSUME NEW v \in queued', intent'[v].careful
        PROVE  /\ intent'[v].op = "save" /\ Saves(Pending(intent[v].project, under))' = {v}
               /\ intent'[v].project \in Exists' => settings'[intent'[v].project] = intent'[v].from
    <3>1. /\ v \in queued /\ v # w /\ intent[v].op = "save" /\ Saves(Pending(intent[v].project, under)) = {v}
          /\ intent[v].project \in Exists => settings[intent[v].project] = intent[v].from
      BY <1>1, <2>3 DEF SavesAgree
    <3>2. Saves(Pending(intent[v].project, under))' = {v}
      BY <1>1, <2>3, <3>1 DEF Saves, Pending
    <3>3. intent[w].op = "save" => intent[v].project # p
      BY <1>1, <1>2, <3>1 DEF Saves, Pending
    <3> QED
      BY <1>1, <1>3, <3>1, <3>2, <3>3
  <2> QED
    BY <2>1, <2>2, <2>3 DEF SavesAgree
<1> QED
  BY <1>4, <1>7, <1>11, <1>12

\* A save is answered: the UI takes the answer over.
LEMMA SavedStep ==
    ASSUME WritesAgree, ListsAgree, SavesAgree, FormAgrees, NEW w \in Write, Saved(w)
    PROVE  WritesAgree' /\ ListsAgree' /\ SavesAgree' /\ FormAgrees'
<1>1. /\ w \in under \cap applied /\ intent[w].op = "save" /\ under' = under \ {w} /\ Adopt(w)
      /\ UNCHANGED <<settings, intent, listing, known, moved, settled, unsent, queued, applied>>
  BY DEF Saved, Answers, api
<1>2. PICK p : p = intent[w].project
  OBVIOUS
<1>3. w \in Saves(Pending(p, under)) /\ w \in Saves(queued \cup under) /\ p \in Project /\ w \notin queued
  BY <1>1, <1>2 DEF Saves, Pending, ListsAgree, WritesAgree
<1>4. WritesAgree'
  BY <1>1 DEF WritesAgree
<1>5. Saves(queued \cup under)' \subseteq Saves(queued \cup under) /\ Saves(under)' = Saves(under) \ {w}
  BY <1>1 DEF Saves
<1>6. ListsAgree'
  BY <1>1, <1>5 DEF Exists, ListsAgree
<1>7. ASSUME NEW q PROVE Saves(Pending(q, under))' = Saves(Pending(q, under)) \ {w}
  BY <1>1, <1>3 DEF Saves, Pending
<1>8. SavesAgree'
  <2>1. ASSUME NEW v \in queued, intent[v].careful
        PROVE  Saves(Pending(intent[v].project, under))' = {v}
    <3>1. v # w /\ Saves(Pending(intent[v].project, under)) = {v}
      BY <1>3, <2>1 DEF SavesAgree
    <3>2. PICK q : q = intent[v].project
      OBVIOUS
    <3>3. Saves(Pending(q, under))' = {v}
      BY <1>7, <3>1, <3>2
    <3>4. Saves(Pending(intent[v].project, under))' = Saves(Pending(q, under))'
      BY <1>1, <3>2
    <3> QED
      BY <3>3, <3>4
  <2>2. \A v \in Saves(under)' \cap applied' :
          intent'[v].alone /\ intent'[v].project \in Exists' => settings'[intent'[v].project] = v
    BY <1>1, <1>5 DEF Exists, SavesAgree
  <2>3. \A u, v \in Saves(queued \cup under)' :
          u # v /\ intent'[u].project = intent'[v].project => ~intent'[u].alone
    BY <1>1, <1>5 DEF SavesAgree
  <2> QED
    BY <1>1, <2>1, <2>2, <2>3 DEF Exists, SavesAgree
<1>9. intent[w].alone => (p \in Exists => settings[p] = w) /\ Saves(Pending(p, under))' = {}
  <2>1. ASSUME intent[w].alone PROVE p \in Exists => settings[p] = w
    BY <1>1, <1>2, <2>1 DEF SavesAgree, Saves
  <2>2. ASSUME intent[w].alone PROVE Saves(Pending(p, under)) \subseteq {w}
    BY <1>2, <1>3, <2>2 DEF SavesAgree, Saves, Pending
  <2> QED
    BY <1>7, <2>1, <2>2
<1>10. PICK answer : answer = [id |-> p, copy |-> w, behind |-> ~intent[w].alone]
  OBVIOUS
<1>11. /\ answer \in [id: Project \cup {None}, copy: Copy, behind: BOOLEAN]
       /\ answer.id = p /\ answer.copy = w /\ (~answer.behind => intent[w].alone)
  <2>1. (~intent[w].alone) \in BOOLEAN
    OBVIOUS
  <2> QED
    BY <1>3, <1>10, <2>1 DEF Copy
<1>12. CASE form.saving = w
  <2>1. /\ active' = answer
        /\ form' = [form EXCEPT !.from = w, !.careful = intent[w].alone /\ settled, !.saving = None]
    BY <1>1, <1>2, <1>10, <1>12 DEF Adopt
  <2>2. form \in Form /\ form.up /\ active.id = p
    BY <1>1, <1>2, <1>12, ApiAssumption DEF FormAgrees
  <2>3. PICK c \in BOOLEAN : c = (intent[w].alone /\ settled)
    OBVIOUS
  <2>4. form' = [up |-> TRUE, from |-> w, careful |-> c, saving |-> None]
    BY <2>1, <2>2, <2>3 DEF Form
  <2>5. form' \in Form /\ form'.up /\ form'.from = w /\ form'.careful = c /\ form'.saving = None
    BY <2>4 DEF Form, Copy
  <2>6. form'.careful => intent[w].alone
    BY <2>3, <2>5
  <2>7. p # None
    BY <1>3, WorkspaceAssumption
  <2>8. active'.id = p /\ active'.copy = w /\ active' \in [id: Project \cup {None}, copy: Copy, behind: BOOLEAN]
    BY <1>11, <2>1
  <2>9. intent[w].alone => UpToDate(p, w)'
    BY <1>1, <1>9 DEF Exists, UpToDate
  <2>10. settled' /\ ~active'.behind => UpToDate(active.id, active.copy)'
    BY <1>11, <2>1, <2>8, <2>9 DEF UpToDate, Exists, Saves, Pending
  <2>11. form'.careful => UpToDate(active.id, form.from)' /\ Saves(Pending(active.id, under))' \subseteq {}
    BY <1>9, <2>5, <2>6, <2>8, <2>9 DEF UpToDate, Exists, Saves, Pending
  <2>12. FormAgrees'
    BY <2>5, <2>7, <2>8, <2>10, <2>11 DEF FormAgrees
  <2> QED
    BY <1>4, <1>6, <1>8, <2>12
<1>13. CASE form.saving # w
  <2>1. Activate(answer, under \ {w})
    BY <1>1, <1>2, <1>10, <1>13 DEF Adopt
  <2>2. PICK waited : waited = under'
    OBVIOUS
  <2>3. waited = under' /\ Activate(answer, waited)
    BY <1>1, <2>1, <2>2
  <2>4. settled /\ ~answer.behind => UpToDate(answer.id, answer.copy)'
    BY <1>1, <1>9, <1>11 DEF Exists, UpToDate
  <2>5. form.saving # None => form.saving \in under'
    BY <1>1, <1>13 DEF FormAgrees, Saves
  <2>6. ASSUME form.up, form.careful, settled, answer.id = active.id PROVE FALSE
    <3>1. w \in Saves(Pending(active.id, under))
      BY <1>3, <1>11, <2>6
    <3> QED
      BY <1>13, <2>6, <3>1 DEF FormAgrees
  <2>7. FormAgrees'
    BY <1>1, <1>11, <2>3, <2>4, <2>5, <2>6, ActivateStep
  <2> QED
    BY <1>4, <1>6, <1>8, <2>7
<1> QED
  BY <1>12, <1>13

\* The other answers, and the end of a write that was not carried out or is given up.
LEMMA EndsStep ==
    ASSUME WritesAgree, ListsAgree, SavesAgree, FormAgrees, NEW w \in Write,
           ProjectDeleted(w) \/ EnvChanged(w) \/ WriteFails(w) \/ (Refuse(w) /\ UNCHANGED workspace)
    PROVE  WritesAgree' /\ ListsAgree' /\ SavesAgree' /\ FormAgrees'
<1>1. UNCHANGED <<settings, intent, known, active, unsent, applied>>
  BY DEF ProjectDeleted, EnvChanged, WriteFails, Refuse, workspace, api
<1>2. queued' \subseteq queued /\ under' \subseteq under /\ (settled' => settled) /\ settled' \in BOOLEAN
  <2>1. queued' \subseteq queued /\ under' \subseteq under
    BY DEF ProjectDeleted, EnvChanged, WriteFails, Refuse, Answers, workspace, api
  <2>2. PICK b \in BOOLEAN : b = (settled /\ w \notin queued \cup applied)
    OBVIOUS
  <2>3. settled' = settled \/ settled' = b
    BY <2>2 DEF ProjectDeleted, EnvChanged, WriteFails, workspace
  <2>4. settled \in BOOLEAN
    BY DEF WritesAgree
  <2>5. settled' \in BOOLEAN
    BY <2>3, <2>4
  <2> QED
    BY <2>1, <2>2, <2>3, <2>5
<1>3. settled' => queued' \subseteq under'
  BY DEF ProjectDeleted, EnvChanged, WriteFails, Refuse, Answers, workspace, api, WritesAgree
<1>4. WritesAgree'
  BY <1>1, <1>2, <1>3 DEF WritesAgree
<1>5. Saves(queued \cup under)' \subseteq Saves(queued \cup under) /\ Saves(under)' \subseteq Saves(under)
  BY <1>1, <1>2 DEF Saves
<1>6. ASSUME UNCHANGED <<listing, moved>> PROVE ListsAgree'
  BY <1>1, <1>5, <1>6 DEF Exists, ListsAgree
<1>7. ASSUME ProjectDeleted(w) PROVE ListsAgree'
  <2>1. /\ listing' = [up |-> TRUE, list |-> None]
        /\ moved' = [moved EXCEPT !.listing = {p \in Project : Saves(Pending(p, under)) # {}}]
    BY <1>7 DEF ProjectDeleted, Asked
  <2>2. listing'.list = None
    BY <2>1
  <2>3. /\ moved' \in [known: SUBSET Project, listing: SUBSET Project] /\ moved'.known = moved.known
        /\ moved'.listing = {p \in Project : Saves(Pending(p, under)) # {}}
    <3>1. moved' = [known |-> moved.known, listing |-> {p \in Project : Saves(Pending(p, under)) # {}}]
      BY <2>1 DEF ListsAgree
    <3> QED
      BY <3>1 DEF ListsAgree
  <2>4. ASSUME NEW v \in Saves(queued \cup under)
        PROVE  intent[v].project \in moved.known /\ intent[v].project \in moved'.listing
    <3>1. intent[v].project \in moved.known /\ intent[v].project \in Project
      BY DEF ListsAgree
    <3>2. v \in Saves(Pending(intent[v].project, under))
      BY DEF Saves, Pending
    <3> QED
      BY <2>3, <3>1, <3>2
  <2> QED
    BY <1>1, <1>5, <2>2, <2>3, <2>4 DEF Exists, ListsAgree
<1>8. ListsAgree'
  BY <1>6, <1>7 DEF EnvChanged, WriteFails, Refuse, workspace
<1>9. SavesAgree'
  <2>1. ASSUME NEW v \in queued', intent[v].careful PROVE Saves(Pending(intent[v].project, under))' = {v}
    <3>1. v \in queued /\ Saves(Pending(intent[v].project, under)) = {v} /\ intent[v].op = "save"
      BY <1>2, <2>1 DEF SavesAgree
    <3>2. Saves(Pending(intent[v].project, under))' \subseteq Saves(Pending(intent[v].project, under))
      BY <1>1, <1>2 DEF Saves, Pending
    <3>3. v \in Saves(Pending(intent[v].project, under))'
      BY <1>1, <2>1, <3>1 DEF Saves, Pending
    <3> QED
      BY <3>1, <3>2, <3>3
  <2>2. \A v \in Saves(under)' \cap applied' :
          intent'[v].alone /\ intent'[v].project \in Exists' => settings'[intent'[v].project] = v
    BY <1>1, <1>5 DEF Exists, SavesAgree
  <2>3. \A u, v \in Saves(queued \cup under)' :
          u # v /\ intent'[u].project = intent'[v].project => ~intent'[u].alone
    BY <1>1, <1>5 DEF SavesAgree
  <2> QED
    BY <1>1, <1>2, <2>1, <2>2, <2>3 DEF Exists, SavesAgree
<1>10. ASSUME NEW v \in under, v \notin under', settled' PROVE intent[v].op # "save" \/ v \notin applied
  BY <1>10 DEF ProjectDeleted, EnvChanged, WriteFails, Refuse, Answers, workspace
<1>11. queued \cap applied = {}
  BY DEF WritesAgree
<1>12. ASSUME NEW v \in queued, v \notin queued' PROVE v \notin applied
  BY <1>11, <1>12
<1>13. ASSUME NEW copy, settled', UpToDate(active.id, copy) PROVE UpToDate(active.id, copy)'
  <2>1. ASSUME NEW v \in Saves(Pending(active.id, under)), v \in applied
        PROVE  v \in Saves(Pending(active.id, under))'
    <3>1. v \in under' /\ intent[v].op = "save" /\ intent[v].project = active.id
      BY <1>10, <1>11, <1>13, <2>1 DEF Saves, Pending
    <3> QED
      BY <1>1, <3>1 DEF Saves, Pending
  <2> QED
    BY <1>1, <1>13, <2>1 DEF Exists, UpToDate
<1>14. form' \in Form /\ form'.up = form.up /\ form'.from = form.from /\ form'.careful = form.careful
  BY DEF ProjectDeleted, EnvChanged, WriteFails, Refuse, workspace, FormAgrees, Form, Copy
<1>15. form'.saving = form.saving \/ (form'.saving = None /\ WriteFails(w) /\ form.saving = w)
  BY DEF ProjectDeleted, EnvChanged, WriteFails, Refuse, workspace, FormAgrees, Form
<1>16. form'.saving # None => form'.saving \in under'
  <2>1. CASE WriteFails(w)
    BY <1>15, <2>1 DEF WriteFails, FormAgrees, Saves, Form
  <2>2. CASE ProjectDeleted(w) \/ EnvChanged(w) \/ (Refuse(w) /\ UNCHANGED workspace)
    BY <1>15, <2>2 DEF ProjectDeleted, EnvChanged, Answers, workspace, FormAgrees, Saves
  <2> QED
    BY <2>1, <2>2
<1>17. ASSUME settled', form'.up, form'.careful
       PROVE  Saves(Pending(active.id, under))' \subseteq {form'.saving}
  <2>1. Saves(Pending(active.id, under)) \subseteq {form.saving}
    BY <1>2, <1>14, <1>17 DEF FormAgrees
  <2>2. Saves(Pending(active.id, under))' \subseteq Saves(Pending(active.id, under))
    BY <1>1, <1>2 DEF Saves, Pending
  <2>3. CASE WriteFails(w) /\ form.saving = w
    <3>1. w \notin queued' /\ w \notin under'
      BY <1>17, <2>3 DEF WriteFails, api
    <3>2. w \notin Saves(Pending(active.id, under))'
      BY <3>1 DEF Saves, Pending
    <3> QED
      BY <2>1, <2>2, <2>3, <3>2
  <2> QED
    BY <1>15, <2>1, <2>2, <2>3
<1>18. FormAgrees'
  <2>1. settled' /\ ~active.behind => UpToDate(active.id, active.copy)'
    BY <1>1, <1>2, <1>13 DEF FormAgrees
  <2>2. form'.up /\ form'.careful /\ settled' => UpToDate(active.id, form.from)'
    <3>1. PICK copy : copy = form.from
      OBVIOUS
    <3>2. form.up /\ form.careful /\ settled => UpToDate(active.id, copy)
      BY <3>1 DEF FormAgrees
    <3>3. form.up /\ form.careful /\ settled' => UpToDate(active.id, copy)'
      BY <1>2, <1>13, <3>2
    <3> QED
      BY <1>14, <3>1, <3>3 DEF Exists, UpToDate, Saves, Pending
  <2>3. form'.saving # None => form'.saving \in Saves(under)' /\ intent'[form'.saving].project = active.id
    BY <1>1, <1>15, <1>16 DEF FormAgrees, Saves
  <2> QED
    BY <1>1, <1>14, <1>15, <1>17, <2>1, <2>2, <2>3 DEF FormAgrees
<1> QED
  BY <1>4, <1>8, <1>9, <1>18

\* A step of the workspace keeps the four parts of SettingsAgree.
LEMMA SettingsStep ==
    ASSUME WritesAgree, ListsAgree, SavesAgree, FormAgrees, WorkspaceNext
    PROVE  WritesAgree' /\ ListsAgree' /\ SavesAgree' /\ FormAgrees'
<1>1. ASSUME \/ ServerLists \/ ProjectsArrive \/ ProjectsFail \/ OpenSection \/ CloseSection
             \/ \E p \in Project : SwitchProject(p)
      PROVE  WritesAgree' /\ ListsAgree' /\ SavesAgree' /\ FormAgrees'
  BY <1>1, ListsStep
<1>2. ASSUME \/ \E r \in envReads : ServerReadsEnvs(r) \/ EnvsArrive(r) \/ EnvsFail(r)
             \/ \E s \in Slug : PickEnv(s)
      PROVE  WritesAgree' /\ ListsAgree' /\ SavesAgree' /\ FormAgrees'
  <2>1. UNCHANGED <<settings, intent, listing, known, active, form, under, moved, settled, unsent, queued, applied>>
    BY <1>2 DEF ServerReadsEnvs, EnvsArrive, EnvsFail, PickEnv, api
  <2> QED
    BY <2>1, KeepsWrites, KeepsLists, KeepsSaves, KeepsForm
<1>3. ASSUME NEW w \in Write, SaveSection(w) PROVE WritesAgree' /\ ListsAgree' /\ SavesAgree' /\ FormAgrees'
  BY <1>3, SaveSectionStep
<1>4. ASSUME NEW w \in Write, DeleteProject(w) PROVE WritesAgree' /\ ListsAgree' /\ SavesAgree' /\ FormAgrees'
  <2> DEFINE what == [Unset EXCEPT !.op = "delete", !.project = active.id]
  <2>1. what \in Intent /\ what.op = "delete" /\ ~what.careful
    BY DEF Intent, Unset, Copy, FormAgrees
  <2>2. Make(w, what) /\ UNCHANGED <<form, moved>>
    BY <1>4 DEF DeleteProject
  <2> HIDE DEF what
  <2> QED
    BY <2>1, <2>2, MakeStep
<1>5. ASSUME NEW w \in Write, NEW s \in Slug, NEW op \in {"add", "drop"}, ChangeEnv(w, op, s)
      PROVE  WritesAgree' /\ ListsAgree' /\ SavesAgree' /\ FormAgrees'
  <2> DEFINE what == [Unset EXCEPT !.op = op, !.project = active.id, !.slug = s]
  <2>1. what \in Intent /\ what.op = op /\ ~what.careful
    BY DEF Intent, Unset, Copy, FormAgrees
  <2>2. Make(w, what) /\ UNCHANGED <<form, moved>>
    BY <1>5 DEF ChangeEnv
  <2> HIDE DEF what
  <2> QED
    BY <2>1, <2>2, MakeStep
<1>6. ASSUME NEW w \in Write, CarryWrite(w) PROVE WritesAgree' /\ ListsAgree' /\ SavesAgree' /\ FormAgrees'
  BY <1>6, CarryWriteStep
<1>7. ASSUME NEW w \in Write, Saved(w) PROVE WritesAgree' /\ ListsAgree' /\ SavesAgree' /\ FormAgrees'
  BY <1>7, SavedStep
<1>8. ASSUME NEW w \in Write, ProjectDeleted(w) \/ EnvChanged(w) \/ WriteFails(w)
      PROVE  WritesAgree' /\ ListsAgree' /\ SavesAgree' /\ FormAgrees'
  BY <1>8, EndsStep
<1> QED
  BY <1>1, <1>2, <1>3, <1>4, <1>5, <1>6, <1>7, <1>8 DEF WorkspaceNext

\* SettingsAgree holds in every state.
LEMMA SettingsHold == Spec => []SettingsAgree
<1>1. Init => SettingsAgree
  <2> SUFFICES ASSUME Init PROVE SettingsAgree
    OBVIOUS
  <2>1. /\ unsent = Write /\ queued = {} /\ applied = {} /\ under = {} /\ settled = TRUE
        /\ settings = [p \in Project |-> None] /\ intent = [w \in Write |-> Unset]
        /\ listing.list = None /\ known = <<>> /\ active = NoProject /\ form = NoForm
        /\ moved = [known |-> {}, listing |-> {}]
    BY DEF Init, ApiInit, WorkspaceInit, Asked
  <2>2. Unset \in Intent /\ ~Unset.careful
    BY DEF Unset, Intent, Copy
  <2>3. /\ NoProject \in [id: Project \cup {None}, copy: Copy, behind: BOOLEAN] /\ NoProject.id = None
        /\ None \notin Project
    BY WorkspaceAssumption DEF NoProject, Copy
  <2>4. WritesAgree
    BY <2>1, <2>2 DEF WritesAgree
  <2>5. ListsAgree
    <3>1. DOMAIN known = {}
      BY <2>1
    <3>2. moved \in [known: SUBSET Project, listing: SUBSET Project]
      BY <2>1
    <3> QED
      BY <2>1, <3>1, <3>2 DEF ListsAgree, Exists, Saves, Copy
  <2>6. SavesAgree
    BY <2>1 DEF SavesAgree, Saves
  <2>7. FormAgrees
    BY <2>1, <2>3, NoFormAgrees DEF FormAgrees, UpToDate, Exists
  <2> QED
    BY <2>1, <2>2, <2>4, <2>5, <2>6, <2>7 DEF SettingsAgree, ListsAgree
<1>2. SettingsAgree /\ [Next]_vars => SettingsAgree'
  <2> SUFFICES ASSUME SettingsAgree, [Next]_vars PROVE SettingsAgree'
    OBVIOUS
  <2>1. UNCHANGED part
    BY DEF Next, vars
  <2>2. ASSUME part # "workspace" PROVE SettingsAgree'
    <3>1. UNCHANGED workspace
      BY <2>2 DEF Next, vars
    <3> QED
      BY <2>1, <2>2, <3>1 DEF SettingsAgree, workspace, Exists
  <2>3. ASSUME part = "workspace" PROVE SettingsAgree'
    <3>1. \/ WorkspaceNext
          \/ \E w \in Write : Refuse(w) /\ UNCHANGED workspace
          \/ UNCHANGED <<api, workspace>>
      BY <2>3 DEF Next, ServerWrites, vars
    <3>2. ASSUME UNCHANGED <<api, workspace>> PROVE WritesAgree' /\ ListsAgree' /\ SavesAgree' /\ FormAgrees'
      <4>1. UNCHANGED <<settings, intent, listing, known, active, form, under, moved, settled, unsent, queued, applied>>
        BY <3>2 DEF api, workspace
      <4> QED
        BY <2>3, <4>1, KeepsWrites, KeepsLists, KeepsSaves, KeepsForm DEF SettingsAgree
    <3>3. WritesAgree' /\ ListsAgree' /\ SavesAgree' /\ FormAgrees'
      BY <2>3, <3>1, <3>2, SettingsStep, EndsStep DEF SettingsAgree
    <3> QED
      BY <2>1, <2>3, <3>3 DEF SettingsAgree
  <2> QED
    BY <2>2, <2>3
<1> QED
  BY <1>1, <1>2, PTL DEF Spec

\* What a save replaces is what its form was filled from, unless the form was filled
\* from the switcher's list after a save, or the saves overlapped or were given up
\* (ProjectContext.tsx, the settings sections).
THEOREM NoSettingsAreUndone == Spec => NoSettingIsUndone
<1>1. SettingsAgree /\ queued \subseteq Write /\ [Next]_vars =>
        [\A w \in queued : w \in applied' /\ intent[w].careful =>
            settings[intent[w].project] = intent[w].from]_<<api, workspace>>
  <2> SUFFICES ASSUME SettingsAgree, queued \subseteq Write, Next, NEW w \in queued, w \in applied', intent[w].careful
               PROVE  settings[intent[w].project] = intent[w].from
    BY DEF vars, api, workspace
  <2>1. part = "workspace" /\ WritesAgree /\ SavesAgree
    BY DEF SettingsAgree
  <2>2. w \notin applied
    BY <2>1 DEF WritesAgree
  <2>3. ASSUME NEW v \in Write, CarryWrite(v) PROVE v = w \/ w \notin applied'
    BY <2>2, <2>3 DEF CarryWrite, Carry
  <2>4. CASE \E v \in Write : CarryWrite(v)
    <3>1. CarryWrite(w)
      BY <2>3, <2>4
    <3>2. intent[w].project \in Exists
      BY <3>1 DEF CarryWrite
    <3> QED
      BY <2>1, <3>2 DEF SavesAgree
  <2>5. CASE ~\E v \in Write : CarryWrite(v)
    <3>1. ASSUME NEW v \in Write, Refuse(v) PROVE UNCHANGED applied
      BY <3>1 DEF Refuse
    <3>2. ASSUME WorkspaceNext PROVE UNCHANGED applied
      BY <2>5, <3>2 DEF WorkspaceNext, ServerLists, ProjectsArrive, ProjectsFail, SwitchProject, ServerReadsEnvs,
         EnvsArrive, EnvsFail, PickEnv, OpenSection, CloseSection, SaveSection, DeleteProject, ChangeEnv, Make,
         Saved, ProjectDeleted, EnvChanged, WriteFails, Send, api
    <3>3. UNCHANGED applied
      BY <2>1, <3>1, <3>2 DEF Next, ServerWrites
    <3> QED
      BY <2>2, <3>3
  <2> QED
    BY <2>4, <2>5
<1>2. ApiTypeOK => queued \subseteq Write
  BY DEF ApiTypeOK
<1> QED
  BY <1>1, <1>2, SettingsHold, WritesAreWrites, PTL DEF Spec, NoSettingIsUndone

-----------------------------------------------------------------------------
\* The environments found are the active project's, or a change of them is still to
\* be answered.
Fresh(found) ==
    settled /\ active.id \in Exists =>
      \/ found = slugs[active.id]
      \/ \E w \in under \cap applied : intent[w].project = active.id /\ intent[w].op \in {"add", "drop"}

EnvRead == [project: Project, current: BOOLEAN, seen: {None} \cup SUBSET Slug]

\* The read that counts is of the active project, and what it has found is fresh; so
\* is what the app shows when none is under way.
EnvsAgree ==
    /\ DOMAIN slugs = Exists /\ \A p \in Exists : slugs[p] \subseteq Slug
    /\ \A w \in Write : intent[w].op = "add" => intent[w].slug \in Slug
    /\ envs \subseteq Slug /\ env \in Slug /\ (env \in envs \/ envs = {})
    /\ envReads \subseteq EnvRead
    /\ \A r \in envReads : r.current => r.project = active.id /\ (r.seen # None => Fresh(r.seen))
    /\ envsRead /\ (\A r \in envReads : ~r.current) => Fresh(envs)

\* A cancelled read is a read, and not current.
LEMMA CancelledReads ==
    ASSUME NEW rs \in SUBSET EnvRead
    PROVE  \A r \in Cancelled(rs) : r \in EnvRead /\ ~r.current
<1>1. ASSUME NEW q \in rs PROVE [q EXCEPT !.current = FALSE] \in EnvRead /\ ~[q EXCEPT !.current = FALSE].current
  <2>1. q \in EnvRead
    OBVIOUS
  <2> QED
    BY <2>1 DEF EnvRead
<1> QED
  BY <1>1 DEF Cancelled

\* Reading a project's environments makes that read the only current one.
LEMMA ReadEnvsStep ==
    ASSUME envReads \in SUBSET EnvRead, NEW p \in Project, ReadEnvs(p)
    PROVE  /\ envReads' \in SUBSET EnvRead
           /\ \A r \in envReads' : r.current => r.project = p /\ r.seen = None
           /\ \E r \in envReads' : r.current
<1> DEFINE new == [project |-> p, current |-> TRUE, seen |-> None]
<1>1. envReads' = Cancelled(envReads) \cup {new}
  BY DEF ReadEnvs
<1>2. new \in EnvRead /\ new.current /\ new.project = p /\ new.seen = None
  BY DEF EnvRead
<1> HIDE DEF new
<1> QED
  BY <1>1, <1>2, CancelledReads

\* What is fresh stays fresh while the environments stay what they are and no change
\* of them is answered.
LEMMA StaysFresh ==
    ASSUME NEW found, Fresh(found), active'.id = active.id, Exists' \subseteq Exists, settled' => settled,
           \A p \in Exists' : slugs'[p] = slugs[p],
           \A w \in under \cap applied : intent[w].op \in {"add", "drop"} /\ settled' =>
              w \in under' \cap applied' /\ intent'[w] = intent[w]
    PROVE  Fresh(found)'
BY DEF Fresh

\* A step that leaves the environments and the reads of them alone.
LEMMA KeepsEnvs ==
    ASSUME EnvsAgree, UNCHANGED <<slugs, envs, env, envReads, envsRead>>, active'.id = active.id,
           DOMAIN settings' = DOMAIN settings, settled' => settled,
           \A w \in Write : intent'[w].op = "add" => intent'[w].slug \in Slug,
           \A w \in under \cap applied : intent[w].op \in {"add", "drop"} /\ settled' =>
              w \in under' \cap applied' /\ intent'[w] = intent[w]
    PROVE  EnvsAgree'
<1>1. ASSUME NEW found, Fresh(found) PROVE Fresh(found)'
  BY <1>1, StaysFresh DEF Exists
<1>2. ASSUME NEW r \in envReads, r.seen # None, Fresh(r.seen) PROVE Fresh(r.seen)'
  BY <1>1, <1>2
<1>3. Fresh(envs) => Fresh(envs)'
  <2>1. PICK found : found = envs
    OBVIOUS
  <2>2. Fresh(found) => Fresh(found)'
    BY <1>1
  <2> QED
    BY <2>1, <2>2 DEF Fresh, Exists
<1> QED
  BY <1>2, <1>3 DEF EnvsAgree, Exists

\* Making a project active keeps EnvsAgree.
LEMMA ActivateReads ==
    ASSUME EnvsAgree, Exists \subseteq Project, NEW project \in [id: Project \cup {None}, copy: Copy, behind: BOOLEAN],
           NEW waited, Activate(project, waited), UNCHANGED <<settings, slugs, intent, settled, applied, env, envsRead>>,
           \A w \in under : intent[w].op \in {"add", "drop"} => w \in under'
    PROVE  EnvsAgree'
<1>1. active' = project
  BY DEF Activate
<1>2. CASE project.id = active.id
  <2>1. UNCHANGED <<envs, envReads>>
    BY <1>2 DEF Activate
  <2> QED
    BY <1>1, <1>2, <2>1, KeepsEnvs DEF EnvsAgree
<1>3. CASE project.id # active.id /\ project.id = None
  <2>1. envReads' = Cancelled(envReads) /\ envs' = {}
    BY <1>3 DEF Activate
  <2>2. envReads' \subseteq EnvRead /\ \A r \in envReads' : ~r.current
    BY <2>1, CancelledReads DEF EnvsAgree
  <2>3. active'.id \notin Exists'
    BY <1>1, <1>3, WorkspaceAssumption DEF Exists
  <2> QED
    BY <2>1, <2>2, <2>3 DEF EnvsAgree, Exists, Fresh
<1>4. CASE project.id # active.id /\ project.id # None
  <2>1. ReadEnvs(project.id) /\ envs' = envs /\ project.id \in Project
    BY <1>4 DEF Activate
  <2>2. /\ envReads' \in SUBSET EnvRead
        /\ \A r \in envReads' : r.current => r.project = project.id /\ r.seen = None
        /\ \E r \in envReads' : r.current
    BY <2>1, ReadEnvsStep DEF EnvsAgree
  <2> QED
    BY <1>1, <2>1, <2>2 DEF EnvsAgree, Exists
<1> QED
  BY <1>2, <1>3, <1>4

\* A step of the workspace keeps EnvsAgree.
LEMMA EnvsStep ==
    ASSUME EnvsAgree, WritesAgree, ListsAgree, SavesAgree, FormAgrees, WritesAgree', FormAgrees', WorkspaceNext
    PROVE  EnvsAgree'
<1> USE DEF EnvsAgree
<1>1. ASSUME ServerLists \/ ProjectsFail \/ OpenSection \/ CloseSection PROVE EnvsAgree'
  <2>1. UNCHANGED <<slugs, envs, env, envReads, envsRead, active, settings, settled, intent, under, applied>>
    BY <1>1 DEF ServerLists, ProjectsFail, OpenSection, CloseSection, api
  <2> QED
    BY <2>1, KeepsEnvs
<1>2. ASSUME ProjectsArrive PROVE EnvsAgree'
  <2>1. UNCHANGED <<settings, slugs, intent, settled, applied, env, envsRead, under>>
    BY <1>2 DEF ProjectsArrive, api
  <2>2. PICK project : Activate(project, under)
    BY <1>2 DEF ProjectsArrive
  <2>3. project \in [id: Project \cup {None}, copy: Copy, behind: BOOLEAN]
    <3>1. active' = project
      BY <2>2 DEF Activate
    <3> QED
      BY <3>1 DEF FormAgrees
  <2> QED
    BY <2>1, <2>2, <2>3, ActivateReads DEF ListsAgree
<1>3. ASSUME NEW p \in Project, SwitchProject(p) PROVE EnvsAgree'
  <2>1. UNCHANGED <<settings, slugs, intent, settled, applied, env, envsRead, under>>
    BY <1>3 DEF SwitchProject, api
  <2>2. PICK project : Activate(project, under)
    BY <1>3 DEF SwitchProject
  <2>3. project \in [id: Project \cup {None}, copy: Copy, behind: BOOLEAN]
    <3>1. active' = project
      BY <2>2 DEF Activate
    <3> QED
      BY <3>1 DEF FormAgrees
  <2> QED
    BY <2>1, <2>2, <2>3, ActivateReads DEF ListsAgree
<1>4. ASSUME NEW r \in envReads, ServerReadsEnvs(r) PROVE EnvsAgree'
  <2>0. PICK new : new = [r EXCEPT !.seen = slugs[r.project]]
    OBVIOUS
  <2>1. /\ r.seen = None /\ r.project \in Exists /\ envReads' = (envReads \ {r}) \cup {new}
        /\ UNCHANGED <<settings, slugs, intent, active, envs, env, envsRead, under, settled, applied>>
    BY <1>4, <2>0 DEF ServerReadsEnvs, api
  <2>2. r \in EnvRead /\ slugs[r.project] \subseteq Slug
    BY <2>1
  <2>3. new \in EnvRead /\ new.current = r.current /\ new.project = r.project /\ new.seen = slugs[r.project]
    BY <2>0, <2>2 DEF EnvRead
  <2>4. ASSUME NEW found, Fresh(found) PROVE Fresh(found)'
    BY <2>1, <2>4, StaysFresh DEF Exists
  <2>5. new.current => Fresh(new.seen)'
    BY <2>1, <2>3 DEF Fresh, Exists
  <2>6. \A q \in envReads' : q.current => q.project = active'.id /\ (q.seen # None => Fresh(q.seen)')
    BY <2>1, <2>3, <2>4, <2>5
  <2>7. Fresh(envs) => Fresh(envs)'
    BY <2>1 DEF Fresh, Exists
  <2>8. (\A q \in envReads' : ~q.current) => \A q \in envReads : ~q.current
    BY <2>1, <2>3
  <2> QED
    BY <2>1, <2>3, <2>6, <2>7, <2>8 DEF Exists
<1>5. ASSUME NEW r \in envReads, EnvsArrive(r) PROVE EnvsAgree'
  <2>1. /\ envReads' = envReads \ {r} /\ r.seen # None
        /\ UNCHANGED <<settings, slugs, intent, active, under, settled, applied>>
    BY <1>5 DEF EnvsArrive, api
  <2>2. r \in EnvRead /\ r.seen \subseteq Slug
    BY <2>1 DEF EnvRead
  <2>3. ASSUME NEW found, Fresh(found) PROVE Fresh(found)'
    BY <2>1, <2>3, StaysFresh DEF Exists
  <2>4. \A q \in envReads' : q.current => q.project = active'.id /\ (q.seen # None => Fresh(q.seen)')
    BY <2>1, <2>3
  <2>5. CASE r.current
    <3>1. /\ envs' = r.seen /\ ((env' = env /\ (env \in r.seen \/ r.seen = {})) \/ env' \in r.seen)
      BY <1>5, <2>5 DEF EnvsArrive
    <3>2. Fresh(r.seen)'
      BY <2>1, <2>3, <2>5
    <3>3. Fresh(envs)'
      BY <3>1, <3>2 DEF Fresh, Exists
    <3> QED
      BY <2>1, <2>2, <2>4, <3>1, <3>3 DEF Exists
  <2>6. CASE ~r.current
    <3>1. UNCHANGED <<envs, env, envsRead>>
      BY <1>5, <2>6 DEF EnvsArrive
    <3>2. Fresh(envs) => Fresh(envs)'
      BY <2>1, <3>1 DEF Fresh, Exists
    <3> QED
      BY <2>1, <2>4, <2>6, <3>1, <3>2 DEF Exists
  <2> QED
    BY <2>5, <2>6
<1>6. ASSUME NEW r \in envReads, EnvsFail(r) PROVE EnvsAgree'
  <2>1. /\ envReads' = envReads \ {r}
        /\ IF r.current THEN envs' = {} /\ envsRead' = FALSE ELSE UNCHANGED <<envs, envsRead>>
        /\ UNCHANGED <<settings, slugs, intent, active, env, under, settled, applied>>
    BY <1>6 DEF EnvsFail, api
  <2>2. ASSUME NEW found, Fresh(found) PROVE Fresh(found)'
    BY <2>1, <2>2, StaysFresh DEF Exists
  <2>3. \A q \in envReads' : q.current => q.project = active'.id /\ (q.seen # None => Fresh(q.seen)')
    BY <2>1, <2>2
  <2>4. ~r.current => (Fresh(envs) => Fresh(envs)')
    BY <2>1 DEF Fresh, Exists
  <2> QED
    BY <2>1, <2>3, <2>4 DEF Exists
<1>7. ASSUME NEW s \in Slug, PickEnv(s) PROVE EnvsAgree'
  <2>1. /\ s \in envs /\ env' = s
        /\ UNCHANGED <<settings, slugs, intent, active, envs, envReads, envsRead, under, settled, applied>>
    BY <1>7 DEF PickEnv, api
  <2>2. ASSUME NEW found, Fresh(found) PROVE Fresh(found)'
    BY <2>1, <2>2, StaysFresh DEF Exists
  <2>3. \A q \in envReads' : q.current => q.project = active'.id /\ (q.seen # None => Fresh(q.seen)')
    BY <2>1, <2>2
  <2>4. Fresh(envs) => Fresh(envs)'
    BY <2>1 DEF Fresh, Exists
  <2> QED
    BY <2>1, <2>3, <2>4 DEF Exists
<1>8. ASSUME NEW w \in Write, NEW what, Make(w, what), what.op = "add" => what.slug \in Slug PROVE EnvsAgree'
  <2>1. /\ w \in unsent /\ under' = under \cup {w} /\ intent' = [intent EXCEPT ![w] = what]
        /\ UNCHANGED <<slugs, envs, env, envReads, envsRead, active, settings, settled, applied>>
    BY <1>8 DEF Make, Send
  <2>2. w \notin under /\ intent'[w] = what /\ \A v \in Write : v # w => intent'[v] = intent[v]
    BY <2>1 DEF WritesAgree
  <2>3. \A v \in Write : intent'[v].op = "add" => intent'[v].slug \in Slug
    BY <1>8, <2>2
  <2>4. \A v \in under \cap applied : v \in under' \cap applied' /\ intent'[v] = intent[v]
    BY <2>1, <2>2 DEF WritesAgree
  <2> QED
    BY <2>1, <2>3, <2>4, KeepsEnvs
<1>9. ASSUME NEW w \in Write, DeleteProject(w) PROVE EnvsAgree'
  <2> DEFINE what == [Unset EXCEPT !.op = "delete", !.project = active.id]
  <2>1. Make(w, what) /\ what.op = "delete"
    BY <1>9 DEF DeleteProject, Unset
  <2> HIDE DEF what
  <2> QED
    BY <1>8, <2>1
<1>10. ASSUME NEW w \in Write, NEW s \in Slug, NEW op \in {"add", "drop"}, ChangeEnv(w, op, s) PROVE EnvsAgree'
  <2> DEFINE what == [Unset EXCEPT !.op = op, !.project = active.id, !.slug = s]
  <2>1. Make(w, what) /\ what.slug = s
    BY <1>10 DEF ChangeEnv, Unset
  <2> HIDE DEF what
  <2> QED
    BY <1>8, <2>1
<1>11. ASSUME NEW w \in Write, SaveSection(w) PROVE EnvsAgree'
  <2>1. /\ w \in unsent /\ under' = under \cup {w}
        /\ UNCHANGED <<slugs, envs, env, envReads, envsRead, active, settings, settled, applied>>
    BY <1>11 DEF SaveSection, Send
  <2> DEFINE others == Saves(Pending(active.id, under))
  <2>2. intent' = [v \in Write |->
                   IF v = w THEN [Unset EXCEPT !.op = "save", !.project = active.id, !.from = form.from,
                                  !.careful = form.careful /\ settled /\ others = {}, !.alone = others = {}]
                   ELSE IF v \in others THEN [intent[v] EXCEPT !.careful = FALSE, !.alone = FALSE]
                   ELSE intent[v]]
    BY <1>11 DEF SaveSection
  <2>3. w \notin under /\ intent'[w].op = "save"
    BY <2>1, <2>2 DEF WritesAgree, Unset
  <2>4. ASSUME NEW v \in Write, v \in others PROVE intent'[v].op = "save"
    <3>1. v # w /\ intent[v] \in Intent /\ intent[v].op = "save"
      BY <2>1, <2>4 DEF WritesAgree, Saves, Pending
    <3>2. intent'[v] = [intent[v] EXCEPT !.careful = FALSE, !.alone = FALSE]
      BY <2>2, <2>4, <3>1
    <3> QED
      BY <3>1, <3>2 DEF Intent
  <2>5. \A v \in Write : v # w /\ v \notin others => intent'[v] = intent[v]
    BY <2>2
  <2>6. \A v \in Write : intent'[v].op = "add" => intent'[v].slug \in Slug
    BY <2>3, <2>4, <2>5
  <2>7. \A v \in under \cap applied : intent[v].op \in {"add", "drop"} =>
          v \in under' \cap applied' /\ intent'[v] = intent[v]
    BY <2>1, <2>3, <2>5 DEF WritesAgree, Saves
  <2> QED
    BY <2>1, <2>6, <2>7, KeepsEnvs
<1>12. ASSUME NEW w \in Write, CarryWrite(w) PROVE EnvsAgree'
  <2>1. /\ w \in queued /\ applied' = applied \cup {w}
        /\ UNCHANGED <<intent, active, envs, env, envReads, envsRead, under, settled>>
    BY <1>12 DEF CarryWrite, Carry
  <2>2. PICK p \in Exists : p = intent[w].project
    BY <1>12 DEF CarryWrite
  <2>3. /\ DOMAIN slugs' = Exists' /\ Exists' \subseteq Exists
        /\ \A q \in Exists' : slugs'[q] \subseteq Slug
        /\ \A q \in Exists' : slugs'[q] = slugs[q] \/ (q = p /\ intent[w].op \in {"add", "drop"})
    BY <1>12, <2>2 DEF CarryWrite, Exists, WritesAgree
  <2>4. settled => w \in under
    BY <2>1 DEF WritesAgree
  <2>5. ASSUME NEW found, Fresh(found) PROVE Fresh(found)'
    <3>1. CASE active.id = p /\ intent[w].op \in {"add", "drop"}
      BY <2>1, <2>2, <2>4, <3>1 DEF Fresh
    <3>2. CASE ~(active.id = p /\ intent[w].op \in {"add", "drop"})
      BY <2>1, <2>3, <2>5, <3>2 DEF Fresh
    <3> QED
      BY <3>1, <3>2
  <2>6. \A q \in envReads' : q.current => q.project = active'.id /\ (q.seen # None => Fresh(q.seen)')
    BY <2>1, <2>5
  <2>7. Fresh(envs) => Fresh(envs)'
    <3>1. PICK found : found = envs
      OBVIOUS
    <3>2. Fresh(found) => Fresh(found)'
      BY <2>5
    <3> QED
      BY <2>1, <3>1, <3>2 DEF Fresh, Exists
  <2> QED
    BY <2>1, <2>3, <2>6, <2>7
<1>13. ASSUME NEW w \in Write, Saved(w) PROVE EnvsAgree'
  <2>1. /\ w \in under \cap applied /\ intent[w].op = "save" /\ under' = under \ {w} /\ Adopt(w)
        /\ UNCHANGED <<settings, slugs, intent, settled, applied, env, envsRead>>
    BY <1>13 DEF Saved, Answers, api
  <2>2. \A v \in under : intent[v].op \in {"add", "drop"} => v \in under'
    BY <2>1
  <2>3. active' = [id |-> intent[w].project, copy |-> w, behind |-> ~intent[w].alone]
    BY <2>1 DEF Adopt, Activate
  <2>4. CASE form.saving = w
    <3>1. UNCHANGED <<envs, envReads>> /\ active'.id = active.id
      BY <2>1, <2>3, <2>4, ApiAssumption DEF Adopt, FormAgrees
    <3> QED
      BY <2>1, <2>2, <3>1, KeepsEnvs
  <2>5. CASE form.saving # w
    <3>1. PICK project : Activate(project, under \ {w})
      BY <2>1, <2>5 DEF Adopt
    <3>2. project \in [id: Project \cup {None}, copy: Copy, behind: BOOLEAN]
      <4>1. active' = project
        BY <3>1 DEF Activate
      <4> QED
        BY <4>1 DEF FormAgrees
    <3> QED
      BY <2>1, <2>2, <3>1, <3>2, ActivateReads DEF ListsAgree
  <2> QED
    BY <2>4, <2>5
<1>14. ASSUME NEW w \in Write, ProjectDeleted(w) \/ WriteFails(w) PROVE EnvsAgree'
  <2>1. /\ UNCHANGED <<slugs, envs, env, envReads, envsRead, active, settings, intent, applied>>
        /\ under' = under \ {w}
    BY <1>14 DEF ProjectDeleted, WriteFails, Answers, api
  <2>2. (settled' => settled) /\ (intent[w].op = "delete" \/ ~settled' \/ w \notin applied)
    <3>1. ASSUME ProjectDeleted(w) PROVE intent[w].op = "delete" /\ settled' = settled
      BY <3>1 DEF ProjectDeleted, Answers
    <3>2. ASSUME WriteFails(w) PROVE settled' => settled /\ w \notin applied
      BY <3>2 DEF WriteFails
    <3> QED
      BY <1>14, <3>1, <3>2
  <2> QED
    BY <2>1, <2>2, KeepsEnvs
<1>15. ASSUME NEW w \in Write, EnvChanged(w) PROVE EnvsAgree'
  <2>1. UNCHANGED <<slugs, envs, env, envsRead, active, settings, intent, settled, applied>>
    BY <1>15 DEF EnvChanged, api
  <2>2. CASE active.id = None
    <3>1. envReads' = envReads /\ active'.id \notin Exists'
      BY <1>15, <2>1, <2>2, WorkspaceAssumption DEF EnvChanged, ListsAgree, Exists
    <3> QED
      BY <2>1, <3>1 DEF Fresh, Exists
  <2>3. CASE active.id # None
    <3>1. ReadEnvs(active.id) /\ active.id \in Project
      BY <1>15, <2>3 DEF EnvChanged, FormAgrees
    <3>2. PICK p \in Project : p = active.id
      BY <3>1
    <3>3. /\ envReads' \in SUBSET EnvRead
          /\ \A r \in envReads' : r.current => r.project = p /\ r.seen = None
          /\ \E r \in envReads' : r.current
      BY <3>1, <3>2, ReadEnvsStep
    <3> QED
      BY <2>1, <3>2, <3>3 DEF Exists
  <2> QED
    BY <2>2, <2>3
<1> QED
  BY <1>1, <1>2, <1>3, <1>4, <1>5, <1>6, <1>7, <1>9, <1>10, <1>11, <1>12, <1>13, <1>14, <1>15 DEF WorkspaceNext

EnvsKnown == part = "workspace" => EnvsAgree

\* EnvsKnown holds in every state.
LEMMA EnvsHold == Spec => []EnvsKnown
<1>1. Init => EnvsKnown
  <2> SUFFICES ASSUME Init PROVE EnvsAgree
    BY DEF EnvsKnown
  <2>1. /\ settings = [p \in Project |-> None] /\ slugs = FirstSlugs /\ intent = [w \in Write |-> Unset]
        /\ envs = {} /\ env = DefaultEnv /\ envReads = {} /\ envsRead = FALSE
    BY DEF Init, WorkspaceInit
  <2> QED
    BY <2>1, WorkspaceAssumption DEF EnvsAgree, Exists, Unset
<1>2. SettingsAgree /\ SettingsAgree' /\ EnvsKnown /\ [Next]_vars => EnvsKnown'
  <2> SUFFICES ASSUME SettingsAgree, SettingsAgree', EnvsKnown, [Next]_vars, part' = "workspace" PROVE EnvsAgree'
    BY DEF EnvsKnown
  <2>1. part = "workspace"
    BY DEF Next, vars
  <2>2. /\ EnvsAgree /\ WritesAgree /\ ListsAgree /\ SavesAgree /\ FormAgrees /\ WritesAgree' /\ FormAgrees'
    BY <2>1 DEF SettingsAgree, EnvsKnown
  <2>3. \/ WorkspaceNext
        \/ \E w \in Write : Refuse(w) /\ UNCHANGED workspace
        \/ UNCHANGED <<api, workspace>>
    BY <2>1 DEF Next, ServerWrites, vars
  <2>4. ASSUME UNCHANGED workspace, UNCHANGED applied PROVE EnvsAgree'
    <3>1. UNCHANGED <<slugs, envs, env, envReads, envsRead, active, settings, intent, under, settled, applied>>
      BY <2>4 DEF workspace
    <3>2. \A w \in Write : intent'[w].op = "add" => intent'[w].slug \in Slug
      BY <2>2, <3>1 DEF EnvsAgree
    <3> QED
      BY <2>2, <3>1, <3>2, KeepsEnvs
  <2> QED
    BY <2>2, <2>3, <2>4, EnvsStep DEF Refuse, api
<1> QED
  BY <1>1, <1>2, SettingsHold, PTL DEF Spec

\* Once nothing is awaited and nothing was given up, the environments shown are the
\* active project's, in whatever order they were read (ProjectContext.tsx).
THEOREM EnvironmentsAreTheProjects == Spec => []EnvironmentsMatchProject
<1>1. SettingsAgree /\ EnvsKnown => EnvironmentsMatchProject
  <2> SUFFICES ASSUME SettingsAgree, EnvsKnown, active.id \in Exists, envsRead, settled,
                      \A r \in envReads : ~r.current, Pending(active.id, under) = {}
               PROVE  envs = slugs[active.id] /\ (env \in envs \/ envs = {})
    BY DEF EnvironmentsMatchProject
  <2>1. CASE part = "workspace"
    <3>1. EnvsAgree /\ Fresh(envs)
      BY <2>1 DEF EnvsKnown, EnvsAgree
    <3> QED
      BY <3>1 DEF EnvsAgree, Fresh, Pending
  <2>2. CASE part # "workspace"
    <3>1. active.id = None /\ Exists \subseteq Project
      BY <2>2 DEF SettingsAgree, NoProject
    <3> QED
      BY <3>1, WorkspaceAssumption
  <2> QED
    BY <2>1, <2>2
<1> QED
  BY <1>1, SettingsHold, EnvsHold, PTL
-----------------------------------------------------------------------------
(* The types of the parts. *)

\* A write that was made stays made, and one that was carried out stays carried out.
LEMMA WritesOnlyAdvance ==
    ASSUME ApiTypeOK, [Next]_vars
    PROVE  ApiTypeOK' /\ unsent' \subseteq unsent /\ applied \subseteq applied'
BY ApiStep DEF ApiTypeOK, Send, Carry, Refuse, api

Runs == [choice: [source: Source, document: File \cup {None}, conflict: Conflict, target: Target],
         write: Write \cup {None}]

\* A request of the import dialog has a document, unless its write was never sent.
ImportTyped ==
    /\ ImportTypeOK
    /\ run \in Runs \cup {None}
    /\ part # "import" => run = None
    /\ run # None /\ run.choice.document = None => run.write \in unsent

\* A step of the import dialog keeps its types.
LEMMA ImportTypes ==
    ASSUME ApiTypeOK, ImportTyped, part = "import", part' = part, ImportNext
    PROVE  ImportTyped'
<1> USE DEF ImportTypeOK, ImportTyped, Source, Conflict
<1>1. Now \in [source: Source, document: File \cup {None}, conflict: Conflict, target: Target]
  BY DEF Now
<1>2. CASE OpenImport
  BY <1>2 DEF OpenImport, api
<1>3. CASE CloseImport
  BY <1>3 DEF CloseImport, DropReport, Idle, api
<1>4. CASE Preview
  <2>1. run' = [choice |-> Now, write |-> None] /\ Now.document # None
        /\ UNCHANGED <<target, dialog, parsing, report, finished, rushed, unsent>>
    BY <1>4 DEF Preview, api, Now
  <2>2. run' \in Runs /\ run'.choice = Now /\ run'.write = None
    BY <1>1, <2>1 DEF Runs
  <2> QED BY <2>1, <2>2 DEF Runs
<1>5. CASE RunEnds
  <2>1. /\ run # None /\ (run.write # None => run.write \in applied)
        /\ report' = run.choice /\ finished' = (finished \/ run.write # None) /\ run' = None
        /\ UNCHANGED <<target, dialog, parsing, rushed, unsent>>
    BY <1>5 DEF RunEnds, api
  <2>2. run \in Runs /\ run.choice.document # None
    <3>1. run.choice.document = None => run.write # None /\ run.write \notin applied
      BY <2>1, ApiAssumption DEF ApiTypeOK, Runs
    <3> QED BY <2>1, <3>1
  <2>3. run.choice \in Choice
    BY <2>2 DEF Runs, Choice
  <2>4. report' # None
    BY <2>1, <2>3, ImportAssumption
  <2> QED BY <2>1, <2>3, <2>4
<1>6. CASE RunFails
  BY <1>6 DEF RunFails, api
<1>7. ASSUME NEW s \in Source, ChooseSource(s) PROVE ImportTyped'
  BY <1>7 DEF ChooseSource, DropReport, Idle, api
<1>8. ASSUME NEW c \in Conflict, ChooseConflict(c) PROVE ImportTyped'
  BY <1>8 DEF ChooseConflict, DropReport, Idle, api
<1>9. ASSUME NEW f \in File, PickFile(f) PROVE ImportTyped'
  BY <1>9 DEF PickFile, DropReport, Idle, api
<1>10. ASSUME NEW f \in File, FileParsed(f) \/ FileUnreadable(f) PROVE ImportTyped'
  BY <1>10 DEF FileParsed, FileUnreadable, api
<1>11. ASSUME NEW t \in Target, SwitchTarget(t) PROVE ImportTyped'
  BY <1>11 DEF SwitchTarget, Idle, api
<1>12. ASSUME NEW w \in Write, ImportForReal(w) PROVE ImportTyped'
  <2>1. /\ run' = [choice |-> Now, write |-> w] /\ w \in unsent
        /\ Now.document = None => UNCHANGED unsent
        /\ UNCHANGED <<target, dialog, parsing, report, finished, rushed>>
    BY <1>12 DEF ImportForReal, api, Now
  <2>2. run' \in Runs /\ run'.choice = Now /\ run'.write = w
    BY <1>1, <2>1 DEF Runs
  <2> QED BY <2>1, <2>2 DEF Runs
<1> QED
  BY <1>2, <1>3, <1>4, <1>5, <1>6, <1>7, <1>8, <1>9, <1>10, <1>11, <1>12 DEF ImportNext

\* The import dialog is well-typed in every state.
LEMMA ImportTypesHold == Spec => []ImportTyped
<1>1. Init => ImportTyped
  <2> SUFFICES ASSUME Init PROVE ImportTyped
    OBVIOUS
  <2>1. ImportInit
    BY DEF Init
  <2> QED BY <2>1 DEF ImportInit, ImportTyped, ImportTypeOK, Source, Conflict
<1>2. ApiTypeOK /\ ImportTyped /\ [Next]_vars => ImportTyped'
  <2> SUFFICES ASSUME ApiTypeOK, ImportTyped, [Next]_vars PROVE ImportTyped'
    OBVIOUS
  <2>1. \/ part = "import" /\ ImportNext
        \/ UNCHANGED importing /\ (part = "import" => UNCHANGED unsent)
    BY DEF Next, vars, ServerWrites, Refuse, Carry, api
  <2>2. UNCHANGED part
    BY DEF Next, vars
  <2>3. ASSUME UNCHANGED importing, part = "import" => UNCHANGED unsent PROVE ImportTyped'
    BY <2>2, <2>3 DEF importing, ImportTyped, ImportTypeOK
  <2> QED
    BY <2>1, <2>2, <2>3, ImportTypes
<1> QED
  BY <1>1, <1>2, WritesAreWrites, PTL DEF Spec

\* Of the card's reads no two have the same number.
EditorTyped ==
    /\ EditorTypeOK
    /\ part # "editor" => EditorInit

\* A reload adds a load with an id of its own.
LEMMA ReloadTypes ==
    ASSUME loads \subseteq Load, \A k, l \in loads : k.id = l.id => k = l, Reload
    PROVE  /\ loads' \subseteq Load /\ loads' # {} /\ state' = "loading"
           /\ \A k, l \in loads' : k.id = l.id => k = l
<1>1. PICK id \in (1..MaxLoads) \ {l.id : l \in loads} :
        loads' = {[l EXCEPT !.clean = FALSE] : l \in loads} \cup
                 {[id |-> id, clean |-> loads = {} /\ queued = {}, seen |-> "nothing"]}
  BY DEF Reload
<1> DEFINE new == [id |-> id, clean |-> loads = {} /\ queued = {}, seen |-> "nothing"]
           Aged(l) == [l EXCEPT !.clean = FALSE]
<1>2. new \in Load /\ new.id = id
  <2>1. (loads = {} /\ queued = {}) \in BOOLEAN
    OBVIOUS
  <2> QED BY <2>1 DEF Load
<1>3. ASSUME NEW l \in loads PROVE Aged(l) \in Load /\ Aged(l).id = l.id
  <2>1. l \in Load
    OBVIOUS
  <2> QED BY <2>1 DEF Load
<1>4. \A l \in loads : l.id # id
  BY <1>1
<1>5. loads' = {Aged(l) : l \in loads} \cup {new}
  BY <1>1
<1>6. state' = "loading"
  BY DEF Reload
<1> HIDE DEF new, Aged
<1>7. \A l \in loads' : l = new \/ \E k \in loads : l = Aged(k)
  BY <1>5
<1> QED BY <1>2, <1>3, <1>4, <1>5, <1>6, <1>7

\* A step of the rule editor keeps its types.
LEMMA EditorTypes ==
    ASSUME ApiTypeOK, EditorTyped, part = "editor", part' = part, EditorNext
    PROVE  EditorTyped'
<1> USE DEF EditorTypeOK, EditorTyped
<1>1. CASE MountCard \/ RetryLoad \/ SaveSucceeds
  <2>1. /\ Reload /\ UNCHANGED <<kind, rules, base, unsent, applied, doubt>>
        /\ mine' \in {mine, "unread"} /\ editor' \in {editor, Closed} /\ saving' \in {saving, None}
    BY <1>1 DEF MountCard, RetryLoad, SaveSucceeds, api
  <2>2. /\ loads' \subseteq Load /\ loads' # {} /\ state' = "loading"
        /\ \A k, l \in loads' : k.id = l.id => k = l
    BY <2>1, ReloadTypes
  <2> QED BY <2>1, <2>2
<1>2. CASE LeaveCard
  BY <1>2 DEF LeaveCard, Closed, api
<1>3. ASSUME NEW l \in loads, ServerLoads(l) PROVE EditorTyped'
  <2> DEFINE new == [l EXCEPT !.seen = rules]
  <2>1. l \in Load /\ rules \in Rules
    BY DEF ApiTypeOK, Rules
  <2>2. new \in Load /\ new.id = l.id
    BY <2>1 DEF Load
  <2>3. loads' = (loads \ {l}) \cup {new}
        /\ UNCHANGED <<kind, rules, base, state, mine, editor, saving, doubt, unsent, applied>>
    BY <1>3 DEF ServerLoads, api
  <2> HIDE DEF new
  <2> QED BY <2>2, <2>3
<1>4. ASSUME NEW l \in loads, LoadArrives(l) PROVE EditorTyped'
  <2>1. /\ loads' = loads \ {l} /\ mine' = l.seen /\ l.seen # "nothing" /\ state' = "ready"
        /\ doubt' \in BOOLEAN
        /\ UNCHANGED <<kind, rules, base, saving, unsent, applied>>
    BY <1>4 DEF LoadArrives, api
  <2>2. l \in Load
    OBVIOUS
  <2>3. mine' \in Rules
    BY <2>1, <2>2 DEF Load
  <2> QED BY <2>1, <2>3
<1>5. ASSUME NEW l \in loads, LoadFails(l) PROVE EditorTyped'
  BY <1>5 DEF LoadFails, api
<1>6. CASE OpenEditor
  BY <1>6 DEF OpenEditor, api
<1>7. CASE CloseEditor
  BY <1>7 DEF CloseEditor, Closed, api
<1>8. CASE SaveFails
  BY <1>8 DEF SaveFails, api
<1>9. ASSUME NEW w \in Write, Save(w) PROVE EditorTyped'
  <2> DEFINE new == [from |-> editor.from, careful |-> editor.careful /\ Settled]
             Kept(v) == [base[v] EXCEPT !.careful = @ /\ v \notin queued]
             Aged(l) == [l EXCEPT !.clean = FALSE]
  <2>1. /\ base' = [v \in Write |-> IF v = w THEN new ELSE Kept(v)]
        /\ loads' = {Aged(l) : l \in loads}
        /\ saving' = w /\ w \in unsent /\ unsent' = unsent \ {w} /\ editor.open
        /\ UNCHANGED <<kind, rules, state, mine, editor, doubt, applied>>
    BY <1>9 DEF Save, Send
  <2>2. ASSUME NEW v \in unsent' PROVE base'[v] = Unmade
    <3>1. v # w /\ v \in Write /\ base[v] = Unmade
      BY <2>1, <2>2 DEF ApiTypeOK
    <3> DEFINE careful == base[v].careful /\ v \notin queued
    <3>2. careful = FALSE
      BY <3>1 DEF Unmade
    <3>3. Kept(v) = [base[v] EXCEPT !.careful = careful]
      OBVIOUS
    <3> HIDE DEF careful
    <3>4. PICK b : b = FALSE
      OBVIOUS
    <3>5. base[v] = [from |-> None, careful |-> b] /\ careful = b
      BY <3>1, <3>2, <3>4 DEF Unmade
    <3>6. Kept(v) = base[v]
      BY <3>3, <3>5
    <3> QED BY <2>1, <3>1, <3>6
  <2>3. ASSUME NEW l \in loads PROVE Aged(l) \in Load /\ Aged(l).id = l.id
    <3>1. l \in Load
      OBVIOUS
    <3> QED BY <3>1 DEF Load
  <2> HIDE DEF Aged, new, Kept
  <2>4. \A l \in loads' : \E k \in loads : l = Aged(k)
    BY <2>1
  <2>5. loads' \subseteq Load /\ \A k, l \in loads' : k.id = l.id => k = l
    BY <2>3, <2>4
  <2>6. state = "loading" => loads' # {}
    BY <2>1
  <2> QED BY <2>1, <2>2, <2>5, <2>6 DEF ApiTypeOK
<1>10. ASSUME NEW w \in Write, Replace(w) PROVE EditorTyped'
  BY <1>10 DEF Replace, Carry, ApiTypeOK
<1> QED
  BY <1>1, <1>2, <1>3, <1>4, <1>5, <1>6, <1>7, <1>8, <1>9, <1>10 DEF EditorNext

\* The rule editor is well-typed in every state.
LEMMA EditorTypesHold == Spec => []EditorTyped
<1>1. Init => EditorTyped
  <2> SUFFICES ASSUME Init PROVE EditorTyped
    OBVIOUS
  <2>1. EditorInit
    BY DEF Init
  <2> QED BY <2>1 DEF EditorInit, EditorTyped, EditorTypeOK, Closed, Unmade, Rules
<1>2. ApiTypeOK /\ EditorTyped /\ [Next]_vars => EditorTyped'
  <2> SUFFICES ASSUME ApiTypeOK, EditorTyped, [Next]_vars PROVE EditorTyped'
    OBVIOUS
  <2>1. (part = "editor" /\ EditorNext) \/ UNCHANGED editing
    BY DEF Next, vars
  <2>2. UNCHANGED part
    BY DEF Next, vars
  <2>3. unsent' \subseteq unsent /\ applied \subseteq applied'
    BY WritesOnlyAdvance
  <2>4. ASSUME UNCHANGED editing PROVE EditorTyped'
    BY <2>2, <2>3, <2>4 DEF editing, EditorTyped, EditorTypeOK, EditorInit
  <2> QED
    BY <2>1, <2>2, <2>4, EditorTypes
<1> QED
  BY <1>1, <1>2, WritesAreWrites, PTL DEF Spec

\* What the page waits for are writes that were made.
PageTyped == PageTypeOK /\ (\A a \in acts : a.write \notin unsent)

\* A fetch of the flag page has an id of its own.
LEMMA FetchTypes ==
    ASSUME PageTyped, NEW k \in FlagKey, NEW at, NEW initial \in BOOLEAN, NEW as, FetchFlag(k, at, initial, as)
    PROVE  /\ fetches' \subseteq Fetching /\ \A f, g \in fetches' : f.id = g.id => f = g
           /\ loading' \in BOOLEAN /\ failed' \in BOOLEAN /\ strayed' \in BOOLEAN
<1>1. PICK id \in (1..MaxFetches) \ {f.id : f \in fetches} :
        fetches' = fetches \cup {[id |-> id, key |-> k, initial |-> initial, seen |-> None]}
  BY DEF FetchFlag
<1> DEFINE new == [id |-> id, key |-> k, initial |-> initial, seen |-> None]
<1>2. new \in Fetching /\ new.id = id
  BY DEF Fetching
<1>3. \A f \in fetches : f.id # id
  BY <1>1
<1>4. loading' \in BOOLEAN /\ failed' \in BOOLEAN /\ strayed' \in BOOLEAN
  BY DEF FetchFlag
<1> HIDE DEF new
<1>5. fetches' = fetches \cup {new}
  BY <1>1 DEF new
<1> QED BY <1>2, <1>3, <1>4, <1>5 DEF PageTyped, PageTypeOK

\* An act whose page is taken down is still an act, for the same write.
LEMMA TakenDownTypes ==
    ASSUME NEW as \in SUBSET Act
    PROVE  \A a \in TakenDown(as) : a \in Act /\ \E b \in as : a.write = b.write
<1> DEFINE Down(b) == [b EXCEPT !.busy = @ /\ b.op # "edit"]
<1>1. ASSUME NEW b \in as PROVE Down(b) \in Act /\ Down(b).write = b.write
  <2>1. b \in Act
    OBVIOUS
  <2>2. (b.busy /\ b.op # "edit") \in BOOLEAN
    OBVIOUS
  <2> QED BY <2>1, <2>2 DEF Act
<1>2. TakenDown(as) = {Down(b) : b \in as}
  BY DEF TakenDown
<1> HIDE DEF Down
<1> QED BY <1>1, <1>2

\* A step of the flag page keeps its types.
LEMMA PageTypes ==
    ASSUME ApiTypeOK, PageTyped, url # None, PageRequests \/ PageClicks
    PROVE  PageTyped'
<1> USE DEF PageTyped, PageTypeOK
<1>0. url \in FlagKey
  OBVIOUS
<1>1. ASSUME NEW f \in fetches, ServerFetches(f) PROVE PageTyped'
  <2> DEFINE new == Answered(f)
  <2>1. f \in Fetching
    OBVIOUS
  <2>2. new \in Fetching /\ new.id = f.id
    BY <2>1 DEF Answered, Fetching, ApiTypeOK
  <2>3. fetches' = (fetches \ {f}) \cup {new}
        /\ UNCHANGED <<url, page, loading, failed, acts, pageReported, strayed, unsent>>
    BY <1>1 DEF ServerFetches, api
  <2> HIDE DEF new
  <2> QED BY <2>2, <2>3
<1>2. ASSUME NEW f \in fetches, FlagArrives(f) PROVE PageTyped'
  <2>1. f \in Fetching /\ f.seen # None
    BY <1>2 DEF FlagArrives
  <2>2. /\ page' = [key |-> f.key, seen |-> f.seen] /\ fetches' = fetches \ {f} /\ loading' \in BOOLEAN
        /\ UNCHANGED <<url, failed, acts, pageReported, strayed, unsent>>
    BY <1>2 DEF FlagArrives, Ended, api
  <2>3. page' \in [key: FlagKey, seen: SUBSET Write]
    BY <2>1, <2>2 DEF Fetching
  <2> QED BY <2>2, <2>3
<1>3. ASSUME NEW f \in fetches, FetchFails(f) PROVE PageTyped'
  <2>1. /\ acts' = TakenDown(acts) /\ fetches' = fetches \ {f} /\ loading' \in BOOLEAN /\ failed' = TRUE
        /\ UNCHANGED <<url, page, pageReported, strayed, unsent>>
    BY <1>3 DEF FetchFails, Ended, api
  <2>2. \A a \in acts' : a \in Act /\ \E b \in acts : a.write = b.write
    BY <2>1, TakenDownTypes
  <2> QED BY <2>1, <2>2
<1>4. ASSUME NEW a \in acts, Toggled(a) PROVE PageTyped'
  <2>1. /\ FetchFlag(a.key, url, FALSE, acts \ {a}) /\ acts' = acts \ {a}
        /\ pageReported' = pageReported \cup {a.write} /\ UNCHANGED <<url, page, unsent>>
    BY <1>4 DEF Toggled, Ends, api
  <2>2. a.key \in FlagKey /\ a.write \in Write \ unsent
    BY DEF Act
  <2>3. /\ fetches' \subseteq Fetching /\ \A f, g \in fetches' : f.id = g.id => f = g
        /\ loading' \in BOOLEAN /\ failed' \in BOOLEAN /\ strayed' \in BOOLEAN
    BY <2>1, <2>2, FetchTypes
  <2> QED BY <2>1, <2>2, <2>3
<1>5. ASSUME NEW a \in acts, Edited(a) PROVE PageTyped'
  <2>1. /\ acts' = acts \ {a} /\ page' = [key |-> a.key, seen |-> a.seen] /\ a.seen # None
        /\ pageReported' = pageReported \cup {a.write}
        /\ UNCHANGED <<url, loading, failed, fetches, strayed, unsent>>
    BY <1>5 DEF Edited, Ends, api
  <2>2. a \in Act /\ a.write \in Write \ unsent
    BY DEF Act
  <2>3. page' \in [key: FlagKey, seen: SUBSET Write]
    BY <2>1, <2>2 DEF Act
  <2> QED BY <2>1, <2>2, <2>3
<1>6. ASSUME NEW a \in acts, ActFails(a) PROVE PageTyped'
  BY <1>6 DEF ActFails, Ends, api
<1>7. ASSUME NEW k \in FlagKey, GoTo(k) PROVE PageTyped'
  <2>1. /\ url' = k /\ FetchFlag(k, k, TRUE, acts) /\ acts' = TakenDown(acts)
        /\ UNCHANGED <<page, pageReported, unsent>>
    BY <1>7 DEF GoTo, api
  <2>2. /\ fetches' \subseteq Fetching /\ \A f, g \in fetches' : f.id = g.id => f = g
        /\ loading' \in BOOLEAN /\ failed' \in BOOLEAN /\ strayed' \in BOOLEAN
    BY <2>1, FetchTypes
  <2>3. \A a \in acts' : a \in Act /\ \E b \in acts : a.write = b.write
    BY <2>1, TakenDownTypes
  <2>4. url' # None
    BY <2>1, FlagKeyAssumption
  <2> QED BY <2>1, <2>2, <2>3, <2>4
<1>8. CASE RetryFlag
  <2>1. FetchFlag(url, url, TRUE, acts) /\ UNCHANGED <<url, page, acts, pageReported, unsent>>
    BY <1>8 DEF RetryFlag, api
  <2>2. /\ fetches' \subseteq Fetching /\ \A f, g \in fetches' : f.id = g.id => f = g
        /\ loading' \in BOOLEAN /\ failed' \in BOOLEAN /\ strayed' \in BOOLEAN
    BY <1>0, <2>1, FetchTypes
  <2> QED BY <2>1, <2>2
<1>9. ASSUME NEW w \in Write, NEW op \in {"toggle", "edit", "delete"}, StartAct(w, op) PROVE PageTyped'
  <2> DEFINE key == IF op = "toggle" THEN url ELSE page.key
             new == [write |-> w, op |-> op, key |-> key, seen |-> None, busy |-> TRUE]
  <2>1. /\ Shows /\ acts' = acts \cup {new} /\ strayed' \in BOOLEAN
        /\ w \in unsent /\ unsent' = unsent \ {w}
        /\ UNCHANGED <<url, page, loading, failed, fetches, pageReported>>
    BY <1>9 DEF StartAct, Send
  <2>2. key \in FlagKey
    BY <1>0, <2>1 DEF Shows
  <2>3. new \in Act /\ new.write = w
    BY <2>2 DEF Act
  <2> HIDE DEF new, key
  <2> QED BY <2>1, <2>3
<1> QED
  BY <1>1, <1>2, <1>3, <1>4, <1>5, <1>6, <1>7, <1>8, <1>9 DEF PageRequests, PageClicks

\* The flag page is well-typed in every state.
LEMMA PageTypesHold == Spec => []PageTyped
<1>1. Init => PageTyped
  BY DEF Init, PageBlank, PageTyped, PageTypeOK
<1>2. ApiTypeOK /\ PageTyped /\ [Next]_vars => PageTyped'
  <2> SUFFICES ASSUME ApiTypeOK, PageTyped, [Next]_vars PROVE PageTyped'
    OBVIOUS
  <2>1. ApiTypeOK' /\ unsent' \subseteq unsent /\ applied \subseteq applied'
    BY WritesOnlyAdvance
  <2>2. ASSUME UNCHANGED pageVars PROVE PageTyped'
    BY <2>1, <2>2 DEF pageVars, PageTyped, PageTypeOK, PageBlank
  <2>3. ASSUME LeaveFlag PROVE PageTyped'
    BY <2>3 DEF LeaveFlag, PageBlank, PageTyped, PageTypeOK
  <2>4. ASSUME NEW k \in FlagKey, OpenFlag(k) PROVE PageTyped'
    <3>1. /\ url' = k /\ page' = None /\ acts' = {} /\ pageReported' = {} /\ FetchFlag(k, k, TRUE, {})
      BY <2>4 DEF OpenFlag
    <3>2. /\ fetches' \subseteq Fetching /\ \A f, g \in fetches' : f.id = g.id => f = g
          /\ loading' \in BOOLEAN /\ failed' \in BOOLEAN /\ strayed' \in BOOLEAN
      BY <3>1, FetchTypes
    <3> QED BY <3>1, <3>2, FlagKeyAssumption DEF PageTyped, PageTypeOK
  <2>5. ASSUME NEW w \in Write, CarryAct(w) PROVE PageTyped'
    <3> DEFINE Told(a) == IF a.write = w THEN [a EXCEPT !.seen = applied'] ELSE a
    <3>1. /\ acts' = {Told(a) : a \in acts}
          /\ UNCHANGED <<url, page, loading, failed, fetches, pageReported, strayed, unsent>>
      BY <2>5 DEF CarryAct, Carry
    <3>2. ASSUME NEW a \in acts PROVE Told(a) \in Act /\ Told(a).write = a.write
      <4>1. a \in Act /\ applied' \in SUBSET Write
        BY <2>1 DEF PageTyped, PageTypeOK, ApiTypeOK
      <4> QED BY <4>1 DEF Act
    <3> HIDE DEF Told
    <3>3. \A b \in acts' : \E a \in acts : b = Told(a)
      BY <3>1
    <3>4. acts = {} => acts' = {}
      BY <3>1
    <3> QED BY <3>1, <3>2, <3>3, <3>4 DEF PageTyped, PageTypeOK, PageBlank
  <2>6. ASSUME PageRequests \/ PageClicks PROVE PageTyped'
    <3>1. CASE url = None
      <4>1. acts = {} /\ fetches = {} /\ ~Shows /\ ~failed
        BY <3>1 DEF PageTyped, PageTypeOK, PageBlank, Shows
      <4>2. FALSE
        BY <2>6, <3>1, <4>1 DEF PageRequests, PageClicks, GoTo, RetryFlag, StartAct
      <4> QED BY <4>2
    <3>2. CASE url # None
      BY <2>6, <3>2, PageTypes
    <3> QED BY <3>1, <3>2
  <2>7. ASSUME ScreensNext PROVE PageTyped'
    <3>1. ASSUME OpenList \/ CloseList PROVE UNCHANGED pageVars
      <4>1. ASSUME OpenList PROVE UNCHANGED pageVars
        BY <4>1 DEF OpenList
      <4>2. ASSUME CloseList PROVE UNCHANGED pageVars
        BY <4>2 DEF CloseList
      <4> QED BY <3>1, <4>1, <4>2
    <3>2. ASSUME ListToFlag PROVE \E k \in FlagKey : OpenFlag(k)
      BY <3>2 DEF ListToFlag
    <3>3. ASSUME FlagToList \/ FlagIsDeleted PROVE LeaveFlag
      BY <3>3 DEF FlagToList, FlagIsDeleted, Deleted
    <3>4. ASSUME ListNext /\ UNCHANGED pageVars PROVE PageTyped'
      BY <2>2, <3>4
    <3>5. ASSUME PageRequests \/ PageClicks \/ \E w \in Write : CarryAct(w) PROVE PageTyped'
      BY <2>5, <2>6, <3>5
    <3> QED
      BY <2>2, <2>3, <2>4, <2>7, <3>1, <3>2, <3>3, <3>4, <3>5 DEF ScreensNext
  <2>8. ScreensNext \/ UNCHANGED pageVars
    BY DEF Next, vars, screens
  <2> QED
    BY <2>2, <2>7, <2>8
<1> QED
  BY <1>1, <1>2, WritesAreWrites, PTL DEF Spec

\* A list awaits the newest of its reads while it is loading, and nothing otherwise;
\* a key on offer was issued.
ListTyped ==
    /\ screen \in Kind \cup {None}
    /\ status \in {"away", "loading", "refreshing", "idle", "failed"}
    /\ IF status \in {"loading", "refreshing"} THEN \E r \in reads : r.newest ELSE \A r \in reads : ~r.newest
    /\ shown \in Shown \cup {None}
    /\ selected \in BOOLEAN
    /\ bulk.op \in {None, "all", "resend"} /\ bulk.writes \cup row \cup reported \subseteq Write \ unsent
    /\ (bulk.op = None) = (bulk.writes = {})
    /\ issue \in [open: BOOLEAN, saving: BOOLEAN]
    /\ issuing \cup issued \subseteq Write \ unsent /\ dismissed \subseteq issued /\ reveal \in issued \cup {None}
    /\ overlapped \in BOOLEAN

\* ListTyped gives the types of the list screens.
LEMMA ListTypedIsTyped ==
    ASSUME ApiTypeOK, ListIsCurrent, ListTyped
    PROVE  ListTypeOK
<1> DEFINE newest == {r \in reads : r.newest}
           count == IF status \in {"loading", "refreshing"} THEN 1 ELSE 0
<1>1. Cardinality(newest) = count
  <2>1. CASE status \in {"loading", "refreshing"}
    <3>1. PICK r \in reads : r.newest
      BY <2>1 DEF ListTyped
    <3>2. newest = {r}
      BY <3>1 DEF ListIsCurrent
    <3> HIDE DEF newest
    <3> QED BY <2>1, <3>2, FS_Singleton
  <2>2. CASE status \notin {"loading", "refreshing"}
    <3>1. newest = {}
      BY <2>2 DEF ListTyped
    <3> HIDE DEF newest
    <3> QED BY <2>2, <3>1, FS_EmptySet
  <2> QED BY <2>1, <2>2
<1>2. reveal \in Write \cup {None}
  BY DEF ListTyped
<1> QED
  BY <1>1, <1>2 DEF ListTyped, ListTypeOK, ListIsCurrent

\* A step of the list screens keeps ListTyped.
LEMMA ListTypes ==
    ASSUME ApiTypeOK, ListIsCurrent, ListTyped, ListNext
    PROVE  ListTyped'
<1> USE DEF ListTyped
<1>1. ASSUME NEW rs, NEW a PROVE \E r \in Reading(rs, a) : r.newest
  <2> DEFINE new == [ask |-> a, newest |-> TRUE, seen |-> None]
  <2>1. new \in Reading(rs, a)
    BY DEF Reading
  <2>2. new.newest
    OBVIOUS
  <2> QED BY <2>1, <2>2
<1>2. ASSUME NEW a, Fetch(a)
      PROVE  status' \in {"loading", "refreshing"} /\ \E r \in reads' : r.newest
  BY <1>1, <1>2 DEF Fetch, Busy
<1>3. ASSUME NEW r \in reads, ServerReads(r), UNCHANGED keys PROVE ListTyped'
  <2> DEFINE new == Answered(r)
  <2>1. r \in Read
    BY DEF ListIsCurrent
  <2>2. new.newest = r.newest
    BY <2>1 DEF Answered, Read
  <2>3. reads' = (reads \ {r}) \cup {new}
        /\ UNCHANGED <<screen, ask, status, shown, selected, bulk, row, reported, keys, unsent>>
    BY <1>3 DEF ServerReads, api
  <2> HIDE DEF new
  <2> QED BY <2>2, <2>3 DEF keys
<1>4. ASSUME NEW r \in reads, Arrive(r) \/ (ReadFails(r) /\ UNCHANGED keys) PROVE ListTyped'
  <2>1. r \in Read
    BY DEF ListIsCurrent
  <2>2. /\ reads' = reads \ {r} /\ UNCHANGED <<screen, selected, bulk, row, reported, unsent>>
        /\ IF r.newest THEN status' \in {"idle", "failed"} ELSE UNCHANGED status
    BY <1>4 DEF Arrive, RowsArrive, ReadFails, IsCurrent, api
  <2>3. shown' \in Shown \cup {None}
    <3>1. CASE Arrive(r) /\ r.newest
      <4>1. shown' = [ask |-> r.ask, seen |-> r.seen] /\ r.seen # None
        BY <3>1 DEF Arrive, RowsArrive, IsCurrent
      <4> QED BY <2>1, <4>1 DEF Read, Shown
    <3>2. CASE ~(Arrive(r) /\ r.newest)
      BY <1>4, <3>2 DEF Arrive, RowsArrive, ReadFails, IsCurrent
    <3> QED BY <3>1, <3>2
  <2>4. /\ issue' \in [open: BOOLEAN, saving: BOOLEAN] /\ overlapped' \in BOOLEAN
        /\ UNCHANGED <<issuing, issued, reveal, dismissed>>
    BY <1>4 DEF Arrive, Rebuild, keys
  <2>5. IF status' \in {"loading", "refreshing"} THEN \E q \in reads' : q.newest ELSE \A q \in reads' : ~q.newest
    <3>1. \A q \in reads : q.newest /\ r.newest => q = r
      BY DEF ListIsCurrent
    <3> QED BY <2>2, <3>1
  <2> QED BY <2>2, <2>3, <2>4, <2>5
<1>5. ASSUME NEW q \in Query, ChangeQuery(q), UNCHANGED keys PROVE ListTyped'
  <2>1. /\ status' = Busy /\ UNCHANGED <<screen, shown, bulk, row, reported, unsent, keys>>
        /\ selected' \in BOOLEAN
        /\ \E rs, a : reads' = Reading(rs, a)
    BY <1>5 DEF ChangeQuery, api
  <2>2. status' \in {"loading", "refreshing"} /\ \E r \in reads' : r.newest
    BY <1>1, <2>1 DEF Busy
  <2> QED BY <2>1, <2>2 DEF keys
<1>6. ASSUME NEW p, TurnPage(p), UNCHANGED keys PROVE ListTyped'
  <2>1. \E a : Fetch(a)
    BY <1>6 DEF TurnPage
  <2> QED BY <1>2, <1>6, <2>1 DEF TurnPage, keys, api
<1>7. ASSUME Refresh, UNCHANGED keys PROVE ListTyped'
  BY <1>2, <1>7 DEF Refresh, keys, api
<1>8. ASSUME SelectRows \/ ClearSelection, UNCHANGED keys PROVE ListTyped'
  BY <1>8 DEF SelectRows, ClearSelection, keys, api
<1>9. ASSUME NEW ws \in SUBSET Write, NEW op \in {"all", "resend"}, StartBulk(op, ws) PROVE ListTyped'
  <2>1. /\ ws # {} /\ ws \subseteq unsent /\ unsent' = unsent \ ws
        /\ bulk' = [op |-> op, writes |-> ws] /\ bulk.writes = {}
        /\ UNCHANGED <<screen, ask, reads, status, shown, selected, row, reported, keys>>
    BY <1>9 DEF StartBulk, Send, BarIsUp
  <2>2. op # None
    BY ListAssumption
  <2>3. bulk'.op = op /\ bulk'.writes = ws
    BY <2>1
  <2> QED BY <2>1, <2>2, <2>3 DEF keys
<1>10. ASSUME NEW done, BulkDone(done), done \subseteq bulk.writes, UNCHANGED <<screen, shown, row, api, keys>>
       PROVE  ListTyped'
  <2>1. /\ reported' = reported \cup done /\ bulk' = NoBulk /\ selected' = FALSE /\ Fetch(ask)
        /\ UNCHANGED <<screen, shown, row, unsent, keys>>
    BY <1>10 DEF BulkDone, api
  <2>2. bulk'.op = None /\ bulk'.writes = {}
    BY <2>1 DEF NoBulk
  <2>3. status' \in {"loading", "refreshing"} /\ \E r \in reads' : r.newest
    BY <1>2, <2>1
  <2> QED BY <1>10, <2>1, <2>2, <2>3 DEF keys
<1>11. CASE BulkSucceeds
  BY <1>10, <1>11 DEF BulkSucceeds
<1>12. ASSUME bulk' = NoBulk,
              UNCHANGED <<screen, ask, reads, status, shown, selected, row, reported, api, keys>>
       PROVE  ListTyped'
  <2>1. bulk'.op = None /\ bulk'.writes = {}
    BY <1>12 DEF NoBulk
  <2> QED BY <1>12, <2>1 DEF keys, api
<1>13. CASE BulkFails
  BY <1>12, <1>13 DEF BulkFails
<1>14. ASSUME NEW done, ResendEnds(done) PROVE ListTyped'
  BY <1>10, <1>12, <1>14 DEF ResendEnds
<1>15. ASSUME NEW w \in Write, StartRow(w) PROVE ListTyped'
  BY <1>15 DEF StartRow, Send, keys
<1>16. ASSUME NEW w \in Write, RowSucceeds(w) PROVE ListTyped'
  <2>1. /\ row' = row \ {w} /\ reported' = reported \cup {w} /\ Fetch(ask) /\ w \in row
        /\ UNCHANGED <<screen, shown, selected, bulk, unsent, keys>>
    BY <1>16 DEF RowSucceeds, api
  <2> QED BY <1>2, <2>1 DEF keys
<1>17. ASSUME NEW w \in Write, RowFails(w) PROVE ListTyped'
  BY <1>17 DEF RowFails, keys, api
<1>18. ASSUME NEW w \in Write, RowSucceedsQuietly(w) PROVE ListTyped'
  BY <1>18 DEF RowSucceedsQuietly, keys, api
<1>19. CASE OpenIssue
  BY <1>19 DEF OpenIssue, list, api
<1>20. CASE CloseIssue
  BY <1>20 DEF CloseIssue, list, api
<1>21. CASE DismissReveal
  BY <1>21 DEF DismissReveal, list, api
<1>22. CASE EnvironmentsArrive
  BY <1>22 DEF EnvironmentsArrive, list, api
<1>23. ASSUME NEW w \in Write, SubmitIssue(w) PROVE ListTyped'
  BY <1>23 DEF SubmitIssue, Send, list
<1>24. ASSUME NEW w \in Write, IssueSucceeds(w) PROVE ListTyped'
  <2>1. /\ issuing' = issuing \ {w} /\ w \in issuing /\ issued' = issued \cup {w}
        /\ issue' = NoIssue /\ reveal' = w /\ reported' = reported \cup {w} /\ Fetch(ask)
        /\ UNCHANGED <<screen, shown, selected, bulk, row, dismissed, overlapped, unsent>>
    BY <1>24 DEF IssueSucceeds, Revealed, api
  <2>2. issue' \in [open: BOOLEAN, saving: BOOLEAN]
    BY <2>1 DEF NoIssue
  <2> QED BY <1>2, <2>1, <2>2
<1>25. ASSUME NEW w \in Write, IssueFails(w) PROVE ListTyped'
  BY <1>25 DEF IssueFails, list, api
<1>26. ASSUME ListRequests PROVE ListTyped'
  BY <1>3, <1>4, <1>26 DEF ListRequests
<1>27. ASSUME ListClicks PROVE ListTyped'
  BY <1>5, <1>6, <1>7, <1>8, <1>27 DEF ListClicks
<1>28. ASSUME ListWrites PROVE ListTyped'
  BY <1>9, <1>11, <1>13, <1>14, <1>15, <1>16, <1>17, <1>18, <1>28 DEF ListWrites
<1>29. ASSUME KeyDialogs PROVE ListTyped'
  BY <1>19, <1>20, <1>21, <1>23, <1>24, <1>25, <1>22, <1>29 DEF KeyDialogs
<1> QED
  BY <1>26, <1>27, <1>28, <1>29 DEF ListNext

\* The list screens are well-typed in every state.
LEMMA ListTypesHold == Spec => []ListTypeOK
<1>1. Init => ListTyped
  <2> SUFFICES ASSUME Init PROVE ListTyped
    OBVIOUS
  <2>1. ListInit
    BY DEF Init
  <2>2. /\ screen = None /\ status = "away" /\ reads = {} /\ shown = None /\ selected = FALSE
        /\ row = {} /\ reported = {} /\ issuing = {} /\ issued = {} /\ dismissed = {} /\ reveal = None
        /\ overlapped = FALSE
    BY <2>1 DEF ListInit, ListBlank, KeysBlank
  <2>3. bulk.op = None /\ bulk.writes = {}
    BY <2>1 DEF ListInit, ListBlank, NoBulk
  <2>4. issue \in [open: BOOLEAN, saving: BOOLEAN]
    BY <2>1 DEF ListInit, KeysBlank, NoIssue
  <2> QED BY <2>2, <2>3, <2>4 DEF ListTyped
<1>2. ApiTypeOK /\ ListIsCurrent /\ ListTyped /\ [Next]_vars => ListTyped'
  <2> SUFFICES ASSUME ApiTypeOK, ListIsCurrent, ListTyped, [Next]_vars PROVE ListTyped'
    OBVIOUS
  <2>1. unsent' \subseteq unsent
    BY WritesOnlyAdvance
  <2>2. ASSUME UNCHANGED <<list, keys>> PROVE ListTyped'
    BY <2>1, <2>2 DEF list, keys, ListTyped
  <2>3. ASSUME NEW k \in Kind, NEW q \in Query, Mount(k, q), UNCHANGED keys PROVE ListTyped'
    <3>1. /\ screen' = k /\ status' = "loading" /\ shown' = None /\ selected' = FALSE
          /\ bulk' = NoBulk /\ row' = {} /\ reported' = {} /\ UNCHANGED <<keys, unsent>>
      BY <2>3 DEF Mount, api
    <3>2. \E r \in reads' : r.newest
      <4> DEFINE new == [ask |-> [query |-> q, offset |-> 0], newest |-> TRUE, seen |-> None]
      <4>1. new \in reads'
        BY <2>3 DEF Mount, Reading
      <4>2. new.newest
        OBVIOUS
      <4> QED BY <4>1, <4>2
    <3>3. bulk'.op = None /\ bulk'.writes = {}
      BY <3>1 DEF NoBulk
    <3> QED BY <3>1, <3>2, <3>3 DEF keys, ListTyped
  <2>4. ASSUME Leave PROVE ListTyped'
    <3>1. /\ screen' = None /\ reads' = {} /\ status' = "away" /\ shown' = None /\ selected' = FALSE
          /\ bulk' = NoBulk /\ row' = {} /\ reported' = {}
          /\ issue' = NoIssue /\ issuing' = {} /\ issued' = {} /\ reveal' = None /\ dismissed' = {}
          /\ overlapped' = FALSE
      BY <2>4 DEF Leave, Unmount
    <3>2. bulk'.op = None /\ bulk'.writes = {} /\ issue' \in [open: BOOLEAN, saving: BOOLEAN]
      BY <3>1 DEF NoBulk, NoIssue
    <3> QED BY <3>1, <3>2 DEF ListTyped
  <2> QED
    BY <2>2, <2>3, <2>4, ScreensStep, ListTypes
<1> QED
  BY <1>1, <1>2, ListTypedIsTyped, ListStaysCurrent, WritesAreWrites, PTL DEF Spec

\* What a project's settings are was written by a save carried out, a write not made
\* yet means nothing, and one read of the environments counts at most.
WorkspaceTyped ==
    /\ \A p \in Exists : settings[p] \in applied \cup {None}
    /\ \A w \in unsent : intent[w] = Unset
    /\ \A r, q \in envReads : r.current /\ q.current => r = q

\* At most one read of the environments is current, whatever happens to them.
LEMMA OneReadCounts ==
    ASSUME envReads \in SUBSET EnvRead, WorkspaceTyped,
           \/ envReads' \subseteq envReads
           \/ envReads' = Cancelled(envReads)
           \/ \E p \in Project : ReadEnvs(p)
    PROVE  \A r, q \in envReads' : r.current /\ q.current => r = q
<1>1. CASE envReads' \subseteq envReads
  BY <1>1 DEF WorkspaceTyped
<1>2. CASE envReads' = Cancelled(envReads)
  BY <1>2, CancelledReads
<1>3. ASSUME NEW p \in Project, ReadEnvs(p) PROVE \A r, q \in envReads' : r.current /\ q.current => r = q
  <2> DEFINE new == [project |-> p, current |-> TRUE, seen |-> None]
  <2>1. envReads' = Cancelled(envReads) \cup {new}
    BY <1>3 DEF ReadEnvs
  <2> HIDE DEF new
  <2> QED
    BY <2>1, CancelledReads
<1> QED
  BY <1>1, <1>2, <1>3

\* A step of the workspace keeps WorkspaceTyped.
LEMMA WorkspaceTypes ==
    ASSUME ApiTypeOK, ListsAgree, FormAgrees, FormAgrees', EnvsAgree, WorkspaceTyped, WorkspaceNext,
           unsent' \subseteq unsent, applied \subseteq applied'
    PROVE  WorkspaceTyped'
<1>1. ASSUME UNCHANGED <<settings, intent>>,
             \/ envReads' \subseteq envReads
             \/ envReads' = Cancelled(envReads)
             \/ \E p \in Project : ReadEnvs(p)
      PROVE  WorkspaceTyped'
  BY <1>1, OneReadCounts DEF WorkspaceTyped, EnvsAgree, Exists
<1>2. ASSUME NEW project, NEW waited, Activate(project, waited), UNCHANGED <<settings, intent>>
      PROVE  WorkspaceTyped'
  <2>1. active' = project
    BY <1>2 DEF Activate
  <2>2. project.id \in Project \cup {None}
    BY <2>1 DEF FormAgrees
  <2> QED
    BY <1>1, <1>2, <2>2 DEF Activate
<1>3. ASSUME UNCHANGED <<settings, intent, envReads>> PROVE WorkspaceTyped'
  BY <1>1, <1>3
<1>4. ASSUME ServerLists \/ ProjectsFail \/ OpenSection \/ CloseSection PROVE WorkspaceTyped'
  BY <1>3, <1>4 DEF ServerLists, ProjectsFail, OpenSection, CloseSection
<1>5. ASSUME ProjectsArrive PROVE WorkspaceTyped'
  BY <1>2, <1>5 DEF ProjectsArrive
<1>6. ASSUME NEW p \in Project, SwitchProject(p) PROVE WorkspaceTyped'
  BY <1>2, <1>6 DEF SwitchProject
<1>7. ASSUME NEW r \in envReads, ServerReadsEnvs(r) PROVE WorkspaceTyped'
  <2> DEFINE answer == [r EXCEPT !.seen = slugs[r.project]]
  <2>1. answer.current = r.current
    BY DEF EnvsAgree, EnvRead
  <2>2. envReads' = (envReads \ {r}) \cup {answer} /\ UNCHANGED <<settings, intent>>
    BY <1>7 DEF ServerReadsEnvs
  <2> HIDE DEF answer
  <2>3. \A q, o \in envReads' : q.current /\ o.current => q = o
    BY <2>1, <2>2 DEF WorkspaceTyped
  <2> QED
    BY <2>2, <2>3 DEF WorkspaceTyped, Exists
<1>8. ASSUME NEW r \in envReads, EnvsArrive(r) \/ EnvsFail(r) PROVE WorkspaceTyped'
  BY <1>1, <1>8 DEF EnvsArrive, EnvsFail
<1>9. ASSUME NEW s \in Slug, PickEnv(s) PROVE WorkspaceTyped'
  BY <1>3, <1>9 DEF PickEnv
<1>10. ASSUME NEW w \in Write, Send({w}), UNCHANGED <<settings, envReads>>,
              \A v \in unsent : v # w => intent'[v] = intent[v]
       PROVE  WorkspaceTyped'
  BY <1>10 DEF WorkspaceTyped, Exists, Send
<1>11. ASSUME NEW w \in Write, SaveSection(w) PROVE WorkspaceTyped'
  <2>1. \A v \in unsent : v \notin Saves(Pending(active.id, under))
    BY DEF WorkspaceTyped, Unset, Saves
  <2>2. \A v \in unsent : v # w => intent'[v] = intent[v]
    BY <1>11, <2>1 DEF SaveSection, ApiTypeOK
  <2> QED
    BY <1>10, <1>11, <2>2 DEF SaveSection
<1>12. ASSUME NEW w \in Write, NEW what, Make(w, what) PROVE WorkspaceTyped'
  <2>1. \A v \in unsent : v # w => intent'[v] = intent[v]
    BY <1>12 DEF Make, EnvsAgree
  <2> QED
    BY <1>10, <1>12, <2>1 DEF Make
<1>13. ASSUME NEW w \in Write, DeleteProject(w) PROVE WorkspaceTyped'
  BY <1>12, <1>13 DEF DeleteProject
<1>14. ASSUME NEW w \in Write, NEW op, NEW s \in Slug, ChangeEnv(w, op, s) PROVE WorkspaceTyped'
  BY <1>12, <1>14 DEF ChangeEnv
<1>15. ASSUME NEW w \in Write, CarryWrite(w) PROVE WorkspaceTyped'
  <2>1. /\ applied' = applied \cup {w} /\ UNCHANGED <<intent, envReads>>
        /\ \A p \in Exists' : settings'[p] \in {settings[p], w} /\ p \in Exists
    BY <1>15 DEF CarryWrite, Carry, Exists
  <2> QED
    BY <2>1 DEF WorkspaceTyped
<1>16. ASSUME NEW w \in Write, Saved(w) PROVE WorkspaceTyped'
  BY <1>2, <1>3, <1>16 DEF Saved, Adopt
<1>17. ASSUME NEW w \in Write, ProjectDeleted(w) \/ WriteFails(w) PROVE WorkspaceTyped'
  BY <1>3, <1>17 DEF ProjectDeleted, WriteFails
<1>18. ASSUME NEW w \in Write, EnvChanged(w) PROVE WorkspaceTyped'
  <2>1. active.id \in Project \cup {None}
    BY DEF FormAgrees
  <2> QED
    BY <1>1, <1>18, <2>1 DEF EnvChanged
<1> QED
  BY <1>4, <1>5, <1>6, <1>7, <1>8, <1>9, <1>11, <1>13, <1>14, <1>15, <1>16, <1>17, <1>18 DEF WorkspaceNext

\* WorkspaceTyped gives the types of the workspace.
LEMMA WorkspaceTypedIsTyped ==
    ASSUME WritesAgree, ListsAgree, FormAgrees, EnvsAgree, WorkspaceTyped
    PROVE  WorkspaceTypeOK
<1> DEFINE current == {r \in envReads : r.current}
<1>1. Cardinality(current) <= 1
  <2>1. CASE current = {}
    BY <2>1, FS_EmptySet
  <2>2. CASE current # {}
    <3>1. PICK r : r \in current
      BY <2>2
    <3>2. current = {r}
      BY <3>1 DEF WorkspaceTyped
    <3> HIDE DEF current
    <3>3. Cardinality({r}) = 1
      BY FS_Singleton
    <3> QED
      BY <3>2, <3>3
  <2> QED
    BY <2>1, <2>2
<1>2. active.id \in Project \cup {None} /\ active.copy \in Copy /\ (form.up => active.id # None)
  BY DEF FormAgrees
<1>3. form.saving \in under \cup {None}
  BY DEF FormAgrees, Saves
<1>4. Exists \subseteq Project /\ DOMAIN known \subseteq Project
  BY DEF ListsAgree
<1>5. DOMAIN slugs = Exists /\ envs \subseteq Slug /\ env \in Slug
  BY DEF EnvsAgree
<1>6. under \subseteq Write \ unsent
  BY DEF WritesAgree
<1> QED
  BY <1>1, <1>2, <1>3, <1>4, <1>5, <1>6 DEF WorkspaceTyped, WorkspaceTypeOK

\* The workspace is as it began in a behaviour of another part.
WorkspaceKnown ==
    /\ part = "workspace" => WorkspaceTyped
    /\ part # "workspace" => WorkspaceInit

\* The workspace is well-typed in every state.
LEMMA WorkspaceTypesHold == Spec => []WorkspaceTypeOK
<1>1. Init => WorkspaceKnown
  <2> SUFFICES ASSUME Init PROVE WorkspaceKnown
    OBVIOUS
  <2>1. /\ settings = [p \in Project |-> None] /\ intent = [w \in Write |-> Unset]
        /\ envReads = {} /\ unsent = Write /\ WorkspaceInit
    BY DEF Init, ApiInit, WorkspaceInit
  <2> QED
    BY <2>1 DEF WorkspaceKnown, WorkspaceTyped, Exists
<1>2. ApiTypeOK /\ SettingsAgree /\ SettingsAgree' /\ EnvsKnown /\ WorkspaceKnown /\ [Next]_vars => WorkspaceKnown'
  <2> SUFFICES ASSUME ApiTypeOK, SettingsAgree, SettingsAgree', EnvsKnown, WorkspaceKnown, [Next]_vars
               PROVE  WorkspaceKnown'
    OBVIOUS
  <2>1. UNCHANGED part
    BY DEF Next, vars
  <2>2. unsent' \subseteq unsent /\ applied \subseteq applied'
    BY WritesOnlyAdvance
  <2>3. CASE part # "workspace"
    <3>1. UNCHANGED workspace
      BY <2>3 DEF Next, vars
    <3> QED
      BY <2>1, <2>3, <3>1 DEF WorkspaceKnown, WorkspaceInit, workspace
  <2>4. CASE part = "workspace"
    <3>1. WorkspaceTyped /\ EnvsAgree /\ ListsAgree /\ FormAgrees /\ FormAgrees'
      BY <2>1, <2>4 DEF WorkspaceKnown, EnvsKnown, SettingsAgree
    <3>2. WorkspaceNext \/ UNCHANGED workspace
      BY <2>4 DEF Next, ServerWrites, vars
    <3>3. ASSUME UNCHANGED workspace PROVE WorkspaceTyped'
      BY <2>2, <3>1, <3>3 DEF WorkspaceTyped, Exists, workspace
    <3> QED
      BY <2>1, <2>2, <2>4, <3>1, <3>2, <3>3, WorkspaceTypes DEF WorkspaceKnown
  <2> QED
    BY <2>3, <2>4
<1>3. ApiTypeOK /\ SettingsAgree /\ EnvsKnown /\ WorkspaceKnown => WorkspaceTypeOK
  <2> SUFFICES ASSUME ApiTypeOK, SettingsAgree, EnvsKnown, WorkspaceKnown PROVE WorkspaceTypeOK
    OBVIOUS
  <2>1. CASE part = "workspace"
    BY <2>1, WorkspaceTypedIsTyped DEF SettingsAgree, EnvsKnown, WorkspaceKnown
  <2>2. CASE part # "workspace"
    <3>1. /\ settings = [p \in Project |-> None] /\ slugs = FirstSlugs /\ intent = [w \in Write |-> Unset]
          /\ known = <<>> /\ active = NoProject /\ envs = {} /\ env = DefaultEnv /\ envReads = {}
          /\ form = NoForm /\ under = {}
      BY <2>2 DEF WorkspaceKnown, WorkspaceInit
    <3>2. DOMAIN known = {}
      BY <3>1
    <3>3. ~form.up /\ form.saving = None
      BY <3>1 DEF NoForm
    <3>4. active.id = None /\ active.copy = None
      BY <3>1 DEF NoProject
    <3>5. Cardinality({r \in envReads : r.current}) <= 1
      <4>1. {r \in envReads : r.current} = {}
        BY <3>1
      <4> QED
        BY <4>1, FS_EmptySet
    <3>6. unsent \subseteq Write
      BY DEF ApiTypeOK
    <3> QED
      BY <3>1, <3>2, <3>3, <3>4, <3>5, <3>6, WorkspaceAssumption DEF WorkspaceTypeOK, Exists, Copy
  <2> QED
    BY <2>1, <2>2
<1> QED
  BY <1>1, <1>2, <1>3, WritesAreWrites, SettingsHold, EnvsHold, PTL DEF Spec

\* Every variable of the admin UI has a value of its kind, what is not mounted is
\* blank, and a list awaits the newest of its reads exactly while it is loading.
THEOREM TypesHold == Spec => []TypeOK
<1>1. /\ ListTypeOK /\ PageTyped /\ EditorTyped /\ ImportTyped /\ WorkspaceTypeOK => TypeOK
  BY DEF TypeOK, PageTyped, EditorTyped, ImportTyped
<1> QED
  BY <1>1, ListTypesHold, PageTypesHold, EditorTypesHold, ImportTypesHold, WorkspaceTypesHold, PTL
=============================================================================
