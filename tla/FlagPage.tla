------------------------------- MODULE FlagPage -------------------------------
(***************************************************************************)
(* The page of one flag (FlagDetailScreen.tsx).  Unlike the lists it has no  *)
(* guard on its reads: whichever ends last is shown.  It stays mounted when  *)
(* the search opens another flag, and a switch that was thrown before then   *)
(* still reads the flag it was thrown on.                                    *)
(***************************************************************************)
EXTENDS AdminApi

CONSTANTS
    FlagKey,
    MaxFetches      \* bound on the page's reads under way

ASSUME FlagKeyAssumption == None \notin FlagKey

VARIABLES
    url,            \* the flag the address names, None when the page is not mounted
    page,           \* what the page shows: a flag and the writes in it
    loading,        \* "Loading..." instead of the page
    failed,         \* the error instead of the page
    fetches,        \* reads of a flag under way
    acts,           \* writes under way, with the flag they were made on
    pageReported,   \* writes the page has told the user were done
    strayed         \* history: something was under way when something else began

pageVars == <<url, page, loading, failed, fetches, acts, pageReported, strayed>>

Fetching == [id: 1..MaxFetches, key: FlagKey, initial: BOOLEAN, seen: {None} \cup SUBSET Write]
Act == [write: Write, op: {"toggle", "edit", "delete"}, key: FlagKey, seen: {None} \cup SUBSET Write,
        busy: BOOLEAN]

PageBlank ==
    /\ url = None /\ page = None /\ loading = FALSE /\ failed = FALSE
    /\ fetches = {} /\ acts = {} /\ pageReported = {} /\ strayed = FALSE

PageTypeOK ==
    /\ url \in FlagKey \cup {None}
    /\ url = None => PageBlank
    /\ page = None \/ page \in [key: FlagKey, seen: SUBSET Write]
    /\ {loading, failed, strayed} \subseteq BOOLEAN
    /\ fetches \subseteq Fetching
    /\ \A f, g \in fetches : f.id = g.id => f = g
    /\ acts \subseteq Act /\ pageReported \subseteq Write \ unsent

Shows == url # None /\ ~loading /\ ~failed /\ page # None

UnderWay(fs, as) == fs # {} \/ as # {}

\* "Loading..." or the error takes the page down, and with it the edit dialog's busy button.
TakenDown(as) == {[a EXCEPT !.busy = @ /\ a.op # "edit"] : a \in as}

\* fetchFlag of flag k, while the address is at and the writes as are under way.
FetchFlag(k, at, initial, as) ==
    \E id \in (1..MaxFetches) \ {f.id : f \in fetches} :
        /\ \A i \in 1..(id - 1) : \E f \in fetches : f.id = i
        /\ fetches' = fetches \cup {[id |-> id, key |-> k, initial |-> initial, seen |-> None]}
        /\ failed' = FALSE
        /\ loading' = (loading \/ initial)
        /\ strayed' = (UnderWay(fetches, as) \/ k # at)

\* The page is opened, from the list or from the search.
OpenFlag(k) ==
    /\ url = None
    /\ url' = k
    /\ page' = None /\ acts' = {} /\ pageReported' = {}
    /\ FetchFlag(k, k, TRUE, {})
    /\ UNCHANGED api

\* The search opens another flag on the page.
GoTo(k) ==
    /\ url # None /\ k # url
    /\ url' = k
    /\ FetchFlag(k, k, TRUE, acts)
    /\ acts' = TakenDown(acts)
    /\ UNCHANGED <<page, pageReported, api>>

\* Another screen, or another project: the list comes back.
LeaveFlag ==
    /\ url # None
    /\ url' = None /\ page' = None /\ loading' = FALSE /\ failed' = FALSE
    /\ fetches' = {} /\ acts' = {} /\ pageReported' = {} /\ strayed' = FALSE

RetryFlag ==
    /\ url # None /\ failed /\ ~loading
    /\ FetchFlag(url, url, TRUE, acts)
    /\ UNCHANGED <<url, page, acts, pageReported, api>>

-----------------------------------------------------------------------------
ServerFetches(f) ==
    /\ f \in fetches /\ f.seen = None
    /\ fetches' = (fetches \ {f}) \cup {Answered(f)}
    /\ UNCHANGED <<url, page, loading, failed, acts, pageReported, strayed, api>>

Ended(f) ==
    /\ fetches' = fetches \ {f}
    /\ loading' = (loading /\ ~f.initial)
    /\ UNCHANGED <<url, pageReported, strayed, api>>

FlagArrives(f) ==
    /\ f \in fetches /\ f.seen # None
    /\ page' = [key |-> f.key, seen |-> f.seen]
    /\ Ended(f)
    /\ UNCHANGED <<failed, acts>>

FetchFails(f) ==
    /\ f \in fetches
    /\ failed' = TRUE
    /\ acts' = TakenDown(acts)
    /\ Ended(f)
    /\ UNCHANGED page

-----------------------------------------------------------------------------
\* A switch, after its confirmation in production, works on the flag shown and
\* will read the flag of the address it was thrown under; the edit and the
\* deletion work on the flag shown.
StartAct(w, op) ==
    /\ Shows
    /\ op # "toggle" => \A a \in acts : a.op # op \/ ~a.busy
    /\ Send({w})
    /\ acts' = acts \cup {[write |-> w, op |-> op, key |-> IF op = "toggle" THEN url ELSE page.key,
                           seen |-> None, busy |-> TRUE]}
    /\ strayed' = (strayed \/ UnderWay(fetches, acts))
    /\ UNCHANGED <<url, page, loading, failed, fetches, pageReported>>

\* The server carries a write out; its answer holds the flag as it then is.
CarryAct(w) ==
    /\ Carry(w)
    /\ acts' = {IF a.write = w THEN [a EXCEPT !.seen = applied'] ELSE a : a \in acts}
    /\ UNCHANGED <<url, page, loading, failed, fetches, pageReported, strayed>>

Ends(a) == a \in acts /\ acts' = acts \ {a}

\* Mutant: the flag is not read again after a switch.
ToggledQuietly(a) ==
    /\ Ends(a) /\ a.op = "toggle" /\ a.seen # None
    /\ pageReported' = pageReported \cup {a.write}
    /\ UNCHANGED <<url, page, loading, failed, fetches, strayed, api>>

Toggled(a) ==
    /\ Ends(a) /\ a.op = "toggle" /\ a.seen # None
    /\ pageReported' = pageReported \cup {a.write}
    /\ FetchFlag(a.key, url, FALSE, acts \ {a})
    /\ UNCHANGED <<url, page, api>>

\* onSaved: the answer itself is shown.
Edited(a) ==
    /\ Ends(a) /\ a.op = "edit" /\ a.seen # None
    /\ pageReported' = pageReported \cup {a.write}
    /\ page' = [key |-> a.key, seen |-> a.seen]
    /\ UNCHANGED <<url, loading, failed, fetches, strayed, api>>

Deleted(a) ==
    /\ a \in acts /\ a.op = "delete" /\ a.seen # None
    /\ LeaveFlag

ActFails(a) ==
    /\ Ends(a)
    /\ UNCHANGED <<url, page, loading, failed, fetches, pageReported, strayed, api>>

-----------------------------------------------------------------------------
PageRequests ==
    \/ \E f \in fetches : ServerFetches(f) \/ FlagArrives(f) \/ FetchFails(f)
    \/ \E a \in acts : Toggled(a) \/ Edited(a) \/ ActFails(a)

PageClicks ==
    \/ \E k \in FlagKey : GoTo(k)
    \/ RetryFlag
    \/ \E w \in Write : StartAct(w, "toggle") \/ StartAct(w, "edit") \/ StartAct(w, "delete")

-----------------------------------------------------------------------------
\* Once nothing is awaited, the page shows the flag its address names, with every
\* write it has reported as done, provided the requests since its last read began
\* did not overlap.
PageShowsItsFlag ==
    Shows /\ ~UnderWay(fetches, acts) /\ ~strayed =>
        page.key = url /\ pageReported \subseteq page.seen
=============================================================================
