-------------------------------- MODULE AdminUi --------------------------------
(***************************************************************************)
(* The admin UI in one browser tab.  A list screen and the page of a flag    *)
(* follow one another on the same writes; the editors, the import dialog and *)
(* the workspace are looked at one in a behaviour, chosen at the start.      *)
(***************************************************************************)
EXTENDS ListActions, FlagPage, RuleEditor, ImportDialog, Workspace

VARIABLE part       \* "screens", "editor", "import" or "workspace", the same throughout

screens == <<list, keys, pageVars>>
vars == <<api, screens, editing, importing, workspace, part>>

Init ==
    /\ part \in {"screens", "editor", "import", "workspace"}
    /\ ApiInit
    /\ ListInit /\ PageBlank /\ EditorInit /\ ImportInit /\ WorkspaceInit
    /\ part # "editor" => kind = "rules"
    /\ part # "import" => target = CHOOSE t \in Target : TRUE

-----------------------------------------------------------------------------
\* The routes of App.tsx: one of the lists, or a flag's page.
OpenList ==
    /\ url = None
    /\ \E k \in Kind, q \in Query : Mount(k, q)
    /\ UNCHANGED <<keys, pageVars>>

CloseList ==
    /\ screen # None /\ Leave
    /\ UNCHANGED <<api, pageVars>>

ListToFlag ==
    /\ screen # None /\ Leave
    /\ \E k \in FlagKey : OpenFlag(k)

FlagToList ==
    /\ LeaveFlag
    /\ \E q \in Query : Mount("flags", q)
    /\ UNCHANGED keys

FlagIsDeleted ==
    /\ \E a \in acts : Deleted(a)
    /\ \E q \in Query : Mount("flags", q)
    /\ UNCHANGED keys

ScreensNext ==
    \/ OpenList \/ CloseList \/ ListToFlag \/ FlagToList \/ FlagIsDeleted
    \/ ListNext /\ UNCHANGED pageVars
    \/ (PageRequests \/ PageClicks \/ \E w \in Write : CarryAct(w)) /\ UNCHANGED <<list, keys>>

\* What the server does with a write of the parts that keep nothing of it there.
ServerWrites == \E w \in Write : Refuse(w) \/ (part = "import" /\ Carry(w))

Next ==
    /\ UNCHANGED part
    /\ \/ part = "screens" /\ ScreensNext /\ UNCHANGED <<editing, importing, workspace>>
       \/ part = "editor" /\ EditorNext /\ UNCHANGED <<screens, importing, workspace>>
       \/ part = "import" /\ ImportNext /\ UNCHANGED <<screens, editing, workspace>>
       \/ part = "workspace" /\ WorkspaceNext /\ UNCHANGED <<screens, editing, importing>>
       \/ ServerWrites /\ UNCHANGED <<screens, editing, importing, workspace>>

Spec == Init /\ [][Next]_vars

-----------------------------------------------------------------------------
\* Every variable has a value of its kind, what is not mounted is blank, and a
\* list awaits the newest of its reads exactly while it is loading.
TypeOK == ListTypeOK /\ PageTypeOK /\ EditorTypeOK /\ ImportTypeOK /\ WorkspaceTypeOK
=============================================================================
