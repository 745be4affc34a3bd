------------------------------ MODULE Workspace ------------------------------
(***************************************************************************)
(* The project the admin UI works in: the list of projects, the active one   *)
(* with the copy of its settings the UI holds, its environments, and the     *)
(* screens that change them (ProjectContext, ProjectSwitcherModal, the       *)
(* settings sections, EnvironmentsScreen).  A section sends its group of     *)
(* settings whole, from a form filled when the section was mounted.  A       *)
(* copy of settings is named by the write that made them, None at first.     *)
(***************************************************************************)
EXTENDS AdminApi

CONSTANTS
    Project,
    Slug,           \* slugs of environments
    FirstSlugs,     \* the environments each project has at first
    DefaultEnv,     \* "development"
    MaxEnvReads     \* bound on the reads of environments under way

ASSUME WorkspaceAssumption ==
    /\ None \notin Project
    /\ FirstSlugs \in [Project -> SUBSET Slug] /\ DefaultEnv \in Slug

VARIABLES
    settings,   \* at the server: the settings of each project that exists
    slugs,      \* at the server: its environments
    intent,     \* what each write does
    listing,    \* the read of the project list: under way or not, and its answer
    known,      \* the list the switcher shows
    active,     \* the active project, and the copy of its settings
    envs, env,  \* its environments as the app shows them, and the one in use
    envReads,
    envsRead,   \* the last read of them did not fail
    form,       \* the settings section mounted, with the save it waits for
    under,      \* the writes the browser waits for
    moved,      \* history: projects saved to since the list known was asked for, and
                \* since the one under way was
    settled     \* history: no write was given up

workspace == <<settings, slugs, intent, listing, known, active, envs, env, envReads, envsRead,
               form, under, moved, settled>>

Copy == Write \cup {None}
Exists == DOMAIN settings
Unset == [op |-> "none", project |-> None, slug |-> None, from |-> None, careful |-> FALSE, alone |-> FALSE]
NoForm == [up |-> FALSE, from |-> None, careful |-> FALSE, saving |-> None]
Asked == [up |-> TRUE, list |-> None]
Listed == [up |-> FALSE, list |-> None]
NoProject == [id |-> None, copy |-> None, behind |-> FALSE]

WorkspaceInit ==
    /\ settings = [p \in Project |-> None]
    /\ slugs = FirstSlugs
    /\ intent = [w \in Write |-> Unset]
    /\ listing = Asked /\ known = <<>> /\ active = NoProject
    /\ envs = {} /\ env = DefaultEnv /\ envReads = {} /\ envsRead = FALSE
    /\ form = NoForm /\ under = {} /\ moved = [known |-> {}, listing |-> {}] /\ settled = TRUE

WorkspaceTypeOK ==
    /\ Exists \subseteq Project /\ \A p \in Exists : settings[p] \in applied \cup {None}
    /\ DOMAIN slugs = Exists
    /\ \A w \in unsent : intent[w] = Unset
    /\ DOMAIN known \subseteq Project
    /\ active.id \in Project \cup {None} /\ active.copy \in Copy
    /\ envs \subseteq Slug /\ env \in Slug
    /\ Cardinality({r \in envReads : r.current}) <= 1
    /\ form.up => active.id # None
    /\ under \subseteq Write \ unsent /\ form.saving \in under \cup {None}

-----------------------------------------------------------------------------
\* Writes to p that are awaited, or were given up and are still to come.
Pending(p, waited) == {w \in queued \cup waited : intent[w].project = p}
Saves(ws) == {w \in ws : intent[w].op = "save"}

Mounted(project, waited) ==
    [up |-> TRUE, from |-> project.copy, saving |-> None,
     careful |-> settled /\ ~project.behind /\ Saves(Pending(project.id, waited)) = {}]

\* Mutant: the read of the project before is not cancelled.
ReadsGoOn(rs) == rs

Cancelled(rs) == {[r EXCEPT !.current = FALSE] : r \in rs}

\* The effect on the active project's id and on refetchEnvironments().
ReadEnvs(p) ==
    /\ Cardinality(envReads) < MaxEnvReads
    /\ envReads' = Cancelled(envReads) \cup {[project |-> p, current |-> TRUE, seen |-> None]}

\* setActiveProject: another id reads its environments, and mounts the section anew.
Activate(project, waited) ==
    /\ active' = project
    /\ IF project.id = active.id
       THEN UNCHANGED <<envs, envReads, form>>
       ELSE IF project.id = None
       THEN envReads' = Cancelled(envReads) /\ envs' = {} /\ form' = NoForm
       ELSE /\ ReadEnvs(project.id)
            /\ form' = IF form.up THEN Mounted(project, waited) ELSE NoForm
            /\ UNCHANGED envs

-----------------------------------------------------------------------------
ServerLists ==
    /\ listing = Asked
    /\ listing' = [listing EXCEPT !.list = settings]
    /\ UNCHANGED <<settings, slugs, intent, known, active, envs, env, envReads, envsRead, form, under, moved, settled, api>>

\* res.data[0] becomes the active project; which one comes first is left open.
ProjectsArrive ==
    /\ listing.list # None
    /\ known' = listing.list
    /\ listing' = Listed
    /\ IF DOMAIN known' = {} THEN Activate(NoProject, under)
       ELSE \E p \in DOMAIN known' : Activate([id |-> p, copy |-> known'[p], behind |-> p \in moved.listing], under)
    /\ moved' = [moved EXCEPT !.known = moved.listing]
    /\ UNCHANGED <<settings, slugs, intent, env, envsRead, under, settled, api>>

ProjectsFail ==
    /\ listing.up
    /\ listing' = Listed
    /\ UNCHANGED <<settings, slugs, intent, known, active, envs, env, envReads, envsRead, form, under, moved, settled, api>>

\* The switcher hands over the copy of its list.
SwitchProject(p) ==
    /\ p \in DOMAIN known
    /\ Activate([id |-> p, copy |-> known[p], behind |-> p \in moved.known], under)
    /\ UNCHANGED <<settings, slugs, intent, listing, known, env, envsRead, under, moved, settled, api>>

-----------------------------------------------------------------------------
ServerReadsEnvs(r) ==
    /\ r \in envReads /\ r.seen = None /\ r.project \in Exists
    /\ envReads' = (envReads \ {r}) \cup {[r EXCEPT !.seen = slugs[r.project]]}
    /\ UNCHANGED <<settings, slugs, intent, listing, known, active, envs, env, envsRead, form, under, moved, settled, api>>

\* The one in use stays if the project has it; otherwise the first, if any.
EnvsArrive(r) ==
    /\ r \in envReads /\ r.seen # None
    /\ envReads' = envReads \ {r}
    /\ IF r.current
       THEN /\ envs' = r.seen /\ envsRead' = TRUE
            /\ IF env \in r.seen \/ r.seen = {} THEN UNCHANGED env ELSE env' \in r.seen
       ELSE UNCHANGED <<envs, env, envsRead>>
    /\ UNCHANGED <<settings, slugs, intent, listing, known, active, form, under, moved, settled, api>>

EnvsFail(r) ==
    /\ r \in envReads
    /\ envReads' = envReads \ {r}
    /\ IF r.current THEN envs' = {} /\ envsRead' = FALSE ELSE UNCHANGED <<envs, envsRead>>
    /\ UNCHANGED <<settings, slugs, intent, listing, known, active, env, form, under, moved, settled, api>>

PickEnv(s) ==
    /\ s \in envs /\ s # env
    /\ env' = s
    /\ UNCHANGED <<settings, slugs, intent, listing, known, active, envs, envReads, envsRead, form, under, moved, settled, api>>

-----------------------------------------------------------------------------
OpenSection ==
    /\ active.id # None /\ ~form.up
    /\ form' = Mounted(active, under)
    /\ UNCHANGED <<settings, slugs, intent, listing, known, active, envs, env, envReads, envsRead, under, moved, settled, api>>

CloseSection ==
    /\ form.up
    /\ form' = NoForm
    /\ UNCHANGED <<settings, slugs, intent, listing, known, active, envs, env, envReads, envsRead, under, moved, settled, api>>

Make(w, what) ==
    /\ Send({w})
    /\ under' = under \cup {w}
    /\ intent' = [intent EXCEPT ![w] = what]
    /\ UNCHANGED <<settings, slugs, listing, known, active, envs, env, envReads, envsRead, settled>>

\* save(): the group of the form, whole.  A save that was given up may still come
\* after this one.
SaveSection(w) ==
    LET others == Saves(Pending(active.id, under)) IN
    /\ form.up /\ form.saving = None
    /\ Send({w})
    /\ under' = under \cup {w}
    /\ intent' = [v \in Write |->
                   IF v = w THEN [Unset EXCEPT !.op = "save", !.project = active.id, !.from = form.from,
                                  !.careful = form.careful /\ settled /\ others = {}, !.alone = others = {}]
                   ELSE IF v \in others THEN [intent[v] EXCEPT !.careful = FALSE, !.alone = FALSE]
                   ELSE intent[v]]
    /\ form' = [form EXCEPT !.saving = w]
    /\ moved' = [l \in DOMAIN moved |-> moved[l] \cup {active.id}]
    /\ UNCHANGED <<settings, slugs, listing, known, active, envs, env, envReads, envsRead, settled>>

\* The owner deletes the project from its settings; the environments screen adds and
\* deletes environments.
DeleteProject(w) ==
    /\ form.up
    /\ Make(w, [Unset EXCEPT !.op = "delete", !.project = active.id])
    /\ UNCHANGED <<form, moved>>

ChangeEnv(w, op, s) ==
    /\ active.id # None /\ ~form.up
    /\ Make(w, [Unset EXCEPT !.op = op, !.project = active.id, !.slug = s])
    /\ UNCHANGED <<form, moved>>

\* The server refuses a write to a project that is gone, an environment the project
\* has already, and the deletion of one it has not.
CarryWrite(w) ==
    LET i == intent[w]  p == i.project IN
    /\ Carry(w) /\ p \in Exists
    /\ i.op = "add" => i.slug \notin slugs[p]
    /\ i.op = "drop" => i.slug \in slugs[p]
    /\ settings' = CASE i.op = "save"   -> [settings EXCEPT ![p] = w]
                     [] i.op = "delete" -> [q \in Exists \ {p} |-> settings[q]]
                     [] OTHER           -> settings
    /\ slugs' = CASE i.op = "add"    -> [slugs EXCEPT ![p] = @ \cup {i.slug}]
                  [] i.op = "drop"   -> [slugs EXCEPT ![p] = @ \ {i.slug}]
                  [] i.op = "delete" -> [q \in Exists \ {p} |-> slugs[q]]
                  [] OTHER           -> slugs
    /\ UNCHANGED <<intent, listing, known, active, envs, env, envReads, envsRead, form, under, moved, settled>>

-----------------------------------------------------------------------------
\* Mutant: the UI does not take the answer over.
KeptCopy(w) == UNCHANGED <<active, envs, envReads>> /\ form' = [form EXCEPT !.saving = None]

\* setActiveProject(res.data); the form has what was saved already.
Adopt(w) ==
    LET answer == [id |-> intent[w].project, copy |-> w, behind |-> ~intent[w].alone] IN
    IF form.saving = w
    THEN /\ active' = answer
         /\ form' = [form EXCEPT !.from = w, !.careful = intent[w].alone /\ settled, !.saving = None]
         /\ UNCHANGED <<envs, envReads>>
    ELSE Activate(answer, under \ {w})

Answers(w, op) == w \in under \cap applied /\ intent[w].op \in op /\ under' = under \ {w}

Saved(w) ==
    /\ Answers(w, {"save"})
    /\ Adopt(w)
    /\ UNCHANGED <<settings, slugs, intent, listing, known, env, envsRead, moved, settled, api>>

\* refetchProjects(): the list is read again, an earlier read of it is cancelled.
ProjectDeleted(w) ==
    /\ Answers(w, {"delete"})
    /\ listing' = Asked
    /\ moved' = [moved EXCEPT !.listing = {p \in Project : Saves(Pending(p, under)) # {}}]
    /\ UNCHANGED <<settings, slugs, intent, known, active, envs, env, envReads, envsRead, form, settled, api>>

\* refetchEnvironments()
EnvChanged(w) ==
    /\ Answers(w, {"add", "drop"})
    /\ IF active.id = None THEN UNCHANGED envReads ELSE ReadEnvs(active.id)
    /\ UNCHANGED <<settings, slugs, intent, listing, known, active, envs, env, envsRead, form, moved, settled, api>>

WriteFails(w) ==
    /\ w \in under
    /\ under' = under \ {w}
    /\ form' = IF form.saving = w THEN [form EXCEPT !.saving = None] ELSE form
    /\ settled' = (settled /\ w \notin queued \cup applied)
    /\ UNCHANGED <<settings, slugs, intent, listing, known, active, envs, env, envReads, envsRead, moved, api>>

WorkspaceNext ==
    \/ ServerLists \/ ProjectsArrive \/ ProjectsFail
    \/ \E p \in Project : SwitchProject(p)
    \/ \E r \in envReads : ServerReadsEnvs(r) \/ EnvsArrive(r) \/ EnvsFail(r)
    \/ \E s \in Slug : PickEnv(s)
    \/ OpenSection \/ CloseSection
    \/ \E w \in Write :
         \/ SaveSection(w) \/ DeleteProject(w) \/ CarryWrite(w)
         \/ \E s \in Slug : ChangeEnv(w, "add", s) \/ ChangeEnv(w, "drop", s)
         \/ Saved(w) \/ ProjectDeleted(w) \/ EnvChanged(w) \/ WriteFails(w)

-----------------------------------------------------------------------------
\* Once nothing is awaited and nothing was given up, the environments the app works
\* with are the active project's, whatever projects were opened before and in
\* whatever order their environments were read, and the one in use is among them.
EnvironmentsMatchProject ==
    /\ active.id \in Exists /\ envsRead /\ settled
    /\ \A r \in envReads : ~r.current
    /\ Pending(active.id, under) = {}
    => envs = slugs[active.id] /\ (env \in envs \/ envs = {})

\* What a save of a section replaces is what its form was filled from: no setting
\* the user saved is undone by a later save of theirs, unless the form was filled
\* from the switcher's list after a save, or the saves overlapped or were given up.
NoSettingIsUndone ==
    [][\A w \in queued : w \in applied' /\ intent[w].careful =>
          settings[intent[w].project] = intent[w].from]_<<api, workspace>>
=============================================================================
