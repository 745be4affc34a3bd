----------------------------- MODULE ImportDialog -----------------------------
(***************************************************************************)
(* The dialog that imports flags (ImportFlagsModal.tsx): a file and options  *)
(* are chosen, a preview (a dry run) reports what the import would do, and a *)
(* button on the report imports.  The choices stay open while a request is   *)
(* under way, and the component outlives the dialog it shows.                *)
(***************************************************************************)
EXTENDS AdminApi

CONSTANTS File, Target      \* Target: the projects

VARIABLES
    target,     \* the active project
    dialog,     \* open or not, and what is chosen in it
    parsing,    \* files being read by the browser
    report,     \* the choices the report shown was made for, or None
    run,        \* the request under way, or None
    finished,   \* "Done" instead of the buttons
    rushed      \* history: a choice was made while something was under way

importing == <<target, dialog, parsing, report, run, finished, rushed>>

Source == {"flagraft", "unleash"}
Conflict == {"skip", "overwrite"}
Choice == [source: Source, document: File, conflict: Conflict, target: Target]
Idle == run = None /\ parsing = {}

ASSUME ImportAssumption == None \notin Choice

ImportInit ==
    /\ target \in Target
    /\ dialog = [open |-> FALSE, source |-> "flagraft", conflict |-> "skip",
                 name |-> None, document |-> None]
    /\ parsing = {} /\ report = None /\ run = None /\ finished = FALSE /\ rushed = FALSE

ImportTypeOK ==
    /\ target \in Target
    /\ dialog \in [open: BOOLEAN, source: Source, conflict: Conflict,
                   name: File \cup {None}, document: File \cup {None}]
    /\ parsing \subseteq File
    /\ report \in Choice \cup {None}
    /\ run = None \/ (run.choice.source \in Source /\ run.write \in Write \cup {None})
    /\ finished => report # None
    /\ rushed \in BOOLEAN

Now == [source |-> dialog.source, document |-> dialog.document,
        conflict |-> dialog.conflict, target |-> target]

-----------------------------------------------------------------------------
\* Mutant: the report outlives the options it was made for.
KeptReport == UNCHANGED <<report, finished>>

\* setReport(null), setDone(false)
DropReport == report' = None /\ finished' = FALSE

OpenImport ==
    /\ ~dialog.open
    /\ dialog' = [dialog EXCEPT !.open = TRUE]
    /\ UNCHANGED <<target, parsing, report, run, finished, rushed, api>>

\* Cancel, Done, and the cross, which works while a request is under way: the
\* policy for conflicts is all that is kept.
CloseImport ==
    /\ dialog.open
    /\ dialog' = [dialog EXCEPT !.open = FALSE, !.source = "flagraft", !.name = None, !.document = None]
    /\ DropReport
    /\ rushed' = (rushed \/ ~Idle)
    /\ UNCHANGED <<target, parsing, run, api>>

ChooseSource(s) ==
    /\ dialog.open /\ s # dialog.source
    /\ dialog' = [dialog EXCEPT !.source = s]
    /\ DropReport
    /\ rushed' = (rushed \/ ~Idle)
    /\ UNCHANGED <<target, parsing, run, api>>

ChooseConflict(c) ==
    /\ dialog.open /\ c # dialog.conflict
    /\ dialog' = [dialog EXCEPT !.conflict = c]
    /\ DropReport
    /\ rushed' = (rushed \/ ~Idle)
    /\ UNCHANGED <<target, parsing, run, api>>

\* reset(), then the browser reads the file.
PickFile(f) ==
    /\ dialog.open
    /\ dialog' = [dialog EXCEPT !.name = f, !.document = None]
    /\ parsing' = parsing \cup {f}
    /\ DropReport
    /\ rushed' = ~Idle
    /\ UNCHANGED <<target, run, api>>

\* Read as JSON, or not: the dialog takes it, whatever was picked since.
FileParsed(f) ==
    /\ f \in parsing
    /\ parsing' = parsing \ {f}
    /\ dialog' = [dialog EXCEPT !.document = f]
    /\ UNCHANGED <<target, report, run, finished, rushed, api>>

FileUnreadable(f) ==
    /\ f \in parsing
    /\ parsing' = parsing \ {f}
    /\ UNCHANGED <<target, dialog, report, run, finished, rushed, api>>

SwitchTarget(t) ==
    /\ ~dialog.open /\ t # target
    /\ target' = t
    /\ rushed' = (rushed \/ ~Idle)
    /\ UNCHANGED <<dialog, parsing, report, run, finished, api>>

-----------------------------------------------------------------------------
Preview ==
    /\ dialog.open /\ ~finished /\ run = None
    /\ report = None /\ dialog.document # None
    /\ run' = [choice |-> Now, write |-> None]
    /\ UNCHANGED <<target, dialog, parsing, report, finished, rushed, api>>

\* A late report can be on the screen without a file: the server refuses that.
ImportForReal(w) ==
    /\ dialog.open /\ ~finished /\ run = None
    /\ report # None /\ w \in unsent
    /\ IF dialog.document = None THEN UNCHANGED api ELSE Send({w})
    /\ run' = [choice |-> Now, write |-> w]
    /\ UNCHANGED <<target, dialog, parsing, report, finished, rushed>>

\* The report is shown, and the list behind the dialog is read again.
RunEnds ==
    /\ run # None
    /\ run.write # None => run.write \in applied
    /\ report' = run.choice
    /\ finished' = (finished \/ run.write # None)
    /\ run' = None
    /\ UNCHANGED <<target, dialog, parsing, rushed, api>>

RunFails ==
    /\ run # None
    /\ run' = None
    /\ UNCHANGED <<target, dialog, parsing, report, finished, rushed, api>>

ImportNext ==
    \/ OpenImport \/ CloseImport \/ Preview \/ RunEnds \/ RunFails
    \/ \E s \in Source : ChooseSource(s)
    \/ \E c \in Conflict : ChooseConflict(c)
    \/ \E f \in File : PickFile(f) \/ FileParsed(f) \/ FileUnreadable(f)
    \/ \E t \in Target : SwitchTarget(t)
    \/ \E w \in Write : ImportForReal(w)

-----------------------------------------------------------------------------
\* What is imported is what was previewed: an import under way has the file, the
\* options and the project of the report on the screen, and the file is the one
\* named there, unless a choice was made while a request or a file was awaited.
ImportIsPreviewed ==
    run # None /\ run.write # None /\ ~rushed =>
        report = run.choice /\ dialog.name = run.choice.document
=============================================================================
