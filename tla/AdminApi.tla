------------------------------- MODULE AdminApi -------------------------------
(***************************************************************************)
(* The admin UI's side of the HTTP API (packages/admin-ui/src/lib/api.ts),   *)
(* as its screens see it.  What the server holds is abstracted to the set of *)
(* the user's own writes it has carried out; a read returns that set as it   *)
(* is when the server gets to the read.  A request ends for the browser by   *)
(* its answer, by an error, or after the client's timeout, which leaves open *)
(* whether a write was, or is still to be, carried out.                      *)
(***************************************************************************)
EXTENDS FiniteSets, Naturals

CONSTANTS
    Write,      \* the writes the user makes in a behaviour, each once
    None

ASSUME ApiAssumption == None \notin Write

VARIABLES
    unsent,     \* writes the user has not made yet
    queued,     \* sent, and not yet carried out or refused
    applied     \* carried out

api == <<unsent, queued, applied>>

ApiTypeOK ==
    /\ unsent \subseteq Write
    /\ queued \subseteq Write \ unsent
    /\ applied \subseteq Write \ (unsent \cup queued)

ApiInit ==
    /\ unsent = Write
    /\ queued = {}
    /\ applied = {}

Send(ws) ==
    /\ ws # {} /\ ws \subseteq unsent
    /\ unsent' = unsent \ ws
    /\ queued' = queued \cup ws
    /\ UNCHANGED applied

\* The server's two ways to end a write.
Carry(w) ==
    /\ w \in queued
    /\ queued' = queued \ {w}
    /\ applied' = applied \cup {w}
    /\ UNCHANGED unsent

Refuse(w) ==
    /\ w \in queued
    /\ queued' = queued \ {w}
    /\ UNCHANGED <<unsent, applied>>

\* The server gets to a read that is still under way.
Answered(read) == [read EXCEPT !.seen = applied]

=============================================================================
