-------------------------- MODULE TwoPersonToggle --------------------------
(***************************************************************************)
(* The approval rule for one flag in one protected environment, as the     *)
(* comment on pendingFlagToggles states it, one atomic step per call: a    *)
(* first call is recorded, a call for the other state replaces it, the     *)
(* same caller repeating itself changes nothing, and a second caller       *)
(* applies it.  A call may also fail and change nothing.                   *)
(***************************************************************************)
CONSTANTS Actor, None

VARIABLES
    enabled,    \* the value of the flag
    request     \* the request on record, or None

vars == <<enabled, request>>

Request == [want: BOOLEAN, by: Actor]

TypeOK == enabled \in BOOLEAN /\ request \in Request \cup {None}

Init == enabled \in BOOLEAN /\ request = None

Record(a, v) ==
    /\ request = None \/ request.want # v
    /\ request' = [want |-> v, by |-> a]
    /\ UNCHANGED enabled

Confirm(a, v) ==
    /\ request # None /\ request.want = v /\ request.by # a
    /\ request' = None
    /\ enabled' = v

Next == \E a \in Actor, v \in BOOLEAN : Record(a, v) \/ Confirm(a, v)

Spec == Init /\ [][Next]_vars
=============================================================================
