--------------------------- MODULE PlacementLedger --------------------------
(***************************************************************************)
(* What the inventory of one FleetGenAIService promises, without caches,   *)
(* passes, resource versions or UIDs: the ledger of its copies, one entry  *)
(* per member.  An entry is made before a copy is confirmed, a confirmed   *)
(* copy that is still on its member is never struck off or replaced, and   *)
(* once the instance is released the ledger is only ever cleared.          *)
(*                                                                         *)
(* FleetPlacement is shown to implement this specification.                *)
(***************************************************************************)
CONSTANT Members

VARIABLES
    phase,      \* the instance: "absent", "open", "closing" or "released"
    entry,      \* each member's entry: "out", "intended" or "confirmed"
    there       \* the members on which the confirmed copy is

vars == <<phase, entry, there>>

TypeOK ==
    /\ phase \in {"absent", "open", "closing", "released"}
    /\ entry \in [Members -> {"out", "intended", "confirmed"}]
    /\ there \subseteq Members

Init ==
    /\ phase = "absent"
    /\ entry = [m \in Members |-> "out"]
    /\ there = {}

-----------------------------------------------------------------------------
\* The instance is created, deleted, and released; with nothing placed yet, it
\* needs no clearing.
Open ==
    /\ phase = "absent" /\ phase' = "open"
    /\ UNCHANGED <<entry, there>>

Close ==
    /\ phase = "open" /\ phase' = "closing"
    /\ UNCHANGED <<entry, there>>

Release ==
    /\ \/ phase = "closing"
       \/ phase = "open" /\ \A m \in Members : entry[m] = "out"
    /\ phase' = "released"
    /\ UNCHANGED <<entry, there>>

Unreleased == phase \in {"open", "closing"}

\* The intent to place a copy on m is recorded.
Intend(m) ==
    /\ Unreleased /\ entry[m] = "out"
    /\ entry' = [entry EXCEPT ![m] = "intended"]
    /\ UNCHANGED <<phase, there>>

\* A copy is confirmed, which may be gone again by then; the one confirmed before
\* is not on the member any more.
Confirm(m) ==
    /\ Unreleased /\ entry[m] # "out" /\ m \notin there
    /\ entry' = [entry EXCEPT ![m] = "confirmed"]
    /\ there' = there \/ there' = there \cup {m}
    /\ UNCHANGED phase

\* The confirmed copy leaves the member: deleted by the hub, or by someone there.
Leave(m) ==
    /\ m \in there
    /\ there' = there \ {m}
    /\ UNCHANGED <<phase, entry>>

\* A copy that is gone is struck off; the entry goes.
Drop(m) ==
    /\ entry[m] = "confirmed" /\ m \notin there
    /\ entry' = [entry EXCEPT ![m] = "intended"]
    /\ UNCHANGED <<phase, there>>

Forget(m) ==
    /\ entry[m] # "out" /\ m \notin there
    /\ entry' = [entry EXCEPT ![m] = "out"]
    /\ UNCHANGED <<phase, there>>

Next ==
    \/ Open \/ Close \/ Release
    \/ \E m \in Members : Intend(m) \/ Confirm(m) \/ Leave(m) \/ Drop(m) \/ Forget(m)

Spec == Init /\ [][Next]_vars
=============================================================================
