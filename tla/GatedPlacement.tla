--------------------------- MODULE GatedPlacement ---------------------------
(***************************************************************************)
(* What the placing of instances looks like to a definition: for each      *)
(* member, whether an instance is recorded there and whether one exists.   *)
(* The gate is read when a pass begins and acted upon later; a member read *)
(* as unhealthy is recorded without asking, and not written to.  Writing   *)
(* uses the pass's permission up, whether or not an instance was there, so *)
(* that no other action can pass for it.                                   *)
(*                                                                         *)
(* FleetPlacement implements this specification, and DefinitionDistribution*)
(* takes it for its environment, with the gate that follows from its own   *)
(* status.                                                                 *)
(***************************************************************************)
CONSTANT Members

VARIABLES
    gate,       \* the members the gate lets an instance onto
    pass,       \* what the pass under way may do on a member:
                \* "nothing", "record" or "write", or that it has "written"
    rec,        \* the members on which a record tracks an instance
    live        \* the members on which an instance exists

Permissions == {"nothing", "record", "write", "written"}

vars == <<gate, pass, rec, live>>

Init ==
    /\ pass = [m \in Members |-> "nothing"]
    /\ rec = {} /\ live = {}

Idle == \A m \in Members : pass[m] = "nothing"

\* A pass begins, having read the gate.
Begin(p) ==
    /\ Idle
    /\ p \in [Members -> {"nothing", "record", "write"}]
    /\ \A m \in Members : p[m] = "write" => m \in gate
    /\ pass' = p
    /\ UNCHANGED <<rec, live>>

\* The pass is done with some members, or ends.
GiveUp(p) ==
    /\ \A m \in Members : p[m] \in {pass[m], "nothing"}
    /\ pass' = p
    /\ UNCHANGED <<rec, live>>

\* ensureRecord, and the apply that follows it on a member that can be written to.
Record(m) ==
    /\ pass[m] \in {"record", "write"} /\ m \notin rec
    /\ rec' = rec \cup {m}
    /\ UNCHANGED <<pass, live>>

Write(m) ==
    /\ pass[m] = "write"
    /\ pass' = [pass EXCEPT ![m] = "written"]
    /\ live' = live \cup {m}
    /\ UNCHANGED rec

\* A record goes, whoever deletes it; an instance goes, or comes from elsewhere.
Forget(m) ==
    /\ m \in rec
    /\ rec' = rec \ {m}
    /\ UNCHANGED <<pass, live>>

Vanish(m) ==
    /\ m \in live
    /\ live' = live \ {m}
    /\ UNCHANGED <<pass, rec>>

LocalCreate(m) ==
    /\ m \notin live
    /\ live' = live \cup {m}
    /\ UNCHANGED <<pass, rec>>

-----------------------------------------------------------------------------
Next ==
    \/ \E p \in [Members -> Permissions] : Begin(p) \/ GiveUp(p)
    \/ \E m \in Members :
          Record(m) \/ Write(m) \/ Forget(m) \/ Vanish(m) \/ LocalCreate(m)
    \/ UNCHANGED <<pass, rec, live>>

Spec == Init /\ [][Next]_vars
=============================================================================
