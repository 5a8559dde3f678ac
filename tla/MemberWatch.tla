---------------------------- MODULE MemberWatch ----------------------------
(***************************************************************************)
(* LazyMemberKind: the watch a controller keeps on each engaged member for *)
(* a kind that kro will only define there once the hub has reached the     *)
(* member.  A member that does not serve the kind yet is engaged all the   *)
(* same and polled in the background; the polling ends with the            *)
(* engagement's context.                                                   *)
(***************************************************************************)
CONSTANT Members

VARIABLES
    engaged,    \* the members the cluster provider has engaged
    kind,       \* the members that serve the kind
    watch       \* each member's source: "off", "polling" or "on"

TypeOK ==
    /\ engaged \subseteq Members /\ kind \subseteq Members
    /\ watch \in [Members -> {"off", "polling", "on"}]

Init ==
    /\ engaged = {} /\ kind = {}
    /\ watch = [m \in Members |-> "off"]

\* The provider engages m, which starts the source.
\* Fault: a missing kind fails the engagement, as the plain Kind source does.
StartServedOnly(m) ==
    /\ m \notin engaged /\ m \in kind
    /\ engaged' = engaged \cup {m}
    /\ watch' = [watch EXCEPT ![m] = "on"]
    /\ UNCHANGED kind
Start(m) ==
    /\ m \notin engaged
    /\ engaged' = engaged \cup {m}
    /\ watch' = [watch EXCEPT ![m] = IF m \in kind THEN "on" ELSE "polling"]
    /\ UNCHANGED kind

\* A poll finds the kind served, and starts the watch.
Poll(m) ==
    /\ watch[m] = "polling" /\ m \in kind
    /\ watch' = [watch EXCEPT ![m] = "on"]
    /\ UNCHANGED <<engaged, kind>>

\* The check or the start of the watch fails: the next poll tries again.
PollFails(m) ==
    /\ watch[m] = "polling"
    /\ UNCHANGED <<engaged, kind, watch>>

\* The member is let go of: its context is cancelled, and with it watch and poll.
Stop(m) ==
    /\ m \in engaged
    /\ engaged' = engaged \ {m}
    /\ watch' = [watch EXCEPT ![m] = "off"]
    /\ UNCHANGED kind

\* The kind appears on a member and goes away there.
Appear(m) ==
    /\ m \notin kind
    /\ kind' = kind \cup {m}
    /\ UNCHANGED <<engaged, watch>>

Disappear(m) ==
    /\ m \in kind
    /\ kind' = kind \ {m}
    /\ UNCHANGED <<engaged, watch>>
=============================================================================
