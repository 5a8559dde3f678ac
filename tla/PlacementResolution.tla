------------------------- MODULE PlacementResolution ------------------------
(***************************************************************************)
(* What one FleetReconciler pass makes of spec.placement and of what it    *)
(* observes: the resolution of the placement into a member set, its        *)
(* classification as the Placed condition, and the rollup of the members'  *)
(* states into the summary and the Ready condition.                        *)
(*                                                                         *)
(* These are the pure functions of decision.go and placement.go.  Names of *)
(* members and of decisions are numbers, as only their order matters;      *)
(* messages are left out, and of the per-member parameters only replicas   *)
(* is kept, the one the controller itself reads.                           *)
(***************************************************************************)
EXTENDS Integers, Sequences, FiniteSets, FiniteSetsExt

\* A replicas parameter is a number, of any sign and width, or one of these two.
Absent == 1000
Text == 1001        \* nothing that parses as an int64
Given(p) == p # Absent

\* Numbers stay below Absent; those above this one stand for the int64 values
\* that are no int32.
MaxInt32 == 900
Counted(p) == 0 <= p /\ p <= MaxInt32

\* A slice without a decision-index label sorts last.
Unindexed == 1000

-----------------------------------------------------------------------------
(* ResolveDecision.  A decision's slices come in whatever order the cache   *)
(* lists them: a slice is [name, index, refs, params], a reference [ns, name]*)

\* Fault: slices of equal index stay in the order they were listed in.
SliceBeforeByIndex(slices, i, j) ==
    \/ slices[i].index < slices[j].index
    \/ slices[i].index = slices[j].index /\ i < j
SliceBefore(slices, i, j) ==
    \/ slices[i].index < slices[j].index
    \/ slices[i].index = slices[j].index /\ slices[i].name < slices[j].name

\* References are named by slice and place; their order is the merged one.
References(slices) ==
    UNION {{<<i, k>> : k \in DOMAIN slices[i].refs} : i \in DOMAIN slices}
Ref(slices, r) == slices[r[1]].refs[r[2]]
Before(slices, r, q) ==
    \/ SliceBefore(slices, r[1], q[1])
    \/ r[1] = q[1] /\ r[2] < q[2]

\* An unset namespace means the decision's own, which is the instance's.
InFleet(ref, home) == ref.ns = "fleet" \/ (ref.ns = "unset" /\ home = "fleet")

\* The first reference to each member of the fleet namespace.
Named(slices, home) ==
    LET inside == {r \in References(slices) : InFleet(Ref(slices, r), home)} IN
    {r \in inside : ~\E q \in inside : /\ Ref(slices, q).name = Ref(slices, r).name
                                       /\ Before(slices, q, r)}

\* checkRequirements: the properties wanted are advertised with those values.
Fits(profile, required) ==
    \A k \in DOMAIN required : k \in DOMAIN profile /\ profile[k] = required[k]

Eligible(ref, profiles, required) ==
    ref.name \in DOMAIN profiles /\ Fits(profiles[ref.name], required)

\* One cluster that is outside the fleet or not eligible refuses the decision.
\* Fault: only clusters of another namespace do.
ViolatedFromOutside(slices, home, named, good) ==
    \E r \in References(slices) : ~InFleet(Ref(slices, r), home)
Violated(slices, home, named, good) ==
    good # named \/ \E r \in References(slices) : ~InFleet(Ref(slices, r), home)

\* The members decided, each with its replicas parameter.
ResolveDecision(slices, home, profiles, required) ==
    LET named == Named(slices, home)
        good == {r \in named : Eligible(Ref(slices, r), profiles, required)}
        At(n) == CHOOSE r \in good : Ref(slices, r).name = n
    IN  [state |-> IF Violated(slices, home, named, good) THEN "violated" ELSE "resolved",
         members |-> [n \in {Ref(slices, r).name : r \in good} |-> slices[At(n)[1]].params[n]]]

Nobody == [n \in {} |-> Absent]

\* resolvePlacement: exactly one source.  A selector matches registered members,
\* an empty one none; a decision that does not exist yet is awaited.
Resolve(in) ==
    CASE Cardinality(in.sources) # 1 -> [state |-> "invalid", members |-> Nobody]
      [] in.sources = {"clusterSelector"} ->
            [state |-> "resolved",
             members |-> [n \in in.selected \cap DOMAIN in.profiles |-> Absent]]
      [] OTHER ->
            IF in.slices = <<>> THEN [state |-> "pending", members |-> Nobody]
            ELSE ResolveDecision(in.slices, in.home, in.profiles, in.required)

-----------------------------------------------------------------------------
(* ClassifyPlacement: the Placed condition and the members to act on.       *)

Divided(members) == \E n \in DOMAIN members : Given(members[n])
ReplicasOf(p, template) == IF Counted(p) THEN p ELSE template
Total(f) == MapThenSumSet(LAMBDA n : f[n], DOMAIN f)

Verdict(placed, reason, members) == [placed |-> placed, reason |-> reason, members |-> members]

\* The decision divides the template and hands out too little of it.
FallsShort(members, requested) ==
    LET assigned == Total([n \in DOMAIN members |-> ReplicasOf(members[n], 0)])
    IN  Divided(members) /\ requested > 0 /\ assigned < requested

Classify(resolved, requested) ==
    LET members == resolved.members IN
    CASE resolved.state = "invalid"  -> Verdict(FALSE, "InvalidPlacement", Nobody)
      [] resolved.state = "pending"  -> Verdict(FALSE, "DecisionPending", Nobody)
      [] resolved.state = "violated" -> Verdict(FALSE, "DecisionViolatesRequirements", Nobody)
      [] OTHER ->
            IF members = Nobody THEN Verdict(FALSE, "NoEligibleClusters", Nobody)
            ELSE IF FallsShort(members, requested)
                 THEN Verdict(FALSE, "InsufficientCapacity", members)
                 ELSE Verdict(TRUE, "Placed", members)

-----------------------------------------------------------------------------
(* The members' states folded into the instance's status.  A fact about a   *)
(* member is what the pass meets there: [healthy, gate, held, answers,      *)
(* expanded, reports, ready].                                               *)

\* A member behind a closed gate that never got a copy gets none.
Gated(f) == ~f.gate /\ f.healthy /\ ~f.held

\* There is a copy to read back: written in this pass, or held as it is.
Readable(f) == f.healthy /\ f.answers /\ (f.gate \/ f.held)

\* readMemberStatus: expanded by kro, with as many replicas as assigned.
Ready(f, assigned) ==
    Readable(f) /\ f.expanded /\ (f.reports /\ assigned > 0 => f.ready >= assigned)
ReadyReplicas(f) == IF Readable(f) /\ f.reports THEN f.ready ELSE 0

\* RollupReady.  A tolerance is a number or Absent.
\* Fault: a zero tolerance is met by nothing at all.
RollupReadyVacuous(placed, divided, ready, requested, replicas, minClusters, minReplicas) ==
    IF divided \/ Given(minReplicas)
    THEN replicas >= IF Given(minReplicas) THEN minReplicas ELSE requested
    ELSE ready >= IF Given(minClusters) THEN minClusters ELSE placed
RollupReady(placed, divided, ready, requested, replicas, minClusters, minReplicas) ==
    /\ placed # 0
    /\ IF divided \/ Given(minReplicas)
       THEN replicas > 0 /\ replicas >= IF Given(minReplicas) THEN minReplicas ELSE requested
       ELSE ready > 0 /\ ready >= IF Given(minClusters) THEN minClusters ELSE placed

\* renderMemberObject, where the template has replicas: any int64 is rendered as
\* it is, also one that ReplicasOf does not count; text fails the pass before any
\* status is written.
Renders(members, template) ==
    Given(template) => \A n \in DOMAIN members : members[n] # Text

\* PlacedClusters of the rollup: every decided member, a gated one too.
\* Fault: those the summary calls placed, without the gated ones.
PlacedClustersActed(members, gated) == Cardinality(DOMAIN members \ gated)
PlacedClusters(members, gated) == Cardinality(DOMAIN members)

\* The status a pass writes, given the Placed verdict and the facts it met.
Status(verdict, template, facts, minClusters, minReplicas) ==
    LET members == verdict.members
        requested == IF Given(template) THEN template ELSE 0
        Assigned(n) == IF Given(template) THEN ReplicasOf(members[n], template) ELSE 0
        gated == {n \in DOMAIN members : Gated(facts[n])}
        acted == DOMAIN members \ gated
        ready == Cardinality({n \in acted : Ready(facts[n], Assigned(n))})
        replicas == Total([n \in acted |-> ReadyReplicas(facts[n])])
        total == IF Divided(members) THEN requested ELSE requested * Cardinality(DOMAIN members)
    IN  [placed |-> verdict.placed /\ gated = {},
         reason |-> IF verdict.placed /\ gated # {} THEN "RGDNotReady" ELSE verdict.reason,
         nplaced |-> Cardinality(acted), nready |-> ready, replicas |-> replicas,
         ready |-> RollupReady(PlacedClusters(members, gated), Divided(members), ready,
                               total, replicas, minClusters, minReplicas)]
=============================================================================
