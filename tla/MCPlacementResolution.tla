----------------------- MODULE MCPlacementResolution ------------------------
(***************************************************************************)
(* One pass of the FleetReconciler over every small placement: an input is *)
(* chosen, resolved and classified, then the members are met in any state  *)
(* and the status is rolled up.  Members 1 and 2 are registered, 3 is not; *)
(* member 2 may fail the requirements.                                     *)
(***************************************************************************)
EXTENDS PlacementResolution

CONSTANTS
    Requests,       \* template replicas, or Absent
    Parameters      \* replicas parameters: naturals, Absent, Text; a negative one is tried too

ASSUME NumbersAssumption == Requests \subseteq Nat /\ Parameters \subseteq Nat

VARIABLES input, verdict, facts, status
vars == <<input, verdict, facts, status>>

Registered == {1, 2}
Clusters == [ns : {"unset", "elsewhere"}, name : {1, 2, 3}]
Pairs == {<<a, b>> : a, b \in Clusters}
Values == Parameters \cup {-1}
Slices(names, refs) ==
    [name : names, index : {0, Unindexed}, refs : refs,
     params : {p \in [{1, 2, 3} -> Values] : p[3] = Absent}]
\* A decision of one slice, or of two that the cache lists as the second and first.
Alone == Slices({1}, {<<>>} \cup Pairs)
Second == Slices({2}, {<<a>> : a \in Clusters})
First == Slices({1}, {<<>>} \cup {<<a>> : a \in Clusters})
TwoSlices == {<<s, t>> : s \in Second, t \in First}
Lists == {<<>>} \cup {<<s>> : s \in Alone} \cup TwoSlices

Profiles == {[n \in Registered |-> [k \in {"gpu"} |-> IF n = 2 THEN g ELSE "h100"]] :
                g \in {"h100", "a100"}}
Inputs ==
    [sources : {{}, {"clusterSelector"}, {"clusterSelector", "decisionRef"}},
     selected : SUBSET {1, 2, 3}, slices : {<<>>}, home : {"fleet"},
     profiles : Profiles, required : {<<>>}, template : Requests]
    \cup
    [sources : {{"placementKey"}}, selected : {{}}, slices : Lists,
     home : {"fleet", "elsewhere"}, profiles : Profiles,
     required : {[k \in {"gpu"} |-> "h100"]}, template : Requests]

\* A member is unhealthy, does not answer, or shows what there is of its copy.
Shown(healthy, any, answers, expanded, reports, ready) ==
    [healthy : healthy, gate : any, held : any, answers : answers,
     expanded : expanded, reports : reports, ready : ready]
Facts ==
    Shown({FALSE}, {FALSE}, {FALSE}, {FALSE}, {FALSE}, {0})
    \cup Shown({TRUE}, BOOLEAN, {FALSE}, {FALSE}, {FALSE}, {0})
    \cup Shown({TRUE}, BOOLEAN, {TRUE}, BOOLEAN, {FALSE}, {0})
    \cup Shown({TRUE}, BOOLEAN, {TRUE}, BOOLEAN, {TRUE}, 0 .. 2)

NoStatus == [placed |-> FALSE, reason |-> "none", nplaced |-> 0, nready |-> 0,
             replicas |-> 0, ready |-> FALSE]

Requested(in) == IF Given(in.template) THEN in.template ELSE 0

Init ==
    /\ input \in Inputs
    /\ verdict = Verdict(FALSE, "none", Nobody) /\ facts = <<>> /\ status = NoStatus

\* The placement is resolved and classified.
Plan ==
    /\ verdict.reason = "none"
    /\ verdict' = Classify(Resolve(input), Requested(input))
    /\ UNCHANGED <<input, facts, status>>

\* The pass goes on with the verdict, the template and any tolerances.
GoOn ==
    /\ verdict.reason # "none" /\ "slices" \in DOMAIN input
    /\ input' \in [template : {input.template}, minClusters : {Absent, 0, 1},
                   minReplicas : {Absent, 0, 1}]
    /\ UNCHANGED <<verdict, facts, status>>

\* The members are met, and the status is written, unless a copy cannot be
\* rendered.
Fold ==
    /\ "slices" \notin DOMAIN input /\ status = NoStatus
    /\ Renders(verdict.members, input.template)
    /\ facts' \in [DOMAIN verdict.members -> Facts]
    /\ status' = Status(verdict, input.template, facts', input.minClusters, input.minReplicas)
    /\ UNCHANGED <<input, verdict>>

Next == Plan \/ GoOn \/ Fold
Spec == Init /\ [][Next]_vars

-----------------------------------------------------------------------------
(* Properties.                                                              *)

Planned == verdict.reason # "none" /\ status = NoStatus
Decided == Planned /\ "slices" \in DOMAIN input /\ input.slices # <<>>
AllRefs == {input.slices[r[1]].refs[r[2]] : r \in References(input.slices)}
Acceptable(ref) ==
    /\ IF ref.ns = "unset" THEN input.home = "fleet" ELSE ref.ns = "fleet"
    /\ ref.name \in Registered
    /\ input.profiles[ref.name]["gpu"] = "h100"

\* ResolveDecision, ClassifyPlacement (decision.go:145, placement.go:204): one
\* reference to a cluster outside the fleet, unknown to it or unfit refuses the
\* decision as a whole; otherwise the members are exactly the clusters named.
FailClosed ==
    Decided =>
      IF \E ref \in AllRefs : ~Acceptable(ref)
      THEN verdict.reason = "DecisionViolatesRequirements" /\ verdict.members = Nobody
      ELSE DOMAIN verdict.members = {ref.name : ref \in AllRefs}

\* ResolveDecision (decision.go:146): the informer cache lists slices in any
\* order; which members are decided, and with how many replicas, does not
\* depend on it, even if two slices name the same member.
OrderDoesNotMatter ==
    Decided =>
      LET n == Len(input.slices)
          relisted == [input EXCEPT !.slices = [i \in 1 .. n |-> input.slices[n + 1 - i]]]
      IN  Classify(Resolve(relisted), Requested(input)) = verdict

\* RollupReady (placement.go:159): whatever the tolerance, the instance is Ready
\* only if a copy that can be read is up; a decision that places nothing is never
\* Ready, however it was refused.
ReadyIsEarned ==
    status.ready =>
      \E n \in DOMAIN verdict.members :
        LET f == facts[n] IN
        f.healthy /\ f.answers /\ (f.expanded \/ (f.reports /\ f.ready > 0))

\* RollupReady (placement.go:159), called at fleet_controller.go:354: an instance
\* that tolerates nothing and is not divided is Ready only as a whole.  It is then
\* Placed, and every decided member, one whose copy is held behind a closed gate
\* or that gets none included, shows an expanded copy at the strength asked for.
ReadyMeansAll ==
    (/\ status.ready /\ ~Divided(verdict.members)
     /\ ~Given(input.minClusters) /\ ~Given(input.minReplicas)) =>
      /\ status.placed
      /\ \A n \in DOMAIN verdict.members :
           LET f == facts[n] IN
           /\ f.healthy /\ f.answers /\ (f.gate \/ f.held) /\ f.expanded
           /\ f.reports /\ Given(input.template) => f.ready >= input.template
=============================================================================
