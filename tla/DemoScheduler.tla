---------------------------- MODULE DemoScheduler ---------------------------
(***************************************************************************)
(* The demo scheduler, which divides the replicas of fleet instances over  *)
(* clusters with a limited number of accelerators, and the inventory agent *)
(* that advertises how many of them are free.  The scheduler sizes a       *)
(* cluster from a ledger it reads back from its own decisions, in an       *)
(* informer cache that may lag, and from the advertised free count, which  *)
(* lags behind the pods; pods follow a decision one at a time.             *)
(*                                                                         *)
(* Every cluster has Room accelerators; clusters are numbers in the order  *)
(* of their names, which is also the order of their cost tiers.            *)
(***************************************************************************)
EXTENDS Naturals, FiniteSets, FiniteSetsExt

CONSTANTS
    Instances,      \* instances that consume a decision of this scheduler
    Clusters,       \* the clusters of the fleet, numbers
    Room,           \* the accelerators of a cluster
    Totalling,      \* the clusters that advertise their total
    Spot,           \* the clusters of capacity type spot
    MaxWant,        \* bound: replicas an instance asks for
    Tenancy,        \* do others than the fleet run pods on the clusters?
    MaxChanges      \* bound: outside changes

ASSUME ClustersAssumption == Clusters \subseteq Nat /\ IsFiniteSet(Clusters)
ASSUME InstancesAssumption == IsFiniteSet(Instances)
ASSUME RoomAssumption == Room \in Nat /\ MaxWant \in Nat \ {0} /\ MaxChanges \in Nat
ASSUME KindsAssumption ==
    Totalling \subseteq Clusters /\ Spot \subseteq Clusters /\ Tenancy \in BOOLEAN

VARIABLES
    want,       \* the replicas each instance asks for, 0 when it is not there
    dec, cdec,  \* the replicas each decision assigns to a cluster: hub, cache
    pods,       \* the accelerators pods of the fleet use on a cluster
    tenants,    \* the accelerators others use on a cluster
    free,       \* the free accelerators a cluster advertises
    usable,     \* the clusters that are healthy, not draining and fit
    changes

vars == <<want, dec, cdec, pods, tenants, free, usable, changes>>

Nothing == [c \in Clusters |-> 0]
Sum(f, S) == MapThenSumSet(LAMBDA x : f[x], S)
Less(a, b) == IF a <= b THEN 0 ELSE a - b       \* a - b, but not below 0
Smaller(a, b) == IF a <= b THEN a ELSE b

-----------------------------------------------------------------------------
(* readLedger and accountCapacity: the room for an instance on a cluster.   *)

Own(i, c) == cdec[i][c]
Others(i, c) == Sum([j \in Instances |-> cdec[j][c]], Instances \ {i})

\* What nobody here placed, as far as the free count reveals it.
External(total, fr, own, others) == Less(total, fr + own + others)

\* Fault: what other decisions have assigned is only seen once it runs.
AccountUnreserved(total, fr, hasTotal, own, others) ==
    IF ~hasTotal THEN fr + own ELSE Less(total, External(total, fr, own, 0))
AccountCapacity(total, fr, hasTotal, own, others) ==
    IF ~hasTotal THEN fr + own
    ELSE Less(total, others + External(total, fr, own, others))

\* candidates: clusters that cannot be used have no room.
Capacity(i) ==
    [c \in Clusters |->
        IF c \in usable
        THEN AccountCapacity(Room, free[c], c \in Totalling, Own(i, c), Others(i, c))
        ELSE 0]

-----------------------------------------------------------------------------
(* Assign: the policies.                                                    *)

\* Where the policy fills first; ties and unknown tiers go by name.
First(policy, cap, c, d) ==
    CASE policy = "cheapest-first" -> c < d
      [] policy = "spot-first" -> IF c \in Spot <=> d \in Spot THEN c < d ELSE c \in Spot
      [] policy = "bin-pack" -> IF cap[c] = cap[d] THEN c < d ELSE cap[c] > cap[d]

\* Fault: a cluster is filled to its capacity whatever is asked for.
FillUp(policy, requested, cap) == cap

\* Fault: what earlier clusters take is not taken off.
FillEach(policy, requested, cap) == [c \in Clusters |-> Smaller(cap[c], requested)]
Fill(policy, requested, cap) ==
    [c \in Clusters |->
        LET before == {d \in Clusters : d # c /\ First(policy, cap, d, c)}
        IN  Smaller(cap[c], Less(requested, Sum(cap, before)))]

\* Fault: simply the first cluster that has room.
NextWithRoom(out, cap) ==
    Min({c \in Clusters : out[c] < cap[c]})

\* The cluster with the fewest replicas so far that has room, the first of them.
NextCluster(out, cap) ==
    LET open == {c \in Clusters : out[c] < cap[c]}
    IN  Min({c \in open : \A d \in open : out[c] <= out[d]})

\* One replica at a time.
Spread(requested, cap) ==
    LET after[n \in 0 .. requested] ==
            IF n = 0 THEN Nothing
            ELSE LET out == after[n - 1]
                 IN  IF \A c \in Clusters : out[c] >= cap[c] THEN out
                     ELSE [out EXCEPT ![NextCluster(out, cap)] = @ + 1]
    IN  after[requested]

Policies == {"spread", "cheapest-first", "spot-first", "bin-pack"}

\* An unknown policy assigns nothing.
Assign(policy, requested, cap) ==
    CASE policy = "spread" -> Spread(requested, cap)
      [] policy \in Policies \ {"spread"} -> Fill(policy, requested, cap)
      [] OTHER -> Nothing

-----------------------------------------------------------------------------
Used(c) == pods[c] + tenants[c]

\* Reconcile: the decision of one instance is computed anew, under the policy
\* its annotation names at the time.
Decide(i) ==
    /\ want[i] > 0
    /\ \E policy \in Policies \cup {"unknown"} :
          dec' = [dec EXCEPT ![i] = Assign(policy, want[i], Capacity(i))]
    /\ UNCHANGED <<want, cdec, pods, tenants, free, usable, changes>>

SyncDecision(i) ==
    /\ cdec[i] # dec[i]
    /\ cdec' = [cdec EXCEPT ![i] = dec[i]]
    /\ UNCHANGED <<want, dec, pods, tenants, free, usable, changes>>

\* The inventory agent: allocatable accelerators less those requested by pods.
Advertise(c) ==
    /\ free[c] # Less(Room, Used(c))
    /\ free' = [free EXCEPT ![c] = Less(Room, Used(c))]
    /\ UNCHANGED <<want, dec, cdec, pods, tenants, usable, changes>>

\* The fleet controller and the members bring the pods to what is decided.  Whose
\* pods they are is left out, so one may start while those of a decision that
\* shrank still run, and any may stop; one runs only on a free accelerator.
PodStarts(c) ==
    /\ \E i \in Instances : dec[i][c] > 0
    /\ Used(c) < Room
    /\ pods' = [pods EXCEPT ![c] = @ + 1]
    /\ UNCHANGED <<want, dec, cdec, tenants, free, usable, changes>>

PodStops(c) ==
    /\ pods[c] > 0
    /\ pods' = [pods EXCEPT ![c] = @ - 1]
    /\ UNCHANGED <<want, dec, cdec, tenants, free, usable, changes>>

\* The decision of an instance that is gone is collected with its owner.
CollectDecision(i) ==
    /\ want[i] = 0 /\ dec[i] # Nothing
    /\ dec' = [dec EXCEPT ![i] = Nothing]
    /\ UNCHANGED <<want, cdec, pods, tenants, free, usable, changes>>

Disturb ==
    /\ changes < MaxChanges
    /\ changes' = changes + 1
    /\ UNCHANGED <<dec, cdec, pods, free>>

ChangeWant(i) ==
    /\ Disturb
    /\ \E n \in 0 .. MaxWant : n # want[i] /\ want' = [want EXCEPT ![i] = n]
    /\ UNCHANGED <<tenants, usable>>

ChangeTenants(c) ==
    /\ Disturb /\ Tenancy
    /\ \/ Used(c) < Room /\ tenants' = [tenants EXCEPT ![c] = @ + 1]
       \/ tenants[c] > 0 /\ tenants' = [tenants EXCEPT ![c] = @ - 1]
    /\ UNCHANGED <<want, usable>>

ChangeUsable(c) ==
    /\ Disturb
    /\ usable' = IF c \in usable THEN usable \ {c} ELSE usable \cup {c}
    /\ UNCHANGED <<want, tenants>>

Init ==
    /\ want \in [Instances -> {0, MaxWant}]
    /\ dec = [i \in Instances |-> Nothing] /\ cdec = dec
    /\ pods = Nothing /\ tenants = Nothing
    /\ free = [c \in Clusters |-> Room] /\ usable = Clusters
    /\ changes = 0

Next ==
    \/ \E i \in Instances :
          \/ Decide(i) \/ SyncDecision(i) \/ CollectDecision(i) \/ ChangeWant(i)
    \/ \E c \in Clusters :
          \/ Advertise(c) \/ PodStarts(c) \/ PodStops(c)
          \/ ChangeTenants(c) \/ ChangeUsable(c)

Spec == Init /\ [][Next]_vars

-----------------------------------------------------------------------------
(* Properties.                                                              *)

Assignments == [Clusters -> 0 .. MaxWant]

\* Every variable has its type: no policy (policy.go:61) assigns an instance more
\* on one cluster than it asked for, and no more pods run than there is room for.
TypeOK ==
    /\ want \in [Instances -> 0 .. MaxWant]
    /\ dec \in [Instances -> Assignments] /\ cdec \in [Instances -> Assignments]
    /\ pods \in [Clusters -> 0 .. Room]
    /\ tenants \in [Clusters -> 0 .. Room] /\ free \in [Clusters -> 0 .. Room]
    /\ usable \subseteq Clusters /\ changes \in 0 .. MaxChanges

\* The accelerators of c that decisions have assigned.
Reserved(c) == Sum([i \in Instances |-> dec[i][c]], Instances)

\* accountCapacity (scheduler.go:239): whatever pods and tenants do, a decision
\* made on an up-to-date ledger does not reserve an accelerator twice: where it
\* assigns a replica, all decisions together fit the cluster.
NoOvercommit ==
    [][cdec = dec =>
         \A i \in Instances, c \in Totalling :
            dec'[i] # dec[i] /\ dec'[i][c] > 0 => Reserved(c)' <= Room]_vars

\* Assign (policy.go:61): on every ledger that can arise, each policy assigns no
\* cluster more than its capacity, and in total what is asked for, or all there is.
AssignsWhatFits ==
    \A i \in Instances, policy \in Policies :
      LET cap == Capacity(i)
          out == Assign(policy, want[i], cap)
      IN  /\ \A c \in Clusters : out[c] <= cap[c]
          /\ Sum(out, Clusters) = Smaller(want[i], Sum(cap, Clusters))

\* spread (policy.go:115): a cluster is given two replicas more than another
\* only when that one is full.
SpreadIsEven ==
    \A i \in Instances :
      LET cap == Capacity(i)
          out == Spread(want[i], cap)
      IN  \A c, d \in Clusters : out[c] > out[d] + 1 => out[d] = cap[d]

\* scheduler.go:228 "the advertised free count only reveals consumption this
\* scheduler did not place (other tenants)": a re-evaluation on an up-to-date
\* ledger and free count does not find more room than the tenants leave.
FindsNoMoreRoomThanExists ==
    [][cdec = dec =>
         \A i \in Instances, c \in Totalling :
            free[c] = Less(Room, Used(c)) /\ dec'[i][c] > dec[i][c]
              => Reserved(c)' + tenants[c] <= Room]_vars
=============================================================================
