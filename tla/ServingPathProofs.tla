------------------------- MODULE ServingPathProofs --------------------------
(***************************************************************************)
(* Proofs about ServingPath: its type invariant, and what the gateway's    *)
(* balancer owes each member between two refreshes of its upstreams.       *)
(***************************************************************************)
EXTENDS ServingPath, SumTheorems

USE MembersAssumption, BoundsAssumption

-----------------------------------------------------------------------------
(* Types.                                                                   *)

LEMMA CopyTypes ==
  /\ NoCopy \in Copies /\ NoCopies \in [Members -> Copies]
  /\ Gone \in Instances /\ PassIdle \in Passes
  /\ [Gone EXCEPT !.life = "live"] \in Instances
  <1>1. NoCopy \in Copies
    BY DEF NoCopy, Copies
  <1>2. NoCopies \in [Members -> Copies]
    BY <1>1 DEF NoCopies
  <1>3. Gone \in Instances /\ [Gone EXCEPT !.life = "live"] \in Instances
    BY <1>2 DEF Gone, Instances
  <1>4. PassIdle \in Passes
    BY <1>2, <1>3 DEF PassIdle, Passes
  <1> QED
    BY <1>1, <1>2, <1>3, <1>4

LEMMA InstanceFields ==
  ASSUME NEW i \in Instances
  PROVE  /\ i.clusters \in [Members -> Copies]
         /\ \A l \in {"live", "deleting", "gone"} : [i EXCEPT !.life = l] \in Instances
         /\ \A c \in [Members -> Copies] : [i EXCEPT !.clusters = c] \in Instances
  BY DEF Instances

LEMMA PassFields ==
  ASSUME NEW p \in Passes
  PROVE  /\ p.inst \in Instances /\ p.healthy \subseteq Members /\ p.left \subseteq Members
         /\ p.pending \subseteq Members /\ p.clusters \in [Members -> Copies]
         /\ \A l, q \in SUBSET Members :
               /\ [p EXCEPT !.left = l] \in Passes
               /\ [p EXCEPT !.left = l, !.pending = q] \in Passes
         /\ \A l \in SUBSET Members, m \in Members, c \in Copies :
               [p EXCEPT !.left = l, !.clusters[m] = c] \in Passes
  <1>1. p.clusters \in [Members -> Copies]
    BY DEF Passes
  <1>2. ASSUME NEW l \in SUBSET Members, NEW m \in Members, NEW c \in Copies
        PROVE  [p EXCEPT !.left = l, !.clusters[m] = c] \in Passes
    <2> DEFINE new == [p.clusters EXCEPT ![m] = c]
    <2>1. new \in [Members -> Copies]
      BY <1>1
    <2>2. [p EXCEPT !.left = l, !.clusters[m] = c] = [p EXCEPT !.left = l, !.clusters = new]
      BY DEF Passes
    <2> HIDE DEF new
    <2>3. [p EXCEPT !.left = l, !.clusters = new] \in Passes
      BY <2>1 DEF Passes
    <2> QED
      BY <2>2, <2>3
  <1> QED
    BY <1>1, <1>2 DEF Passes

LEMMA WeightTypes ==
  ASSUME NEW i \in Instances
  PROVE  [m \in Members |-> Weight(i.clusters[m])] \in [Members -> 0 .. MaxReady]
  <1>1. ASSUME NEW m \in Members PROVE Weight(i.clusters[m]) \in 0 .. MaxReady
    <2>1. i.clusters[m] \in Copies
      BY InstanceFields
    <2> QED
      BY <2>1 DEF Copies, Weight
  <1> QED
    BY <1>1

\* The sums of the balancer.
LEMMA TotalIsSum ==
  ASSUME NEW f
  PROVE  Balancer!Total(f) = SumOf(f, Members)
  BY DEF Balancer!Total, Balancer!MapThenSumSet, Balancer!MapThenFoldSet, SumOf,
         MapThenSumSet, MapThenFoldSet

LEMMA ReportTypes ==
  ASSUME TypeOK, NEW new \in Instances, Report(new)
  PROVE  inst' \in Instances /\ due' \in BOOLEAN
  <1>1. inst' \in Instances
    BY DEF Report, TypeOK
  <1>2. due' \in BOOLEAN
    BY DEF Report, TypeOK
  <1> QED
    BY <1>1, <1>2

LEMMA DeliveredTypes ==
  ASSUME NEW m, Delivered(m)
  PROVE  due' \in BOOLEAN
  BY Zenon DEF Delivered
\* TypeOK in parts: the balancer's is in the type of the gateway.
WorldType ==
    /\ healthy \subseteq Members /\ Watch!TypeOK
    /\ copy \in [Members -> Copies]
HubType ==
    /\ inst \in Instances /\ due \in BOOLEAN /\ timer \in BOOLEAN /\ pass \in Passes
GatewayType == ginst \in Instances /\ Balancer!TypeOK

LEMMA TypeParts == TypeOK <=> /\ WorldType /\ HubType /\ GatewayType
                              /\ disturbances \in 0 .. MaxDisturbances
  BY DEF TypeOK, WorldType, HubType, GatewayType

LEMMA DisturbType ==
  ASSUME disturbances \in 0 .. MaxDisturbances, Disturb
  PROVE  disturbances' \in 0 .. MaxDisturbances
  BY DEF Disturb

LEMMA InitType ==
  ASSUME Init
  PROVE  TypeOK
  <1>1. WorldType
    BY CopyTypes DEF Init, WorldType, Watch!Init, Watch!TypeOK
  <1>2. HubType
    BY CopyTypes DEF Init, HubType
  <1>3. Balancer!Zeros \in [Members -> 0 .. MaxReady]
        /\ Balancer!Zeros \in [Members -> Int] /\ Balancer!Zeros \in [Members -> Nat]
    BY DEF Balancer!Zeros
  <1>4. GatewayType
    BY <1>3, CopyTypes DEF Init, GatewayType, Balancer!Init, Balancer!TypeOK
  <1> QED
    BY <1>1, <1>2, <1>4, TypeParts DEF Init

LEMMA WatchStart ==
  ASSUME Watch!TypeOK, NEW m \in Members, Watch!Start(m)
  PROVE  Watch!TypeOK'
  BY DEF Watch!TypeOK, Watch!Start

LEMMA WatchPoll ==
  ASSUME Watch!TypeOK, NEW m \in Members, Watch!Poll(m)
  PROVE  Watch!TypeOK'
  BY DEF Watch!TypeOK, Watch!Poll

LEMMA WatchStop ==
  ASSUME Watch!TypeOK, NEW m \in Members, Watch!Stop(m)
  PROVE  Watch!TypeOK'
  BY DEF Watch!TypeOK, Watch!Stop

LEMMA WatchKind ==
  ASSUME Watch!TypeOK, NEW m \in Members, Watch!Appear(m) \/ Watch!Disappear(m)
  PROVE  Watch!TypeOK'
  <1>1. CASE Watch!Appear(m)
    BY <1>1 DEF Watch!TypeOK, Watch!Appear
  <1>2. CASE Watch!Disappear(m)
    BY <1>2 DEF Watch!TypeOK, Watch!Disappear
  <1> QED
    BY <1>1, <1>2

LEMMA WatchSame ==
  ASSUME Watch!TypeOK, UNCHANGED watchVars
  PROVE  Watch!TypeOK'
  BY DEF Watch!TypeOK, watchVars

LEMMA BalancerSet ==
  ASSUME NEW w \in [Members -> 0 .. MaxReady], Balancer!Set(w)
  PROVE  Balancer!TypeOK'
  <1>1. Balancer!Zeros \in [Members -> Int] /\ Balancer!Zeros \in [Members -> Nat]
    BY DEF Balancer!Zeros
  <1> QED
    BY <1>1 DEF Balancer!Set, Balancer!TypeOK

\* Types of a sum and of the credits.
LEMMA BalancerSums ==
  ASSUME Balancer!TypeOK
  PROVE  /\ Balancer!Total(weight) \in Nat /\ Balancer!Total(weight) = SumOf(weight, Members)
         /\ Balancer!Total(picks) \in Nat /\ Balancer!Total(picks) = SumOf(picks, Members)
         /\ \A m \in Members : /\ weight[m] \in Nat /\ current[m] \in Int /\ picks[m] \in Nat
                               /\ Balancer!Credit(m) = current[m] + weight[m]
                               /\ Balancer!Credit(m) \in Int
  <1>1. \A m \in Members : weight[m] \in Nat /\ current[m] \in Int /\ picks[m] \in Nat
    BY DEF Balancer!TypeOK
  <1>2. SumOf(weight, Members) \in Nat /\ SumOf(picks, Members) \in Nat
    BY <1>1, SumIsNatural
  <1>3. \A m \in Members : /\ Balancer!Credit(m) = current[m] + weight[m]
                           /\ Balancer!Credit(m) \in Int
    BY <1>1 DEF Balancer!Credit
  <1> QED
    BY <1>1, <1>2, <1>3, TotalIsSum

LEMMA BalancerPick ==
  ASSUME Balancer!TypeOK, Balancer!Pick
  PROVE  Balancer!TypeOK'
  <1> DEFINE b == Balancer!Best
             base == IF Balancer!RoundOver THEN Balancer!Zeros ELSE picks
  <1>1. weight' = weight /\ picks' = [base EXCEPT ![b] = @ + 1]
        /\ current' = [m \in Members |->
                         Balancer!Credit(m) - IF m = b THEN Balancer!Total(weight) ELSE 0]
    BY DEF Balancer!Pick, Balancer!Count
  <1>2. base \in [Members -> Nat]
    BY DEF Balancer!Zeros, Balancer!TypeOK
  <1> HIDE DEF b, base
  <1>3. picks' \in [Members -> Nat]
    <2>1. picks' = [m \in Members |-> IF m = b THEN base[m] + 1 ELSE base[m]]
      BY <1>1, <1>2
    <2> QED
      BY <1>2, <2>1
  <1>4. current' \in [Members -> Int]
    BY <1>1, BalancerSums
  <1> QED
    BY <1>1, <1>3, <1>4 DEF Balancer!TypeOK

LEMMA EngageType ==
  ASSUME TypeOK, NEW m \in Members, Engage(m) \/ PollFinds(m) \/ PollFails(m)
  PROVE  TypeOK'
  <1>1. CASE Engage(m)
    <2>1. Watch!TypeOK' /\ due' \in BOOLEAN
      BY <1>1, WatchStart DEF Engage, TypeOK
    <2> QED
      BY <1>1, <2>1 DEF Engage, TypeOK, gatewayVars, Balancer!TypeOK
  <1>2. CASE PollFinds(m)
    <2>1. Watch!TypeOK' /\ due' \in BOOLEAN
      BY <1>2, WatchPoll DEF PollFinds, TypeOK
    <2> QED
      BY <1>2, <2>1 DEF PollFinds, TypeOK, gatewayVars, Balancer!TypeOK
  <1>3. CASE PollFails(m)
    <2>1. Watch!TypeOK'
      BY <1>3 DEF PollFails, TypeOK, Watch!PollFails, Watch!TypeOK
    <2>2. disturbances' \in 0 .. MaxDisturbances
      BY <1>3, DisturbType DEF PollFails, TypeOK
    <2> QED
      BY <1>3, <2>1, <2>2 DEF PollFails, TypeOK, gatewayVars, queueVars, Balancer!TypeOK
  <1> QED
    BY <1>1, <1>2, <1>3

LEMMA BeginPassType ==
  ASSUME TypeOK, BeginPass
  PROVE  TypeOK'
  <1> DEFINE started == [PassIdle EXCEPT !.pc = "visit", !.inst = inst,
                                         !.healthy = healthy, !.left = Members]
  <1>1. started \in Passes
    BY CopyTypes DEF TypeOK, PassIdle, Passes
  <1>2. pass' = PassIdle \/ pass' = started
    BY DEF BeginPass
  <1>3. pass' \in Passes
    BY <1>1, <1>2, CopyTypes
  <1>4. Watch!TypeOK'
    BY WatchSame DEF BeginPass, memberVars, TypeOK
  <1> QED
    BY <1>3, <1>4 DEF BeginPass, TypeOK, memberVars, gatewayVars, Balancer!TypeOK

LEMMA VisitType ==
  ASSUME TypeOK, NEW m \in Members,
         VisitUnreachable(m) \/ VisitPlace(m) \/ VisitFails(m) \/ VisitUnplace(m)
  PROVE  TypeOK'
  <1>0. pass \in Passes /\ pass.left \ {m} \in SUBSET Members
        /\ pass.pending \in SUBSET Members /\ pass.pending \cup {m} \in SUBSET Members
    BY PassFields DEF TypeOK
  <1>1. CASE VisitUnreachable(m)
    <2>1. pass' = [pass EXCEPT !.left = pass.left \ {m},
                              !.pending = IF Live THEN pass.pending ELSE pass.pending \cup {m}]
      BY <1>1 DEF VisitUnreachable
    <2>2. pass' \in Passes
      BY <1>0, <2>1, PassFields
    <2>3. Watch!TypeOK'
      BY <1>1, WatchSame DEF VisitUnreachable, memberVars, TypeOK
    <2> QED
      BY <1>1, <2>2, <2>3 DEF VisitUnreachable, TypeOK, memberVars, queueVars, gatewayVars,
         Balancer!TypeOK
  <1>2. CASE VisitPlace(m)
    <2>1. copy' \in [Members -> Copies]
      <3>1. [copy[m] EXCEPT !.placed = TRUE] \in Copies
        BY DEF TypeOK, Copies
      <3>2. copy' = [copy EXCEPT ![m] = [copy[m] EXCEPT !.placed = TRUE]] \/ copy' = copy
        BY <1>2 DEF VisitPlace
      <3> QED
        BY <3>1, <3>2 DEF TypeOK
    <2>2. pass' = [pass EXCEPT !.left = pass.left \ {m}, !.clusters[m] = copy'[m]]
      BY <1>2 DEF VisitPlace
    <2>3. pass' \in Passes
      BY <1>0, <2>1, <2>2, PassFields
    <2>4. due' \in BOOLEAN /\ Watch!TypeOK'
      BY <1>2, DeliveredTypes, WatchSame DEF VisitPlace, TypeOK
    <2> QED
      BY <1>2, <2>1, <2>3, <2>4 DEF VisitPlace, TypeOK, gatewayVars, Balancer!TypeOK
  <1>3. CASE VisitFails(m)
    <2>1. pass' \in Passes
      BY <1>0, <1>3, PassFields DEF VisitFails
    <2>2. disturbances' \in 0 .. MaxDisturbances
      BY <1>3, DisturbType DEF VisitFails, TypeOK
    <2>3. Watch!TypeOK'
      BY <1>3, WatchSame DEF VisitFails, memberVars, TypeOK
    <2> QED
      BY <1>3, <2>1, <2>2, <2>3 DEF VisitFails, TypeOK, memberVars, queueVars, gatewayVars,
         Balancer!TypeOK
  <1>4. CASE VisitUnplace(m)
    <2>1. copy' \in [Members -> Copies]
      BY <1>4, CopyTypes DEF VisitUnplace, TypeOK
    <2>2. pass' = [pass EXCEPT !.left = pass.left \ {m},
                     !.pending = IF copy[m].placed THEN pass.pending \cup {m} ELSE pass.pending]
      BY <1>4 DEF VisitUnplace
    <2>3. pass' \in Passes
      BY <1>0, <2>2, PassFields
    <2>4. due' \in BOOLEAN /\ Watch!TypeOK'
      BY <1>4, DeliveredTypes, WatchSame DEF VisitUnplace, TypeOK
    <2> QED
      BY <1>4, <2>1, <2>3, <2>4 DEF VisitUnplace, TypeOK, gatewayVars, Balancer!TypeOK
  <1> QED
    BY <1>1, <1>2, <1>3, <1>4

LEMMA EndPassType ==
  ASSUME TypeOK, EndPass
  PROVE  TypeOK'
  <1>1. pass.inst \in Instances /\ pass.clusters \in [Members -> Copies]
    BY PassFields DEF TypeOK
  <1>2. /\ [pass.inst EXCEPT !.clusters = pass.clusters] \in Instances
        /\ [pass.inst EXCEPT !.clusters = NoCopies] \in Instances /\ Gone \in Instances
    BY <1>1, InstanceFields, CopyTypes
  <1>3. inst' \in Instances /\ due' \in BOOLEAN
    <2>1. \/ Report([pass.inst EXCEPT !.clusters = pass.clusters])
          \/ Report([pass.inst EXCEPT !.clusters = NoCopies])
          \/ Report(Gone)
      BY DEF EndPass
    <2> QED
      BY <1>2, <2>1, ReportTypes
  <1>4. timer' \in BOOLEAN
    BY Zenon DEF EndPass
  <1>5. Watch!TypeOK' /\ pass' \in Passes
    BY WatchSame, CopyTypes DEF EndPass, memberVars, TypeOK
  <1> QED
    BY <1>3, <1>4, <1>5 DEF EndPass, TypeOK, memberVars, gatewayVars, Balancer!TypeOK

LEMMA QueueType ==
  ASSUME TypeOK, PassFault \/ Resync
  PROVE  TypeOK'
  <1>1. CASE PassFault
    <2>1. disturbances' \in 0 .. MaxDisturbances /\ pass' \in Passes
      BY <1>1, DisturbType, CopyTypes DEF PassFault, TypeOK
    <2>2. Watch!TypeOK'
      BY <1>1, WatchSame DEF PassFault, memberVars, TypeOK
    <2> QED
      BY <1>1, <2>1, <2>2 DEF PassFault, TypeOK, memberVars, gatewayVars, Balancer!TypeOK
  <1>2. CASE Resync
    <2>1. Watch!TypeOK'
      BY <1>2, WatchSame DEF Resync, memberVars, TypeOK
    <2> QED
      BY <1>2, <2>1 DEF Resync, TypeOK, memberVars, gatewayVars, Balancer!TypeOK
  <1> QED
    BY <1>1, <1>2

LEMMA GatewayStepType ==
  ASSUME TypeOK, GatewayReconcile \/ GatewayPick \/ GatewayRestarts
  PROVE  TypeOK'
  <1>1. CASE GatewayReconcile
    <2>1. Balancer!TypeOK' /\ ginst' \in Instances
      BY <1>1, WeightTypes, BalancerSet DEF GatewayReconcile, TypeOK
    <2>2. Watch!TypeOK'
      BY <1>1, WatchSame DEF GatewayReconcile, memberVars, TypeOK
    <2> QED
      BY <1>1, <2>1, <2>2 DEF GatewayReconcile, TypeOK, memberVars, queueVars
  <1>2. CASE GatewayPick
    <2>1. Balancer!TypeOK'
      BY <1>2, BalancerPick DEF GatewayPick, TypeOK
    <2>2. Watch!TypeOK'
      BY <1>2, WatchSame DEF GatewayPick, memberVars, TypeOK
    <2> QED
      BY <1>2, <2>1, <2>2 DEF GatewayPick, TypeOK, memberVars, queueVars
  <1>3. CASE GatewayRestarts
    <2>1. Balancer!TypeOK'
      <3>1. Balancer!Zeros \in [Members -> 0 .. MaxReady]
        BY DEF Balancer!Zeros
      <3> QED
        BY <1>3, <3>1, BalancerSet DEF GatewayRestarts
    <2>2. ginst' \in Instances /\ disturbances' \in 0 .. MaxDisturbances
      BY <1>3, CopyTypes, DisturbType DEF GatewayRestarts, TypeOK
    <2>3. Watch!TypeOK'
      BY <1>3, WatchSame DEF GatewayRestarts, memberVars, TypeOK
    <2> QED
      BY <1>3, <2>1, <2>2, <2>3 DEF GatewayRestarts, TypeOK, memberVars, queueVars
  <1> QED
    BY <1>1, <1>2, <1>3

LEMMA MemberType ==
  ASSUME TypeOK, NEW m \in Members, KindAppears(m) \/ KindDisappears(m) \/ Rollout(m)
  PROVE  TypeOK'
  <1>1. CASE KindAppears(m)
    <2>1. Watch!TypeOK'
      BY <1>1, WatchKind DEF KindAppears, TypeOK
    <2> QED
      BY <1>1, <2>1 DEF KindAppears, TypeOK, queueVars, gatewayVars, Balancer!TypeOK
  <1>2. CASE KindDisappears(m)
    <2>1. Watch!TypeOK' /\ due' \in BOOLEAN
      BY <1>2, WatchKind, DeliveredTypes DEF KindDisappears, TypeOK
    <2>2. disturbances' \in 0 .. MaxDisturbances
      BY <1>2, DisturbType DEF KindDisappears, TypeOK
    <2>3. copy' \in [Members -> Copies]
      BY <1>2, CopyTypes DEF KindDisappears, TypeOK
    <2> QED
      BY <1>2, <2>1, <2>2, <2>3 DEF KindDisappears, TypeOK, gatewayVars, Balancer!TypeOK
  <1>3. CASE Rollout(m)
    <2>1. Watch!TypeOK' /\ due' \in BOOLEAN
      BY <1>3, WatchSame, DeliveredTypes DEF Rollout, TypeOK
    <2>2. disturbances' \in 0 .. MaxDisturbances
      BY <1>3, DisturbType DEF Rollout, TypeOK
    <2>3. copy' \in [Members -> Copies]
      BY <1>3 DEF Rollout, TypeOK
    <2> QED
      BY <1>3, <2>1, <2>2, <2>3 DEF Rollout, TypeOK, gatewayVars, Balancer!TypeOK
  <1> QED
    BY <1>1, <1>2, <1>3

LEMMA OutsideType ==
  ASSUME TypeOK, DeleteInstance \/ \E m \in Members : ChangeHealth(m) \/ Disengage(m)
  PROVE  TypeOK'
  <1>1. CASE DeleteInstance
    <2>1. disturbances' \in 0 .. MaxDisturbances
      BY <1>1, DisturbType DEF DeleteInstance, TypeOK
    <2>2. inst' \in Instances
      BY <1>1, InstanceFields DEF DeleteInstance, TypeOK
    <2>3. Watch!TypeOK'
      BY <1>1, WatchSame DEF DeleteInstance, memberVars, TypeOK
    <2> QED
      BY <1>1, <2>1, <2>2, <2>3 DEF DeleteInstance, TypeOK, memberVars, gatewayVars,
         Balancer!TypeOK
  <1>2. ASSUME NEW m \in Members, ChangeHealth(m) PROVE TypeOK'
    <2>1. disturbances' \in 0 .. MaxDisturbances
      BY <1>2, DisturbType DEF ChangeHealth, TypeOK
    <2>2. Watch!TypeOK'
      BY <1>2, WatchSame DEF ChangeHealth, TypeOK
    <2> QED
      BY <1>2, <2>1, <2>2 DEF ChangeHealth, TypeOK, gatewayVars, Balancer!TypeOK
  <1>3. ASSUME NEW m \in Members, Disengage(m) PROVE TypeOK'
    <2>1. disturbances' \in 0 .. MaxDisturbances
      BY <1>3, DisturbType DEF Disengage, TypeOK
    <2>2. Watch!TypeOK'
      BY <1>3, WatchStop DEF Disengage, TypeOK
    <2> QED
      BY <1>3, <2>1, <2>2 DEF Disengage, TypeOK, queueVars, gatewayVars, Balancer!TypeOK
  <1> QED
    BY <1>1, <1>2, <1>3

LEMMA TypeNext ==
  ASSUME TypeOK, [Next]_vars
  PROVE  TypeOK'
  <1>1. CASE PassStep
    <2>1. CASE BeginPass
      BY <2>1, BeginPassType
    <2>2. CASE EndPass
      BY <2>2, EndPassType
    <2>3. CASE Resync
      BY <2>3, QueueType
    <2>4. CASE \E m \in Members : VisitUnreachable(m) \/ VisitPlace(m) \/ VisitUnplace(m)
      BY <2>4, VisitType
    <2> QED
      BY <1>1, <2>1, <2>2, <2>3, <2>4 DEF PassStep
  <1>2. CASE PassFault
    BY <1>2, QueueType
  <1>3. CASE GatewayReconcile \/ GatewayPick \/ GatewayRestarts
    BY <1>3, GatewayStepType
  <1>4. CASE DeleteInstance
    BY <1>4, OutsideType
  <1>5. ASSUME NEW m \in Members,
               \/ VisitFails(m) \/ Engage(m) \/ PollFinds(m) \/ PollFails(m)
               \/ KindAppears(m) \/ KindDisappears(m) \/ Rollout(m)
               \/ ChangeHealth(m) \/ Disengage(m)
        PROVE  TypeOK'
    <2>1. CASE VisitFails(m)
      BY <2>1, VisitType
    <2>2. CASE Engage(m) \/ PollFinds(m) \/ PollFails(m)
      BY <2>2, EngageType
    <2>3. CASE KindAppears(m) \/ KindDisappears(m) \/ Rollout(m)
      BY <2>3, MemberType
    <2>4. CASE ChangeHealth(m) \/ Disengage(m)
      BY <2>4, OutsideType
    <2> QED
      BY <1>5, <2>1, <2>2, <2>3, <2>4
  <1>6. CASE UNCHANGED vars
    <2>1. Watch!TypeOK'
      BY <1>6, WatchSame DEF vars, memberVars, TypeOK
    <2> QED
      BY <1>6, <2>1 DEF vars, TypeOK, memberVars, queueVars, gatewayVars, Balancer!TypeOK
  <1> QED
    BY <1>1, <1>2, <1>3, <1>4, <1>5, <1>6 DEF Next

\* Every variable keeps its type: a status entry holds what readMemberStatus
\* (fleet_controller.go:504) fills in, or nothing, and no weight exceeds the ready
\* replicas there can be.
THEOREM TypeCorrect == Spec => []TypeOK
  <1> QED
    BY InitType, TypeNext, PTL DEF Spec

-----------------------------------------------------------------------------
(* The balancer.                                                            *)

T == Balancer!Total(weight)
P == Balancer!Total(picks)

\* The credit of a member is what the round owes it, which is never a whole
\* request too little; and no round is longer than the weights make it.
CreditInv ==
    /\ P <= T /\ SumOf(current, Members) = 0
    /\ \A m \in Members : current[m] = P * weight[m] - T * picks[m]
    /\ Balancer!Upstreams # {} => \A m \in Members : current[m] > -T

\* In a fleet of at most three members the credits stay away from both bounds.
SmallInv ==
    Balancer!Upstreams # {} =>
      \A m \in Members : 3 * current[m] >= -2 * T /\ current[m] < T

\* A sum of natural numbers is positive if and only if one of them is.
LEMMA PositiveSum ==
  ASSUME NEW f, \A m \in Members : f[m] \in Nat
  PROVE  /\ SumOf(f, Members) \in Nat
         /\ SumOf(f, Members) > 0 <=> \E m \in Members : f[m] > 0
  <1>1. SumOf(f, Members) \in Nat
    BY SumIsNatural
  <1>2. ASSUME NEW m \in Members, f[m] > 0 PROVE SumOf(f, Members) > 0
    <2>1. IsFiniteSet(Members \ {m})
      BY FS_Subset
    <2> DEFINE others == SumOf(f, Members \ {m})
    <2>2. SumOf(f, Members) = f[m] + others
      <3>1. \A y \in Members : f[y] \in Int
        OBVIOUS
      <3>2. \A x \in Members : SumOf(f, Members) = f[x] + SumOf(f, Members \ {x})
        BY <3>1, SumTakesOut
      <3> QED
        BY <3>2
    <2>3. others \in Nat
      BY <2>1, SumIsNatural
    <2>4. f[m] \in Nat
      OBVIOUS
    <2> HIDE DEF others
    <2> QED
      BY <1>2, <2>2, <2>3, <2>4
  <1>3. ASSUME \A m \in Members : ~(f[m] > 0) PROVE SumOf(f, Members) = 0
    <2>1. \A m \in Members : f[m] = 0
      BY <1>3
    <2> QED
      BY <2>1, SumOfZeros
  <1> QED
    BY <1>1, <1>2, <1>3

\* There is an upstream if and only if the weights are not all zero.
LEMMA UpstreamsEarn ==
  ASSUME Balancer!TypeOK
  PROVE  Balancer!Upstreams # {} <=> T > 0
  <1>1. T = SumOf(weight, Members) /\ \A m \in Members : weight[m] \in Nat
    BY BalancerSums DEF T
  <1> QED
    BY <1>1, PositiveSum DEF Balancer!Upstreams

\* Sums that are equal though no summand is larger have equal summands.
LEMMA SumsAgree ==
  ASSUME NEW f, NEW g, \A x \in Members : f[x] \in Int /\ g[x] \in Int /\ f[x] <= g[x],
         SumOf(f, Members) = SumOf(g, Members), NEW m \in Members
  PROVE  f[m] = g[m]
  <1>1. IsFiniteSet(Members \ {m})
    BY FS_Subset
  <1>2. /\ SumOf(f, Members) = f[m] + SumOf(f, Members \ {m})
        /\ SumOf(g, Members) = g[m] + SumOf(g, Members \ {m})
        /\ SumOf(f, Members \ {m}) \in Int /\ SumOf(g, Members \ {m}) \in Int
    BY <1>1, SumTakesOut
  <1>3. SumOf(f, Members \ {m}) <= SumOf(g, Members \ {m})
    BY <1>1, SumAtMost
  <1>4. f[m] \in Int /\ g[m] \in Int /\ f[m] <= g[m]
    OBVIOUS
  <1> DEFINE fs == SumOf(f, Members \ {m})
             gs == SumOf(g, Members \ {m})
  <1>5. f[m] + fs = g[m] + gs /\ fs \in Int /\ gs \in Int /\ fs <= gs
    BY <1>2, <1>3
  <1> HIDE DEF fs, gs
  <1> QED
    BY <1>4, <1>5

\* A credit above -T leaves no room for a request too many when the round is over.
LEMMA WholeRounds ==
  ASSUME NEW t \in Nat, NEW w \in Int, NEW p \in Int, NEW c \in Int,
         c = t * w - t * p, c > -t
  PROVE  p <= w
  <1>1. c = t * (w - p)
    OBVIOUS
  <1>2. ASSUME p > w PROVE FALSE
    <2>1. PICK d \in Nat : w - p = -1 - d
      <3>1. p - w - 1 \in Nat /\ w - p = -1 - (p - w - 1)
        BY <1>2
      <3> QED
        BY <3>1
    <2>2. c = -t - t * d
      BY <1>1, <2>1
    <2>3. t * d >= 0
      OBVIOUS
    <2> QED
      BY <2>2, <2>3
  <1> QED
    BY <1>2

\* At the end of a round nothing is owed.
LEMMA RoundEnds ==
  ASSUME Balancer!TypeOK, CreditInv, Balancer!Upstreams # {}, P = T
  PROVE  \A m \in Members : picks[m] = weight[m] /\ current[m] = 0
  <1>1. /\ T \in Nat /\ P = SumOf(picks, Members) /\ T = SumOf(weight, Members)
        /\ \A m \in Members : weight[m] \in Nat /\ current[m] \in Int /\ picks[m] \in Nat
    BY BalancerSums DEF T, P
  <1>2. ASSUME NEW m \in Members PROVE picks[m] <= weight[m]
    <2>1. current[m] = T * weight[m] - T * picks[m] /\ current[m] > -T
      BY DEF CreditInv
    <2>2. T \in Nat /\ weight[m] \in Int /\ picks[m] \in Int /\ current[m] \in Int
      BY <1>1
    <2> HIDE DEF T
    <2> QED
      BY <2>1, <2>2, WholeRounds
  <1>3. ASSUME NEW m \in Members PROVE picks[m] = weight[m]
    <2>1. \A x \in Members : picks[x] \in Int /\ weight[x] \in Int /\ picks[x] <= weight[x]
      BY <1>1, <1>2
    <2>2. SumOf(picks, Members) = SumOf(weight, Members)
      BY <1>1
    <2> QED
      BY <2>1, <2>2, SumsAgree
  <1>4. ASSUME NEW m \in Members PROVE current[m] = 0
    <2>1. current[m] = T * weight[m] - T * weight[m]
      BY <1>3 DEF CreditInv
    <2>2. T * weight[m] \in Nat
      BY <1>1
    <2> QED
      BY <2>1, <2>2
  <1> QED
    BY <1>3, <1>4

\* Best is an upstream that no other upstream exceeds.
LEMMA BestIsBest ==
  ASSUME Balancer!TypeOK, Balancer!Upstreams # {}
  PROVE  /\ Balancer!Best \in Balancer!Upstreams
         /\ \A n \in Balancer!Upstreams : Balancer!Credit(n) <= Balancer!Credit(Balancer!Best)
  <1> DEFINE U == Balancer!Upstreams
             Beats(m, n) == \/ Balancer!Credit(n) < Balancer!Credit(m)
                            \/ Balancer!Credit(n) = Balancer!Credit(m) /\ m <= n
             R == {p \in U \X U : Beats(p[2], p[1])}
  <1>1. \A m \in U : m \in Nat /\ Balancer!Credit(m) \in Int
    BY BalancerSums DEF Balancer!Upstreams
  <1>2. IsFiniteSet(U) /\ U # {}
    BY FS_Subset DEF Balancer!Upstreams
  <1> HIDE DEF U
  <1>3. \A m, n \in U : <<n, m>> \in R <=> Beats(m, n)
    OBVIOUS
  <1> HIDE DEF R
  <1>4. IsOrder(R, U)
    <2>1. \A m, n \in U : Beats(m, n) \/ Beats(n, m)
      BY <1>1
    <2>2. \A k, m, n \in U : Beats(k, m) /\ Beats(m, n) => Beats(k, n)
      BY <1>1
    <2> HIDE DEF Beats
    <2> QED
      BY <1>3, <2>1, <2>2 DEF IsOrder
  <1>5. PICK m \in U : ComesLast(m, U, R)
    <2>1. U \in SUBSET U
      OBVIOUS
    <2> QED
      BY <1>2, <1>4, <2>1, LastExists
  <1>6. \E k \in U : \A n \in U : Beats(k, n)
    <2>1. Beats(m, m)
      BY <1>1
    <2> HIDE DEF Beats
    <2> QED
      BY <1>3, <1>5, <2>1 DEF ComesLast
  <1>7. Balancer!Best \in U /\ \A n \in U : Beats(Balancer!Best, n)
    BY <1>6 DEF Balancer!Best, U
  <1>8. ASSUME NEW n \in U PROVE Balancer!Credit(n) <= Balancer!Credit(Balancer!Best)
    BY <1>1, <1>7
  <1> QED
    BY <1>7, <1>8 DEF U

Earned == [m \in Members |-> Balancer!Credit(m)]

\* Together the credits before a pick are what the pick will cost, a member without
\* weight has none, and the best one has some, and at least the average.
LEMMA CreditFacts ==
  ASSUME Balancer!TypeOK, CreditInv, Balancer!Upstreams # {}
  PROVE  /\ SumOf(Earned, Members) = T
         /\ Balancer!Best \in Members
         /\ \A m \in Members : Earned[m] <= Earned[Balancer!Best]
         /\ Earned[Balancer!Best] > 0
         /\ T <= Earned[Balancer!Best] * Cardinality(Members)
  <1> DEFINE b == Balancer!Best
  <1>1. /\ T \in Nat /\ T > 0 /\ T = SumOf(weight, Members)
        /\ \A m \in Members : /\ weight[m] \in Nat /\ current[m] \in Int /\ picks[m] \in Nat
                              /\ Earned[m] = current[m] + weight[m] /\ Earned[m] \in Int
    BY BalancerSums, UpstreamsEarn DEF T, Earned
  <1>2. SumOf(Earned, Members) = T
    <2>1. \A x \in Members : current[x] \in Int /\ weight[x] \in Int
                             /\ Earned[x] = current[x] + weight[x]
      BY <1>1
    <2>2. SumOf(Earned, Members) = SumOf(current, Members) + SumOf(weight, Members)
      BY <2>1, SumOfTwo
    <2>3. SumOf(current, Members) = 0
      BY DEF CreditInv
    <2> QED
      BY <1>1, <2>2, <2>3
  <1>3. b \in Members /\ b \in Balancer!Upstreams
        /\ \A n \in Balancer!Upstreams : Earned[n] <= Earned[b]
    BY BestIsBest DEF Earned, Balancer!Upstreams
  <1>4. ASSUME NEW m \in Members, m \notin Balancer!Upstreams PROVE Earned[m] = 0
    <2>1. weight[m] = 0
      BY <1>1, <1>4 DEF Balancer!Upstreams
    <2>2. current[m] = P * 0 - T * picks[m] /\ current[m] > -T
      BY <2>1 DEF CreditInv
    <2>3. P \in Nat
      BY BalancerSums DEF P
    <2>4. current[m] = T * 0 - T * picks[m]
      BY <1>1, <2>2, <2>3
    <2>5. picks[m] <= 0
      <3>1. T \in Nat /\ picks[m] \in Int /\ current[m] \in Int
        BY <1>1
      <3> HIDE DEF T
      <3> QED
        BY <2>2, <2>4, <3>1, WholeRounds
    <2>6. picks[m] = 0
      BY <1>1, <2>5
    <2>7. current[m] = 0
      BY <1>1, <2>4, <2>6
    <2> QED
      BY <1>1, <2>1, <2>7
  <1> HIDE DEF b, T
  <1>5. Earned[b] > 0
    <2>1. ASSUME ~(Earned[b] > 0) PROVE FALSE
      <3>1. \A m \in Members : Earned[m] <= 0
        <4>1. Earned[b] <= 0 /\ Earned[b] \in Int
          BY <1>1, <1>3, <2>1
        <4>2. ASSUME NEW m \in Balancer!Upstreams PROVE Earned[m] <= 0
          <5>1. Earned[m] \in Int /\ Earned[m] <= Earned[b]
            BY <1>1, <1>3 DEF Balancer!Upstreams
          <5> QED
            BY <4>1, <5>1
        <4> QED
          BY <1>4, <4>2
      <3>2. SumOf(Earned, Members) <= 0 * Cardinality(Members)
        <4>1. \A m \in Members : Earned[m] \in Int /\ Earned[m] <= 0
          BY <1>1, <3>1
        <4>2. \A k \in Int : (\A m \in Members : Earned[m] <= k)
                 => SumOf(Earned, Members) <= k * Cardinality(Members)
          BY <4>1, SumBounded
        <4> QED
          BY <4>1, <4>2
      <3>3. Cardinality(Members) \in Nat
        BY FS_CardinalityType
      <3> QED
        BY <1>1, <1>2, <3>2, <3>3
    <2> QED
      BY <2>1
  <1>6. \A m \in Members : Earned[m] <= Earned[b]
    <2>1. ASSUME NEW m \in Members, m \notin Balancer!Upstreams PROVE Earned[m] <= Earned[b]
      <3>1. Earned[m] = 0 /\ Earned[b] \in Int
        BY <1>1, <1>3, <1>4, <2>1
      <3> QED
        BY <1>5, <3>1
    <2> QED
      BY <1>3, <2>1
  <1>7. T <= Earned[b] * Cardinality(Members)
    <2>1. Earned[b] \in Int /\ \A m \in Members : Earned[m] \in Int /\ Earned[m] <= Earned[b]
      BY <1>1, <1>3, <1>6
    <2>2. SumOf(Earned, Members) <= Earned[b] * Cardinality(Members)
      BY <2>1, SumBounded
    <2> QED
      BY <1>2, <2>2
  <1> QED
    BY <1>2, <1>3, <1>5, <1>6, <1>7 DEF b

\* How a pick moves what a member is owed.
LEMMA OwedMoves ==
  ASSUME NEW t \in Int, NEW n \in Int, NEW w \in Int, NEW p \in Int
  PROVE  /\ n * w - t * p + w = (n + 1) * w - t * p
         /\ n * w - t * p + w - t = (n + 1) * w - t * (p + 1)
  <1>1. (n + 1) * w = n * w + w
    OBVIOUS
  <1>2. t * (p + 1) = t * p + t
    OBVIOUS
  <1>3. n * w \in Int /\ t * p \in Int /\ (n + 1) * w \in Int /\ t * (p + 1) \in Int
    OBVIOUS
  <1> QED
    BY <1>1, <1>2, <1>3

\* A pick keeps the account.
LEMMA PickKeeps ==
  ASSUME Balancer!TypeOK, CreditInv, Balancer!Pick
  PROVE  /\ CreditInv' /\ T' = T /\ (Balancer!Upstreams)' = Balancer!Upstreams
         /\ Balancer!Upstreams # {}
         /\ \A m \in Members :
               current'[m] = Earned[m] - IF m = Balancer!Best THEN T ELSE 0
  <1> DEFINE b == Balancer!Best
             over == Balancer!RoundOver
             base == IF over THEN Balancer!Zeros ELSE picks
             n == IF over THEN 0 ELSE P
  <1>1. /\ Balancer!Upstreams # {} /\ weight' = weight
        /\ picks' = [base EXCEPT ![b] = @ + 1]
        /\ current' = [m \in Members |->
                         Balancer!Credit(m) - IF m = b THEN Balancer!Total(weight) ELSE 0]
    BY DEF Balancer!Pick, Balancer!Count
  <1>2. T' = T /\ (Balancer!Upstreams)' = Balancer!Upstreams
    <2>1. T' = T
      BY <1>1 DEF T, Balancer!Total, Balancer!MapThenSumSet, Balancer!MapThenFoldSet
    <2> QED
      BY <1>1, <2>1 DEF Balancer!Upstreams
  <1>3. /\ T \in Nat /\ T > 0 /\ P \in Nat /\ P <= T
        /\ T = SumOf(weight, Members) /\ P = SumOf(picks, Members)
        /\ \A m \in Members : /\ weight[m] \in Nat /\ current[m] \in Int /\ picks[m] \in Nat
                              /\ Earned[m] = current[m] + weight[m] /\ Earned[m] \in Int
    BY <1>1, BalancerSums, UpstreamsEarn DEF T, P, Earned, CreditInv
  <1>4. over <=> P = T
    BY DEF Balancer!RoundOver, T, P
  <1>5. /\ b \in Members /\ Earned[b] > 0 /\ SumOf(Earned, Members) = T
    BY <1>1, CreditFacts
  <1>6. \A m \in Members : current'[m] = Earned[m] - IF m = b THEN T ELSE 0
    BY <1>1 DEF Earned, T
  <1>7. /\ base \in [Members -> Nat]
        /\ \A m \in Members : current[m] = n * weight[m] - T * base[m]
    <2>1. CASE over
      <3>1. \A m \in Members : current[m] = 0 /\ base[m] = 0
        BY <1>1, <1>4, <2>1, RoundEnds DEF Balancer!Zeros
      <3>2. base \in [Members -> Nat] /\ n = 0
        BY <2>1 DEF Balancer!Zeros
      <3>3. \A m \in Members : 0 * weight[m] - T * 0 = 0
        BY <1>3
      <3> QED
        BY <3>1, <3>2, <3>3
    <2>2. CASE ~over
      BY <2>2 DEF Balancer!TypeOK, CreditInv
    <2> QED
      BY <2>1, <2>2
  <1>8. n \in Nat /\ n = SumOf(base, Members) /\ n + 1 <= T
    <2>1. CASE over
      <3>1. base = Balancer!Zeros /\ n = 0
        BY <2>1
      <3>2. \A m \in Members : base[m] = 0
        BY <3>1 DEF Balancer!Zeros
      <3> HIDE DEF base
      <3>3. SumOf(base, Members) = 0
        BY <3>2, SumOfZeros
      <3> QED
        BY <1>3, <3>1, <3>3
    <2>2. CASE ~over
      BY <1>3, <1>4, <2>2
    <2> QED
      BY <2>1, <2>2
  <1> HIDE DEF b, base, n, over, T
  <1>9. picks' = [m \in Members |-> IF m = b THEN base[m] + 1 ELSE base[m]]
    BY <1>1, <1>7
  <1>10. P' = n + 1
    <2>1. IsFiniteSet(Members \ {b})
      BY FS_Subset
    <2>2. \A m \in Members : picks'[m] \in Int /\ base[m] \in Int
      BY <1>7, <1>9
    <2>3. SumOf(picks', Members) = picks'[b] + SumOf(picks', Members \ {b})
          /\ SumOf(base, Members) = base[b] + SumOf(base, Members \ {b})
      BY <1>5, <2>2, SumTakesOut
    <2>4. SumOf(picks', Members \ {b}) = SumOf(base, Members \ {b})
      BY <1>9, <2>1, <2>2, SumOfSame
    <2>5. SumOf(base, Members \ {b}) \in Int
      BY <2>1, <2>2, SumTakesOut
    <2>6. picks'[b] = base[b] + 1 /\ base[b] \in Nat
      BY <1>5, <1>7, <1>9
    <2>7. P' = SumOf(picks', Members)
      BY DEF P, Balancer!Total, Balancer!MapThenSumSet, Balancer!MapThenFoldSet, SumOf,
         MapThenSumSet, MapThenFoldSet
    <2> QED
      BY <1>8, <2>3, <2>4, <2>5, <2>6, <2>7
  <1>11. SumOf(current', Members) = 0
    <2>1. IsFiniteSet(Members \ {b})
      BY FS_Subset
    <2>2. \A m \in Members : current'[m] \in Int /\ Earned[m] \in Int
      BY <1>3, <1>6
    <2>3. SumOf(current', Members) = current'[b] + SumOf(current', Members \ {b})
          /\ SumOf(Earned, Members) = Earned[b] + SumOf(Earned, Members \ {b})
      BY <1>5, <2>2, SumTakesOut
    <2>4. SumOf(current', Members \ {b}) = SumOf(Earned, Members \ {b})
      <3>1. \A m \in Members \ {b} : current'[m] \in Int /\ Earned[m] \in Int
                                     /\ current'[m] = Earned[m]
        BY <1>3, <1>6, <2>2
      <3> QED
        BY <2>1, <3>1, SumOfSame
    <2>5. SumOf(Earned, Members \ {b}) \in Int
      BY <2>1, <2>2, SumTakesOut
    <2>6. current'[b] = Earned[b] - T /\ Earned[b] \in Int
      BY <1>3, <1>5, <1>6
    <2> DEFINE others == SumOf(Earned, Members \ {b})
    <2>7. /\ SumOf(current', Members) = Earned[b] - T + others
          /\ T = Earned[b] + others /\ others \in Int /\ Earned[b] \in Int
      BY <1>5, <2>3, <2>4, <2>5, <2>6
    <2> HIDE DEF others
    <2> QED
      BY <1>3, <2>7
  <1>12. ASSUME NEW m \in Members
         PROVE  current'[m] = P' * weight'[m] - T' * picks'[m] /\ current'[m] > -T'
    <2>1. /\ weight[m] \in Int /\ base[m] \in Int /\ current[m] \in Int /\ n \in Int /\ T \in Int
          /\ current[m] = n * weight[m] - T * base[m] /\ Earned[m] = current[m] + weight[m]
      BY <1>3, <1>7, <1>8
    <2>2. /\ current[m] + weight[m] = (n + 1) * weight[m] - T * base[m]
          /\ current[m] + weight[m] - T = (n + 1) * weight[m] - T * (base[m] + 1)
      BY <2>1, OwedMoves
    <2>3. P' = n + 1 /\ weight'[m] = weight[m] /\ T' = T
      BY <1>1, <1>2, <1>10
    <2>4. CASE m = b
      <3>1. current'[m] = Earned[m] - T /\ picks'[m] = base[m] + 1
        BY <1>6, <1>9, <2>4
      <3> QED
        BY <1>3, <1>5, <2>1, <2>2, <2>3, <2>4, <3>1
    <2>5. CASE m # b
      <3>1. current'[m] = Earned[m] /\ picks'[m] = base[m]
        BY <1>3, <1>6, <1>9, <2>5
      <3>2. current[m] > -T /\ weight[m] \in Nat
        BY <1>1, <1>3 DEF CreditInv
      <3> QED
        BY <1>3, <2>1, <2>2, <2>3, <3>1, <3>2
    <2> QED
      BY <2>4, <2>5
  <1>13. CreditInv'
    BY <1>2, <1>3, <1>8, <1>10, <1>11, <1>12 DEF CreditInv
  <1> QED
    BY <1>1, <1>2, <1>6, <1>13 DEF b

\* New upstreams are owed nothing.
LEMMA SetKeeps ==
  ASSUME NEW w \in [Members -> 0 .. MaxReady], Balancer!Set(w)
  PROVE  CreditInv' /\ SmallInv'
  <1>1. /\ weight' = w
        /\ \A m \in Members : current'[m] = 0 /\ picks'[m] = 0
    BY DEF Balancer!Set, Balancer!Zeros
  <1>2. P' = 0
    <2>1. P' = SumOf(picks', Members)
      BY DEF P, Balancer!Total, Balancer!MapThenSumSet, Balancer!MapThenFoldSet, SumOf,
         MapThenSumSet, MapThenFoldSet
    <2> QED
      BY <1>1, <2>1, SumOfZeros
  <1>3. T' \in Nat /\ ((Balancer!Upstreams)' # {} => T' > 0)
    <2>1. T' = SumOf(w, Members)
      BY <1>1 DEF T, Balancer!Total, Balancer!MapThenSumSet, Balancer!MapThenFoldSet, SumOf,
         MapThenSumSet, MapThenFoldSet
    <2>2. \A m \in Members : w[m] \in Nat
      OBVIOUS
    <2>3. (Balancer!Upstreams)' = {m \in Members : w[m] > 0}
      BY <1>1 DEF Balancer!Upstreams
    <2> QED
      BY <2>1, <2>2, <2>3, PositiveSum
  <1>4. SumOf(current', Members) = 0
    BY <1>1, SumOfZeros
  <1>5. ASSUME NEW m \in Members
        PROVE  0 = 0 * weight'[m] - T' * 0
    BY <1>1, <1>3
  <1>6. CreditInv'
    BY <1>1, <1>2, <1>3, <1>4, <1>5 DEF CreditInv
  <1>7. SmallInv'
    BY <1>1, <1>3 DEF SmallInv
  <1> QED
    BY <1>6, <1>7

\* In a fleet of at most three a pick leaves no one a whole request ahead.
LEMMA PickStaysSmall ==
  ASSUME Balancer!TypeOK, CreditInv, SmallInv, Balancer!Pick, Cardinality(Members) <= 3
  PROVE  SmallInv'
  <1> DEFINE b == Balancer!Best
  <1>1. /\ Balancer!Upstreams # {} /\ T' = T
        /\ \A m \in Members : current'[m] = Earned[m] - IF m = b THEN T ELSE 0
    BY PickKeeps
  <1>2. /\ T \in Nat /\ T > 0
        /\ \A m \in Members : /\ weight[m] \in Nat /\ current[m] \in Int
                              /\ Earned[m] = current[m] + weight[m] /\ Earned[m] \in Int
                              /\ 3 * current[m] >= -2 * T /\ current[m] < T
    BY <1>1, BalancerSums, UpstreamsEarn DEF T, Earned, SmallInv
  <1>3. /\ b \in Members /\ SumOf(Earned, Members) = T /\ Earned[b] > 0
        /\ \A m \in Members : Earned[m] <= Earned[b]
        /\ T <= Earned[b] * Cardinality(Members)
    BY <1>1, CreditFacts
  <1> HIDE DEF b, T
  <1>4. Cardinality(Members) \in Nat
    BY FS_CardinalityType
  <1>5. T <= 3 * Earned[b]
    <2>1. Earned[b] * Cardinality(Members) <= 3 * Earned[b]
      <3>1. Earned[b] \in Nat /\ Cardinality(Members) \in {0, 1, 2, 3}
        BY <1>2, <1>3, <1>4
      <3> QED
        BY <3>1
    <2> QED
      BY <1>2, <1>3, <1>4, <2>1
  <1>6. ASSUME NEW m \in Members, m # b
        PROVE  Earned[m] < T
    <2> DEFINE R == (Members \ {b}) \ {m}
               rest == SumOf(Earned, R)
    <2>1. IsFiniteSet(Members \ {b}) /\ IsFiniteSet(R)
      BY FS_Subset
    <2>2. T = Earned[b] + Earned[m] + rest /\ rest \in Int
      <3>1. SumOf(Earned, Members) = Earned[b] + SumOf(Earned, Members \ {b})
        BY <1>2, <1>3, SumTakesOut
      <3>2. SumOf(Earned, Members \ {b}) = Earned[m] + rest
        BY <1>2, <1>6, <2>1, SumTakesOut
      <3>3. rest \in Int
        BY <1>2, <2>1, SumTakesOut
      <3> HIDE DEF rest
      <3> QED
        BY <1>2, <1>3, <3>1, <3>2, <3>3
    <2>3. 3 * rest >= -2 * T
      <3>1. Cardinality(R) \in Nat /\ Cardinality(R) <= 1
        <4>1. Cardinality(Members \ {b}) = Cardinality(Members) - 1
          BY <1>3, FS_RemoveElement
        <4>2. Cardinality(R) = Cardinality(Members \ {b}) - 1
          BY <1>6, <2>1, FS_RemoveElement
        <4>3. Cardinality(R) \in Nat
          BY <2>1, FS_CardinalityType
        <4> HIDE DEF R
        <4> QED
          BY <1>4, <4>1, <4>2, <4>3
      <3>2. CASE Cardinality(R) = 0
        <4>1. R = {}
          BY <2>1, <3>2, FS_EmptySet
        <4>2. rest = 0
          BY <4>1, SumOfNothing
        <4> HIDE DEF rest
        <4> QED
          BY <1>2, <4>2
      <3>3. CASE Cardinality(R) = 1
        <4>1. PICK x : R = {x}
          BY <2>1, <3>3, FS_Singleton
        <4>2. x \in Members /\ x \in R /\ R \ {x} = {}
          BY <4>1
        <4>3. rest = Earned[x] + SumOf(Earned, R \ {x})
          <5>1. \A y \in R : Earned[y] \in Int
            BY <1>2
          <5> HIDE DEF R
          <5> QED
            BY <2>1, <4>2, <5>1, SumTakesOut
        <4>4. rest = Earned[x]
          <5>1. SumOf(Earned, R \ {x}) = 0
            BY <4>2, SumOfNothing
          <5>2. Earned[x] \in Int
            BY <1>2, <4>2
          <5> HIDE DEF R, rest
          <5> QED
            BY <4>3, <5>1, <5>2
        <4> HIDE DEF rest
        <4> QED
          BY <1>2, <4>2, <4>4
      <3> QED
        BY <3>1, <3>2, <3>3
    <2> HIDE DEF rest
    <2>4. Earned[m] \in Int /\ Earned[b] \in Int /\ Earned[m] <= Earned[b]
      BY <1>2, <1>3
    <2> QED
      BY <1>2, <2>2, <2>3, <2>4
  <1>7. weight[b] <= T
    <2>1. T = SumOf(weight, Members) /\ \A m \in Members : weight[m] \in Nat
      BY <1>2, BalancerSums DEF T
    <2>2. {b} \in SUBSET Members /\ IsFiniteSet({b}) /\ b \in {b}
      BY <1>3, FS_Singleton
    <2>3. SumOf(weight, {b}) <= T
      BY <2>1, <2>2, SumOfPart
    <2>4. SumOf(weight, {b}) = weight[b] + SumOf(weight, {b} \ {b})
      <3>1. \A y \in {b} : weight[y] \in Int
        BY <1>3, <2>1
      <3> QED
        BY <2>2, <3>1, SumTakesOut
    <2>5. SumOf(weight, {b} \ {b}) = 0
      <3>1. {b} \ {b} = {}
        OBVIOUS
      <3> QED
        BY <3>1, SumOfNothing
    <2> QED
      BY <1>2, <1>3, <2>3, <2>4, <2>5
  <1>8. ASSUME NEW m \in Members
        PROVE  3 * current'[m] >= -2 * T /\ current'[m] < T
    <2>1. CASE m = b
      <3>1. current'[b] = Earned[b] - T
        BY <1>1, <1>3
      <3>2. /\ Earned[b] \in Int /\ Earned[b] = current[b] + weight[b]
            /\ current[b] \in Int /\ current[b] < T /\ weight[b] \in Nat
        BY <1>2, <1>3
      <3> QED
        BY <1>2, <1>5, <1>7, <2>1, <3>1, <3>2
    <2>2. CASE m # b
      <3>1. current'[m] = Earned[m] - 0
        BY <1>1, <2>2
      <3>2. Earned[m] < T
        BY <1>6, <2>2
      <3> QED
        BY <1>2, <3>1, <3>2
    <2> QED
      BY <2>1, <2>2
  <1> QED
    BY <1>1, <1>8 DEF SmallInv

LEMMA SharesInit ==
  ASSUME Init
  PROVE  CreditInv /\ SmallInv
  <1>1. \A m \in Members : weight[m] = 0 /\ current[m] = 0 /\ picks[m] = 0
    BY DEF Init, Balancer!Init, Balancer!Zeros
  <1>2. P = 0 /\ T = 0 /\ SumOf(current, Members) = 0
    BY <1>1, TotalIsSum, SumOfZeros DEF P, T
  <1>3. Balancer!Upstreams = {}
    <2>1. \A m \in Members : ~(weight[m] > 0)
      BY <1>1
    <2> QED
      BY <2>1 DEF Balancer!Upstreams
  <1>4. 0 <= 0 /\ 0 = 0 * 0 - 0 * 0
    OBVIOUS
  <1> QED
    BY <1>1, <1>2, <1>3, <1>4 DEF CreditInv, SmallInv

LEMMA SharesUnchanged ==
  ASSUME UNCHANGED <<weight, current, picks>>
  PROVE  /\ CreditInv => CreditInv'
         /\ SmallInv => SmallInv'
  <1>1. T' = T /\ P' = P /\ weight' = weight /\ current' = current /\ picks' = picks
    BY DEF T, P, Balancer!Total, Balancer!MapThenSumSet, Balancer!MapThenFoldSet
  <1>2. (Balancer!Upstreams)' = Balancer!Upstreams
    BY DEF Balancer!Upstreams
  <1> QED
    BY <1>1, <1>2 DEF CreditInv, SmallInv

\* Only the gateway touches the account.
LEMMA GatewayOnly ==
  ASSUME [Next]_vars
  PROVE  GatewayReconcile \/ GatewayPick \/ GatewayRestarts \/ UNCHANGED <<weight, current, picks>>
  <1>1. CASE PassStep
    BY <1>1 DEF PassStep, BeginPass, EndPass, Resync, VisitUnreachable, VisitPlace, VisitUnplace,
       gatewayVars
  <1>2. CASE PassFault \/ DeleteInstance
    BY <1>2 DEF PassFault, DeleteInstance, gatewayVars
  <1>3. ASSUME NEW m \in Members,
               VisitFails(m) \/ Engage(m) \/ PollFinds(m) \/ PollFails(m)
        PROVE  UNCHANGED <<weight, current, picks>>
    BY <1>3 DEF VisitFails, Engage, PollFinds, PollFails, gatewayVars
  <1>4. ASSUME NEW m \in Members,
               \/ KindAppears(m) \/ KindDisappears(m) \/ Rollout(m)
               \/ ChangeHealth(m) \/ Disengage(m)
        PROVE  UNCHANGED <<weight, current, picks>>
    BY <1>4 DEF KindAppears, KindDisappears, Rollout, ChangeHealth, Disengage, gatewayVars
  <1>5. CASE UNCHANGED vars
    BY <1>5 DEF vars, gatewayVars
  <1> QED
    BY <1>1, <1>2, <1>3, <1>4, <1>5 DEF Next

LEMMA SetSteps ==
  ASSUME TypeOK, GatewayReconcile \/ GatewayRestarts
  PROVE  CreditInv' /\ SmallInv'
  <1>1. CASE GatewayReconcile
    <2>1. inst \in Instances
      BY DEF TypeOK
    <2> QED
      BY <1>1, <2>1, WeightTypes, SetKeeps DEF GatewayReconcile
  <1>2. CASE GatewayRestarts
    <2>1. Balancer!Zeros \in [Members -> 0 .. MaxReady]
      BY DEF Balancer!Zeros
    <2> QED
      BY <1>2, <2>1, SetKeeps DEF GatewayRestarts
  <1> QED
    BY <1>1, <1>2

LEMMA CreditNext ==
  ASSUME TypeOK, CreditInv, [Next]_vars
  PROVE  CreditInv'
  <1>1. CASE GatewayPick
    <2>1. Balancer!TypeOK /\ Balancer!Pick
      BY <1>1 DEF TypeOK, GatewayPick
    <2> QED
      BY <2>1, PickKeeps
  <1> QED
    BY <1>1, SetSteps, SharesUnchanged, GatewayOnly

LEMMA SmallNext ==
  ASSUME TypeOK, CreditInv, SmallInv, [Next]_vars, Cardinality(Members) <= 3
  PROVE  SmallInv'
  <1>1. CASE GatewayPick
    <2>1. Balancer!TypeOK /\ Balancer!Pick
      BY <1>1 DEF TypeOK, GatewayPick
    <2> QED
      BY <2>1, PickStaysSmall
  <1> QED
    BY <1>1, SetSteps, SharesUnchanged, GatewayOnly

THEOREM CreditInvariant == Spec => [](TypeOK /\ CreditInv)
  <1>1. Init => CreditInv
    BY SharesInit
  <1>2. TypeOK /\ CreditInv /\ [Next]_vars => CreditInv'
    BY CreditNext
  <1> QED
    BY <1>1, <1>2, TypeCorrect, PTL DEF Spec

\* What ShareIsKept says of a fleet of any size: no member is ever a whole request
\* ahead of its share, and a round that is over has given each exactly its own.
NeverAhead ==
    Balancer!Upstreams # {} =>
      \A m \in Members :
        LET owed == Balancer!Total(picks) * weight[m] - Balancer!Total(weight) * picks[m] IN
        /\ -Balancer!Total(weight) < owed
        /\ Balancer!RoundOver => owed = 0

LEMMA CreditMeans ==
  ASSUME TypeOK, CreditInv
  PROVE  NeverAhead
  <1>1. ASSUME Balancer!Upstreams # {}, NEW m \in Members
        PROVE  /\ -T < P * weight[m] - T * picks[m]
               /\ P = T => P * weight[m] - T * picks[m] = 0
    <2>1. current[m] = P * weight[m] - T * picks[m] /\ current[m] > -T
      BY <1>1 DEF CreditInv
    <2>2. Balancer!TypeOK
      BY DEF TypeOK
    <2>3. P = T => current[m] = 0
      BY <1>1, <2>2, RoundEnds
    <2>4. T \in Nat /\ current[m] \in Int
      BY <2>2, BalancerSums DEF T
    <2> HIDE DEF T, P
    <2> QED
      BY <2>1, <2>3, <2>4
  <1> QED
    BY <1>1 DEF NeverAhead, Balancer!RoundOver, T, P

\* pick (gateway.go:125): in a fleet of any size no member gets a whole request more
\* than its share of the requests since the upstreams were set, and a round gives
\* every upstream exactly as many as it has ready replicas.
THEOREM NobodyAhead == Spec => []NeverAhead
  <1>1. TypeOK /\ CreditInv => NeverAhead
    BY CreditMeans
  <1> QED
    BY <1>1, CreditInvariant, PTL

\* pick (gateway.go:125): in a fleet of at most three members none is a whole request
\* away from its share, whatever the weights are.
THEOREM ShareKept ==
  ASSUME Cardinality(Members) <= 3
  PROVE  Spec => []ShareIsKept
  <1>1. Init => SmallInv
    BY SharesInit
  <1>2. TypeOK /\ CreditInv /\ SmallInv /\ [Next]_vars => SmallInv'
    BY SmallNext
  <1>3. ASSUME TypeOK, CreditInv, SmallInv
        PROVE  ShareIsKept
    <2>1. ASSUME Balancer!Upstreams # {}, NEW m \in Members
          PROVE  P * weight[m] - T * picks[m] < T
      <3>1. current[m] = P * weight[m] - T * picks[m]
        BY <1>3 DEF CreditInv
      <3>2. current[m] < T
        BY <1>3, <2>1 DEF SmallInv
      <3> QED
        BY <3>1, <3>2
    <2>2. NeverAhead
      BY <1>3, CreditMeans
    <2> QED
      BY <2>1, <2>2 DEF NeverAhead, ShareIsKept, Balancer!ShareIsKept, T, P
  <1>4. TypeOK /\ CreditInv /\ SmallInv => ShareIsKept
    BY <1>3
  <1> QED
    BY <1>1, <1>2, <1>4, CreditInvariant, PTL DEF Spec

=============================================================================
