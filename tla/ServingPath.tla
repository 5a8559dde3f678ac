---------------------------- MODULE ServingPath ----------------------------
(***************************************************************************)
(* The way from a member's copy to a request sent to it: the members' kro  *)
(* report ready replicas and an endpoint, the watch on the member          *)
(* (MemberWatch) or the periodic resync makes the FleetReconciler read     *)
(* them back into the status of the instance, and the gateway (Gateway), a *)
(* process of its own, takes its upstreams from that status.               *)
(*                                                                         *)
(* Of the FleetReconciler's pass this keeps what decides about the status  *)
(* and about the next pass; the placing itself is FleetPlacement.  Every   *)
(* member is decided throughout, and a copy is placed where the kind is    *)
(* served.  Work queues merge the requests for the one instance.           *)
(***************************************************************************)
EXTENDS Integers, FiniteSets

CONSTANTS
    Members,        \* member numbers, in the order of their names
    MaxReady,       \* bound: ready replicas of a member
    MaxDisturbances \* bound: outside changes, failing calls and restarts

ASSUME MembersAssumption == Members \subseteq Nat /\ IsFiniteSet(Members)
ASSUME BoundsAssumption ==
    MaxReady \in Nat /\ MaxDisturbances \in Nat

VARIABLES
    healthy,    \* the members whose ClusterProfile reports them healthy
    engaged, kind, watch,       \* MemberWatch
    copy,       \* the GenAIService on each member
    inst,       \* the FleetGenAIService: its life and status.clusters
    due,        \* a request for the instance is in FleetReconciler's queue
    timer,      \* a delayed request (RequeueAfter) is pending
    pass,       \* FleetReconciler's pass
    ginst,      \* the FleetGenAIService as the gateway last saw it
    weight, current, picks,     \* Gateway
    disturbances

Watch == INSTANCE MemberWatch
Balancer == INSTANCE Gateway

watchVars == <<engaged, kind, watch>>
memberVars == <<healthy, watchVars, copy>>
queueVars == <<due, timer>>
gatewayVars == <<ginst, weight, current, picks>>
vars == <<memberVars, inst, queueVars, pass, gatewayVars, disturbances>>

Disturb ==
    /\ disturbances < MaxDisturbances
    /\ disturbances' = disturbances + 1

-----------------------------------------------------------------------------
Copies == [placed : BOOLEAN, endpoint : BOOLEAN, ready : 0 .. MaxReady]
NoCopy == [placed |-> FALSE, endpoint |-> FALSE, ready |-> 0]
NoCopies == [m \in Members |-> NoCopy]

\* A status entry is what was read of the copy, or nothing.
Instances == [life : {"live", "deleting", "gone"}, clusters : [Members -> Copies]]
Gone == [life |-> "gone", clusters |-> NoCopies]

Passes ==
    [pc : {"idle", "visit"}, inst : Instances, healthy : SUBSET Members,
     left : SUBSET Members, clusters : [Members -> Copies], pending : SUBSET Members]
PassIdle ==
    [pc |-> "idle", inst |-> Gone, healthy |-> {}, left |-> {},
     clusters |-> NoCopies, pending |-> {}]

\* Reconcile of the gateway: an entry without an endpoint or ready replicas is no
\* upstream.
\* Fault: ready replicas are enough.
WeightOfReady(e) == e.ready
Weight(e) == IF e.endpoint THEN e.ready ELSE 0

-----------------------------------------------------------------------------
(* The watches on the members: a watch delivers every change of the copy,   *)
(* and the copy it finds when it starts.                                    *)

Delivered(m) == due' = (due \/ (watch[m] = "on" /\ copy'[m] # copy[m]))

Engage(m) ==
    /\ m \in healthy
    /\ Watch!Start(m)
    /\ due' = (due \/ (m \in kind /\ copy[m].placed))
    /\ UNCHANGED <<healthy, copy, inst, timer, pass, gatewayVars, disturbances>>

PollFinds(m) ==
    /\ Watch!Poll(m)
    /\ due' = (due \/ copy[m].placed)
    /\ UNCHANGED <<healthy, copy, inst, timer, pass, gatewayVars, disturbances>>

PollFails(m) ==
    /\ Disturb
    /\ Watch!PollFails(m)
    /\ UNCHANGED <<healthy, copy, inst, queueVars, pass, gatewayVars>>

-----------------------------------------------------------------------------
(* FleetReconciler: what a pass reads, reports and asks to be called again. *)

BeginPass ==
    /\ pass.pc = "idle" /\ due
    /\ due' = FALSE
    /\ pass' = IF inst.life = "gone" THEN PassIdle
               ELSE [PassIdle EXCEPT !.pc = "visit", !.inst = inst,
                                     !.healthy = healthy, !.left = Members]
    /\ UNCHANGED <<memberVars, inst, timer, gatewayVars, disturbances>>

Turn(m) == pass.pc = "visit" /\ m \in pass.left /\ \A n \in pass.left : m <= n
Reachable(m) == m \in pass.healthy \cap engaged
Live == pass.inst.life = "live"

\* An unreachable member's entry is empty; while deleting, its copy is pending.
VisitUnreachable(m) ==
    /\ Turn(m) /\ ~Reachable(m)
    /\ pass' = [pass EXCEPT !.left = @ \ {m},
                            !.pending = IF Live THEN @ ELSE @ \cup {m}]
    /\ UNCHANGED <<memberVars, inst, queueVars, gatewayVars, disturbances>>

\* applyToMember: the copy is applied and read back.
VisitPlace(m) ==
    /\ Turn(m) /\ Reachable(m) /\ Live
    /\ copy' = IF m \in kind THEN [copy EXCEPT ![m].placed = TRUE] ELSE copy
    /\ Delivered(m)
    /\ pass' = [pass EXCEPT !.left = @ \ {m}, !.clusters[m] = copy'[m]]
    /\ UNCHANGED <<healthy, watchVars, inst, timer, gatewayVars, disturbances>>

\* A failing apply or read ends the pass for this member only: its entry is
\* empty, and nothing is reported as an error.
VisitFails(m) ==
    /\ Turn(m) /\ Reachable(m) /\ Live
    /\ Disturb
    /\ pass' = [pass EXCEPT !.left = @ \ {m}]
    /\ UNCHANGED <<memberVars, inst, queueVars, gatewayVars>>

\* unplace: a copy that was there is deleted, and pending until it is seen gone.
VisitUnplace(m) ==
    /\ Turn(m) /\ Reachable(m) /\ ~Live
    /\ copy' = [copy EXCEPT ![m] = NoCopy]
    /\ pass' = [pass EXCEPT !.left = @ \ {m},
                            !.pending = IF copy[m].placed THEN @ \cup {m} ELSE @]
    /\ Delivered(m)
    /\ UNCHANGED <<healthy, watchVars, inst, timer, gatewayVars, disturbances>>

\* Writing the instance: refused when it has changed meanwhile, and then the
\* request is retried; an update that changes something is an event.
Report(new) ==
    /\ inst' = IF inst = pass.inst THEN new ELSE inst
    /\ due' = (due \/ inst # pass.inst \/ new # inst)

\* Fault: the resync is asked for only while a member is still pending.
EndPassUntimed ==
    /\ pass.pc = "visit" /\ pass.left = {}
    /\ pass' = PassIdle
    /\ \/ Live /\ Report([pass.inst EXCEPT !.clusters = pass.clusters])
       \/ ~Live /\ pass.pending # {} /\ Report([pass.inst EXCEPT !.clusters = NoCopies])
       \/ ~Live /\ pass.pending = {} /\ Report(Gone)
    /\ timer' = (timer \/ pass.pending # {})
    /\ UNCHANGED <<memberVars, gatewayVars, disturbances>>
EndPass ==
    /\ pass.pc = "visit" /\ pass.left = {}
    /\ pass' = PassIdle
    /\ \/ Live /\ Report([pass.inst EXCEPT !.clusters = pass.clusters])
       \/ ~Live /\ pass.pending # {} /\ Report([pass.inst EXCEPT !.clusters = NoCopies])
       \/ ~Live /\ pass.pending = {} /\ Report(Gone)
    /\ timer' = (timer \/ Live \/ pass.pending # {})
    /\ UNCHANGED <<memberVars, gatewayVars, disturbances>>

\* Any other call fails, or the controller restarts: what the pass has read is
\* lost, and the request is there again.
PassFault ==
    /\ pass.pc = "visit"
    /\ Disturb
    /\ pass' = PassIdle /\ due' = TRUE
    /\ UNCHANGED <<memberVars, inst, timer, gatewayVars>>

Resync ==
    /\ timer
    /\ timer' = FALSE /\ due' = TRUE
    /\ UNCHANGED <<memberVars, inst, pass, gatewayVars, disturbances>>

PassStep ==
    \/ BeginPass \/ EndPass \/ Resync
    \/ \E m \in Members : VisitUnreachable(m) \/ VisitPlace(m) \/ VisitUnplace(m)

-----------------------------------------------------------------------------
(* The gateway's process.                                                   *)

\* The informer delivers the instance, and Reconcile sets the upstreams.
GatewayReconcile ==
    /\ ginst # inst /\ ginst' = inst
    /\ Balancer!Set([m \in Members |-> Weight(inst.clusters[m])])
    /\ UNCHANGED <<memberVars, inst, queueVars, pass, disturbances>>

GatewayPick ==
    /\ Balancer!Pick
    /\ UNCHANGED <<memberVars, inst, queueVars, pass, ginst, disturbances>>

GatewayRestarts ==
    /\ Disturb
    /\ ginst' = Gone
    /\ Balancer!Set(Balancer!Zeros)
    /\ UNCHANGED <<memberVars, inst, queueVars, pass>>

-----------------------------------------------------------------------------
(* The members and the users.                                               *)

\* The hub has reached the member with the definition, and its kro serves it.
KindAppears(m) ==
    /\ m \in engaged
    /\ Watch!Appear(m)
    /\ UNCHANGED <<healthy, copy, inst, queueVars, pass, gatewayVars, disturbances>>

\* The copies of a kind go with it.
KindDisappears(m) ==
    /\ Disturb
    /\ Watch!Disappear(m)
    /\ copy' = [copy EXCEPT ![m] = NoCopy]
    /\ Delivered(m)
    /\ UNCHANGED <<healthy, inst, timer, pass, gatewayVars>>

\* kro reports on a copy.
Rollout(m) ==
    /\ Disturb
    /\ copy[m].placed
    /\ \E c \in Copies : c.placed /\ c # copy[m] /\ copy' = [copy EXCEPT ![m] = c]
    /\ Delivered(m)
    /\ UNCHANGED <<healthy, watchVars, inst, timer, pass, gatewayVars>>

\* A ClusterProfile event is one for every instance.
ChangeHealth(m) ==
    /\ Disturb
    /\ healthy' = IF m \in healthy THEN healthy \ {m} ELSE healthy \cup {m}
    /\ due' = TRUE
    /\ UNCHANGED <<watchVars, copy, inst, timer, pass, gatewayVars>>

\* The provider lets a member go (its credentials changed): nothing on the hub
\* tells the FleetReconciler.
Disengage(m) ==
    /\ Disturb
    /\ Watch!Stop(m)
    /\ UNCHANGED <<healthy, copy, inst, queueVars, pass, gatewayVars>>

DeleteInstance ==
    /\ Disturb
    /\ inst.life = "live"
    /\ inst' = [inst EXCEPT !.life = "deleting"] /\ due' = TRUE
    /\ UNCHANGED <<memberVars, timer, pass, gatewayVars>>

-----------------------------------------------------------------------------
Init ==
    /\ healthy = Members /\ Watch!Init
    /\ copy = NoCopies
    /\ inst = [Gone EXCEPT !.life = "live"]
    /\ due = TRUE /\ timer = FALSE /\ pass = PassIdle
    /\ ginst = Gone /\ Balancer!Init
    /\ disturbances = 0

Next ==
    \/ PassStep \/ PassFault
    \/ GatewayReconcile \/ GatewayPick \/ GatewayRestarts
    \/ DeleteInstance
    \/ \E m \in Members :
          \/ VisitFails(m) \/ Engage(m) \/ PollFinds(m) \/ PollFails(m)
          \/ KindAppears(m) \/ KindDisappears(m) \/ Rollout(m)
          \/ ChangeHealth(m) \/ Disengage(m)

Spec == Init /\ [][Next]_vars

\* Queues and timers are served, informers deliver, the provider engages healthy
\* members, polls go on, and kro serves what the hub has brought to a member.
Fairness ==
    /\ WF_vars(PassStep)
    /\ WF_vars(GatewayReconcile)
    /\ \A m \in Members : /\ WF_vars(Engage(m)) /\ WF_vars(PollFinds(m))
                          /\ WF_vars(KindAppears(m))

FairSpec == Spec /\ Fairness

-----------------------------------------------------------------------------
\* Every variable has its type: a status entry holds what readMemberStatus
\* (fleet_controller.go:504) fills in, or nothing.
TypeOK ==
    /\ healthy \subseteq Members /\ Watch!TypeOK
    /\ copy \in [Members -> Copies]
    /\ inst \in Instances /\ ginst \in Instances
    /\ due \in BOOLEAN /\ timer \in BOOLEAN
    /\ pass \in Passes /\ Balancer!TypeOK
    /\ disturbances \in 0 .. MaxDisturbances

\* pick (gateway.go:125): between two refreshes of the upstreams, each member gets
\* its share of the requests.
ShareIsKept == Balancer!ShareIsKept

\* Start, served (lazysource.go:80): a member that stays healthy is engaged and
\* watched in the end, though its kind appears only after it was engaged and a
\* poll may fail.
EventuallyWatched ==
    \A m \in Members : <>[](m \in healthy) => <>[](watch[m] = "on")

\* What the gateway should come to route to.
Routed ==
    /\ inst.life = "live" => \A m \in healthy \cap engaged \cap kind : copy[m].placed
    /\ \A m \in Members :
          weight[m] = IF inst.life = "live" /\ m \in healthy \cap engaged /\ copy[m].endpoint
                      THEN copy[m].ready ELSE 0

\* Reconcile (fleet_controller.go:193, gateway.go:88): once the outside changes
\* stop, every reachable member has its copy and gets requests by its ready
\* replicas, and a member that cannot be reached, has no ready endpoint, or whose
\* instance is being deleted gets none.
EventuallyRouted == <>[]Routed
=============================================================================
