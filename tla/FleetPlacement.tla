--------------------------- MODULE FleetPlacement ---------------------------
(***************************************************************************)
(* The hub's placement machinery for one FleetGenAIService name: the       *)
(* FleetReconciler that places and unplaces its copies, the inventory of   *)
(* AppliedManifestRecords it keeps (one per member), and the               *)
(* RecordReconciler that settles the records whose instance is gone.       *)
(*                                                                         *)
(* Each reconcile pass is split at its API calls, so the passes of the two *)
(* controllers, the member clusters and the fleet's inventory interleave.  *)
(* The controllers read the hub through informer caches (cinst, crec) that *)
(* may lag; a write is refused when the object it was computed from is not *)
(* the current one.  Only equality of resource versions and of UIDs        *)
(* matters, so the model reuses the ones nobody holds any more.            *)
(*                                                                         *)
(* A record tracks exactly one manifest (renderMemberObject gives the copy *)
(* the instance's own name), so "the intent is recorded" is "the record    *)
(* exists", and the applied entry is the copy's confirmed UID.  Template   *)
(* and parameters are left out, as they never change what is tracked, but  *)
(* for the parameters that fail a pass because they cannot be rendered.    *)
(***************************************************************************)
EXTENDS Naturals, FiniteSets

CONSTANTS
    Members,        \* member names (ClusterProfile names)
    Uids,           \* UIDs a member's API server hands out
    Versions,       \* resource versions of a record
    Source,         \* "selector" or "decision": spec.placement's source
    Disturbances,   \* the kinds of outside change that may happen
    MaxLives,       \* bound: how often the instance is created
    MaxChanges,     \* bound: outside changes
    MaxFaults       \* bound: passes that end in an API error or a crash

ASSUME MembersAssumption == Members # {}
ASSUME UidsAssumption == Uids \subseteq Nat \ {0}
ASSUME VersionsAssumption == Versions \subseteq Nat \ {0}
ASSUME SourceAssumption == Source \in {"selector", "decision"}
ASSUME BoundsAssumption == MaxLives \in Nat /\ MaxChanges \in Nat /\ MaxFaults \in Nat

VARIABLES
    inst,       \* the instance on the hub's API server
    cinst,      \* the instance in the informer cache
    rec,        \* the record of each member on the hub's API server
    crec,       \* the records in the informer cache
    prof,       \* each member's ClusterProfile: "none", "sick" or "healthy"
    engaged,    \* the members the cluster provider has engaged
    decision,   \* the members the placement names
    unreadable, \* the members whose parameters in the decision cannot be rendered
    gate,       \* the members on which the definition is served
    copy,       \* the object of the instance's name on each member
    fleet,      \* FleetReconciler's pass
    settle,     \* RecordReconciler's pass
    changes, faults

hubVars == <<inst, cinst, rec, crec>>
envVars == <<prof, engaged, decision, unreadable, gate>>
budgets == <<changes, faults>>
vars == <<inst, cinst, rec, crec, prof, engaged, decision, unreadable, gate, copy,
          fleet, settle, changes, faults>>

-----------------------------------------------------------------------------
(* Objects.  Version 0 is "does not exist", UID 0 is "none recorded".       *)

Instances == [st : {"none", "new", "live", "deleting", "gone"}, life : 0 .. MaxLives]

Records == [rv : Versions \cup {0}, uid : Uids \cup {0},
            orphaned : {"unset", "no", "yes"}]
NoRecord == [rv |-> 0, uid |-> 0, orphaned |-> "unset"]

Copies == [uid : Uids \cup {0}, ours : BOOLEAN, dying : BOOLEAN]
NoCopy == [uid |-> 0, ours |-> FALSE, dying |-> FALSE]

Profiles == {"none", "sick", "healthy"}
SomeMember == CHOOSE m \in Members : TRUE

FleetIdle == [pc |-> "idle", life |-> 0, m |-> SomeMember, seen |-> 0,
              pending |-> FALSE, broken |-> FALSE, rm |-> {}, put |-> {},
              gate |-> {}, prof |-> [m \in Members |-> "none"],
              recs |-> [m \in Members |-> NoRecord]]
SettleIdle == [pc |-> "idle", m |-> SomeMember, seen |-> 0, rec |-> NoRecord]

Present(r) == r.rv # 0
OnMember(m) == copy[m].uid # 0

Least(S) == {x \in S : \A y \in S : x <= y}

\* A version of m's record that nobody holds.
FreshVersion(m) ==
    Least(Versions \ {rec[m].rv, crec[m].rv, fleet.recs[m].rv, settle.rec.rv})

\* A UID for a new object on m that nobody remembers.
FreshUid(m) ==
    Least(Uids \ {copy[m].uid, rec[m].uid, crec[m].uid, fleet.recs[m].uid,
                  settle.rec.uid, fleet.seen, settle.seen})

\* The members to act on: a decision naming an unregistered member is refused
\* as a whole, a selector matches only registered members.
Decided ==
    LET registered == {m \in Members : prof[m] # "none"} IN
    IF Source = "selector" THEN decision \cap registered
    ELSE IF decision \subseteq registered THEN decision ELSE {}

-----------------------------------------------------------------------------
(* Definitions marked "Fault:" are bugs a version of the code could have;  *)
(* each shows that a property below notices the bug.                        *)

\* Fault: an object whose deletion has only begun counts as gone.
VerdictDyingIsGone(m, uid) ==
    CASE copy[m].uid = 0 \/ ~copy[m].ours -> "gone"
      [] copy[m].ours /\ uid # 0 /\ copy[m].uid # uid -> "gone"
      [] OTHER -> IF copy[m].dying THEN "gone" ELSE "delete"

(* What deleteManifests finds on m for an entry with the recorded uid.      *)
Verdict(m, uid) ==
    CASE copy[m].uid = 0 \/ ~copy[m].ours -> "gone"
      [] copy[m].ours /\ uid # 0 /\ copy[m].uid # uid -> "gone"
      [] OTHER -> IF copy[m].dying THEN "wait" ELSE "delete"

\* Fault: the delete carries no UID precondition.
DeleteWhateverIsThere(m, uid) ==
    copy' = IF OnMember(m) THEN [copy EXCEPT ![m].dying = TRUE] ELSE copy

\* The delete call, with the UID seen by the read as its precondition.
DeleteCopy(m, uid) ==
    copy' = IF copy[m].uid = uid THEN [copy EXCEPT ![m].dying = TRUE] ELSE copy

\* Fault: the condition of a member that is back is set to Unknown, not False.
MarkedUnknown(r, flag, v) ==
    [r EXCEPT !.orphaned = IF flag = "no" THEN "unknown" ELSE flag, !.rv = v]

\* The contents written: the Orphaned condition set, the applied entry replaced,
\* a record of the intent alone.
Marked(r, flag, v) == [r EXCEPT !.orphaned = flag, !.rv = v]
Bound(r, uid, v) == [r EXCEPT !.uid = uid, !.rv = v]
Blank(v) == [NoRecord EXCEPT !.rv = v]

\* An update of m's record computed from the version held: it is stored as
\* new, or refused.
Stored(m, held, new) ==
    /\ Present(rec[m]) /\ rec[m].rv = held.rv
    /\ rec' = [rec EXCEPT ![m] = new]
Refused(m, held) == ~Present(rec[m]) \/ rec[m].rv # held.rv

-----------------------------------------------------------------------------
(* FleetReconciler: Reconcile, finalize, unplace, applyToMember.            *)

\* The pass in memory after reading profiles, decision, records and gate.
ConvergePass ==
    [FleetIdle EXCEPT
        !.pc = "loop", !.prof = prof, !.gate = gate, !.recs = crec,
        !.rm = {m \in Members : Present(crec[m])} \ Decided,
        !.put = Decided \ unreadable, !.broken = Decided \cap unreadable # {}]

FinalizePass ==
    [FleetIdle EXCEPT
        !.pc = "loop", !.life = cinst.life, !.prof = prof, !.recs = crec,
        !.rm = {m \in Members : Present(crec[m])}]

Finalizing == fleet.life # 0

\* The pass ends: status written (left out) and the key requeued, or an error.
EndPass == fleet' = FleetIdle

\* Work on m, with the record r in hand; go on, with the record r in hand or
\* with the UID just seen.
TakeUp(pc, m, r) == fleet' = [fleet EXCEPT !.pc = pc, !.m = m, !.recs[m] = r]
Proceed(pc, r) == fleet' = [fleet EXCEPT !.pc = pc, !.recs[fleet.m] = r]
Hold(pc, uid) == fleet' = [fleet EXCEPT !.pc = pc, !.seen = uid]

\* m needs no more work in this pass.
Unplaced(m, pending) ==
    fleet' = [fleet EXCEPT !.pc = "loop", !.m = SomeMember, !.seen = 0,
                           !.rm = @ \ {m}, !.recs[m] = NoRecord,
                           !.pending = @ \/ pending]
PlaceDone(m) ==
    fleet' = [fleet EXCEPT !.pc = "loop", !.m = SomeMember, !.seen = 0,
                           !.put = @ \ {m}, !.recs[m] = NoRecord]

\* A new instance gets its finalizer first; a stale read is refused and retried.
AddFinalizer ==
    /\ fleet.pc = "idle" /\ cinst.st = "new" /\ inst = cinst
    /\ inst' = [inst EXCEPT !.st = "live"]
    /\ fleet' = ConvergePass
    /\ UNCHANGED <<cinst, rec, crec, envVars, copy, settle, budgets>>

\* Fault: a pass converges an instance that is being deleted.
BeginConvergeAlways ==
    /\ fleet.pc = "idle" /\ cinst.st \in {"live", "deleting"}
    /\ fleet' = ConvergePass
    /\ UNCHANGED <<hubVars, envVars, copy, settle, budgets>>

BeginConverge ==
    /\ fleet.pc = "idle" /\ cinst.st = "live"
    /\ fleet' = ConvergePass
    /\ UNCHANGED <<hubVars, envVars, copy, settle, budgets>>

BeginFinalize ==
    /\ fleet.pc = "idle" /\ cinst.st = "deleting"
    /\ fleet' = FinalizePass
    /\ UNCHANGED <<hubVars, envVars, copy, settle, budgets>>

\* unplace: registered but unreachable, nothing can be cleaned yet.
UnplaceBlocked(m) ==
    /\ fleet.pc = "loop" /\ m \in fleet.rm
    /\ fleet.prof[m] = "sick" \/ (m \notin engaged /\ fleet.prof[m] # "none")
    /\ Unplaced(m, TRUE)
    /\ UNCHANGED <<hubVars, envVars, copy, settle, budgets>>

\* Fault: a member that left the inventory blocks like an unreachable one.
UnplaceOrphanBlocks(m) ==
    LET held == fleet.recs[m] IN
    /\ fleet.pc = "loop" /\ m \in fleet.rm
    /\ fleet.prof[m] = "none" /\ m \notin engaged
    /\ \/ held.orphaned = "yes" /\ UNCHANGED rec /\ Unplaced(m, TRUE)
       \/ /\ held.orphaned # "yes"
          /\ \E v \in FreshVersion(m) :
                Stored(m, held, Marked(held, "yes", v))
          /\ Unplaced(m, TRUE)
    /\ UNCHANGED <<inst, cinst, crec, envVars, copy, settle, budgets>>

\* Fault: a record that is an orphan already ends the pass.
UnplaceOrphanEndsPass(m) ==
    LET held == fleet.recs[m] IN
    /\ fleet.pc = "loop" /\ m \in fleet.rm
    /\ fleet.prof[m] = "none" /\ m \notin engaged
    /\ \/ held.orphaned = "yes" /\ UNCHANGED rec /\ EndPass
       \/ /\ held.orphaned # "yes"
          /\ \E v \in FreshVersion(m) :
                Stored(m, held, Marked(held, "yes", v))
          /\ Unplaced(m, FALSE)
       \/ held.orphaned # "yes" /\ Refused(m, held) /\ UNCHANGED rec /\ EndPass
    /\ UNCHANGED <<inst, cinst, crec, envVars, copy, settle, budgets>>

\* unplace: deregistered and unreachable, the record is kept as orphan ledger.
UnplaceOrphan(m) ==
    LET held == fleet.recs[m] IN
    /\ fleet.pc = "loop" /\ m \in fleet.rm
    /\ fleet.prof[m] = "none" /\ m \notin engaged
    /\ \/ held.orphaned = "yes" /\ UNCHANGED rec /\ Unplaced(m, FALSE)
       \/ /\ held.orphaned # "yes"
          /\ \E v \in FreshVersion(m) :
                Stored(m, held, Marked(held, "yes", v))
          /\ Unplaced(m, FALSE)
       \/ held.orphaned # "yes" /\ Refused(m, held) /\ UNCHANGED rec /\ EndPass
    /\ UNCHANGED <<inst, cinst, crec, envVars, copy, settle, budgets>>

\* unplace: reachable; the Orphaned flag is cleared before anything is deleted.
UnplaceStart(m) ==
    LET held == fleet.recs[m] IN
    /\ fleet.pc = "loop" /\ m \in fleet.rm
    /\ fleet.prof[m] # "sick" /\ m \in engaged
    /\ \/ held.orphaned = "no" /\ UNCHANGED rec /\ TakeUp("get", m, held)
       \/ /\ held.orphaned # "no"
          /\ \E v \in FreshVersion(m) :
                LET new == Marked(held, "no", v)
                IN  Stored(m, held, new) /\ TakeUp("get", m, new)
       \/ held.orphaned # "no" /\ Refused(m, held) /\ UNCHANGED rec /\ EndPass
    /\ UNCHANGED <<inst, cinst, crec, envVars, copy, settle, budgets>>

\* deleteManifests: the read.
UnplaceGet ==
    LET m == fleet.m
        verdict == Verdict(m, fleet.recs[m].uid) IN
    /\ fleet.pc = "get"
    /\ \/ verdict = "gone" /\ Hold("drop", 0)
       \/ verdict = "wait" /\ Unplaced(m, TRUE)
       \/ verdict = "delete" /\ Hold("delete", copy[m].uid)
    /\ UNCHANGED <<hubVars, envVars, copy, settle, budgets>>

\* deleteManifests: the delete; an object replaced meanwhile counts as gone.
UnplaceDelete ==
    LET m == fleet.m IN
    /\ fleet.pc = "delete"
    /\ DeleteCopy(m, fleet.seen)
    /\ IF OnMember(m) /\ copy[m].uid # fleet.seen
       THEN Hold("drop", 0)
       ELSE Unplaced(m, TRUE)
    /\ UNCHANGED <<hubVars, envVars, settle, budgets>>

\* dropFromRecord: the confirmed entry leaves the record.
UnplaceDrop ==
    LET m == fleet.m
        held == fleet.recs[m] IN
    /\ fleet.pc = "drop"
    /\ \/ held.uid = 0 /\ UNCHANGED rec /\ Proceed("forget", held)
       \/ /\ held.uid # 0
          /\ \E v \in FreshVersion(m) :
                LET new == Bound(held, 0, v)
                IN  Stored(m, held, new) /\ Proceed("forget", new)
       \/ held.uid # 0 /\ Refused(m, held) /\ UNCHANGED rec /\ EndPass
    /\ UNCHANGED <<inst, cinst, crec, envVars, copy, settle, budgets>>

\* hub.Delete(rec) carries no precondition: whatever bears the name goes.
UnplaceForget ==
    /\ fleet.pc = "forget"
    /\ rec' = [rec EXCEPT ![fleet.m] = NoRecord]
    /\ Unplaced(fleet.m, FALSE)
    /\ UNCHANGED <<inst, cinst, crec, envVars, copy, settle, budgets>>

\* Reconcile: m's turn to be placed, with nothing left to unplace.
Turn(m) == fleet.pc = "loop" /\ fleet.rm = {} /\ m \in fleet.put

\* The gate, as the pass has read it; it is not for a member that is unhealthy.
\* Fault: a member that has a record already is let through.
LetThroughAgain(m) ==
    m \in fleet.gate \/ fleet.prof[m] # "healthy" \/ Present(fleet.recs[m])
LetThrough(m) == m \in fleet.gate \/ fleet.prof[m] # "healthy"

\* A member behind its gate: whatever copy it has is held as it is.
HeldBack(m) ==
    /\ Turn(m) /\ ~LetThrough(m)
    /\ PlaceDone(m)
    /\ UNCHANGED <<hubVars, envVars, copy, settle, budgets>>

\* ensureRecord: a record in the snapshot is taken as it is; else create it, and
\* when one exists already read it back from the cache.
EnsureRecord(m) ==
    LET held == fleet.recs[m]
        listed == Present(held) IN
    /\ Turn(m) /\ LetThrough(m)
    /\ \/ listed /\ UNCHANGED rec /\ TakeUp("apply", m, held)
       \/ /\ ~listed /\ ~Present(rec[m])
          /\ \E v \in FreshVersion(m) :
                LET new == Blank(v)
                IN  rec' = [rec EXCEPT ![m] = new] /\ TakeUp("apply", m, new)
       \/ /\ ~listed /\ Present(rec[m]) /\ UNCHANGED rec
          /\ IF Present(crec[m]) THEN TakeUp("apply", m, crec[m]) ELSE EndPass
    /\ UNCHANGED <<inst, cinst, crec, envVars, copy, settle, budgets>>

\* renderMemberObject: a parameter that cannot be rendered ends the pass, after
\* it has unplaced and maybe placed some members.
RenderFails ==
    /\ fleet.pc = "loop" /\ fleet.rm = {} /\ fleet.broken
    /\ EndPass
    /\ UNCHANGED <<hubVars, envVars, copy, settle, budgets>>

\* applyToMember: a member that is not healthy or not engaged is skipped.
ApplySkipped ==
    /\ fleet.pc = "apply"
    /\ fleet.prof[fleet.m] # "healthy" \/ fleet.m \notin engaged
    /\ PlaceDone(fleet.m)
    /\ UNCHANGED <<hubVars, envVars, copy, settle, budgets>>

\* applyToMember: server-side apply with ForceOwnership creates the copy, or
\* takes over whatever object has its name.
Apply ==
    LET m == fleet.m IN
    /\ fleet.pc = "apply"
    /\ fleet.prof[m] = "healthy" /\ m \in engaged
    /\ \/ /\ OnMember(m)
          /\ copy' = [copy EXCEPT ![m].ours = TRUE]
          /\ Hold("confirm", copy[m].uid)
       \/ /\ ~OnMember(m)
          /\ \E u \in FreshUid(m) :
                /\ copy' = [copy EXCEPT ![m] = [NoCopy EXCEPT !.uid = u, !.ours = TRUE]]
                /\ Hold("confirm", u)
    /\ UNCHANGED <<hubVars, envVars, settle, budgets>>

\* Fault: a record that confirms some UID is never confirmed again.
ConfirmAppliedOnce ==
    LET m == fleet.m
        held == fleet.recs[m] IN
    /\ fleet.pc = "confirm"
    /\ \/ held.uid # 0 /\ UNCHANGED rec /\ PlaceDone(m)
       \/ /\ held.uid = 0
          /\ \E v \in FreshVersion(m) :
                Stored(m, held, Bound(held, fleet.seen, v))
          /\ PlaceDone(m)
       \/ held.uid = 0 /\ Refused(m, held) /\ UNCHANGED rec /\ EndPass
    /\ UNCHANGED <<inst, cinst, crec, envVars, copy, settle, budgets>>

\* confirmApplied: the UID enters the record unless it is there already.
ConfirmApplied ==
    LET m == fleet.m
        held == fleet.recs[m] IN
    /\ fleet.pc = "confirm"
    /\ \/ held.uid = fleet.seen /\ UNCHANGED rec /\ PlaceDone(m)
       \/ /\ held.uid # fleet.seen
          /\ \E v \in FreshVersion(m) :
                Stored(m, held, Bound(held, fleet.seen, v))
          /\ PlaceDone(m)
       \/ held.uid # fleet.seen /\ Refused(m, held) /\ UNCHANGED rec /\ EndPass
    /\ UNCHANGED <<inst, cinst, crec, envVars, copy, settle, budgets>>

\* The end of a pass: with nothing pending, finalize removes the finalizer.
FinishPass ==
    /\ fleet.pc = "loop" /\ fleet.rm = {} /\ fleet.put = {} /\ ~fleet.broken
    /\ IF Finalizing /\ ~fleet.pending /\ inst = [st |-> "deleting", life |-> fleet.life]
       THEN inst' = [inst EXCEPT !.st = "gone"]
       ELSE UNCHANGED inst
    /\ EndPass
    /\ UNCHANGED <<cinst, rec, crec, envVars, copy, settle, budgets>>

\* A call of the pass fails, or the controller stops: what it held is lost.  A
\* failed apply, or one whose answer is lost, only gives up on that member.
FleetFault ==
    /\ fleet.pc # "idle" /\ faults < MaxFaults
    /\ faults' = faults + 1
    /\ EndPass \/ (fleet.pc \in {"apply", "confirm"} /\ PlaceDone(fleet.m))
    /\ UNCHANGED <<hubVars, envVars, copy, settle, changes>>

FleetStep ==
    \/ AddFinalizer \/ BeginConverge \/ BeginFinalize
    \/ \E m \in Members : \/ UnplaceBlocked(m) \/ UnplaceOrphan(m)
                          \/ UnplaceStart(m)
                          \/ HeldBack(m) \/ EnsureRecord(m)
    \/ UnplaceGet \/ UnplaceDelete \/ UnplaceDrop \/ UnplaceForget
    \/ RenderFails \/ ApplySkipped \/ Apply \/ ConfirmApplied
    \/ FinishPass

-----------------------------------------------------------------------------
(* RecordReconciler: one record whose instance is gone.                     *)

\* Fault: only records already marked as orphans are settled.
UnownedIfMarked(m) ==
    /\ settle.pc = "idle" /\ crec[m].orphaned = "yes"
    /\ cinst.st \in {"none", "gone"}

Unowned(m) ==
    /\ settle.pc = "idle" /\ Present(crec[m]) /\ cinst.st \in {"none", "gone"}

SettleEnd == settle' = SettleIdle
SettleAt(pc, m, uid, r) == settle' = [pc |-> pc, m |-> m, seen |-> uid, rec |-> r]

\* The member is deregistered: mark the record and wait for it to return.
SettleOrphan(m) ==
    /\ Unowned(m) /\ prof[m] = "none"
    /\ crec[m].orphaned # "yes"
    /\ \E v \in FreshVersion(m) :
          Stored(m, crec[m], Marked(crec[m], "yes", v))
    /\ UNCHANGED <<inst, cinst, crec, envVars, copy, fleet, settle, budgets>>

\* The member is reachable: clear the flag, then clean it.
SettleStart(m) ==
    /\ Unowned(m) /\ prof[m] = "healthy" /\ m \in engaged
    /\ \/ crec[m].orphaned = "no" /\ UNCHANGED rec /\ SettleAt("get", m, 0, crec[m])
       \/ /\ crec[m].orphaned # "no"
          /\ \E v \in FreshVersion(m) :
                LET new == Marked(crec[m], "no", v)
                IN  Stored(m, crec[m], new) /\ SettleAt("get", m, 0, new)
    /\ UNCHANGED <<inst, cinst, crec, envVars, copy, fleet, budgets>>

SettleGet ==
    LET m == settle.m
        verdict == Verdict(m, settle.rec.uid) IN
    /\ settle.pc = "get"
    /\ \/ verdict = "gone" /\ SettleAt("drop", m, 0, settle.rec)
       \/ verdict = "wait" /\ SettleEnd
       \/ verdict = "delete" /\ SettleAt("delete", m, copy[m].uid, settle.rec)
    /\ UNCHANGED <<hubVars, envVars, copy, fleet, budgets>>

SettleDelete ==
    LET m == settle.m IN
    /\ settle.pc = "delete"
    /\ DeleteCopy(m, settle.seen)
    /\ IF OnMember(m) /\ copy[m].uid # settle.seen
       THEN SettleAt("drop", m, 0, settle.rec)
       ELSE SettleEnd
    /\ UNCHANGED <<hubVars, envVars, fleet, budgets>>

SettleDrop ==
    LET m == settle.m
        held == settle.rec IN
    /\ settle.pc = "drop"
    /\ \/ held.uid = 0 /\ UNCHANGED rec /\ SettleAt("forget", m, 0, held)
       \/ /\ held.uid # 0
          /\ \E v \in FreshVersion(m) :
                LET new == Bound(held, 0, v)
                IN  Stored(m, held, new) /\ SettleAt("forget", m, 0, new)
       \/ held.uid # 0 /\ Refused(m, held) /\ UNCHANGED rec /\ SettleEnd
    /\ UNCHANGED <<inst, cinst, crec, envVars, copy, fleet, budgets>>

SettleForget ==
    /\ settle.pc = "forget"
    /\ rec' = [rec EXCEPT ![settle.m] = NoRecord]
    /\ SettleEnd
    /\ UNCHANGED <<inst, cinst, crec, envVars, copy, fleet, budgets>>

SettleFault ==
    /\ settle.pc # "idle" /\ faults < MaxFaults
    /\ faults' = faults + 1
    /\ SettleEnd
    /\ UNCHANGED <<hubVars, envVars, copy, fleet, changes>>

SettleContinue == SettleGet \/ SettleDelete \/ SettleDrop \/ SettleForget

-----------------------------------------------------------------------------
(* Informer caches, the cluster provider, the members and the users.        *)

SyncInstance ==
    /\ cinst # inst
    /\ cinst' = inst
    /\ UNCHANGED <<inst, rec, crec, envVars, copy, fleet, settle, budgets>>

SyncRecord(m) ==
    /\ crec[m] # rec[m]
    /\ crec' = [crec EXCEPT ![m] = rec[m]]
    /\ UNCHANGED <<inst, cinst, rec, envVars, copy, fleet, settle, budgets>>

\* The provider engages a member once it is healthy, and lets it go only when
\* it leaves the inventory.
Engage(m) ==
    /\ prof[m] = "healthy" /\ m \notin engaged
    /\ engaged' = engaged \cup {m}
    /\ UNCHANGED <<hubVars, prof, decision, unreadable, gate, copy, fleet, settle, budgets>>

Disengage(m) ==
    /\ prof[m] = "none" /\ m \in engaged
    /\ engaged' = engaged \ {m}
    /\ UNCHANGED <<hubVars, prof, decision, unreadable, gate, copy, fleet, settle, budgets>>

\* The member's kro lets go of an object whose deletion was asked for.
Vanish(m) ==
    /\ copy[m].dying
    /\ copy' = [copy EXCEPT ![m] = NoCopy]
    /\ UNCHANGED <<hubVars, envVars, fleet, settle, budgets>>

CreateInstance ==
    /\ inst.st \in {"none", "gone"} /\ inst.life < MaxLives
    /\ inst' = [st |-> "new", life |-> inst.life + 1]
    /\ UNCHANGED <<cinst, rec, crec, envVars, copy, fleet, settle, budgets>>

\* Without the finalizer the object goes at once.
DeleteInstance ==
    /\ inst.st \in {"new", "live"}
    /\ inst' = [inst EXCEPT !.st = IF inst.st = "new" THEN "gone" ELSE "deleting"]
    /\ UNCHANGED <<cinst, rec, crec, envVars, copy, fleet, settle, budgets>>

Disturb(kind) ==
    /\ kind \in Disturbances /\ changes < MaxChanges
    /\ changes' = changes + 1
    /\ UNCHANGED <<hubVars, engaged, fleet, settle, faults>>

ChangeDecision ==
    /\ Disturb("decision")
    /\ \E S \in SUBSET Members : \E U \in SUBSET S :
          /\ <<S, U>> # <<decision, unreadable>>
          /\ U # {} => Source = "decision"
          /\ decision' = S /\ unreadable' = U
    /\ UNCHANGED <<prof, gate, copy>>

ChangeProfile(m) ==
    /\ Disturb("profile")
    /\ \E p \in Profiles : p # prof[m] /\ prof' = [prof EXCEPT ![m] = p]
    /\ UNCHANGED <<decision, unreadable, gate, copy>>

ChangeGate(m) ==
    /\ Disturb("gate")
    /\ gate' = IF m \in gate THEN gate \ {m} ELSE gate \cup {m}
    /\ UNCHANGED <<prof, decision, unreadable, copy>>

\* Someone with access to the member deletes the object there ...
MemberDelete(m) ==
    /\ Disturb("delete")
    /\ OnMember(m) /\ ~copy[m].dying
    /\ copy' = [copy EXCEPT ![m].dying = TRUE]
    /\ UNCHANGED <<prof, decision, unreadable, gate>>

\* ... or creates one of the same name.
MemberCreate(m) ==
    /\ Disturb("create")
    /\ ~OnMember(m)
    /\ \E u \in FreshUid(m) : copy' = [copy EXCEPT ![m] = [NoCopy EXCEPT !.uid = u]]
    /\ UNCHANGED <<prof, decision, unreadable, gate>>

-----------------------------------------------------------------------------
Init ==
    /\ inst = [st |-> "none", life |-> 0] /\ cinst = inst
    /\ rec = [m \in Members |-> NoRecord] /\ crec = rec
    /\ prof = [m \in Members |-> "healthy"]
    /\ engaged = Members /\ decision = Members /\ unreadable = {} /\ gate = Members
    /\ copy = [m \in Members |-> NoCopy]
    /\ fleet = FleetIdle /\ settle = SettleIdle
    /\ changes = 0 /\ faults = 0

SettleStep ==
    \/ \E m \in Members : SettleOrphan(m) \/ SettleStart(m)
    \/ SettleContinue

Environment ==
    \/ SyncInstance \/ CreateInstance \/ DeleteInstance \/ ChangeDecision
    \/ \E m \in Members :
          \/ SyncRecord(m) \/ Engage(m) \/ Disengage(m) \/ Vanish(m)
          \/ ChangeProfile(m) \/ ChangeGate(m) \/ MemberDelete(m) \/ MemberCreate(m)

Next ==
    \/ FleetStep \/ FleetFault
    \/ SettleStep \/ SettleFault
    \/ Environment

Spec == Init /\ [][Next]_vars

\* A FleetReconciler pass is requeued every 30s (15s when blocked), records are
\* resynced and retried, each key in its turn; informers deliver, the provider
\* follows the inventory, and kro finishes the deletions it started.
Fairness ==
    /\ WF_vars(FleetStep)
    /\ WF_vars(SettleContinue)
    /\ \A m \in Members : /\ SF_vars(SettleOrphan(m)) /\ SF_vars(SettleStart(m))
                          /\ WF_vars(SyncRecord(m)) /\ WF_vars(Vanish(m))
                          /\ WF_vars(Engage(m)) /\ WF_vars(Disengage(m))
    /\ WF_vars(SyncInstance)

FairSpec == Spec /\ Fairness

-----------------------------------------------------------------------------
(* Properties.                                                              *)

Passes ==
    [pc : {"idle", "loop", "get", "delete", "drop", "forget", "apply", "confirm"},
     life : 0 .. MaxLives, m : Members, seen : Uids \cup {0}, pending : BOOLEAN,
     broken : BOOLEAN, rm : SUBSET Members, put : SUBSET Members,
     gate : SUBSET Members, prof : [Members -> Profiles], recs : [Members -> Records]]
Settlements ==
    [pc : {"idle", "get", "delete", "drop", "forget"},
     m : Members, seen : Uids \cup {0}, rec : Records]

\* Every variable has its type: the objects are those the API server can hold,
\* and the passes of fleet_controller.go and record_controller.go work on them.
TypeOK ==
    /\ inst \in Instances /\ cinst \in Instances
    /\ rec \in [Members -> Records] /\ crec \in [Members -> Records]
    /\ prof \in [Members -> Profiles] /\ engaged \subseteq Members
    /\ decision \subseteq Members /\ unreadable \subseteq Members /\ gate \subseteq Members
    /\ copy \in [Members -> Copies]
    /\ fleet \in Passes /\ settle \in Settlements
    /\ changes \in 0 .. MaxChanges /\ faults \in 0 .. MaxFaults

ControllerStep == fleet' # fleet \/ settle' # settle

\* deleteManifests (inventory.go:225): whatever happens on the member between
\* the read and the delete, the controllers only ever delete an object that
\* carries this instance's placed-by label.
DeletesOnlyLabelled ==
    [][ControllerStep =>
         \A m \in Members : copy'[m].dying /\ ~copy[m].dying => copy[m].ours]_vars

\* The copy a record confirms is on its member.
ConfirmedOnMember(m) == OnMember(m) /\ copy[m].uid = rec[m].uid

\* dropFromRecord, confirmApplied, hub.Delete (inventory.go:148-294,
\* fleet_controller.go:598, record_controller.go:146): as long as the copy a
\* record confirms is on its member, the entry stays in the record, although the
\* delete of a record names no version and the snapshots may be stale.
LedgerHolds ==
    [][\A m \in Members : ConfirmedOnMember(m) => rec'[m].uid = rec[m].uid]_vars

\* What a live instance's placement should come to.
Converged ==
    inst.st = "live" =>
      \A m \in Members :
        /\ Decided \cap unreadable = {} /\ m \in Decided \cap engaged \cap gate /\ prof[m] = "healthy"
              => /\ OnMember(m) /\ copy[m].ours /\ ~copy[m].dying
                 /\ Present(rec[m]) /\ rec[m].uid = copy[m].uid
        /\ m \in engaged \ Decided /\ prof[m] = "healthy" => ~Present(rec[m])
        /\ prof[m] = "none" /\ Present(rec[m]) => rec[m].orphaned = "yes"

\* Reconcile, unplace, applyToMember (fleet_controller.go:193): once the outside
\* changes stop, a live instance has its confirmed copy on every decided member
\* that can take one, unless the decision cannot be rendered; and even then it has
\* no record on a reachable member that is not decided, and an Orphaned mark on
\* the record of every deregistered one.
EventuallyConverged == <>[]Converged

\* finalize (fleet_controller.go:381): a deletion goes through, unless a record's
\* member stays registered but unhealthy.
DeletionCompletes ==
    inst.st = "deleting" ~>
        \/ inst.st = "gone"
        \/ \E m \in Members : Present(rec[m]) /\ prof[m] = "sick"

\* What the records of an instance that is gone should come to.
Settled ==
    inst.st = "gone" =>
      \A m \in Members :
        Present(rec[m]) => prof[m] # "healthy" /\ (prof[m] = "none" => rec[m].orphaned = "yes")

\* RecordReconciler (record_controller.go:91): once the instance is gone, the
\* record of a healthy member is settled, even one that finalize overlooked, and
\* the record of a deregistered member stays, marked Orphaned.
EventuallySettled == <>[]Settled

\* appliedmanifestrecord_types.go:53 "a crash between an apply and the status
\* write can never leave an object the inventory does not know about": a live
\* object placed on a member has a record.
InventoryKnows ==
    \A m \in Members : OnMember(m) /\ copy[m].ours /\ ~copy[m].dying => Present(rec[m])

-----------------------------------------------------------------------------
(* The abstract specifications this one implements.                         *)

LedgerPhase ==
    CASE inst.st = "none" -> "absent"
      [] inst.st \in {"new", "live"} -> "open"
      [] inst.st = "deleting" -> "closing"
      [] inst.st = "gone" -> "released"
EntryOf(r) ==
    IF ~Present(r) THEN "out" ELSE IF r.uid = 0 THEN "intended" ELSE "confirmed"
Ledger == INSTANCE PlacementLedger
              WITH phase <- LedgerPhase,
                   entry <- [m \in Members |-> EntryOf(rec[m])],
                   there <- {m \in Members : ConfirmedOnMember(m)}

\* The inventory of an instance (inventory.go, record_controller.go): through
\* lagging caches and two writers it is the ledger that PlacementLedger promises.
KeepsLedger == Ledger!Spec

\* What the pass may still do on each member, by the gate it read at its start, and
\* what it has just done.
Permission ==
    [m \in Members |->
        IF fleet.pc = "confirm" /\ fleet.m = m THEN "written"
        ELSE IF m \notin fleet.put THEN "nothing"
        ELSE IF fleet.prof[m] # "healthy" THEN "record"
        ELSE IF m \in fleet.gate THEN "write" ELSE "nothing"]
Gated == INSTANCE GatedPlacement
             WITH pass <- Permission, rec <- {m \in Members : Present(rec[m])},
                  live <- {m \in Members : OnMember(m)}

\* The placement gate (fleet_controller.go:286): in one pass a member is written to
\* at most once, and only if the pass read it as healthy and found the gate open
\* for it, however the gate changes meanwhile; and a record is made only for a
\* member it found so, or found unhealthy.
PlacesThroughGate == Gated!Spec
=============================================================================
