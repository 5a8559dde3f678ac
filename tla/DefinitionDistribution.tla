----------------------- MODULE DefinitionDistribution -----------------------
(***************************************************************************)
(* The distribution of one FleetResourceGraphDefinition: the               *)
(* DefinitionReconciler, which applies a ResourceGraphDefinition of the    *)
(* same name to every targeted member, reads each member kro's verdict     *)
(* back, and takes the copy off a member again unless instances of its     *)
(* kind live there; and the gate through which the FleetReconciler asks    *)
(* that status whether an instance may be placed.  The FleetReconciler     *)
(* itself is here by what GatedPlacement says of it.                       *)
(*                                                                         *)
(* The inventory of copies is status.members itself (def.entry here), which*)
(* reaches the API server only at the end of a pass, in one update that is *)
(* refused when the object changed meanwhile.  A pass is split where a     *)
(* member is read or written.  A revision stands for the spec hash; State  *)
(* and Ready of an entry are one verdict; messages, kro versions and times *)
(* are left out, as is the choice between the two requeue intervals.       *)
(***************************************************************************)
EXTENDS Naturals, FiniteSets

CONSTANTS
    Members,        \* member names (ClusterProfile names)
    Uids,           \* UIDs a member's API server hands out
    Versions,       \* resource versions of the hub object
    Undated,        \* members whose kro may not say what its Ready was computed for
    MaxRevision,    \* bound: revisions of the definition
    Disturbances,   \* the kinds of outside change that may happen
    MaxChanges,     \* bound: outside changes
    MaxFaults       \* bound: failing calls and stops of the controller

ASSUME MembersAssumption == Members # {}
ASSUME UidsAssumption == Uids \subseteq Nat \ {0}
ASSUME VersionsAssumption == Versions \subseteq Nat \ {0}
ASSUME UndatedAssumption == Undated \subseteq Members
ASSUME BoundsAssumption ==
    MaxRevision \in Nat \ {0} /\ MaxChanges \in Nat /\ MaxFaults \in Nat

VARIABLES
    def,        \* the FleetResourceGraphDefinition on the hub's API server
    cdef,       \* the same in the informer cache
    rec, crec,  \* the members on which a record tracks an instance: hub, cache
    live,       \* the members on which an instance of the kind exists
    prof,       \* each member's ClusterProfile: "none", "sick" or "healthy"
    engaged,    \* the members the cluster provider has engaged
    matching,   \* the members memberSelector matches
    copy,       \* the ResourceGraphDefinition on each member
    pass,       \* DefinitionReconciler's pass
    placing,    \* what FleetReconciler's pass may do on each member
    served,     \* history: the revisions each member's kro can be quoted as serving (0: foreign)
    busy,       \* history: members with an instance ever since the pass began
    changes, faults

hubVars == <<def, cdef>>
instanceVars == <<rec, crec, live, placing>>
envVars == <<prof, engaged, matching>>
history == <<served, busy>>
budgets == <<changes, faults>>
vars == <<def, cdef, rec, crec, live, placing, prof, engaged, matching, copy, pass,
          served, busy, changes, faults>>

-----------------------------------------------------------------------------
(* Objects.  Revision 0 is "no hash", UID 0 is "none recorded".             *)

Revisions == 1 .. MaxRevision
Profiles == {"none", "sick", "healthy"}
SomeMember == CHOOSE m \in Members : TRUE

\* One element of status.members.  "unknown" is a Ready computed for an older
\* generation; the reason keeps only those the hub itself gives.
Entries == [listed : BOOLEAN, applied : BOOLEAN, held : Revisions \cup {0},
            accepted : Revisions \cup {0}, uid : Uids \cup {0},
            verdict : {"none", "unknown", "active", "refused"},
            reason : {"none", "unengaged", "failed", "removing"}]
NoEntry == [listed |-> FALSE, applied |-> FALSE, held |-> 0, accepted |-> 0,
            uid |-> 0, verdict |-> "none", reason |-> "none"]

Definitions ==
    [rv : Versions \cup {0}, st : {"none", "new", "live", "deleting", "gone"},
     rev : Revisions, on : BOOLEAN, hash : Revisions \cup {0},
     entry : [Members -> Entries], targets : SUBSET Members,
     distributed : BOOLEAN, accepted : BOOLEAN, leaving : SUBSET Members]
NoDefinition ==
    [rv |-> 0, st |-> "none", rev |-> 1, on |-> FALSE, hash |-> 0,
     entry |-> [m \in Members |-> NoEntry], targets |-> {},
     distributed |-> FALSE, accepted |-> FALSE, leaving |-> {}]

\* evaluated: kro's Ready is about the generation the object is at.
\* dated: it says which generation it is about.
Copies == [uid : Uids \cup {0}, rev : Revisions \cup {0}, ours : BOOLEAN, dying : BOOLEAN,
           evaluated : BOOLEAN, dated : BOOLEAN, verdict : {"none", "active", "refused"}]
NoCopy == [uid |-> 0, rev |-> 0, ours |-> FALSE, dying |-> FALSE,
           evaluated |-> FALSE, dated |-> TRUE, verdict |-> "none"]

PassIdle ==
    [pc |-> "idle", def |-> NoDefinition, m |-> SomeMember, seen |-> 0,
     prof |-> [m \in Members |-> "none"], rm |-> {}, put |-> {},
     out |-> [m \in Members |-> NoEntry], leaving |-> {}]

OnMember(m) == copy[m].uid # 0
Least(S) == {x \in S : \A y \in S : x <= y}

\* A version of the object that nobody holds, a UID that nobody remembers.
FreshVersion == Least(Versions \ {def.rv, cdef.rv, pass.def.rv})
FreshUid(m) ==
    Least(Uids \ {copy[m].uid, def.entry[m].uid, cdef.entry[m].uid,
                  pass.def.entry[m].uid, pass.out[m].uid, pass.seen})

\* Every write of the object gives it a new version; one that changes nothing is
\* not stored.
Write(new) ==
    IF new = def THEN UNCHANGED def
    ELSE \E v \in FreshVersion : def' = [new EXCEPT !.rv = v]

-----------------------------------------------------------------------------
(* What a status entry says (the predicates of MemberDefinitionStatus), and *)
(* the gate: may an instance be placed on m, going by the status of d?      *)

Accepted(e) == e.applied /\ e.verdict = "active"
Rejected(e) == e.applied /\ e.verdict = "refused"
\* Fault: a member whose kro has not accepted any revision counts as serving.
ServingAnything(e) == e.held # 0 /\ ~Rejected(e)
Serving(e) == e.held # 0 /\ e.accepted # 0 /\ ~Rejected(e)

DefinitionGate(d, m) ==
    LET e == d.entry[m] IN
    /\ d.st \notin {"none", "gone"}
    /\ e.listed /\ e.reason # "removing"
    /\ Accepted(e) \/ Serving(e)

\* DefinitionTargets: the registered members the selector matches.
DefinitionTargets(d) ==
    IF d.on THEN {m \in matching : prof[m] # "none"} ELSE {}

-----------------------------------------------------------------------------
(* RollupDefinition: the wrapper's conditions, from the entries of a pass.  *)

\* Fault: a member that still serves an older revision has accepted this one.
RollupServing(d, targets, entry, leaving) ==
    [d EXCEPT !.targets = targets, !.leaving = leaving,
              !.distributed = /\ \A m \in targets : entry[m].applied \/ entry[m].reason = "unengaged"
                              /\ \E m \in targets : entry[m].applied,
              !.accepted = targets # {} /\ \A m \in targets : Serving(entry[m])]
Rollup(d, targets, entry, leaving) ==
    [d EXCEPT !.targets = targets, !.leaving = leaving,
              !.distributed = /\ \A m \in targets : entry[m].applied \/ entry[m].reason = "unengaged"
                              /\ \E m \in targets : entry[m].applied,
              !.accepted = targets # {} /\ \A m \in targets : Accepted(entry[m])]

-----------------------------------------------------------------------------
(* Reading a copy: ObserveDefinition and the verdict's freshness.           *)

\* Fault: a Ready computed for an older generation counts.
FreshAlways(c) == c \in Copies
\* Without an observedGeneration a Ready counts for whatever generation the copy is
\* at: it is still the old one when the apply that changed the spec returns.
Fresh(c) == c.verdict = "none" \/ c.evaluated \/ ~c.dated

AcceptedCopy(c) == Fresh(c) /\ c.verdict = "active"

\* distributeToMember's entry, read off the response of the apply.
ReadBack(prev, c, rev) ==
    [prev EXCEPT !.listed = TRUE, !.applied = c.rev = rev, !.held = c.rev, !.uid = c.uid,
                 !.accepted = IF AcceptedCopy(c) THEN c.rev ELSE @,
                 !.verdict = IF Fresh(c) THEN c.verdict ELSE "unknown",
                 !.reason = "none"]

\* distributeToMember's entries for a member it cannot reach or write.
\* Fault: a reason the gate and the rollup do not know.
UnreachedUnnamed(prev, rev) ==
    [prev EXCEPT !.listed = TRUE, !.applied = prev.held = rev,
                 !.verdict = "none", !.reason = "unhealthy"]
Unreached(prev, rev) ==
    [prev EXCEPT !.listed = TRUE, !.applied = prev.held = rev,
                 !.verdict = "none", !.reason = "unengaged"]
Failed(prev) ==
    [prev EXCEPT !.listed = TRUE, !.applied = FALSE,
                 !.verdict = "none", !.reason = "failed"]

\* removeFromMember's entry for a copy held by the guard: kro's words verbatim,
\* compared with the hash in the status read at the start of the pass.
Guarded(prev, c) ==
    IF c.uid = 0 THEN [prev EXCEPT !.applied = FALSE]
    ELSE [prev EXCEPT !.applied = c.rev = pass.def.hash, !.held = c.rev, !.uid = c.uid,
                      !.accepted = IF AcceptedCopy(c) THEN c.rev ELSE @,
                      !.verdict = c.verdict, !.reason = "none"]

\* deleteManifests: what the read finds for the entry's UID.
\* Fault: an object whose deletion has only begun counts as gone.
FindDyingIsGone(m, uid) ==
    CASE ~OnMember(m) \/ ~copy[m].ours \/ (uid # 0 /\ copy[m].uid # uid) -> "gone"
      [] OTHER -> IF copy[m].dying THEN "gone" ELSE "delete"
Find(m, uid) ==
    CASE ~OnMember(m) \/ ~copy[m].ours \/ (uid # 0 /\ copy[m].uid # uid) -> "gone"
      [] OTHER -> IF copy[m].dying THEN "wait" ELSE "delete"

-----------------------------------------------------------------------------
(* DefinitionReconciler: Reconcile and finalize.                            *)

Finalizing == pass.def.st = "deleting"
EndPass == pass' = PassIdle
Reachable(m) == pass.prof[m] = "healthy" /\ m \in engaged

\* The pass in memory after reading the object and the profiles.
StartOf(d, rm, put) ==
    [PassIdle EXCEPT !.pc = "loop", !.def = d, !.prof = prof, !.rm = rm, !.put = put]
Listed(d) == {m \in Members : d.entry[m].listed}
Converge(d) == StartOf(d, Listed(d) \ DefinitionTargets(d), DefinitionTargets(d))
Began == busy' = live /\ UNCHANGED served

AddFinalizer ==
    /\ pass.pc = "idle" /\ cdef.st = "new" /\ def = cdef
    /\ \E v \in FreshVersion :
          LET d == [def EXCEPT !.st = "live", !.rv = v]
          IN  def' = d /\ pass' = Converge(d)
    /\ Began
    /\ UNCHANGED <<cdef, instanceVars, envVars, copy, budgets>>

BeginConverge ==
    /\ pass.pc = "idle" /\ cdef.st = "live"
    /\ pass' = Converge(cdef)
    /\ Began
    /\ UNCHANGED <<hubVars, instanceVars, envVars, copy, budgets>>

BeginFinalize ==
    /\ pass.pc = "idle" /\ cdef.st = "deleting"
    /\ pass' = StartOf(cdef, Listed(cdef), {})
    /\ Began
    /\ UNCHANGED <<hubVars, instanceVars, envVars, copy, budgets>>

\* m is done with: its entry is e, or there is none any more.
Settled(m, e, leaving) ==
    pass' = [pass EXCEPT !.pc = "loop", !.m = SomeMember, !.seen = 0,
                         !.rm = @ \ {m}, !.put = @ \ {m},
                         !.out[m] = e, !.leaving = @ \cup leaving]
Held(m, e) == Settled(m, e, {m})
Pending(m) ==
    Held(m, [pass.def.entry[m] EXCEPT !.applied = FALSE, !.reason = "removing"])
Removed(m) == Settled(m, NoEntry, {})

\* The instances that hold a copy: those the hub's records track, by the cache,
\* and those listed on the member itself.
BlockingInstances == crec
MemberLocalInstances == live

\* Fault: a copy on a member that left the inventory is waited for.
RemoveBlindlyWaits(m) ==
    /\ pass.pc = "loop" /\ m \in pass.rm /\ ~Reachable(m)
    /\ IF m \in BlockingInstances
       THEN Held(m, [pass.def.entry[m] EXCEPT !.applied = FALSE])
       ELSE Pending(m)
    /\ UNCHANGED <<hubVars, instanceVars, envVars, copy, history, budgets>>

\* removeFromMember: a member that cannot be looked at.  Instances the hub's
\* records track block; a member that left the inventory is let go of.
RemoveBlindly(m) ==
    /\ pass.pc = "loop" /\ m \in pass.rm /\ ~Reachable(m)
    /\ IF m \in BlockingInstances
       THEN Held(m, [pass.def.entry[m] EXCEPT !.applied = FALSE])
       ELSE IF pass.prof[m] = "none" THEN Removed(m) ELSE Pending(m)
    /\ UNCHANGED <<hubVars, instanceVars, envVars, copy, history, budgets>>

\* removeFromMember: the guard.
\* Fault: only the instances the hub has placed count.
RemoveHeldByRecords(m) ==
    /\ pass.pc = "loop" /\ m \in pass.rm /\ Reachable(m)
    /\ IF m \in BlockingInstances
       THEN Held(m, Guarded(pass.def.entry[m], copy[m]))
       ELSE pass' = [pass EXCEPT !.pc = "get", !.m = m]
    /\ UNCHANGED <<hubVars, instanceVars, envVars, copy, history, budgets>>
RemoveGuarded(m) ==
    /\ pass.pc = "loop" /\ m \in pass.rm /\ Reachable(m)
    /\ IF m \in BlockingInstances \cup MemberLocalInstances
       THEN Held(m, Guarded(pass.def.entry[m], copy[m]))
       ELSE pass' = [pass EXCEPT !.pc = "get", !.m = m]
    /\ UNCHANGED <<hubVars, instanceVars, envVars, copy, history, budgets>>

\* The list on the member fails: the copy is held, and retried.
RemoveUnlisted(m) ==
    /\ pass.pc = "loop" /\ m \in pass.rm /\ Reachable(m)
    /\ faults < MaxFaults /\ faults' = faults + 1
    /\ Pending(m)
    /\ UNCHANGED <<hubVars, instanceVars, envVars, copy, history, changes>>

RemoveGet ==
    LET m == pass.m
        found == Find(m, pass.def.entry[m].uid) IN
    /\ pass.pc = "get"
    /\ \/ found = "gone" /\ Removed(m)
       \/ found = "wait" /\ Pending(m)
       \/ found = "delete" /\ pass' = [pass EXCEPT !.pc = "delete", !.seen = copy[m].uid]
    /\ UNCHANGED <<hubVars, instanceVars, envVars, copy, history, budgets>>

\* The delete, with the UID just seen as its precondition.
RemoveDelete ==
    LET m == pass.m IN
    /\ pass.pc = "delete"
    /\ copy' = IF copy[m].uid = pass.seen THEN [copy EXCEPT ![m].dying = TRUE] ELSE copy
    /\ IF OnMember(m) /\ copy[m].uid # pass.seen THEN Removed(m) ELSE Pending(m)
    /\ UNCHANGED <<hubVars, instanceVars, envVars, history, budgets>>

Turn(m) == pass.pc = "loop" /\ pass.rm = {} /\ m \in pass.put

DistributeSkipped(m) ==
    /\ Turn(m) /\ ~Reachable(m)
    /\ Settled(m, Unreached(pass.def.entry[m], pass.def.rev), {})
    /\ UNCHANGED <<hubVars, instanceVars, envVars, copy, history, budgets>>

DistributeFailed(m) ==
    /\ Turn(m) /\ Reachable(m)
    /\ faults < MaxFaults /\ faults' = faults + 1
    /\ Settled(m, Failed(pass.def.entry[m]), {})
    /\ UNCHANGED <<hubVars, instanceVars, envVars, copy, history, changes>>

\* Server-side apply with ForceOwnership: creates the copy or takes over what has
\* its name; a changed spec is a new generation, which kro has yet to evaluate.
Applied(m, c) ==
    /\ copy' = [copy EXCEPT ![m] = c]
    /\ Settled(m, ReadBack(pass.def.entry[m], c, pass.def.rev), {})

\* Fault: nothing is written to a member last seen at this revision.
DistributeOnce(m) ==
    LET rev == pass.def.rev IN
    /\ Turn(m) /\ Reachable(m)
    /\ \/ /\ pass.def.entry[m].held = rev /\ UNCHANGED copy
          /\ Settled(m, pass.def.entry[m], {})
       \/ /\ pass.def.entry[m].held # rev /\ OnMember(m)
          /\ Applied(m, [copy[m] EXCEPT !.ours = TRUE, !.rev = rev,
                                        !.evaluated = @ /\ copy[m].rev = rev])
       \/ /\ pass.def.entry[m].held # rev /\ ~OnMember(m)
          /\ \E u \in FreshUid(m) :
                Applied(m, [NoCopy EXCEPT !.uid = u, !.ours = TRUE, !.rev = rev])
    /\ UNCHANGED <<hubVars, instanceVars, envVars, history, budgets>>
Distribute(m) ==
    LET rev == pass.def.rev IN
    /\ Turn(m) /\ Reachable(m)
    /\ \/ /\ OnMember(m)
          /\ Applied(m, [copy[m] EXCEPT !.ours = TRUE, !.rev = rev,
                                        !.evaluated = @ /\ copy[m].rev = rev])
       \/ /\ ~OnMember(m)
          /\ \E u \in FreshUid(m) :
                Applied(m, [NoCopy EXCEPT !.uid = u, !.ours = TRUE, !.rev = rev])
    /\ UNCHANGED <<hubVars, instanceVars, envVars, history, budgets>>

\* The end of a pass: the status is written, or, finalizing with no entry left,
\* the finalizer removed; a pass computed from a stale object is refused, and
\* everything it learned is lost.
FinishPass ==
    LET d == pass.def
        kept == Listed([d EXCEPT !.entry = pass.out])
        entries == [d EXCEPT !.entry = pass.out]
        targets == kept \ pass.leaving IN
    /\ pass.pc = "loop" /\ pass.rm = {} /\ pass.put = {}
    /\ \/ def.rv # d.rv /\ UNCHANGED def
       \/ /\ def.rv = d.rv /\ ~Finalizing
          /\ Write(Rollup([entries EXCEPT !.hash = d.rev], targets, pass.out, pass.leaving))
       \/ /\ def.rv = d.rv /\ Finalizing /\ kept # {}
          /\ Write([entries EXCEPT !.leaving = pass.leaving])
       \/ /\ def.rv = d.rv /\ Finalizing /\ kept = {}
          /\ def' = [NoDefinition EXCEPT !.st = "gone"]
    /\ EndPass
    /\ UNCHANGED <<cdef, instanceVars, envVars, copy, history, budgets>>

\* Any call of the pass fails, or the controller stops: what it held is lost.
PassFault ==
    /\ pass.pc # "idle" /\ faults < MaxFaults
    /\ faults' = faults + 1
    /\ EndPass
    /\ UNCHANGED <<hubVars, instanceVars, envVars, copy, history, changes>>

PassStep ==
    \/ AddFinalizer \/ BeginConverge \/ BeginFinalize
    \/ \E m \in Members : \/ RemoveBlindly(m) \/ RemoveGuarded(m)
                          \/ DistributeSkipped(m) \/ Distribute(m)
    \/ RemoveGet \/ RemoveDelete \/ FinishPass

-----------------------------------------------------------------------------
(* Informer caches, the provider, the members' kro, and the users.          *)

SyncDefinition ==
    /\ cdef # def
    /\ cdef' = def
    /\ UNCHANGED <<def, instanceVars, envVars, copy, pass, history, budgets>>

SyncRecord(m) ==
    /\ m \in rec <=> m \notin crec
    /\ crec' = IF m \in rec THEN crec \cup {m} ELSE crec \ {m}
    /\ UNCHANGED <<hubVars, rec, live, placing, envVars, copy, pass, history, budgets>>

\* The provider engages a member once it is healthy, and lets it go only when
\* it leaves the inventory.
Engage(m) ==
    /\ prof[m] = "healthy" /\ m \notin engaged
    /\ engaged' = engaged \cup {m}
    /\ UNCHANGED <<hubVars, instanceVars, prof, matching, copy, pass, history, budgets>>

Disengage(m) ==
    /\ prof[m] = "none" /\ m \in engaged
    /\ engaged' = engaged \ {m}
    /\ UNCHANGED <<hubVars, instanceVars, prof, matching, copy, pass, history, budgets>>

\* The member's kro evaluates a generation, and serves or refuses it.  An Active
\* that names no generation can be quoted for any.
KroEvaluates(m) ==
    /\ OnMember(m) /\ ~copy[m].evaluated
    /\ \E verdict \in {"active", "refused"}, dated \in {TRUE, m \notin Undated} :
          /\ copy' = [copy EXCEPT ![m].evaluated = TRUE, ![m].dated = dated,
                                  ![m].verdict = verdict]
          /\ served' = CASE verdict = "refused" -> served
                         [] dated -> [served EXCEPT ![m] = @ \cup {copy[m].rev}]
                         [] OTHER -> [served EXCEPT ![m] = Revisions \cup {0}]
    /\ UNCHANGED <<hubVars, instanceVars, envVars, pass, busy, budgets>>

\* kro has unwound a definition whose deletion was asked for.
Vanish(m) ==
    /\ copy[m].dying
    /\ copy' = [copy EXCEPT ![m] = NoCopy]
    /\ UNCHANGED <<hubVars, instanceVars, envVars, pass, history, budgets>>

CreateDefinition ==
    /\ def.st = "none"
    /\ \E on \in BOOLEAN : Write([def EXCEPT !.st = "new", !.on = on])
    /\ UNCHANGED <<cdef, instanceVars, envVars, copy, pass, history, budgets>>

\* Without the finalizer the object goes at once.
DeleteDefinition ==
    /\ \/ def.st = "new" /\ def' = [NoDefinition EXCEPT !.st = "gone"]
       \/ def.st = "live" /\ Write([def EXCEPT !.st = "deleting"])
    /\ UNCHANGED <<cdef, instanceVars, envVars, copy, pass, history, budgets>>

Disturb(kind) ==
    /\ kind \in Disturbances /\ changes < MaxChanges
    /\ changes' = changes + 1
    /\ UNCHANGED <<cdef, crec, engaged, pass, faults>>

EditDefinition ==
    /\ Disturb("edit")
    /\ def.st = "live" /\ def.rev < MaxRevision
    /\ Write([def EXCEPT !.rev = @ + 1])
    /\ UNCHANGED <<rec, live, placing, prof, matching, copy, history>>

SwitchDistribution ==
    /\ Disturb("switch")
    /\ def.st = "live"
    /\ Write([def EXCEPT !.on = ~@])
    /\ UNCHANGED <<rec, live, placing, prof, matching, copy, history>>

ChangeMatching(m) ==
    /\ Disturb("match")
    /\ matching' = IF m \in matching THEN matching \ {m} ELSE matching \cup {m}
    /\ UNCHANGED <<def, rec, live, placing, prof, copy, history>>

ChangeProfile(m) ==
    /\ Disturb("profile")
    /\ \E p \in Profiles : p # prof[m] /\ prof' = [prof EXCEPT ![m] = p]
    /\ UNCHANGED <<def, rec, live, placing, matching, copy, history>>

\* Someone with access to the member deletes the copy there, or creates an
\* object of its name.
MemberDelete(m) ==
    /\ Disturb("delete")
    /\ OnMember(m) /\ ~copy[m].dying
    /\ copy' = [copy EXCEPT ![m].dying = TRUE]
    /\ UNCHANGED <<def, rec, live, placing, prof, matching, history>>

MemberCreate(m) ==
    /\ Disturb("create")
    /\ ~OnMember(m)
    /\ \E u \in FreshUid(m) : copy' = [copy EXCEPT ![m] = [NoCopy EXCEPT !.uid = u]]
    /\ UNCHANGED <<def, rec, live, placing, prof, matching, history>>

-----------------------------------------------------------------------------
(* The placing of instances.  FleetPlacement implements GatedPlacement; here *)
(* its gate is DefinitionGate on the cached definition.                     *)

Placement == INSTANCE GatedPlacement WITH
    gate <- {m \in Members : DefinitionGate(cdef, m)}, pass <- placing

Nothing == [m \in Members |-> "nothing"]

\* A pass begins: a member read as unhealthy gets a record at most.
\* Fault: the gate is not asked.
PlacementBeginsUngated ==
    /\ Disturb("instance") /\ placing = Nothing
    /\ placing' \in [Members -> {"nothing", "record", "write"}] \ {Nothing}
    /\ \A m \in Members : placing'[m] = "record" => prof[m] = "sick"
    /\ UNCHANGED <<def, rec, live, prof, matching, copy, history>>
PlacementBegins ==
    /\ Disturb("instance") /\ placing = Nothing
    /\ \E p \in [Members -> {"nothing", "record", "write"}] \ {Nothing} :
          /\ \A m \in Members : p[m] = "record" => prof[m] = "sick"
          /\ Placement!Begin(p)
    /\ UNCHANGED <<def, prof, matching, copy, history>>

PlacementRecords(m) ==
    /\ Placement!Record(m)
    /\ UNCHANGED <<hubVars, crec, envVars, copy, pass, history, budgets>>

\* The member takes an instance once kro has made its CRD; the apply finds one
\* there already, or creates it.
PlacementWrites(m) ==
    /\ served[m] # {}
    /\ Placement!Write(m)
    /\ UNCHANGED <<hubVars, crec, envVars, copy, pass, history, budgets>>

PlacementEnds ==
    /\ placing # Nothing
    /\ Placement!GiveUp(Nothing)
    /\ UNCHANGED <<hubVars, crec, envVars, copy, pass, history, budgets>>

\* An instance goes away; a record goes, its instance first or not.
InstanceGoes(m) ==
    /\ Placement!Vanish(m) /\ busy' = busy \ {m}
    /\ UNCHANGED <<hubVars, crec, envVars, copy, pass, served, budgets>>

RecordGoes(m) ==
    /\ Placement!Forget(m)
    /\ UNCHANGED <<hubVars, crec, envVars, copy, pass, history, budgets>>

\* Someone creates an instance on the member directly.
LocalCreates(m) ==
    /\ Disturb("instance")
    /\ served[m] # {} /\ Placement!LocalCreate(m)
    /\ UNCHANGED <<def, prof, matching, copy, history>>

-----------------------------------------------------------------------------
Init ==
    /\ def = NoDefinition /\ cdef = NoDefinition
    /\ Placement!Init /\ crec = {}
    /\ prof = [m \in Members |-> "healthy"]
    /\ engaged = Members /\ matching = Members
    /\ copy = [m \in Members |-> NoCopy]
    /\ pass = PassIdle
    /\ served = [m \in Members |-> {}] /\ busy = {}
    /\ changes = 0 /\ faults = 0

Environment ==
    \/ SyncDefinition \/ CreateDefinition \/ DeleteDefinition
    \/ EditDefinition \/ SwitchDistribution
    \/ PlacementBegins \/ PlacementEnds
    \/ \E m \in Members :
          \/ SyncRecord(m) \/ Engage(m) \/ Disengage(m) \/ KroEvaluates(m) \/ Vanish(m)
          \/ ChangeMatching(m) \/ ChangeProfile(m) \/ MemberDelete(m) \/ MemberCreate(m)
          \/ PlacementRecords(m) \/ PlacementWrites(m)
          \/ InstanceGoes(m) \/ RecordGoes(m) \/ LocalCreates(m)

Next ==
    \/ PassStep \/ PassFault
    \/ \E m \in Members : RemoveUnlisted(m) \/ DistributeFailed(m)
    \/ Environment

Spec == Init /\ [][Next]_vars

\* A pass is requeued every 30s (15s while something is pending), informers
\* deliver, the provider follows the inventory, kro evaluates what it is given
\* and finishes the deletions it started, and a pass of the FleetReconciler ends.
\* Nothing makes an instance go away.
Fairness ==
    /\ WF_vars(PassStep) /\ WF_vars(PlacementEnds)
    /\ WF_vars(SyncDefinition)
    /\ \A m \in Members : /\ WF_vars(SyncRecord(m)) /\ WF_vars(Vanish(m))
                          /\ WF_vars(Engage(m)) /\ WF_vars(Disengage(m))
                          /\ WF_vars(KroEvaluates(m))

FairSpec == Spec /\ Fairness

-----------------------------------------------------------------------------
(* Properties.                                                              *)

Passes ==
    [pc : {"idle", "loop", "get", "delete"}, def : Definitions, m : Members,
     seen : Uids \cup {0}, prof : [Members -> Profiles], rm : SUBSET Members,
     put : SUBSET Members, out : [Members -> Entries], leaving : SUBSET Members]

\* Every variable has its type: status.members holds what distributeToMember and
\* removeFromMember (definition_controller.go:355-477) may write there.
TypeOK ==
    /\ def \in Definitions /\ cdef \in Definitions
    /\ rec \subseteq Members /\ crec \subseteq Members /\ live \subseteq Members
    /\ prof \in [Members -> Profiles]
    /\ engaged \subseteq Members /\ matching \subseteq Members
    /\ copy \in [Members -> Copies] /\ pass \in Passes
    /\ placing \in [Members -> Placement!Permissions]
    /\ served \in [Members -> SUBSET (Revisions \cup {0})] /\ busy \subseteq Members
    /\ changes \in 0 .. MaxChanges /\ faults \in 0 .. MaxFaults

\* ObserveDefinition, Fresh (definition.go:199): whatever the pass missed, a
\* revision the status calls accepted by a member is one its kro has called
\* Active, for that very generation, unless kro has once called a copy Active
\* without saying for which.
AcceptedIsTrue ==
    \A m \in Members : def.entry[m].accepted # 0 => def.entry[m].accepted \in served[m]

\* DefinitionGate (definition.go:377): an instance is let onto a member, and may
\* still be written there by a pass that asked the gate before it closed, only if
\* some revision was served there, so that the member knows the kind.
GateIsEarned ==
    \A m \in Members :
        DefinitionGate(cdef, m) \/ placing[m] = "write" => served[m] # {}

\* RollupDefinition (definition.go:279): the Accepted condition is True only
\* when each targeted member's kro has called Active the very revision the
\* condition names, or some copy without saying which revision it meant.
AcceptedConditionEarned ==
    def.accepted => def.targets # {} /\ \A m \in def.targets : def.hash \in served[m]

\* removeFromMember (definition_controller.go:409): no pass deletes the copy on a
\* member that has had an instance of the kind ever since the pass began.
GuardHonoured ==
    [][pass' # pass =>
         \A m \in Members : copy'[m].dying /\ ~copy[m].dying => m \notin busy]_vars

\* status.members is the inventory of copies (definition_controller.go:67): an
\* entry goes only when the copy it names is gone or its member has left.
ListedUntilGone ==
    [][\A m \in Members :
         def.entry[m].listed /\ ~def'.entry[m].listed /\ pass.prof[m] # "none"
           => ~(OnMember(m) /\ copy[m].ours /\ copy[m].uid = def.entry[m].uid)]_vars

\* What the distribution of a live definition should come to.
Distributed ==
    def.st = "live" =>
      \A m \in Members :
        LET e == def.entry[m] IN
        /\ m \in DefinitionTargets(def) \cap engaged /\ prof[m] = "healthy"
             => /\ OnMember(m) /\ copy[m].ours /\ ~copy[m].dying /\ copy[m].rev = def.rev
                /\ e.listed /\ e.uid = copy[m].uid /\ def.hash = def.rev
                /\ Accepted(e) <=> copy[m].verdict = "active"
        /\ m \in engaged \ (DefinitionTargets(def) \cup rec \cup live) /\ prof[m] = "healthy"
             => ~e.listed

\* distributeToMember, removeFromMember (definition_controller.go:355): once the
\* outside changes stop, every reachable target holds the current revision and the
\* status tells its kro's verdict, and a member that is no target and hosts no
\* instance is let go of.
EventuallyDistributed == <>[]Distributed

\* finalize (definition_controller.go:292): a deletion goes through, unless an
\* instance of the kind or an unhealthy member holds it up.
DeletionReleases ==
    def.st = "deleting" ~>
        \/ def.st = "gone"
        \/ \E m \in Members : def.entry[m].listed /\ (m \in rec \cup live \/ prof[m] = "sick")

\* fleetresourcegraphdefinition_types.go:240 "the member holds the CURRENT
\* revision and its own kro says it is serving it ... a stale verdict ... does
\* not count": an entry is Accepted only for a revision kro has served.
StaleVerdictDoesNotCount ==
    \A m \in Members : def.entry[m].listed /\ Accepted(def.entry[m]) => def.hash \in served[m]

\* definition_controller.go:288 "finalize removes the definition from every member
\* it is on": no live copy stays on a healthy member when the finalizer goes.
FinalizeRemovesEverywhere ==
    [][def.st = "deleting" /\ def'.st = "gone" =>
         \A m \in Members : prof[m] = "healthy" =>
             ~(OnMember(m) /\ copy[m].ours /\ ~copy[m].dying)]_vars

\* README.md:65 "a definition is never removed from under instances the hub
\* placed": the delete never finds a recorded instance on the member.
NeverFromUnderInstances ==
    [][pass' # pass =>
         \A m \in Members : copy'[m].dying /\ ~copy[m].dying => m \notin rec \cap live]_vars
=============================================================================
