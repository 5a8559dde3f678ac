------------------------ MODULE FleetPlacementProofs ------------------------
(***************************************************************************)
(* Proofs about FleetPlacement, for every set of members, every supply of  *)
(* UIDs and resource versions, and every bound on outside changes.         *)
(***************************************************************************)
EXTENDS FleetPlacement, TLAPS

USE MembersAssumption, UidsAssumption, VersionsAssumption, SourceAssumption,
    BoundsAssumption

-----------------------------------------------------------------------------
(* The model's helpers.                                                     *)

LEMMA SomeMemberType == SomeMember \in Members
  BY DEF SomeMember

LEMMA FreshVersionFact ==
  ASSUME NEW m \in Members, NEW v \in FreshVersion(m)
  PROVE  v \in Versions /\ v # 0 /\ v # rec[m].rv /\ v # crec[m].rv
         /\ v # fleet.recs[m].rv /\ v # settle.rec.rv
  BY DEF FreshVersion, Least

LEMMA FreshUidFact ==
  ASSUME NEW m \in Members, NEW u \in FreshUid(m)
  PROVE  u \in Uids /\ u # 0 /\ u # copy[m].uid /\ u # rec[m].uid /\ u # crec[m].uid
         /\ u # fleet.recs[m].uid /\ u # settle.rec.uid /\ u # fleet.seen
         /\ u # settle.seen
  BY DEF FreshUid, Least

LEMMA NewCopyType ==
  ASSUME NEW m \in Members, NEW u \in FreshUid(m)
  PROVE  /\ [NoCopy EXCEPT !.uid = u, !.ours = TRUE] \in Copies
         /\ [NoCopy EXCEPT !.uid = u] \in Copies
  <1>1. u \in Uids
    BY FreshUidFact
  <1> QED
    BY <1>1 DEF Copies, NoCopy

LEMMA CopyUpdateType ==
  ASSUME TypeOK, NEW m \in Members,
         \/ copy' = [copy EXCEPT ![m].ours = TRUE]
         \/ copy' = [copy EXCEPT ![m].dying = TRUE]
         \/ \E u \in FreshUid(m) :
               copy' = [copy EXCEPT ![m] = [NoCopy EXCEPT !.uid = u, !.ours = TRUE]]
         \/ \E u \in FreshUid(m) :
               copy' = [copy EXCEPT ![m] = [NoCopy EXCEPT !.uid = u]]
  PROVE  copy' \in [Members -> Copies]
  <1>1. copy \in [Members -> Copies]
    BY DEF TypeOK
  <1>2. CASE copy' = [copy EXCEPT ![m].ours = TRUE]
    BY <1>1, <1>2 DEF Copies
  <1>3. CASE copy' = [copy EXCEPT ![m].dying = TRUE]
    BY <1>1, <1>3 DEF Copies
  <1>4. CASE \E u \in FreshUid(m) :
               copy' = [copy EXCEPT ![m] = [NoCopy EXCEPT !.uid = u, !.ours = TRUE]]
    BY <1>1, <1>4, NewCopyType
  <1>5. CASE \E u \in FreshUid(m) :
               copy' = [copy EXCEPT ![m] = [NoCopy EXCEPT !.uid = u]]
    BY <1>1, <1>5, NewCopyType
  <1> QED
    BY <1>2, <1>3, <1>4, <1>5

LEMMA DecidedType == TypeOK => Decided \subseteq Members
  BY DEF Decided, TypeOK

LEMMA IdleTypes == FleetIdle \in Passes /\ SettleIdle \in Settlements
  BY SomeMemberType DEF FleetIdle, SettleIdle, Passes, Settlements, Records,
     NoRecord, Profiles

LEMMA ConvergePassType == TypeOK => ConvergePass \in Passes
  BY IdleTypes, DecidedType
  DEF ConvergePass, TypeOK, Passes, Records, Profiles

LEMMA FinalizePassType == TypeOK => FinalizePass \in Passes
  BY IdleTypes DEF FinalizePass, TypeOK, Passes, Records, Profiles, Instances

\* What the moves of FleetReconciler's pass do, field by field.
LEMMA UnplacedFields ==
  ASSUME TypeOK, NEW m \in Members, NEW p \in BOOLEAN, Unplaced(m, p)
  PROVE  /\ fleet' \in Passes
         /\ fleet'.pc = "loop" /\ fleet'.life = fleet.life /\ fleet'.put = fleet.put
         /\ fleet'.seen = 0
         /\ \A n \in Members :
              fleet'.recs[n] = IF n = m THEN NoRecord ELSE fleet.recs[n]
  BY SomeMemberType DEF TypeOK, Unplaced, Passes, NoRecord, Records

LEMMA PlaceDoneFields ==
  ASSUME TypeOK, NEW m \in Members, PlaceDone(m)
  PROVE  /\ fleet' \in Passes
         /\ fleet'.pc = "loop" /\ fleet'.life = fleet.life
         /\ fleet'.put = fleet.put \ {m} /\ fleet'.seen = 0
         /\ \A n \in Members :
              fleet'.recs[n] = IF n = m THEN NoRecord ELSE fleet.recs[n]
  BY SomeMemberType DEF TypeOK, PlaceDone, Passes, NoRecord, Records

LEMMA TakeUpFields ==
  ASSUME TypeOK, NEW m \in Members, NEW r \in Records, NEW pc \in {"get", "apply"},
         TakeUp(pc, m, r)
  PROVE  /\ fleet' \in Passes
         /\ fleet'.pc = pc /\ fleet'.life = fleet.life /\ fleet'.put = fleet.put
         /\ fleet'.m = m /\ fleet'.seen = fleet.seen
         /\ \A n \in Members : fleet'.recs[n] = IF n = m THEN r ELSE fleet.recs[n]
  BY DEF TypeOK, TakeUp, Passes

LEMMA ProceedFields ==
  ASSUME TypeOK, NEW r \in Records, Proceed("forget", r)
  PROVE  /\ fleet' \in Passes
         /\ fleet'.pc = "forget" /\ fleet'.life = fleet.life /\ fleet'.put = fleet.put
         /\ fleet'.m = fleet.m /\ fleet'.seen = fleet.seen
         /\ \A n \in Members : fleet'.recs[n] = IF n = fleet.m THEN r ELSE fleet.recs[n]
  BY DEF TypeOK, Proceed, Passes

LEMMA HoldFields ==
  ASSUME TypeOK, NEW u \in Uids \cup {0}, NEW pc \in {"drop", "delete", "confirm"},
         Hold(pc, u)
  PROVE  /\ fleet' \in Passes
         /\ fleet'.pc = pc /\ fleet'.life = fleet.life /\ fleet'.put = fleet.put
         /\ fleet'.m = fleet.m /\ fleet'.seen = u /\ fleet'.recs = fleet.recs
  BY DEF TypeOK, Hold, Passes

LEMMA EndPassFields ==
  ASSUME EndPass
  PROVE  /\ fleet' \in Passes
         /\ fleet'.pc = "idle" /\ fleet'.life = 0 /\ fleet'.put = {} /\ fleet'.seen = 0
         /\ \A n \in Members : fleet'.recs[n] = NoRecord
  BY IdleTypes DEF EndPass, FleetIdle

LEMMA BeginFields ==
  ASSUME TypeOK
  PROVE  /\ ConvergePass.pc = "loop" /\ ConvergePass.life = 0
         /\ ConvergePass.seen = 0 /\ ConvergePass.recs = crec
         /\ FinalizePass.pc = "loop" /\ FinalizePass.life = cinst.life
         /\ FinalizePass.put = {} /\ FinalizePass.seen = 0 /\ FinalizePass.recs = crec
  BY DEF ConvergePass, FinalizePass, FleetIdle

\* The same for RecordReconciler's pass.
LEMMA SettleEndFields ==
  ASSUME SettleEnd
  PROVE  /\ settle' \in Settlements
         /\ settle'.pc = "idle" /\ settle'.seen = 0 /\ settle'.rec = NoRecord
  BY IdleTypes DEF SettleEnd, SettleIdle

LEMMA SettleAtFields ==
  ASSUME NEW pc \in {"get", "delete", "drop", "forget"}, NEW m \in Members,
         NEW u \in Uids \cup {0}, NEW r \in Records, SettleAt(pc, m, u, r)
  PROVE  /\ settle' \in Settlements
         /\ settle'.pc = pc /\ settle'.m = m /\ settle'.seen = u /\ settle'.rec = r
  BY DEF SettleAt, Settlements

\* The contents written: marked, bound to a UID, and blank.
LEMMA Contents ==
  ASSUME NEW m \in Members, NEW v \in FreshVersion(m)
  PROVE  /\ \A h \in Records, o \in {"yes", "no"} :
              /\ Marked(h, o, v) \in Records
              /\ Marked(h, o, v).rv = v /\ Marked(h, o, v).uid = h.uid
         /\ \A h \in Records, u \in Uids \cup {0} :
              /\ Bound(h, u, v) \in Records
              /\ Bound(h, u, v).rv = v /\ Bound(h, u, v).uid = u
         /\ Blank(v) \in Records /\ Blank(v).rv = v /\ Blank(v).uid = 0
  <1>1. v \in Versions
    BY FreshVersionFact
  <1> QED
    BY <1>1 DEF Records, NoRecord, Marked, Bound, Blank

LEMMA CurrentTypes ==
  ASSUME TypeOK
  PROVE  /\ fleet.m \in Members /\ fleet.seen \in Uids \cup {0}
         /\ settle.m \in Members /\ settle.seen \in Uids \cup {0} /\ settle.rec \in Records
         /\ \A m \in Members : /\ copy[m] \in Copies /\ copy[m].uid \in Uids \cup {0}
                               /\ copy[m].ours \in BOOLEAN
                               /\ rec[m] \in Records /\ crec[m] \in Records
                               /\ fleet.recs[m] \in Records
  BY DEF TypeOK, Passes, Settlements, Copies, Records

LEMMA StoredType ==
  ASSUME TypeOK, NEW m \in Members, NEW r \in Records, NEW h \in Records, Stored(m, h, r)
  PROVE  rec' \in [Members -> Records]
  <1>1. rec \in [Members -> Records]
    BY DEF TypeOK
  <1> QED
    BY <1>1 DEF Stored

\* A record is left alone, or an update computed from a held one is stored.
LEMMA WriteType ==
  ASSUME TypeOK, NEW m \in Members, NEW h \in Records,
         rec' = rec \/ \E r \in Records : Stored(m, h, r)
  PROVE  rec' \in [Members -> Records]
  <1>1. rec \in [Members -> Records]
    BY DEF TypeOK
  <1> QED
    BY <1>1, StoredType

-----------------------------------------------------------------------------
(* Type correctness.                                                        *)

LEMMA InitType == Init => TypeOK
  <1> SUFFICES ASSUME Init PROVE TypeOK
    OBVIOUS
  <1>1. inst \in Instances /\ cinst \in Instances
    BY DEF Init, Instances
  <1>2. rec \in [Members -> Records] /\ crec \in [Members -> Records]
    BY DEF Init, Records, NoRecord
  <1>3. copy \in [Members -> Copies] /\ prof \in [Members -> Profiles]
    BY DEF Init, Copies, NoCopy, Profiles
  <1>4. changes \in 0 .. MaxChanges /\ faults \in 0 .. MaxFaults
    BY DEF Init
  <1> QED
    BY <1>1, <1>2, <1>3, <1>4, IdleTypes DEF Init, TypeOK

LEMMA FleetStepType ==
  ASSUME TypeOK, FleetStep \/ FleetFault PROVE TypeOK'
  <1> USE CurrentTypes DEF hubVars, envVars, budgets
  <1>1. CASE AddFinalizer
    BY <1>1, ConvergePassType DEF AddFinalizer, Instances, TypeOK
  <1>2. CASE BeginConverge
    BY <1>2, ConvergePassType DEF BeginConverge, TypeOK
  <1>3. CASE BeginFinalize
    BY <1>3, FinalizePassType DEF BeginFinalize, TypeOK
  <1>4. ASSUME NEW m \in Members, UnplaceBlocked(m) PROVE TypeOK'
    BY <1>4, UnplacedFields DEF UnplaceBlocked, TypeOK
  <1>5. ASSUME NEW m \in Members, UnplaceOrphan(m) PROVE TypeOK'
    <2>1. rec' \in [Members -> Records]
      <3>1. rec' = rec \/ \E v \in FreshVersion(m) : Stored(m, fleet.recs[m], Marked(fleet.recs[m], "yes", v))
        BY <1>5 DEF UnplaceOrphan
      <3>2. \A v \in FreshVersion(m) : Marked(fleet.recs[m], "yes", v) \in Records
        BY Contents
      <3> QED
        BY <3>1, <3>2, WriteType
    <2>2. fleet' \in Passes
      BY <1>5, UnplacedFields, EndPassFields DEF UnplaceOrphan
    <2> QED
      BY <1>5, <2>1, <2>2 DEF UnplaceOrphan, TypeOK
  <1>6. ASSUME NEW m \in Members, UnplaceStart(m) PROVE TypeOK'
    <2>1. rec' \in [Members -> Records]
      <3>1. rec' = rec \/ \E v \in FreshVersion(m) : Stored(m, fleet.recs[m], Marked(fleet.recs[m], "no", v))
        BY <1>6 DEF UnplaceStart
      <3>2. \A v \in FreshVersion(m) : Marked(fleet.recs[m], "no", v) \in Records
        BY Contents
      <3> QED
        BY <3>1, <3>2, WriteType
    <2>2. fleet' \in Passes
      BY <1>6, Contents, TakeUpFields, EndPassFields DEF UnplaceStart
    <2> QED
      BY <1>6, <2>1, <2>2 DEF UnplaceStart, TypeOK
  <1>7. ASSUME NEW m \in Members, EnsureRecord(m) PROVE TypeOK'
    <2>1. rec' \in [Members -> Records]
      <3>1. \/ rec' = rec
            \/ \E v \in FreshVersion(m) : rec' = [rec EXCEPT ![m] = Blank(v)]
        BY <1>7 DEF EnsureRecord, Turn
      <3>2. rec \in [Members -> Records]
        BY DEF TypeOK
      <3>3. \A v \in FreshVersion(m) : Blank(v) \in Records
        BY Contents
      <3> QED
        BY <3>1, <3>2, <3>3
    <2>2. fleet' \in Passes
      BY <1>7, Contents, TakeUpFields, EndPassFields DEF EnsureRecord, Turn
    <2> QED
      BY <1>7, <2>1, <2>2 DEF EnsureRecord, Turn, TypeOK
  <1>8. CASE UnplaceGet
    BY <1>8, HoldFields, UnplacedFields DEF UnplaceGet, TypeOK
  <1>9. CASE UnplaceDelete
    <2>1. copy' \in [Members -> Copies]
      BY <1>9, CopyUpdateType DEF UnplaceDelete, DeleteCopy, TypeOK
    <2> QED
      BY <1>9, <2>1, HoldFields, UnplacedFields DEF UnplaceDelete, TypeOK
  <1>10. CASE UnplaceDrop
    <2>1. rec' \in [Members -> Records]
      <3>1. rec' = rec \/ \E v \in FreshVersion(fleet.m) : Stored(fleet.m, fleet.recs[fleet.m], Bound(fleet.recs[fleet.m], 0, v))
        BY <1>10 DEF UnplaceDrop
      <3>2. \A v \in FreshVersion(fleet.m) : Bound(fleet.recs[fleet.m], 0, v) \in Records
        BY Contents
      <3> QED
        BY <3>1, <3>2, WriteType
    <2>2. fleet' \in Passes
      BY <1>10, Contents, ProceedFields, EndPassFields DEF UnplaceDrop
    <2> QED
      BY <1>10, <2>1, <2>2 DEF UnplaceDrop, TypeOK
  <1>11. CASE UnplaceForget
    <2>1. NoRecord \in Records
      BY DEF Records, NoRecord
    <2> QED
      BY <1>11, <2>1, UnplacedFields DEF UnplaceForget, TypeOK
  <1>12. CASE ApplySkipped \/ (\E m \in Members : HeldBack(m))
    BY <1>12, PlaceDoneFields DEF ApplySkipped, HeldBack, TypeOK
  <1>13. CASE Apply
    <2>1. copy' \in [Members -> Copies]
      BY <1>13, CopyUpdateType DEF Apply
    <2>2. fleet' \in Passes
      BY <1>13, HoldFields, FreshUidFact DEF Apply
    <2> QED
      BY <1>13, <2>1, <2>2 DEF Apply, TypeOK
  <1>14. CASE ConfirmApplied
    <2>1. rec' \in [Members -> Records]
      <3>1. rec' = rec \/ \E v \in FreshVersion(fleet.m) :
              Stored(fleet.m, fleet.recs[fleet.m], Bound(fleet.recs[fleet.m], fleet.seen, v))
        BY <1>14 DEF ConfirmApplied
      <3>2. \A v \in FreshVersion(fleet.m) :
              Bound(fleet.recs[fleet.m], fleet.seen, v) \in Records
        BY Contents
      <3> QED
        BY <3>1, <3>2, WriteType
    <2>2. fleet' \in Passes
      BY <1>14, PlaceDoneFields, EndPassFields DEF ConfirmApplied
    <2> QED
      BY <1>14, <2>1, <2>2 DEF ConfirmApplied, TypeOK
  <1>15. CASE FinishPass
    BY <1>15, EndPassFields DEF FinishPass, Instances, TypeOK
  <1>16. CASE FleetFault
    BY <1>16, EndPassFields, PlaceDoneFields DEF FleetFault, TypeOK
  <1>17. CASE RenderFails
    BY <1>17, EndPassFields DEF RenderFails, TypeOK
  <1> QED
    BY <1>1, <1>2, <1>3, <1>4, <1>5, <1>6, <1>7, <1>8, <1>9, <1>10, <1>11, <1>12,
       <1>13, <1>14, <1>15, <1>16, <1>17 DEF FleetStep

LEMMA SettleStepType ==
  ASSUME TypeOK, SettleStep \/ SettleFault PROVE TypeOK'
  <1> USE CurrentTypes DEF hubVars, envVars, budgets
  <1>1. ASSUME NEW m \in Members, SettleOrphan(m) PROVE TypeOK'
    <2>1. rec' \in [Members -> Records]
      <3>1. \E v \in FreshVersion(m) : Stored(m, crec[m], Marked(crec[m], "yes", v))
        BY <1>1 DEF SettleOrphan
      <3>2. \A v \in FreshVersion(m) : Marked(crec[m], "yes", v) \in Records
        BY Contents
      <3> QED
        BY <3>1, <3>2, WriteType
    <2> QED
      BY <1>1, <2>1 DEF SettleOrphan, TypeOK
  <1>2. ASSUME NEW m \in Members, SettleStart(m) PROVE TypeOK'
    <2>1. rec' \in [Members -> Records]
      <3>1. rec' = rec \/ \E v \in FreshVersion(m) : Stored(m, crec[m], Marked(crec[m], "no", v))
        BY <1>2 DEF SettleStart
      <3>2. \A v \in FreshVersion(m) : Marked(crec[m], "no", v) \in Records
        BY Contents
      <3> QED
        BY <3>1, <3>2, WriteType
    <2>2. settle' \in Settlements
      BY <1>2, Contents, SettleAtFields DEF SettleStart
    <2> QED
      BY <1>2, <2>1, <2>2 DEF SettleStart, TypeOK
  <1>3. CASE SettleGet
    BY <1>3, SettleAtFields, SettleEndFields DEF SettleGet, TypeOK
  <1>4. CASE SettleDelete
    <2>1. copy' \in [Members -> Copies]
      BY <1>4, CopyUpdateType DEF SettleDelete, DeleteCopy, TypeOK
    <2> QED
      BY <1>4, <2>1, SettleAtFields, SettleEndFields DEF SettleDelete, TypeOK
  <1>5. CASE SettleDrop
    <2>1. rec' \in [Members -> Records]
      <3>1. rec' = rec \/ \E v \in FreshVersion(settle.m) : Stored(settle.m, settle.rec, Bound(settle.rec, 0, v))
        BY <1>5 DEF SettleDrop
      <3>2. \A v \in FreshVersion(settle.m) : Bound(settle.rec, 0, v) \in Records
        BY Contents
      <3> QED
        BY <3>1, <3>2, WriteType
    <2>2. settle' \in Settlements
      BY <1>5, Contents, SettleAtFields, SettleEndFields DEF SettleDrop
    <2> QED
      BY <1>5, <2>1, <2>2 DEF SettleDrop, TypeOK
  <1>6. CASE SettleForget
    <2>1. NoRecord \in Records
      BY DEF Records, NoRecord
    <2> QED
      BY <1>6, <2>1, SettleEndFields DEF SettleForget, TypeOK
  <1>7. CASE SettleFault
    BY <1>7, SettleEndFields DEF SettleFault, TypeOK
  <1> QED
    BY <1>1, <1>2, <1>3, <1>4, <1>5, <1>6, <1>7 DEF SettleStep, SettleContinue

LEMMA EnvironmentType ==
  ASSUME TypeOK, Environment PROVE TypeOK'
  <1> USE DEF TypeOK, hubVars, envVars, budgets
  <1>1. CASE SyncInstance
    BY <1>1 DEF SyncInstance
  <1>2. CASE CreateInstance
    BY <1>2 DEF CreateInstance, Instances
  <1>3. CASE DeleteInstance
    BY <1>3 DEF DeleteInstance, Instances
  <1>4. CASE ChangeDecision
    BY <1>4 DEF ChangeDecision, Disturb
  <1>5. ASSUME NEW m \in Members, SyncRecord(m) PROVE TypeOK'
    BY <1>5 DEF SyncRecord
  <1>6. ASSUME NEW m \in Members, Engage(m) \/ Disengage(m) PROVE TypeOK'
    BY <1>6 DEF Engage, Disengage
  <1>7. ASSUME NEW m \in Members, Vanish(m) PROVE TypeOK'
    BY <1>7 DEF Vanish, Copies, NoCopy
  <1>8. ASSUME NEW m \in Members, ChangeProfile(m) PROVE TypeOK'
    BY <1>8 DEF ChangeProfile, Disturb
  <1>9. ASSUME NEW m \in Members, ChangeGate(m) PROVE TypeOK'
    BY <1>9 DEF ChangeGate, Disturb
  <1>10. ASSUME NEW m \in Members, MemberDelete(m) PROVE TypeOK'
    <2>1. copy' \in [Members -> Copies]
      BY <1>10, CopyUpdateType DEF MemberDelete
    <2> QED
      BY <1>10, <2>1 DEF MemberDelete, Disturb
  <1>11. ASSUME NEW m \in Members, MemberCreate(m) PROVE TypeOK'
    <2>1. copy' \in [Members -> Copies]
      BY <1>11, CopyUpdateType DEF MemberCreate
    <2> QED
      BY <1>11, <2>1 DEF MemberCreate, Disturb
  <1> QED
    BY <1>1, <1>2, <1>3, <1>4, <1>5, <1>6, <1>7, <1>8, <1>9, <1>10, <1>11 DEF Environment

LEMMA NextType == TypeOK /\ [Next]_vars => TypeOK'
  <1>1. CASE UNCHANGED vars
    BY <1>1 DEF vars, TypeOK
  <1> QED
    BY <1>1, FleetStepType, SettleStepType, EnvironmentType DEF Next

\* The hub's objects, the members' copies and both passes keep their types.
THEOREM TypeCorrect == Spec => []TypeOK
  BY InitType, NextType, PTL DEF Spec

-----------------------------------------------------------------------------
(* The inductive invariant.                                                 *)

\* Read, then delete: the UID about to be deleted belongs to a labelled object.
LabelledTarget ==
    /\ fleet.pc = "delete" =>
         fleet.seen # 0 /\ (copy[fleet.m].uid = fleet.seen => copy[fleet.m].ours)
    /\ settle.pc = "delete" =>
         settle.seen # 0 /\ (copy[settle.m].uid = settle.seen => copy[settle.m].ours)

\* The phases of an instance that lives once: the cache runs behind the API
\* server, a finalizing pass excludes a placing one, and a record is settled
\* only after the release.
Phases ==
    /\ inst.st = "none" <=> inst.life = 0
    /\ cinst.st = "none" <=> cinst.life = 0
    /\ cinst.st # "none" => inst.st # "none"
    /\ cinst.st = "live" => inst.st \in {"live", "deleting"}
    /\ cinst.st = "deleting" => inst.st \in {"deleting", "gone"}
    /\ cinst.st = "gone" => inst.st = "gone"
    /\ fleet.life # 0 => cinst.st \in {"deleting", "gone"}
    /\ fleet.pc # "idle" => cinst.st # "none"
    /\ fleet.pc # "idle" /\ fleet.life = 0 => inst.st \in {"live", "deleting"}
    /\ fleet.life # 0 => fleet.put = {} /\ fleet.pc \notin {"apply", "confirm"}
    /\ settle.pc # "idle" => inst.st = "gone"
    /\ \A m \in Members : Present(rec[m]) \/ Present(crec[m]) => cinst.st # "none"

\* Whoever holds the current version of a record holds its current content.
Coherent ==
    \A m \in Members :
      /\ ~Present(rec[m]) => rec[m].uid = 0
      /\ Present(rec[m]) =>
           /\ crec[m].rv = rec[m].rv => crec[m] = rec[m]
           /\ fleet.recs[m].rv = rec[m].rv => fleet.recs[m] = rec[m]
           /\ settle.m = m /\ settle.rec.rv = rec[m].rv => settle.rec = rec[m]

\* An object whose UID was ever confirmed, or was just applied, is labelled.
Labelled(m, u) == u # 0 /\ copy[m].uid = u => copy[m].ours
LabelledUids ==
    /\ \A m \in Members :
         Labelled(m, rec[m].uid) /\ Labelled(m, crec[m].uid) /\ Labelled(m, fleet.recs[m].uid)
    /\ Labelled(settle.m, settle.rec.uid)
    /\ fleet.pc = "confirm" => Labelled(fleet.m, fleet.seen)

\* What a cleaning pass knows about the member it works on.
Clear(m, uid) == IF uid # 0 THEN copy[m].uid # uid
                 ELSE copy[m].uid = 0 \/ ~copy[m].ours
Cleaning(pc, m, uid, seen) ==
    /\ pc = "delete" => /\ copy[m].uid \in {0, seen} \/ ~copy[m].ours
                        /\ uid # 0 => seen = uid
    /\ pc = "drop" => Clear(m, uid)
    /\ pc = "forget" => ~ConfirmedOnMember(m)
Cleanings ==
    /\ Cleaning(fleet.pc, fleet.m, fleet.recs[fleet.m].uid, fleet.seen)
    /\ Cleaning(settle.pc, settle.m, settle.rec.uid, settle.seen)

\* A confirmation replaces an entry only when its object is off the member.
Confirming ==
    fleet.pc = "confirm" =>
        \/ copy[fleet.m].uid \in {0, fleet.seen}
        \/ copy[fleet.m].uid # fleet.recs[fleet.m].uid

IInv == TypeOK /\ LabelledTarget /\ Phases /\ Coherent /\ LabelledUids /\ Cleanings
        /\ Confirming

-----------------------------------------------------------------------------
(* Objects on the members.                                                  *)

\* What can happen to an object while no pass is applying anything.
CopyMove(m) ==
    \/ copy'[m].uid = copy[m].uid /\ copy'[m].ours = copy[m].ours
    \/ copy'[m].uid = 0 /\ ~copy'[m].ours
    \/ /\ ~copy'[m].ours
       /\ copy'[m].uid \notin {0, rec[m].uid, crec[m].uid, fleet.recs[m].uid,
                               settle.rec.uid, fleet.seen, settle.seen}

LEMMA DeleteCopyMoves ==
  ASSUME TypeOK, NEW m \in Members, NEW u, DeleteCopy(m, u)
  PROVE  \A n \in Members : CopyMove(n)
  BY DEF TypeOK, DeleteCopy, CopyMove, Copies

LEMMA VanishMoves ==
  ASSUME TypeOK, NEW m \in Members, Vanish(m)
  PROVE  \A n \in Members : CopyMove(n)
  BY DEF TypeOK, Vanish, CopyMove, Copies, NoCopy

LEMMA MemberDeleteMoves ==
  ASSUME TypeOK, NEW m \in Members, MemberDelete(m)
  PROVE  \A n \in Members : CopyMove(n)
  BY DEF TypeOK, MemberDelete, CopyMove, Copies

LEMMA MemberCreateMoves ==
  ASSUME TypeOK, NEW m \in Members, MemberCreate(m)
  PROVE  \A n \in Members : CopyMove(n)
  <1> PICK u \in FreshUid(m) :
        copy' = [copy EXCEPT ![m] = [NoCopy EXCEPT !.uid = u]]
    BY DEF MemberCreate
  <1>1. copy'[m] = [NoCopy EXCEPT !.uid = u]
    BY DEF TypeOK
  <1>2. copy'[m].uid = u /\ ~copy'[m].ours
    BY <1>1 DEF NoCopy
  <1>3. \A n \in Members \ {m} : copy'[n] = copy[n]
    BY DEF TypeOK
  <1> QED
    BY <1>2, <1>3, FreshUidFact DEF CopyMove

-----------------------------------------------------------------------------
(* Controllers delete labelled objects only.                                *)

LEMMA ApplyEffect ==
  ASSUME TypeOK, Apply
  PROVE  /\ \A n \in Members \ {fleet.m} : copy'[n] = copy[n]
         /\ copy'[fleet.m].ours
         /\ copy'[fleet.m].dying => copy[fleet.m].dying
         /\ copy'[fleet.m].uid = fleet'.seen /\ fleet'.seen # 0
         /\ \/ copy'[fleet.m].uid = copy[fleet.m].uid
            \/ fleet'.seen \in FreshUid(fleet.m)
  <1> DEFINE m == fleet.m
  <1>1. m \in Members /\ copy \in [Members -> Copies] /\ copy[m].uid \in Uids \cup {0}
    BY CurrentTypes DEF TypeOK
  <1>2. CASE /\ OnMember(m) /\ copy' = [copy EXCEPT ![m].ours = TRUE]
             /\ Hold("confirm", copy[m].uid)
    <2>1. fleet'.seen = copy[m].uid
      BY <1>1, <1>2, HoldFields
    <2>2. /\ \A n \in Members \ {m} : copy'[n] = copy[n]
          /\ copy'[m].ours /\ copy'[m].uid = copy[m].uid
          /\ copy'[m].dying = copy[m].dying
      BY <1>1, <1>2 DEF Copies
    <2> QED
      BY <1>2, <2>1, <2>2 DEF OnMember
  <1>3. ASSUME NEW u \in FreshUid(m),
               copy' = [copy EXCEPT ![m] = [NoCopy EXCEPT !.uid = u, !.ours = TRUE]],
               Hold("confirm", u)
        PROVE  /\ \A n \in Members \ {m} : copy'[n] = copy[n]
               /\ copy'[m].ours /\ ~copy'[m].dying
               /\ copy'[m].uid = u /\ fleet'.seen = u /\ u # 0
    <2>1. u \in Uids /\ u # 0
      BY <1>1, FreshUidFact
    <2>2. fleet'.seen = u
      BY <1>3, <2>1, HoldFields
    <2>3. copy'[m] = [NoCopy EXCEPT !.uid = u, !.ours = TRUE]
      BY <1>1, <1>3
    <2>4. copy'[m].ours /\ ~copy'[m].dying /\ copy'[m].uid = u
      BY <2>3 DEF NoCopy
    <2>5. \A n \in Members \ {m} : copy'[n] = copy[n]
      BY <1>1, <1>3
    <2> QED
      BY <2>1, <2>2, <2>4, <2>5
  <1>4. \/ /\ OnMember(m) /\ copy' = [copy EXCEPT ![m].ours = TRUE]
           /\ Hold("confirm", copy[m].uid)
        \/ \E u \in FreshUid(m) :
             /\ copy' = [copy EXCEPT ![m] = [NoCopy EXCEPT !.uid = u, !.ours = TRUE]]
             /\ Hold("confirm", u)
    BY DEF Apply
  <1> QED
    BY <1>2, <1>3, <1>4

LEMMA LabelledTargetNext ==
  ASSUME TypeOK, LabelledTarget, [Next]_vars
  PROVE  LabelledTarget'
  <1> USE CurrentTypes DEF LabelledTarget, hubVars, envVars, budgets
  <1>1. CASE AddFinalizer \/ BeginConverge \/ BeginFinalize
    BY <1>1, BeginFields DEF AddFinalizer, BeginConverge, BeginFinalize
  <1>2. ASSUME NEW m \in Members, UnplaceBlocked(m) \/ UnplaceOrphan(m)
        PROVE  LabelledTarget'
    BY <1>2, UnplacedFields, EndPassFields DEF UnplaceBlocked, UnplaceOrphan
  <1>3. ASSUME NEW m \in Members, UnplaceStart(m) PROVE LabelledTarget'
    BY <1>3, TakeUpFields, Contents, EndPassFields DEF UnplaceStart
  <1>4. ASSUME NEW m \in Members, EnsureRecord(m) PROVE LabelledTarget'
    BY <1>4, TakeUpFields, Contents, EndPassFields DEF EnsureRecord, Turn
  <1>5. CASE UnplaceGet
    <2>1. UNCHANGED <<copy, settle>>
      BY <1>5 DEF UnplaceGet
    <2>2. CASE Hold("drop", 0) \/ Unplaced(fleet.m, TRUE)
      <3>1. fleet'.pc # "delete"
        BY <2>2, HoldFields, UnplacedFields
      <3> QED
        BY <2>1, <3>1
    <2>3. CASE Verdict(fleet.m, fleet.recs[fleet.m].uid) = "delete" /\ Hold("delete", copy[fleet.m].uid)
      <3>1. copy[fleet.m].uid # 0 /\ copy[fleet.m].ours
        BY <2>3 DEF Verdict
      <3>2. fleet'.m = fleet.m /\ fleet'.seen = copy[fleet.m].uid
        BY <2>3, HoldFields
      <3> QED
        BY <2>1, <3>1, <3>2
    <2> QED
      BY <1>5, <2>2, <2>3 DEF UnplaceGet
  <1>6. CASE UnplaceDelete
    <2>1. \A n \in Members : CopyMove(n)
      BY <1>6, DeleteCopyMoves DEF UnplaceDelete
    <2>2. fleet'.pc # "delete" /\ settle' = settle
      BY <1>6, HoldFields, UnplacedFields DEF UnplaceDelete
    <2> QED
      BY <2>1, <2>2 DEF CopyMove
  <1>7. CASE UnplaceDrop
    BY <1>7, ProceedFields, Contents, EndPassFields DEF UnplaceDrop
  <1>8. CASE UnplaceForget
    BY <1>8, UnplacedFields DEF UnplaceForget
  <1>9. CASE ApplySkipped \/ (\E m \in Members : HeldBack(m)) \/ ConfirmApplied
    BY <1>9, PlaceDoneFields, EndPassFields DEF ApplySkipped, HeldBack, ConfirmApplied
  <1>10. CASE Apply
    <2>1. fleet'.pc # "delete" /\ settle' = settle
      BY <1>10, HoldFields, FreshUidFact DEF Apply
    <2>2. \A n \in Members : copy'[n].ours \/ copy'[n] = copy[n]
      BY <1>10, ApplyEffect
    <2> QED
      BY <2>1, <2>2
  <1>11. CASE FinishPass \/ RenderFails \/ FleetFault
    BY <1>11, EndPassFields, PlaceDoneFields DEF FinishPass, RenderFails, FleetFault
  <1>12. ASSUME NEW m \in Members, SettleOrphan(m) \/ SettleStart(m)
         PROVE  LabelledTarget'
    BY <1>12, SettleAtFields, Contents DEF SettleOrphan, SettleStart
  <1>13. CASE SettleGet
    BY <1>13, SettleAtFields, SettleEndFields DEF SettleGet, Verdict
  <1>14. CASE SettleDelete
    <2>1. \A n \in Members : CopyMove(n)
      BY <1>14, DeleteCopyMoves DEF SettleDelete
    <2>2. settle'.pc # "delete" /\ fleet' = fleet
      BY <1>14, SettleAtFields, SettleEndFields DEF SettleDelete
    <2> QED
      BY <2>1, <2>2 DEF CopyMove
  <1>15. CASE SettleDrop \/ SettleForget \/ SettleFault
    BY <1>15, SettleAtFields, SettleEndFields, Contents
    DEF SettleDrop, SettleForget, SettleFault
  <1>16. ASSUME NEW m \in Members, Vanish(m) \/ MemberDelete(m) \/ MemberCreate(m)
         PROVE  LabelledTarget'
    <2>1. \A n \in Members : CopyMove(n)
      BY <1>16, VanishMoves, MemberDeleteMoves, MemberCreateMoves
    <2>2. fleet' = fleet /\ settle' = settle
      BY <1>16 DEF Vanish, MemberDelete, MemberCreate, Disturb
    <2> QED
      BY <2>1, <2>2 DEF CopyMove
  <1>17. CASE UNCHANGED <<copy, fleet, settle>>
    BY <1>17
  <1>18. ASSUME NEW m \in Members,
                \/ SyncRecord(m) \/ Engage(m) \/ Disengage(m)
                \/ ChangeProfile(m) \/ ChangeGate(m)
         PROVE  LabelledTarget'
    BY <1>17, <1>18 DEF SyncRecord, Engage, Disengage, ChangeProfile, ChangeGate, Disturb
  <1>19. CASE SyncInstance \/ CreateInstance \/ DeleteInstance \/ ChangeDecision
    BY <1>17, <1>19 DEF SyncInstance, CreateInstance, DeleteInstance, ChangeDecision, Disturb
  <1> QED
    BY <1>1, <1>2, <1>3, <1>4, <1>5, <1>6, <1>7, <1>8, <1>9, <1>10, <1>11, <1>12,
       <1>13, <1>14, <1>15, <1>16, <1>17, <1>18, <1>19
    DEF Next, FleetStep, SettleStep, SettleContinue, Environment, vars

\* Only UnplaceDelete and SettleDelete start a deletion, of the UID they saw.
LEMMA DeletesLabelledStep ==
  ASSUME TypeOK, LabelledTarget, Next, ControllerStep,
         NEW m \in Members, copy'[m].dying, ~copy[m].dying
  PROVE  copy[m].ours
  <1> USE CurrentTypes DEF hubVars, envVars, budgets
  <1>1. CASE UnplaceDelete
    BY <1>1 DEF UnplaceDelete, DeleteCopy, LabelledTarget, TypeOK, Copies
  <1>2. CASE SettleDelete
    BY <1>2 DEF SettleDelete, DeleteCopy, LabelledTarget, TypeOK, Copies
  <1>3. CASE Apply
    BY <1>3, ApplyEffect
  <1>4. CASE UNCHANGED copy
    BY <1>4
  <1>5. FleetStep /\ ~UnplaceDelete /\ ~Apply => UNCHANGED copy
    BY DEF FleetStep, AddFinalizer, BeginConverge, BeginFinalize, UnplaceBlocked,
       UnplaceOrphan, UnplaceStart, EnsureRecord, Turn, UnplaceGet, UnplaceDrop,
       UnplaceForget, ApplySkipped, HeldBack, ConfirmApplied, FinishPass, RenderFails
  <1>6. SettleStep /\ ~SettleDelete => UNCHANGED copy
    BY DEF SettleStep, SettleContinue, SettleOrphan, SettleStart, SettleGet, SettleDrop,
       SettleForget
  <1>7. FleetFault \/ SettleFault => UNCHANGED copy
    BY DEF FleetFault, SettleFault
  <1>8. Environment => ~ControllerStep
    BY DEF Environment, ControllerStep, SyncInstance, CreateInstance, DeleteInstance,
       ChangeDecision, SyncRecord, Engage, Disengage, Vanish, ChangeProfile, ChangeGate,
       MemberDelete, MemberCreate, Disturb
  <1> QED
    BY <1>1, <1>2, <1>3, <1>4, <1>5, <1>6, <1>7, <1>8 DEF Next

\* deleteManifests: between the read and the delete anything may happen on the
\* member, and still only labelled objects are deleted (DeletesOnlyLabelled).
THEOREM DeletesLabelled == Spec => DeletesOnlyLabelled
  <1>1. Init => LabelledTarget
    BY DEF Init, LabelledTarget, FleetIdle, SettleIdle
  <1>2. TypeOK /\ LabelledTarget /\ [Next]_vars => LabelledTarget'
    BY LabelledTargetNext
  <1>3. TypeOK /\ LabelledTarget /\ [Next]_vars =>
          [ControllerStep => \A m \in Members :
             copy'[m].dying /\ ~copy[m].dying => copy[m].ours]_vars
    BY DeletesLabelledStep
  <1> QED
    BY <1>1, <1>2, <1>3, TypeCorrect, PTL DEF Spec, DeletesOnlyLabelled

-----------------------------------------------------------------------------
(* The phases of an instance that lives once.                               *)

\* What a refused or accepted update does to the records.
LEMMA StoredEffect ==
  ASSUME TypeOK, NEW m \in Members, NEW h, NEW r \in Records, Stored(m, h, r)
  PROVE  /\ \A n \in Members \ {m} : rec'[n] = rec[n]
         /\ rec'[m] = r /\ Present(rec[m]) /\ rec[m].rv = h.rv
  BY DEF TypeOK, Stored

LEMMA ForgottenEffect ==
  ASSUME TypeOK, NEW m \in Members, rec' = [rec EXCEPT ![m] = NoRecord]
  PROVE  /\ \A n \in Members \ {m} : rec'[n] = rec[n]
         /\ ~Present(rec'[m]) /\ rec'[m].uid = 0 /\ rec'[m] = NoRecord
  BY DEF TypeOK, NoRecord, Present

LEMMA CreatedEffect ==
  ASSUME TypeOK, NEW m \in Members, NEW v,
         rec' = [rec EXCEPT ![m] = Blank(v)]
  PROVE  /\ \A n \in Members \ {m} : rec'[n] = rec[n]
         /\ rec'[m] = Blank(v) /\ rec'[m].uid = 0 /\ rec'[m].rv = v
  BY DEF TypeOK, NoRecord, Blank

\* An update never creates a record.
LEMMA NoneCreated ==
  ASSUME TypeOK, NEW m \in Members, NEW h \in Records,
         rec' = rec \/ \E r \in Records : Stored(m, h, r)
  PROVE  \A n \in Members : Present(rec'[n]) => Present(rec[n])
  BY StoredEffect

LEMMA PhasesInit == Init => Phases
  BY DEF Init, Phases, FleetIdle, SettleIdle, NoRecord, Present

LEMMA PhasesFleet ==
  ASSUME TypeOK, Phases, FleetStep \/ FleetFault
  PROVE  Phases'
  <1> USE CurrentTypes DEF Phases, hubVars, envVars, budgets
  <1>1. CASE AddFinalizer
    BY <1>1, BeginFields DEF AddFinalizer, TypeOK, Instances
  <1>2. CASE BeginConverge \/ BeginFinalize
    BY <1>2, BeginFields DEF BeginConverge, BeginFinalize
  <1>3. ASSUME NEW m \in Members, UnplaceBlocked(m) PROVE Phases'
    BY <1>3, UnplacedFields DEF UnplaceBlocked
  <1>4. ASSUME NEW m \in Members, UnplaceOrphan(m) PROVE Phases'
    <2>1. \A n \in Members : Present(rec'[n]) => Present(rec[n])
      <3>1. rec' = rec \/ \E v \in FreshVersion(m) :
              Stored(m, fleet.recs[m], Marked(fleet.recs[m], "yes", v))
        BY <1>4 DEF UnplaceOrphan
      <3>2. \A v \in FreshVersion(m) : Marked(fleet.recs[m], "yes", v) \in Records
        BY Contents
      <3> QED
        BY <3>1, <3>2, NoneCreated
    <2> QED
      BY <1>4, <2>1, UnplacedFields, EndPassFields DEF UnplaceOrphan
  <1>5. ASSUME NEW m \in Members, UnplaceStart(m) PROVE Phases'
    <2>1. \A n \in Members : Present(rec'[n]) => Present(rec[n])
      <3>1. rec' = rec \/ \E v \in FreshVersion(m) :
              Stored(m, fleet.recs[m], Marked(fleet.recs[m], "no", v))
        BY <1>5 DEF UnplaceStart
      <3>2. \A v \in FreshVersion(m) : Marked(fleet.recs[m], "no", v) \in Records
        BY Contents
      <3> QED
        BY <3>1, <3>2, NoneCreated
    <2>2. \/ fleet'.pc = "get" /\ fleet'.life = fleet.life /\ fleet'.put = fleet.put
          \/ fleet'.pc = "idle" /\ fleet'.life = 0 /\ fleet'.put = {}
      BY <1>5, TakeUpFields, Contents, EndPassFields DEF UnplaceStart
    <2> QED
      BY <1>5, <2>1, <2>2 DEF UnplaceStart
  <1>6. ASSUME NEW m \in Members, EnsureRecord(m) PROVE Phases'
    <2>1. fleet.life = 0 /\ cinst.st # "none" /\ inst.st \in {"live", "deleting"}
      BY <1>6 DEF EnsureRecord, Turn
    <2>2. \/ fleet'.pc = "apply" /\ fleet'.life = fleet.life /\ fleet'.put = fleet.put
          \/ fleet'.pc = "idle" /\ fleet'.life = 0 /\ fleet'.put = {}
      BY <1>6, TakeUpFields, Contents, EndPassFields DEF EnsureRecord, Turn
    <2> QED
      BY <1>6, <2>1, <2>2 DEF EnsureRecord, Turn
  <1>7. CASE UnplaceGet
    BY <1>7, HoldFields, UnplacedFields DEF UnplaceGet
  <1>8. CASE UnplaceDelete
    BY <1>8, HoldFields, UnplacedFields DEF UnplaceDelete
  <1>9. CASE UnplaceDrop
    <2>1. \A n \in Members : Present(rec'[n]) => Present(rec[n])
      <3>1. rec' = rec \/ \E v \in FreshVersion(fleet.m) :
              Stored(fleet.m, fleet.recs[fleet.m], Bound(fleet.recs[fleet.m], 0, v))
        BY <1>9 DEF UnplaceDrop
      <3>2. \A v \in FreshVersion(fleet.m) : Bound(fleet.recs[fleet.m], 0, v) \in Records
        BY Contents
      <3> QED
        BY <3>1, <3>2, NoneCreated
    <2> QED
      BY <1>9, <2>1, ProceedFields, Contents, EndPassFields DEF UnplaceDrop
  <1>10. CASE UnplaceForget
    BY <1>10, UnplacedFields, ForgottenEffect DEF UnplaceForget
  <1>11. CASE ApplySkipped \/ (\E m \in Members : HeldBack(m))
    BY <1>11, PlaceDoneFields DEF ApplySkipped, HeldBack, Turn
  <1>12. CASE Apply
    BY <1>12, HoldFields, FreshUidFact DEF Apply
  <1>13. CASE ConfirmApplied
    <2>1. \A n \in Members : Present(rec'[n]) => Present(rec[n])
      <3>1. rec' = rec \/ \E v \in FreshVersion(fleet.m) :
              Stored(fleet.m, fleet.recs[fleet.m], Bound(fleet.recs[fleet.m], fleet.seen, v))
        BY <1>13 DEF ConfirmApplied
      <3>2. \A v \in FreshVersion(fleet.m) : Bound(fleet.recs[fleet.m], fleet.seen, v) \in Records
        BY Contents
      <3> QED
        BY <3>1, <3>2, NoneCreated
    <2> QED
      BY <1>13, <2>1, PlaceDoneFields, EndPassFields DEF ConfirmApplied
  <1>14. CASE FinishPass
    <2>1. \/ inst' = inst
          \/ /\ fleet.life # 0 /\ inst.st = "deleting" /\ inst'.st = "gone"
             /\ inst'.life = inst.life
      BY <1>14 DEF FinishPass, Finalizing, TypeOK, Instances
    <2> QED
      BY <1>14, <2>1, EndPassFields DEF FinishPass
  <1>15. CASE RenderFails \/ FleetFault
    BY <1>15, EndPassFields, PlaceDoneFields DEF RenderFails, FleetFault
  <1> QED
    BY <1>1, <1>2, <1>3, <1>4, <1>5, <1>6, <1>7, <1>8, <1>9, <1>10, <1>11, <1>12,
       <1>13, <1>14, <1>15 DEF FleetStep

LEMMA PhasesSettle ==
  ASSUME TypeOK, Phases, SettleStep \/ SettleFault
  PROVE  Phases'
  <1> USE CurrentTypes DEF Phases, hubVars, envVars, budgets
  <1>1. ASSUME NEW m \in Members, SettleOrphan(m) PROVE Phases'
    <2>1. \A n \in Members : Present(rec'[n]) => Present(rec[n])
      <3>1. rec' = rec \/ \E v \in FreshVersion(m) :
              Stored(m, crec[m], Marked(crec[m], "yes", v))
        BY <1>1 DEF SettleOrphan
      <3>2. \A v \in FreshVersion(m) : Marked(crec[m], "yes", v) \in Records
        BY Contents
      <3> QED
        BY <3>1, <3>2, NoneCreated
    <2> QED
      BY <1>1, <2>1 DEF SettleOrphan
  <1>2. ASSUME NEW m \in Members, SettleStart(m) PROVE Phases'
    <2>1. \A n \in Members : Present(rec'[n]) => Present(rec[n])
      <3>1. rec' = rec \/ \E v \in FreshVersion(m) :
              Stored(m, crec[m], Marked(crec[m], "no", v))
        BY <1>2 DEF SettleStart
      <3>2. \A v \in FreshVersion(m) : Marked(crec[m], "no", v) \in Records
        BY Contents
      <3> QED
        BY <3>1, <3>2, NoneCreated
    <2>2. inst.st = "gone"
      BY <1>2 DEF SettleStart, Unowned
    <2> QED
      BY <1>2, <2>1, <2>2 DEF SettleStart
  <1>3. CASE SettleGet
    BY <1>3, SettleAtFields, SettleEndFields DEF SettleGet
  <1>4. CASE SettleDelete
    BY <1>4, SettleAtFields, SettleEndFields DEF SettleDelete
  <1>5. CASE SettleDrop
    <2>1. \A n \in Members : Present(rec'[n]) => Present(rec[n])
      <3>1. rec' = rec \/ \E v \in FreshVersion(settle.m) :
              Stored(settle.m, settle.rec, Bound(settle.rec, 0, v))
        BY <1>5 DEF SettleDrop
      <3>2. \A v \in FreshVersion(settle.m) : Bound(settle.rec, 0, v) \in Records
        BY Contents
      <3> QED
        BY <3>1, <3>2, NoneCreated
    <2> QED
      BY <1>5, <2>1 DEF SettleDrop
  <1>6. CASE SettleForget
    BY <1>6, ForgottenEffect DEF SettleForget
  <1>7. CASE SettleFault
    BY <1>7, SettleEndFields DEF SettleFault
  <1> QED
    BY <1>1, <1>2, <1>3, <1>4, <1>5, <1>6, <1>7 DEF SettleStep, SettleContinue

LEMMA PhasesEnvironment ==
  ASSUME MaxLives = 1, TypeOK, Phases, Environment
  PROVE  Phases'
  <1> USE CurrentTypes DEF Phases, hubVars, envVars, budgets
  <1>1. CASE SyncInstance
    BY <1>1 DEF SyncInstance, TypeOK, Instances
  <1>2. CASE CreateInstance
    BY <1>2 DEF CreateInstance, TypeOK, Instances
  <1>3. CASE DeleteInstance
    BY <1>3 DEF DeleteInstance, TypeOK, Instances
  <1>4. ASSUME NEW m \in Members, SyncRecord(m) PROVE Phases'
    BY <1>4 DEF SyncRecord, TypeOK
  <1>5. CASE UNCHANGED <<hubVars, fleet, settle>>
    BY <1>5
  <1>6. CASE ChangeDecision
    BY <1>5, <1>6 DEF ChangeDecision, Disturb
  <1>7. ASSUME NEW m \in Members,
               \/ Engage(m) \/ Disengage(m) \/ Vanish(m) \/ ChangeProfile(m)
               \/ ChangeGate(m) \/ MemberDelete(m) \/ MemberCreate(m)
        PROVE  Phases'
    BY <1>5, <1>7 DEF Engage, Disengage, Vanish, ChangeProfile, ChangeGate, MemberDelete,
       MemberCreate, Disturb
  <1> QED
    BY <1>1, <1>2, <1>3, <1>4, <1>6, <1>7 DEF Environment

-----------------------------------------------------------------------------
(* Optimistic concurrency: a held version is current only if its content is. *)

LEMMA CoherentInit == Init => Coherent
  BY DEF Init, Coherent, NoRecord, Present

\* What a write of a fresh version leaves coherent, whoever holds what.
LEMMA WriteCoherent ==
  ASSUME TypeOK, Coherent, NEW m \in Members, NEW v \in FreshVersion(m),
         NEW r \in Records, r.rv = v,
         rec'[m] = r, \A n \in Members \ {m} : rec'[n] = rec[n],
         crec' = crec,
         \A n \in Members : \/ fleet'.recs[n] = fleet.recs[n] \/ fleet'.recs[n] = NoRecord
                            \/ n = m /\ fleet'.recs[n] = r,
         \/ settle' = settle
         \/ settle'.rec = NoRecord
         \/ settle'.m = m /\ settle'.rec = r
  PROVE  Coherent'
  BY FreshVersionFact DEF Coherent, Present, NoRecord

\* Nothing is written: the passes keep, drop or take up what is coherent.
LEMMA ReadCoherent ==
  ASSUME TypeOK, Coherent, rec' = rec,
         \A n \in Members : crec'[n] = crec[n] \/ crec'[n] = rec[n],
         \A n \in Members : \/ fleet'.recs[n] = fleet.recs[n] \/ fleet'.recs[n] = crec[n]
                            \/ fleet'.recs[n] = NoRecord,
         \/ settle'.rec = NoRecord
         \/ settle'.m = settle.m /\ settle'.rec = settle.rec
         \/ settle'.rec = crec[settle'.m]
  PROVE  Coherent'
  BY CurrentTypes DEF Coherent, Present, NoRecord

LEMMA ForgetCoherent ==
  ASSUME TypeOK, Coherent, NEW m \in Members, rec' = [rec EXCEPT ![m] = NoRecord],
         crec' = crec,
         \A n \in Members : fleet'.recs[n] = fleet.recs[n] \/ fleet'.recs[n] = NoRecord,
         settle' = settle \/ settle'.rec = NoRecord
  PROVE  Coherent'
  BY ForgottenEffect DEF Coherent, Present, NoRecord

LEMMA CoherentFleet ==
  ASSUME TypeOK, Coherent, FleetStep \/ FleetFault
  PROVE  Coherent'
  <1> USE CurrentTypes DEF hubVars, envVars, budgets
  <1>1. CASE AddFinalizer \/ BeginConverge \/ BeginFinalize
    BY <1>1, BeginFields, ReadCoherent DEF AddFinalizer, BeginConverge, BeginFinalize
  <1>2. ASSUME NEW m \in Members, UnplaceBlocked(m) PROVE Coherent'
    BY <1>2, UnplacedFields, ReadCoherent DEF UnplaceBlocked
  <1>3. ASSUME NEW m \in Members, UnplaceOrphan(m) PROVE Coherent'
    <2>1. CASE UNCHANGED rec
      BY <1>3, <2>1, UnplacedFields, EndPassFields, ReadCoherent DEF UnplaceOrphan
    <2>2. ASSUME NEW v \in FreshVersion(m), NEW r \in Records, r.rv = v,
                 Stored(m, fleet.recs[m], r), Unplaced(m, FALSE)
          PROVE  Coherent'
      <3>2. \A n \in Members : fleet'.recs[n] = fleet.recs[n] \/ fleet'.recs[n] = NoRecord
        BY <2>2, UnplacedFields
      <3>3. crec' = crec /\ settle' = settle
        BY <1>3 DEF UnplaceOrphan
      <3>4. rec'[m] = r /\ \A n \in Members \ {m} : rec'[n] = rec[n]
        BY <2>2, StoredEffect
      <3> QED
        BY <2>2, <3>2, <3>3, <3>4, WriteCoherent
    <2>3. \A v \in FreshVersion(m) :
            LET r == Marked(fleet.recs[m], "yes", v)
            IN  r \in Records /\ r.rv = v
      BY Contents
    <2> QED
      BY <1>3, <2>1, <2>2, <2>3 DEF UnplaceOrphan
  <1>4. ASSUME NEW m \in Members, UnplaceStart(m) PROVE Coherent'
    <2>1. CASE UNCHANGED rec /\ (TakeUp("get", m, fleet.recs[m]) \/ EndPass)
      <3>1. \A n \in Members : fleet'.recs[n] = fleet.recs[n] \/ fleet'.recs[n] = NoRecord
        BY <2>1, TakeUpFields, EndPassFields
      <3> QED
        BY <1>4, <2>1, <3>1, ReadCoherent DEF UnplaceStart
    <2>2. ASSUME NEW v \in FreshVersion(m), NEW r \in Records, r.rv = v,
                 Stored(m, fleet.recs[m], r), TakeUp("get", m, r)
          PROVE  Coherent'
      <3>2. \A n \in Members : \/ fleet'.recs[n] = fleet.recs[n] \/ fleet'.recs[n] = NoRecord
                               \/ n = m /\ fleet'.recs[n] = r
        BY <2>2, TakeUpFields
      <3>3. crec' = crec /\ settle' = settle
        BY <1>4 DEF UnplaceStart
      <3>4. rec'[m] = r /\ \A n \in Members \ {m} : rec'[n] = rec[n]
        BY <2>2, StoredEffect
      <3> QED
        BY <2>2, <3>2, <3>3, <3>4, WriteCoherent
    <2>3. \A v \in FreshVersion(m) :
            LET r == Marked(fleet.recs[m], "no", v)
            IN  r \in Records /\ r.rv = v
      BY Contents
    <2> QED
      BY <1>4, <2>1, <2>2, <2>3 DEF UnplaceStart
  <1>5. ASSUME NEW m \in Members, EnsureRecord(m) PROVE Coherent'
    <2>1. CASE UNCHANGED rec
      <3>1. \/ TakeUp("apply", m, fleet.recs[m]) \/ TakeUp("apply", m, crec[m])
            \/ EndPass
        <4>1. ASSUME NEW v \in FreshVersion(m), rec' = [rec EXCEPT ![m] = Blank(v)]
              PROVE  Present(rec[m])
          <5>1. v # 0 /\ rec'[m].rv = v
            BY <4>1, CreatedEffect, FreshVersionFact
          <5> QED
            BY <2>1, <5>1 DEF Present
        <4> QED
          BY <1>5, <4>1 DEF EnsureRecord, Turn
      <3>2. \A n \in Members : \/ fleet'.recs[n] = fleet.recs[n] \/ fleet'.recs[n] = crec[n]
                              \/ fleet'.recs[n] = NoRecord
        BY <3>1, TakeUpFields, EndPassFields
      <3> QED
        BY <1>5, <2>1, <3>2, ReadCoherent DEF EnsureRecord, Turn
    <2>2. ASSUME NEW v \in FreshVersion(m), NEW r \in Records, r.rv = v,
                 rec' = [rec EXCEPT ![m] = r], TakeUp("apply", m, r)
          PROVE  Coherent'
      <3>2. rec'[m] = r /\ \A n \in Members \ {m} : rec'[n] = rec[n]
        BY <2>2 DEF TypeOK
      <3>3. \A n \in Members : \/ fleet'.recs[n] = fleet.recs[n] \/ fleet'.recs[n] = NoRecord
                               \/ n = m /\ fleet'.recs[n] = r
        BY <2>2, TakeUpFields
      <3>4. crec' = crec /\ settle' = settle
        BY <1>5 DEF EnsureRecord, Turn
      <3> QED
        BY <2>2, <3>2, <3>3, <3>4, WriteCoherent
    <2>3. \A v \in FreshVersion(m) :
            LET r == Blank(v)
            IN  r \in Records /\ r.rv = v
      BY Contents
    <2> QED
      BY <1>5, <2>1, <2>2, <2>3 DEF EnsureRecord, Turn
  <1>6. CASE UnplaceGet
    BY <1>6, HoldFields, UnplacedFields, ReadCoherent DEF UnplaceGet
  <1>7. CASE UnplaceDelete
    BY <1>7, HoldFields, UnplacedFields, ReadCoherent DEF UnplaceDelete
  <1>8. CASE UnplaceDrop
    <2>1. CASE UNCHANGED rec /\ (Proceed("forget", fleet.recs[fleet.m]) \/ EndPass)
      <3>1. \A n \in Members : fleet'.recs[n] = fleet.recs[n] \/ fleet'.recs[n] = NoRecord
        BY <2>1, ProceedFields, EndPassFields
      <3> QED
        BY <1>8, <2>1, <3>1, ReadCoherent DEF UnplaceDrop
    <2>2. ASSUME NEW v \in FreshVersion(fleet.m), NEW r \in Records, r.rv = v,
                 Stored(fleet.m, fleet.recs[fleet.m], r), Proceed("forget", r)
          PROVE  Coherent'
      <3>2. \A n \in Members : \/ fleet'.recs[n] = fleet.recs[n] \/ fleet'.recs[n] = NoRecord
                               \/ n = fleet.m /\ fleet'.recs[n] = r
        BY <2>2, ProceedFields
      <3>3. crec' = crec /\ settle' = settle
        BY <1>8 DEF UnplaceDrop
      <3>4. rec'[fleet.m] = r /\ \A n \in Members \ {fleet.m} : rec'[n] = rec[n]
        BY <2>2, StoredEffect
      <3> QED
        BY <2>2, <3>2, <3>3, <3>4, WriteCoherent
    <2>3. \A v \in FreshVersion(fleet.m) :
            LET r == Bound(fleet.recs[fleet.m], 0, v)
            IN  r \in Records /\ r.rv = v
      <3>1. fleet.m \in Members /\ fleet.recs[fleet.m] \in Records
        BY CurrentTypes
      <3> QED
        BY <3>1, Contents
    <2> QED
      BY <1>8, <2>1, <2>2, <2>3 DEF UnplaceDrop
  <1>9. CASE UnplaceForget
    BY <1>9, UnplacedFields, ForgetCoherent DEF UnplaceForget
  <1>10. CASE ApplySkipped \/ (\E m \in Members : HeldBack(m))
    BY <1>10, PlaceDoneFields, ReadCoherent DEF ApplySkipped, HeldBack
  <1>11. CASE Apply
    BY <1>11, HoldFields, FreshUidFact, ReadCoherent DEF Apply
  <1>12. CASE ConfirmApplied
    <2>1. CASE UNCHANGED rec
      BY <1>12, <2>1, PlaceDoneFields, EndPassFields, ReadCoherent DEF ConfirmApplied
    <2>2. ASSUME NEW v \in FreshVersion(fleet.m), NEW r \in Records, r.rv = v,
                 Stored(fleet.m, fleet.recs[fleet.m], r), PlaceDone(fleet.m)
          PROVE  Coherent'
      <3>2. \A n \in Members : \/ fleet'.recs[n] = fleet.recs[n] \/ fleet'.recs[n] = NoRecord
                               \/ n = fleet.m /\ fleet'.recs[n] = r
        BY <2>2, PlaceDoneFields
      <3>3. crec' = crec /\ settle' = settle
        BY <1>12 DEF ConfirmApplied
      <3>4. rec'[fleet.m] = r /\ \A n \in Members \ {fleet.m} : rec'[n] = rec[n]
        BY <2>2, StoredEffect
      <3> QED
        BY <2>2, <3>2, <3>3, <3>4, WriteCoherent
    <2>3. \A v \in FreshVersion(fleet.m) :
            LET r == Bound(fleet.recs[fleet.m], fleet.seen, v)
            IN  r \in Records /\ r.rv = v
      <3>1. fleet.m \in Members /\ fleet.recs[fleet.m] \in Records
            /\ fleet.seen \in Uids \cup {0}
        BY CurrentTypes
      <3>2. ASSUME NEW v \in FreshVersion(fleet.m)
            PROVE  /\ Bound(fleet.recs[fleet.m], fleet.seen, v) \in Records
                   /\ Bound(fleet.recs[fleet.m], fleet.seen, v).rv = v
        <4>1. \A h \in Records, u \in Uids \cup {0} :
                 Bound(h, u, v) \in Records /\ Bound(h, u, v).rv = v
          BY <3>1, Contents
        <4> QED
          BY <3>1, <4>1
      <3> QED
        BY <3>2
    <2>4. CASE PlaceDone(fleet.m) /\ \E v \in FreshVersion(fleet.m) :
                 Stored(fleet.m, fleet.recs[fleet.m],
                        Bound(fleet.recs[fleet.m], fleet.seen, v))
      BY <2>2, <2>3, <2>4
    <2> QED
      BY <1>12, <2>1, <2>4 DEF ConfirmApplied
  <1>13. CASE FinishPass \/ RenderFails \/ FleetFault
    BY <1>13, EndPassFields, PlaceDoneFields, ReadCoherent DEF FinishPass, RenderFails, FleetFault
  <1> QED
    BY <1>1, <1>2, <1>3, <1>4, <1>5, <1>6, <1>7, <1>8, <1>9, <1>10, <1>11, <1>12, <1>13
    DEF FleetStep

LEMMA CoherentSettle ==
  ASSUME TypeOK, Coherent, SettleStep \/ SettleFault
  PROVE  Coherent'
  <1> USE CurrentTypes DEF hubVars, envVars, budgets
  <1>1. ASSUME NEW m \in Members, NEW v \in FreshVersion(m), NEW r \in Records, r.rv = v,
               Stored(m, crec[m], r), UNCHANGED <<crec, fleet>>,
               settle' = settle \/ SettleAt("get", m, 0, r)
        PROVE  Coherent'
    <2>1. settle' = settle \/ (settle'.m = m /\ settle'.rec = r)
      BY <1>1, SettleAtFields
    <2>2. rec'[m] = r /\ \A n \in Members \ {m} : rec'[n] = rec[n]
      BY <1>1, StoredEffect
    <2> QED
      BY <1>1, <2>1, <2>2, WriteCoherent
  <1>2. \A m \in Members : \A v \in FreshVersion(m) :
          LET y == Marked(crec[m], "yes", v)
              n == Marked(crec[m], "no", v)
          IN  y \in Records /\ y.rv = v /\ n \in Records /\ n.rv = v
    BY CurrentTypes, Contents
  <1>3. ASSUME NEW m \in Members, SettleOrphan(m) PROVE Coherent'
    BY <1>1, <1>2, <1>3 DEF SettleOrphan
  <1>4. ASSUME NEW m \in Members, SettleStart(m) PROVE Coherent'
    <2>1. CASE UNCHANGED rec /\ SettleAt("get", m, 0, crec[m])
      BY <1>4, <2>1, SettleAtFields, ReadCoherent DEF SettleStart
    <2> QED
      BY <1>1, <1>2, <1>4, <2>1 DEF SettleStart
  <1>5. CASE SettleGet
    <2>1. settle'.rec = NoRecord \/ (settle'.m = settle.m /\ settle'.rec = settle.rec)
      <3>1. \/ SettleAt("drop", settle.m, 0, settle.rec) \/ SettleEnd
            \/ SettleAt("delete", settle.m, copy[settle.m].uid, settle.rec)
        BY <1>5 DEF SettleGet
      <3>2. CASE SettleAt("drop", settle.m, 0, settle.rec)
        BY <3>2, SettleAtFields
      <3>3. ASSUME NEW u \in Uids \cup {0}, SettleAt("delete", settle.m, u, settle.rec)
            PROVE  settle'.m = settle.m /\ settle'.rec = settle.rec
        BY <3>3, SettleAtFields
      <3>4. copy[settle.m].uid \in Uids \cup {0}
        OBVIOUS
      <3> QED
        BY <3>1, <3>2, <3>3, <3>4, SettleEndFields
    <2> QED
      BY <1>5, <2>1, ReadCoherent DEF SettleGet
  <1>6. CASE SettleDelete
    <2>1. settle'.rec = NoRecord \/ (settle'.m = settle.m /\ settle'.rec = settle.rec)
      BY <1>6, SettleAtFields, SettleEndFields DEF SettleDelete
    <2> QED
      BY <1>6, <2>1, ReadCoherent DEF SettleDelete
  <1>7. CASE SettleDrop
    <2>1. CASE /\ UNCHANGED rec
               /\ SettleAt("forget", settle.m, 0, settle.rec) \/ SettleEnd
      BY <1>7, <2>1, SettleAtFields, SettleEndFields, ReadCoherent DEF SettleDrop
    <2>2. ASSUME NEW v \in FreshVersion(settle.m), NEW r \in Records, r.rv = v,
                 Stored(settle.m, settle.rec, r), SettleAt("forget", settle.m, 0, r)
          PROVE  Coherent'
      <3>1. settle'.m = settle.m /\ settle'.rec = r
        BY <2>2, SettleAtFields
      <3>2. rec'[settle.m] = r /\ \A n \in Members \ {settle.m} : rec'[n] = rec[n]
        BY <2>2, StoredEffect
      <3>3. UNCHANGED <<crec, fleet>>
        BY <1>7 DEF SettleDrop
      <3> QED
        BY <2>2, <3>1, <3>2, <3>3, WriteCoherent
    <2>3. \A v \in FreshVersion(settle.m) :
            LET r == Bound(settle.rec, 0, v)
            IN  r \in Records /\ r.rv = v
      BY CurrentTypes, Contents
    <2> QED
      BY <1>7, <2>1, <2>2, <2>3 DEF SettleDrop
  <1>8. CASE SettleForget
    BY <1>8, SettleEndFields, ForgetCoherent DEF SettleForget
  <1>9. CASE SettleFault
    BY <1>9, SettleEndFields, ReadCoherent DEF SettleFault
  <1> QED
    BY <1>3, <1>4, <1>5, <1>6, <1>7, <1>8, <1>9 DEF SettleStep, SettleContinue

LEMMA CoherentEnvironment ==
  ASSUME TypeOK, Coherent, Environment
  PROVE  Coherent'
  <1> USE DEF hubVars, envVars, budgets
  <1>1. CASE UNCHANGED <<rec, crec, fleet, settle>>
    BY <1>1 DEF Coherent
  <1>2. ASSUME NEW m \in Members, SyncRecord(m) PROVE Coherent'
    <2>1. \A n \in Members : crec'[n] = crec[n] \/ crec'[n] = rec[n]
      BY <1>2 DEF SyncRecord, TypeOK
    <2> QED
      BY <1>2, <2>1, ReadCoherent DEF SyncRecord
  <1>3. ASSUME NEW m \in Members,
               \/ Engage(m) \/ Disengage(m) \/ Vanish(m) \/ ChangeProfile(m)
               \/ ChangeGate(m) \/ MemberDelete(m) \/ MemberCreate(m)
        PROVE  Coherent'
    BY <1>1, <1>3 DEF Engage, Disengage, Vanish, ChangeProfile, ChangeGate, MemberDelete,
       MemberCreate, Disturb
  <1>4. CASE SyncInstance \/ CreateInstance \/ DeleteInstance \/ ChangeDecision
    BY <1>1, <1>4 DEF SyncInstance, CreateInstance, DeleteInstance, ChangeDecision, Disturb
  <1> QED
    BY <1>2, <1>3, <1>4 DEF Environment

LEMMA CoherentNext ==
  ASSUME TypeOK, Coherent, [Next]_vars
  PROVE  Coherent'
  <1>1. CASE UNCHANGED vars
    BY <1>1 DEF vars, Coherent
  <1> QED
    BY <1>1, CoherentFleet, CoherentSettle, CoherentEnvironment DEF Next

-----------------------------------------------------------------------------
(* The UIDs anyone remembers are the UIDs of labelled objects.              *)

\* The UIDs somebody remembers for a member.
Known(n, u) ==
    \/ u = 0 \/ u = rec[n].uid \/ u = crec[n].uid \/ u = fleet.recs[n].uid
    \/ n = settle.m /\ u = settle.rec.uid
    \/ n = fleet.m /\ fleet.pc = "confirm" /\ u = fleet.seen

\* Everything remembered after a step was known before it, or is just applied.
Recalling ==
    /\ \A n \in Members : /\ CopyMove(n) \/ copy'[n].ours
                          /\ Known(n, rec'[n].uid) /\ Known(n, crec'[n].uid)
                          /\ Known(n, fleet'.recs[n].uid)
    /\ Known(settle'.m, settle'.rec.uid)
    /\ fleet'.pc = "confirm" =>
         Known(fleet'.m, fleet'.seen) \/ copy'[fleet'.m].ours

LEMMA RecallingKeeps ==
  ASSUME TypeOK, TypeOK', LabelledUids, Recalling
  PROVE  LabelledUids'
  <1>1. ASSUME NEW n \in Members, NEW u, Known(n, u) PROVE Labelled(n, u)
    BY <1>1 DEF Known, LabelledUids, Labelled
  <1>2. ASSUME NEW n \in Members, NEW u, Known(n, u), CopyMove(n) \/ copy'[n].ours
        PROVE  Labelled(n, u)'
    <2>1. Labelled(n, u)
      BY <1>1, <1>2
    <2> QED
      BY <1>2, <2>1 DEF Known, CopyMove, Labelled
  <1>3. fleet'.m \in Members /\ settle'.m \in Members
    BY DEF TypeOK, Passes, Settlements
  <1>4. \A n \in Members : /\ Labelled(n, rec[n].uid)' /\ Labelled(n, crec[n].uid)'
                           /\ Labelled(n, fleet.recs[n].uid)'
    BY <1>2 DEF Recalling, Labelled
  <1>5. Labelled(settle.m, settle.rec.uid)'
    BY <1>2, <1>3 DEF Recalling, Labelled
  <1>6. fleet'.pc = "confirm" => Labelled(fleet.m, fleet.seen)'
    BY <1>2, <1>3 DEF Recalling, Labelled
  <1> QED
    BY <1>4, <1>5, <1>6 DEF LabelledUids

\* The UIDs in the records after a step.
LEMMA StoredUids ==
  ASSUME TypeOK, NEW m \in Members, NEW h \in Records, NEW v \in FreshVersion(m)
  PROVE  /\ \A o \in {"yes", "no"} : Stored(m, h, Marked(h, o, v)) =>
              /\ rec'[m].uid = h.uid
              /\ \A n \in Members \ {m} : rec'[n] = rec[n]
         /\ \A u \in Uids \cup {0} : Stored(m, h, Bound(h, u, v)) =>
              /\ rec'[m].uid = u
              /\ \A n \in Members \ {m} : rec'[n] = rec[n]
  BY Contents, StoredEffect

\* A pass that is not confirming holds what it held, or less.
LEMMA HoldingRecalls ==
  ASSUME TypeOK, rec' = rec, crec' = crec, settle' = settle,
         \A n \in Members : CopyMove(n),
         fleet'.pc # "confirm",
         \A n \in Members : fleet'.recs[n] = fleet.recs[n] \/ fleet'.recs[n] = NoRecord
  PROVE  Recalling
  BY DEF Recalling, Known, NoRecord

\* Nothing changes on the members, so objects move trivially.
LEMMA CopyStays == ASSUME UNCHANGED copy PROVE \A n \in Members : CopyMove(n)
  BY DEF CopyMove

LEMMA RecallingFleet ==
  ASSUME TypeOK, LabelledUids, FleetStep \/ FleetFault
  PROVE  Recalling
  <1> USE CurrentTypes DEF hubVars, envVars, budgets
  <1>1. CASE AddFinalizer \/ BeginConverge \/ BeginFinalize
    BY <1>1, BeginFields, CopyStays
    DEF AddFinalizer, BeginConverge, BeginFinalize, Recalling, Known
  <1>2. ASSUME NEW m \in Members, UnplaceBlocked(m) PROVE Recalling
    BY <1>2, UnplacedFields, CopyStays, HoldingRecalls DEF UnplaceBlocked
  <1>3. ASSUME NEW m \in Members, UnplaceOrphan(m) PROVE Recalling
    <2>1. \A n \in Members : rec'[n].uid = rec[n].uid \/ rec'[n].uid = fleet.recs[n].uid
      <3>1. \/ UNCHANGED rec
            \/ \E v \in FreshVersion(m) :
                 Stored(m, fleet.recs[m], Marked(fleet.recs[m], "yes", v))
        BY <1>3 DEF UnplaceOrphan
      <3> QED
        BY <3>1, StoredUids
    <2>2. /\ fleet'.pc # "confirm"
          /\ \A n \in Members : fleet'.recs[n] = fleet.recs[n] \/ fleet'.recs[n] = NoRecord
      BY <1>3, UnplacedFields, EndPassFields DEF UnplaceOrphan
    <2>3. crec' = crec /\ settle' = settle /\ UNCHANGED copy
      BY <1>3 DEF UnplaceOrphan
    <2> QED
      BY <2>1, <2>2, <2>3, CopyStays DEF Recalling, Known, NoRecord
  <1>4. ASSUME NEW m \in Members, UnplaceStart(m) PROVE Recalling
    <2>1. \A n \in Members : rec'[n].uid = rec[n].uid \/ rec'[n].uid = fleet.recs[n].uid
      BY <1>4, StoredUids DEF UnplaceStart
    <2>2. /\ fleet'.pc # "confirm"
          /\ \A n \in Members : fleet'.recs[n].uid = fleet.recs[n].uid
                               \/ fleet'.recs[n] = NoRecord
      <3> QED
        BY <1>4, TakeUpFields, Contents, EndPassFields DEF UnplaceStart
    <2>3. crec' = crec /\ settle' = settle /\ UNCHANGED copy
      BY <1>4 DEF UnplaceStart
    <2> QED
      BY <2>1, <2>2, <2>3, CopyStays DEF Recalling, Known, NoRecord
  <1>5. ASSUME NEW m \in Members, EnsureRecord(m) PROVE Recalling
    <2>1. \A n \in Members : rec'[n].uid = rec[n].uid \/ rec'[n].uid = 0
      BY <1>5, CreatedEffect DEF EnsureRecord, Turn
    <2>2. /\ fleet'.pc # "confirm"
          /\ \A n \in Members : \/ fleet'.recs[n].uid = fleet.recs[n].uid
                               \/ fleet'.recs[n].uid = crec[n].uid
                               \/ fleet'.recs[n].uid = 0
      <3>1. \/ EndPass
            \/ TakeUp("apply", m, fleet.recs[m]) \/ TakeUp("apply", m, crec[m])
            \/ \E v \in FreshVersion(m) : TakeUp("apply", m, Blank(v))
        BY <1>5 DEF EnsureRecord, Turn
      <3> QED
        BY <3>1, TakeUpFields, Contents, EndPassFields DEF NoRecord
    <2>3. crec' = crec /\ settle' = settle /\ UNCHANGED copy
      BY <1>5 DEF EnsureRecord, Turn
    <2> QED
      BY <2>1, <2>2, <2>3, CopyStays DEF Recalling, Known, NoRecord
  <1>6. CASE UnplaceGet
    BY <1>6, HoldFields, UnplacedFields, CopyStays, HoldingRecalls DEF UnplaceGet
  <1>7. CASE UnplaceDelete
    BY <1>7, HoldFields, UnplacedFields, DeleteCopyMoves, HoldingRecalls DEF UnplaceDelete
  <1>8. CASE UnplaceDrop
    <2>1. \A n \in Members : rec'[n].uid = rec[n].uid \/ rec'[n].uid = 0
      BY <1>8, StoredUids DEF UnplaceDrop
    <2>2. /\ fleet'.pc # "confirm"
          /\ \A n \in Members : fleet'.recs[n].uid \in {fleet.recs[n].uid, 0}
      <3>1. \/ EndPass
            \/ Proceed("forget", fleet.recs[fleet.m])
            \/ \E v \in FreshVersion(fleet.m) :
                  Proceed("forget", Bound(fleet.recs[fleet.m], 0, v))
        BY <1>8 DEF UnplaceDrop
      <3>2. fleet.m \in Members /\ fleet.recs[fleet.m] \in Records
        BY CurrentTypes
      <3>3. CASE EndPass
        BY <3>3, EndPassFields DEF NoRecord
      <3>4. CASE Proceed("forget", fleet.recs[fleet.m])
        BY <3>2, <3>4, ProceedFields
      <3>5. ASSUME NEW v \in FreshVersion(fleet.m),
                   Proceed("forget", Bound(fleet.recs[fleet.m], 0, v))
            PROVE  /\ fleet'.pc # "confirm"
                   /\ \A n \in Members : fleet'.recs[n].uid \in {fleet.recs[n].uid, 0}
        <4>1. /\ Bound(fleet.recs[fleet.m], 0, v) \in Records
              /\ Bound(fleet.recs[fleet.m], 0, v).uid = 0
          BY <3>2, Contents
        <4> QED
          BY <3>5, <4>1, ProceedFields
      <3> QED
        BY <3>1, <3>3, <3>4, <3>5
    <2>3. crec' = crec /\ settle' = settle /\ UNCHANGED copy
      BY <1>8 DEF UnplaceDrop
    <2> QED
      BY <2>1, <2>2, <2>3, CopyStays DEF Recalling, Known, NoRecord
  <1>9. CASE UnplaceForget
    <2>1. \A n \in Members : rec'[n].uid = rec[n].uid \/ rec'[n].uid = 0
      BY <1>9, ForgottenEffect DEF UnplaceForget
    <2>2. /\ fleet'.pc # "confirm"
          /\ \A n \in Members : fleet'.recs[n] = fleet.recs[n] \/ fleet'.recs[n] = NoRecord
      BY <1>9, UnplacedFields DEF UnplaceForget
    <2>3. crec' = crec /\ settle' = settle /\ UNCHANGED copy
      BY <1>9 DEF UnplaceForget
    <2> QED
      BY <2>1, <2>2, <2>3, CopyStays DEF Recalling, Known, NoRecord
  <1>10. CASE ApplySkipped \/ (\E m \in Members : HeldBack(m))
    BY <1>10, PlaceDoneFields, CopyStays DEF ApplySkipped, HeldBack, Recalling, Known,
       NoRecord
  <1>11. CASE Apply
    <2>1. \A n \in Members : copy'[n].ours \/ CopyMove(n)
      BY <1>11, ApplyEffect DEF CopyMove
    <2>2. fleet'.m = fleet.m /\ fleet'.recs = fleet.recs /\ copy'[fleet.m].ours
      BY <1>11, ApplyEffect, HoldFields, FreshUidFact DEF Apply
    <2> QED
      BY <1>11, <2>1, <2>2 DEF Apply, Recalling, Known
  <1>12. CASE ConfirmApplied
    <2>1. \A n \in Members : rec'[n].uid = rec[n].uid \/ (n = fleet.m /\ rec'[n].uid = fleet.seen)
      <3>1. \/ UNCHANGED rec
            \/ \E v \in FreshVersion(fleet.m) :
                 Stored(fleet.m, fleet.recs[fleet.m],
                        Bound(fleet.recs[fleet.m], fleet.seen, v))
        BY <1>12 DEF ConfirmApplied
      <3>2. fleet.m \in Members /\ fleet.seen \in Uids \cup {0}
            /\ fleet.recs[fleet.m] \in Records
        BY CurrentTypes
      <3>3. CASE UNCHANGED rec
        BY <3>3
      <3>4. ASSUME NEW v \in FreshVersion(fleet.m),
                   Stored(fleet.m, fleet.recs[fleet.m],
                          Bound(fleet.recs[fleet.m], fleet.seen, v))
            PROVE  /\ rec'[fleet.m].uid = fleet.seen
                   /\ \A n \in Members \ {fleet.m} : rec'[n] = rec[n]
        <4>1. /\ Bound(fleet.recs[fleet.m], fleet.seen, v) \in Records
              /\ Bound(fleet.recs[fleet.m], fleet.seen, v).uid = fleet.seen
          BY <3>2, FreshVersionFact DEF Bound, Records
        <4> QED
          BY <3>2, <3>4, <4>1, StoredEffect
      <3> QED
        BY <3>1, <3>3, <3>4
    <2>2. /\ fleet'.pc # "confirm"
          /\ \A n \in Members : fleet'.recs[n] = fleet.recs[n] \/ fleet'.recs[n] = NoRecord
      BY <1>12, PlaceDoneFields, EndPassFields DEF ConfirmApplied
    <2>3. crec' = crec /\ settle' = settle /\ UNCHANGED copy /\ fleet.pc = "confirm"
      BY <1>12 DEF ConfirmApplied
    <2> QED
      BY <2>1, <2>2, <2>3, CopyStays DEF Recalling, Known, NoRecord
  <1>13. CASE FinishPass \/ RenderFails \/ FleetFault
    BY <1>13, EndPassFields, PlaceDoneFields, CopyStays
    DEF FinishPass, RenderFails, FleetFault, Recalling, Known, NoRecord
  <1> QED
    BY <1>1, <1>2, <1>3, <1>4, <1>5, <1>6, <1>7, <1>8, <1>9, <1>10, <1>11, <1>12, <1>13
    DEF FleetStep

LEMMA RecallingSettle ==
  ASSUME TypeOK, LabelledUids, SettleStep \/ SettleFault
  PROVE  Recalling
  <1> USE CurrentTypes DEF hubVars, envVars, budgets
  <1>1. ASSUME NEW m \in Members, SettleOrphan(m) PROVE Recalling
    <2>1. \A n \in Members : rec'[n].uid = rec[n].uid \/ rec'[n].uid = crec[n].uid
      BY <1>1, StoredUids DEF SettleOrphan
    <2> QED
      BY <1>1, <2>1, CopyStays DEF SettleOrphan, Recalling, Known
  <1>2. ASSUME NEW m \in Members, SettleStart(m) PROVE Recalling
    <2>1. \A n \in Members : rec'[n].uid = rec[n].uid \/ rec'[n].uid = crec[n].uid
      BY <1>2, StoredUids DEF SettleStart
    <2>2. settle'.m = m /\ settle'.rec.uid = crec[m].uid
      <3> QED
        BY <1>2, SettleAtFields, Contents DEF SettleStart
    <2> QED
      BY <1>2, <2>1, <2>2, CopyStays DEF SettleStart, Recalling, Known
  <1>3. CASE SettleGet
    <2>1. (settle'.m = settle.m /\ settle'.rec = settle.rec) \/ settle'.rec = NoRecord
      BY <1>3, SettleAtFields, SettleEndFields DEF SettleGet
    <2> QED
      BY <1>3, <2>1, CopyStays DEF SettleGet, Recalling, Known, NoRecord
  <1>4. CASE SettleDelete
    BY <1>4, SettleAtFields, SettleEndFields, DeleteCopyMoves
    DEF SettleDelete, Recalling, Known, NoRecord
  <1>5. CASE SettleDrop
    <2>1. \A n \in Members : rec'[n].uid = rec[n].uid \/ rec'[n].uid = 0
      BY <1>5, StoredUids DEF SettleDrop
    <2>2. (settle'.m = settle.m /\ settle'.rec.uid = settle.rec.uid) \/ settle'.rec.uid = 0
      <3> QED
        BY <1>5, SettleAtFields, SettleEndFields, Contents
        DEF SettleDrop, NoRecord
    <2> QED
      BY <1>5, <2>1, <2>2, CopyStays DEF SettleDrop, Recalling, Known
  <1>6. CASE SettleForget
    BY <1>6, SettleEndFields, ForgottenEffect, CopyStays
    DEF SettleForget, Recalling, Known, NoRecord
  <1>7. CASE SettleFault
    BY <1>7, SettleEndFields, CopyStays DEF SettleFault, Recalling, Known, NoRecord
  <1> QED
    BY <1>1, <1>2, <1>3, <1>4, <1>5, <1>6, <1>7 DEF SettleStep, SettleContinue

LEMMA RecallingEnvironment ==
  ASSUME TypeOK, Environment
  PROVE  Recalling
  <1> USE DEF hubVars, envVars, budgets
  <1>1. CASE UNCHANGED <<rec, crec, copy, fleet, settle>>
    BY <1>1, CopyStays DEF Recalling, Known
  <1>2. ASSUME NEW m \in Members, SyncRecord(m) PROVE Recalling
    <2>1. \A n \in Members : crec'[n] = crec[n] \/ crec'[n] = rec[n]
      BY <1>2 DEF SyncRecord, TypeOK
    <2> QED
      BY <1>2, <2>1, CopyStays DEF SyncRecord, Recalling, Known
  <1>3. ASSUME NEW m \in Members, Vanish(m) \/ MemberDelete(m) \/ MemberCreate(m)
        PROVE  Recalling
    <2>1. \A n \in Members : CopyMove(n)
      BY <1>3, VanishMoves, MemberDeleteMoves, MemberCreateMoves
    <2>2. UNCHANGED <<rec, crec, fleet, settle>>
      BY <1>3 DEF Vanish, MemberDelete, MemberCreate, Disturb
    <2> QED
      BY <2>1, <2>2 DEF Recalling, Known
  <1>4. ASSUME NEW m \in Members,
               Engage(m) \/ Disengage(m) \/ ChangeProfile(m) \/ ChangeGate(m)
        PROVE  Recalling
    BY <1>1, <1>4 DEF Engage, Disengage, ChangeProfile, ChangeGate, Disturb
  <1>5. CASE SyncInstance \/ CreateInstance \/ DeleteInstance \/ ChangeDecision
    BY <1>1, <1>5 DEF SyncInstance, CreateInstance, DeleteInstance, ChangeDecision, Disturb
  <1> QED
    BY <1>2, <1>3, <1>4, <1>5 DEF Environment

LEMMA LabelledUidsNext ==
  ASSUME TypeOK, LabelledUids, [Next]_vars
  PROVE  LabelledUids'
  <1>1. CASE UNCHANGED vars
    BY <1>1 DEF vars, LabelledUids, Labelled
  <1>2. CASE Next
    BY <1>2, NextType, RecallingFleet, RecallingSettle, RecallingEnvironment, RecallingKeeps
    DEF Next
  <1> QED
    BY <1>1, <1>2

-----------------------------------------------------------------------------
(* The ledger: an entry leaves the record only after its object is gone.    *)

LEMMA PhasesNext ==
  ASSUME MaxLives = 1, TypeOK, Phases, [Next]_vars
  PROVE  Phases'
  <1>1. CASE UNCHANGED vars
    BY <1>1 DEF vars, Phases
  <1> QED
    BY <1>1, PhasesFleet, PhasesSettle, PhasesEnvironment DEF Next

\* A step keeps m's entry, or replaces one whose object is not there.
Careful(n) ==
    \/ rec'[n].uid = rec[n].uid
    \/ ~ConfirmedOnMember(n) /\ (rec'[n].uid = 0 \/ (fleet.pc = "confirm" /\ n = fleet.m))

\* A write that is accepted was computed from the current content.
LEMMA HeldIsCurrent ==
  ASSUME Coherent, NEW m \in Members, NEW r
  PROVE  /\ Stored(m, fleet.recs[m], r) => fleet.recs[m] = rec[m]
         /\ Stored(m, crec[m], r) => crec[m] = rec[m]
         /\ m = settle.m /\ Stored(m, settle.rec, r) => settle.rec = rec[m]
  BY DEF Coherent, Stored

LEMMA CarefulFleet ==
  ASSUME TypeOK, Coherent, Cleanings, Confirming, FleetStep \/ FleetFault,
         NEW n \in Members
  PROVE  Careful(n)
  <1> USE CurrentTypes DEF hubVars, envVars, budgets
  <1>1. CASE UNCHANGED rec
    BY <1>1 DEF Careful
  <1>2. ASSUME NEW m \in Members, UnplaceOrphan(m) \/ UnplaceStart(m) PROVE Careful(n)
    <2>1. \/ UNCHANGED rec
          \/ \E v \in FreshVersion(m), o \in {"yes", "no"} :
               Stored(m, fleet.recs[m], Marked(fleet.recs[m], o, v))
      BY <1>2 DEF UnplaceOrphan, UnplaceStart
    <2> QED
      BY <2>1, StoredUids, HeldIsCurrent DEF Careful
  <1>3. ASSUME NEW m \in Members, EnsureRecord(m) PROVE Careful(n)
    <2>1. \/ UNCHANGED rec
          \/ ~Present(rec[m]) /\ \E v \in FreshVersion(m) : rec' = [rec EXCEPT ![m] = Blank(v)]
      BY <1>3 DEF EnsureRecord, Turn
    <2>2. ~Present(rec[m]) => rec[m].uid = 0
      BY DEF Coherent
    <2> QED
      BY <2>1, <2>2, CreatedEffect DEF Careful
  <1>4. CASE UnplaceDrop
    <2>1. \/ UNCHANGED rec
          \/ fleet.recs[fleet.m].uid # 0 /\ \E v \in FreshVersion(fleet.m) :
               Stored(fleet.m, fleet.recs[fleet.m], Bound(fleet.recs[fleet.m], 0, v))
      BY <1>4 DEF UnplaceDrop
    <2>2. fleet.recs[fleet.m].uid # 0 => copy[fleet.m].uid # fleet.recs[fleet.m].uid
      BY <1>4 DEF UnplaceDrop, Cleanings, Cleaning, Clear
    <2> QED
      BY <2>1, <2>2, StoredUids, HeldIsCurrent DEF Careful, ConfirmedOnMember
  <1>5. CASE UnplaceForget
    <2>1. ~ConfirmedOnMember(fleet.m)
      BY <1>5 DEF UnplaceForget, Cleanings, Cleaning
    <2> QED
      BY <1>5, <2>1, ForgottenEffect DEF UnplaceForget, Careful
  <1>6. CASE ConfirmApplied
    <2>1. \/ UNCHANGED rec
          \/ /\ fleet.recs[fleet.m].uid # fleet.seen
             /\ fleet.recs[fleet.m] = rec[fleet.m]
             /\ \A k \in Members \ {fleet.m} : rec'[k] = rec[k]
      <3>1. \/ UNCHANGED rec
            \/ /\ fleet.recs[fleet.m].uid # fleet.seen
               /\ \E v \in FreshVersion(fleet.m) :
                    Stored(fleet.m, fleet.recs[fleet.m],
                           Bound(fleet.recs[fleet.m], fleet.seen, v))
        BY <1>6 DEF ConfirmApplied
      <3> QED
        BY <3>1, HeldIsCurrent DEF Stored, TypeOK
    <2>2. \/ copy[fleet.m].uid \in {0, fleet.seen}
          \/ copy[fleet.m].uid # fleet.recs[fleet.m].uid
      BY <1>6 DEF ConfirmApplied, Confirming
    <2>3. fleet.pc = "confirm"
      BY <1>6 DEF ConfirmApplied
    <2> QED
      BY <2>1, <2>2, <2>3 DEF Careful, ConfirmedOnMember, OnMember
  <1>7. ASSUME NEW m \in Members, UnplaceBlocked(m) PROVE Careful(n)
    BY <1>1, <1>7 DEF UnplaceBlocked
  <1>8. CASE \/ AddFinalizer \/ BeginConverge \/ BeginFinalize \/ UnplaceGet
             \/ UnplaceDelete \/ ApplySkipped \/ (\E m \in Members : HeldBack(m))
             \/ Apply \/ FinishPass \/ RenderFails
             \/ FleetFault
    BY <1>1, <1>8 DEF AddFinalizer, BeginConverge, BeginFinalize, UnplaceGet,
       UnplaceDelete, ApplySkipped, HeldBack, Apply, FinishPass, RenderFails, FleetFault
  <1> QED
    BY <1>2, <1>3, <1>4, <1>5, <1>6, <1>7, <1>8 DEF FleetStep

LEMMA CarefulSettle ==
  ASSUME TypeOK, Coherent, Cleanings, SettleStep \/ SettleFault, NEW n \in Members
  PROVE  /\ Careful(n)
         /\ rec'[n].uid = rec[n].uid \/ rec'[n].uid = 0
  <1> USE CurrentTypes DEF hubVars, envVars, budgets
  <1>1. CASE UNCHANGED rec
    BY <1>1 DEF Careful
  <1>2. ASSUME NEW m \in Members, SettleOrphan(m) \/ SettleStart(m)
        PROVE  rec'[n].uid = rec[n].uid
    <2>1. \/ UNCHANGED rec
          \/ \E v \in FreshVersion(m), o \in {"yes", "no"} :
               Stored(m, crec[m], Marked(crec[m], o, v))
      BY <1>2 DEF SettleOrphan, SettleStart
    <2> QED
      BY <2>1, StoredUids, HeldIsCurrent
  <1>3. CASE SettleDrop
    <2>1. \/ UNCHANGED rec
          \/ settle.rec.uid # 0 /\ \E v \in FreshVersion(settle.m) :
               Stored(settle.m, settle.rec, Bound(settle.rec, 0, v))
      BY <1>3 DEF SettleDrop
    <2>2. settle.rec.uid # 0 => copy[settle.m].uid # settle.rec.uid
      BY <1>3 DEF SettleDrop, Cleanings, Cleaning, Clear
    <2> QED
      BY <2>1, <2>2, StoredUids, HeldIsCurrent DEF Careful, ConfirmedOnMember
  <1>4. CASE SettleForget
    <2>1. ~ConfirmedOnMember(settle.m)
      BY <1>4 DEF SettleForget, Cleanings, Cleaning
    <2>2. rec' = [rec EXCEPT ![settle.m] = NoRecord]
      BY <1>4 DEF SettleForget
    <2>3. /\ \A k \in Members \ {settle.m} : rec'[k] = rec[k]
          /\ rec'[settle.m].uid = 0
      BY <2>2, ForgottenEffect
    <2> QED
      BY <2>1, <2>3 DEF Careful
  <1>5. CASE SettleGet \/ SettleDelete \/ SettleFault
    BY <1>1, <1>5 DEF SettleGet, SettleDelete, SettleFault
  <1> QED
    BY <1>1, <1>2, <1>3, <1>4, <1>5 DEF SettleStep, SettleContinue, Careful

LEMMA EnvironmentReads == Environment => UNCHANGED <<rec, fleet, settle>>
  BY DEF Environment, SyncInstance, CreateInstance, DeleteInstance, ChangeDecision, Engage,
     Disengage, SyncRecord, Vanish, ChangeProfile, ChangeGate, MemberDelete, MemberCreate,
     Disturb, hubVars, envVars, budgets

\* RecordReconciler works only while FleetReconciler places nothing.
LEMMA SettlingExcludesPlacing ==
  ASSUME Phases, settle.pc # "idle"
  PROVE  fleet.pc \notin {"apply", "confirm"}
  BY DEF Phases

\* What a pass knows of its member survives the steps of everyone else.
LEMMA FleetCleaningStays ==
  ASSUME TypeOK, Cleanings, fleet' = fleet, CopyMove(fleet.m),
         rec'[fleet.m].uid = rec[fleet.m].uid \/ rec'[fleet.m].uid = 0
  PROVE  Cleaning(fleet.pc, fleet.m, fleet.recs[fleet.m].uid, fleet.seen)'
  BY CurrentTypes DEF Cleanings, Cleaning, Clear, CopyMove, ConfirmedOnMember, OnMember

LEMMA SettleCleaningStays ==
  ASSUME TypeOK, Cleanings, settle' = settle, CopyMove(settle.m),
         rec'[settle.m].uid = rec[settle.m].uid \/ rec'[settle.m].uid = 0
  PROVE  Cleaning(settle.pc, settle.m, settle.rec.uid, settle.seen)'
  BY CurrentTypes DEF Cleanings, Cleaning, Clear, CopyMove, ConfirmedOnMember, OnMember

LEMMA ConfirmingStays ==
  ASSUME TypeOK, Confirming, fleet' = fleet, CopyMove(fleet.m)
  PROVE  Confirming'
  BY CurrentTypes DEF Confirming, CopyMove

\* What the read and the delete of deleteManifests establish.
LEMMA VerdictClears ==
  ASSUME TypeOK, NEW m \in Members, NEW uid, Labelled(m, uid), Verdict(m, uid) = "gone"
  PROVE  Clear(m, uid)
  BY CurrentTypes DEF Verdict, Clear, Labelled

LEMMA VerdictDeletes ==
  ASSUME TypeOK, NEW m \in Members, NEW uid, Verdict(m, uid) = "delete"
  PROVE  uid # 0 => copy[m].uid = uid
  BY CurrentTypes DEF Verdict

LEMMA DeleteSpares ==
  ASSUME TypeOK, NEW m \in Members, NEW u, DeleteCopy(m, u)
  PROVE  copy'[m].uid = copy[m].uid /\ copy'[m].ours = copy[m].ours
  BY DEF TypeOK, DeleteCopy, Copies

LEMMA FleetCleaning ==
  ASSUME TypeOK, LabelledUids, Coherent, Cleanings, FleetStep \/ FleetFault
  PROVE  Cleaning(fleet.pc, fleet.m, fleet.recs[fleet.m].uid, fleet.seen)'
  <1> DEFINE Goal == Cleaning(fleet.pc, fleet.m, fleet.recs[fleet.m].uid, fleet.seen)'
  <1> USE CurrentTypes DEF hubVars, envVars, budgets
  <1>1. CASE fleet'.pc \notin {"delete", "drop", "forget"}
    BY <1>1 DEF Cleaning
  <1>2. CASE UnplaceGet
    <2>1. CASE Verdict(fleet.m, fleet.recs[fleet.m].uid) = "gone" /\ Hold("drop", 0)
      <3>1. Clear(fleet.m, fleet.recs[fleet.m].uid)
        BY <2>1, VerdictClears DEF LabelledUids
      <3>2. fleet'.pc = "drop" /\ fleet'.m = fleet.m /\ fleet'.recs = fleet.recs
        BY <2>1, HoldFields
      <3>3. copy' = copy
        BY <1>2 DEF UnplaceGet
      <3> QED
        BY <3>1, <3>2, <3>3 DEF Cleaning, Clear
    <2>2. CASE Unplaced(fleet.m, TRUE)
      BY <1>1, <2>2, UnplacedFields
    <2>3. CASE /\ Verdict(fleet.m, fleet.recs[fleet.m].uid) = "delete"
               /\ Hold("delete", copy[fleet.m].uid)
      <3>1. fleet.recs[fleet.m].uid # 0 => copy[fleet.m].uid = fleet.recs[fleet.m].uid
        BY <2>3, VerdictDeletes
      <3>2. /\ fleet'.pc = "delete" /\ fleet'.m = fleet.m /\ fleet'.recs = fleet.recs
            /\ fleet'.seen = copy[fleet.m].uid
        BY <2>3, HoldFields
      <3>3. copy' = copy
        BY <1>2 DEF UnplaceGet
      <3> QED
        BY <3>1, <3>2, <3>3 DEF Cleaning
    <2> QED
      BY <1>2, <2>1, <2>2, <2>3 DEF UnplaceGet
  <1>3. CASE UnplaceDelete
    <2>1. CASE OnMember(fleet.m) /\ copy[fleet.m].uid # fleet.seen /\ Hold("drop", 0)
      <3>1. Clear(fleet.m, fleet.recs[fleet.m].uid)
        BY <1>3, <2>1 DEF UnplaceDelete, Cleanings, Cleaning, Clear, OnMember
      <3>2. fleet'.pc = "drop" /\ fleet'.m = fleet.m /\ fleet'.recs = fleet.recs
        BY <2>1, HoldFields
      <3>3. copy'[fleet.m].uid = copy[fleet.m].uid /\ copy'[fleet.m].ours = copy[fleet.m].ours
        BY <1>3, DeleteSpares DEF UnplaceDelete
      <3> QED
        BY <3>1, <3>2, <3>3 DEF Cleaning, Clear
    <2>2. CASE Unplaced(fleet.m, TRUE)
      BY <1>1, <2>2, UnplacedFields
    <2> QED
      BY <1>3, <2>1, <2>2 DEF UnplaceDelete
  <1>4. CASE UnplaceDrop
    <2>1. CASE EndPass
      BY <1>1, <2>1, EndPassFields
    <2>2. CASE fleet.recs[fleet.m].uid = 0 /\ UNCHANGED rec /\ Proceed("forget", fleet.recs[fleet.m])
      <3>1. ~ConfirmedOnMember(fleet.m)
        BY <1>4, <2>2
        DEF UnplaceDrop, Cleanings, Cleaning, Clear, LabelledUids, Labelled, ConfirmedOnMember,
            OnMember
      <3>2. fleet'.pc = "forget" /\ fleet'.m = fleet.m
        BY <2>2, ProceedFields
      <3>3. copy' = copy
        BY <1>4 DEF UnplaceDrop
      <3> QED
        BY <2>2, <3>1, <3>2, <3>3 DEF Cleaning, ConfirmedOnMember, OnMember
    <2>3. ASSUME NEW v \in FreshVersion(fleet.m),
                 Stored(fleet.m, fleet.recs[fleet.m], Bound(fleet.recs[fleet.m], 0, v)),
                 Proceed("forget", Bound(fleet.recs[fleet.m], 0, v))
          PROVE  Goal
      <3>1. rec'[fleet.m].uid = 0
        BY <2>3, StoredUids
      <3>2. fleet'.pc = "forget" /\ fleet'.m = fleet.m
        BY <2>3, ProceedFields, Contents
      <3> QED
        BY <3>1, <3>2 DEF Cleaning, ConfirmedOnMember, OnMember
    <2> QED
      BY <1>4, <2>1, <2>2, <2>3 DEF UnplaceDrop
  <1>5. CASE AddFinalizer \/ BeginConverge \/ BeginFinalize
    BY <1>1, <1>5, BeginFields DEF AddFinalizer, BeginConverge, BeginFinalize
  <1>6. ASSUME NEW m \in Members, UnplaceBlocked(m) \/ UnplaceOrphan(m) PROVE Goal
    BY <1>1, <1>6, UnplacedFields, EndPassFields DEF UnplaceBlocked, UnplaceOrphan
  <1>7. ASSUME NEW m \in Members, UnplaceStart(m) PROVE Goal
    <2>1. fleet'.pc \in {"get", "idle"}
      BY <1>7, TakeUpFields, Contents, EndPassFields DEF UnplaceStart
    <2> QED
      BY <1>1, <2>1
  <1>8. ASSUME NEW m \in Members, EnsureRecord(m) PROVE Goal
    <2>1. fleet'.pc \in {"apply", "idle"}
      BY <1>8, TakeUpFields, Contents, EndPassFields DEF EnsureRecord, Turn
    <2> QED
      BY <1>1, <2>1
  <1>9. CASE UnplaceForget \/ ApplySkipped \/ (\E m \in Members : HeldBack(m))
                           \/ ConfirmApplied
    BY <1>1, <1>9, UnplacedFields, PlaceDoneFields, EndPassFields
    DEF UnplaceForget, ApplySkipped, HeldBack, ConfirmApplied
  <1>10. CASE Apply
    BY <1>1, <1>10, HoldFields, FreshUidFact DEF Apply
  <1>11. CASE FinishPass \/ RenderFails \/ FleetFault
    BY <1>1, <1>11, EndPassFields, PlaceDoneFields DEF FinishPass, RenderFails, FleetFault
  <1> QED
    BY <1>2, <1>3, <1>4, <1>5, <1>6, <1>7, <1>8, <1>9, <1>10, <1>11 DEF FleetStep

LEMMA FleetConfirming ==
  ASSUME TypeOK, FleetStep \/ FleetFault
  PROVE  Confirming'
  <1> USE CurrentTypes DEF hubVars, envVars, budgets
  <1>1. CASE fleet'.pc # "confirm"
    BY <1>1 DEF Confirming
  <1>2. CASE Apply
    <2>1. fleet'.m = fleet.m /\ copy'[fleet.m].uid = fleet'.seen
      BY <1>2, ApplyEffect, HoldFields, FreshUidFact DEF Apply
    <2> QED
      BY <2>1 DEF Confirming
  <1>3. CASE AddFinalizer \/ BeginConverge \/ BeginFinalize
    BY <1>1, <1>3, BeginFields DEF AddFinalizer, BeginConverge, BeginFinalize
  <1>4. ASSUME NEW m \in Members, UnplaceBlocked(m) \/ UnplaceOrphan(m) PROVE Confirming'
    BY <1>1, <1>4, UnplacedFields, EndPassFields DEF UnplaceBlocked, UnplaceOrphan
  <1>5. ASSUME NEW m \in Members, UnplaceStart(m) \/ EnsureRecord(m) PROVE Confirming'
    <2>1. fleet'.pc \in {"get", "apply", "idle"}
      BY <1>5, TakeUpFields, Contents, EndPassFields DEF UnplaceStart, EnsureRecord, Turn
    <2> QED
      BY <1>1, <2>1
  <1>6. CASE UnplaceGet \/ UnplaceDelete
    BY <1>1, <1>6, HoldFields, UnplacedFields DEF UnplaceGet, UnplaceDelete
  <1>7. CASE UnplaceDrop
    BY <1>1, <1>7, ProceedFields, Contents, EndPassFields DEF UnplaceDrop
  <1>8. CASE UnplaceForget \/ ApplySkipped \/ (\E m \in Members : HeldBack(m))
                           \/ ConfirmApplied
    BY <1>1, <1>8, UnplacedFields, PlaceDoneFields, EndPassFields
    DEF UnplaceForget, ApplySkipped, HeldBack, ConfirmApplied
  <1>9. CASE FinishPass \/ RenderFails \/ FleetFault
    BY <1>1, <1>9, EndPassFields, PlaceDoneFields DEF FinishPass, RenderFails, FleetFault
  <1> QED
    BY <1>2, <1>3, <1>4, <1>5, <1>6, <1>7, <1>8, <1>9 DEF FleetStep

LEMMA SettleCleaning ==
  ASSUME TypeOK, LabelledUids, Coherent, Cleanings, SettleStep \/ SettleFault
  PROVE  Cleaning(settle.pc, settle.m, settle.rec.uid, settle.seen)'
  <1> DEFINE Goal == Cleaning(settle.pc, settle.m, settle.rec.uid, settle.seen)'
  <1> USE CurrentTypes DEF hubVars, envVars, budgets
  <1>1. CASE settle'.pc \notin {"delete", "drop", "forget"}
    BY <1>1 DEF Cleaning
  <1>2. ASSUME NEW m \in Members, SettleOrphan(m) PROVE Goal
    <2>1. settle' = settle /\ settle.pc = "idle"
      BY <1>2 DEF SettleOrphan, Unowned
    <2> QED
      BY <1>1, <2>1
  <1>3. ASSUME NEW m \in Members, SettleStart(m) PROVE Goal
    <2>1. settle'.pc = "get"
      BY <1>3, SettleAtFields, Contents DEF SettleStart
    <2> QED
      BY <1>1, <2>1
  <1>4. CASE SettleGet
    <2>1. CASE /\ Verdict(settle.m, settle.rec.uid) = "gone"
               /\ SettleAt("drop", settle.m, 0, settle.rec)
      <3>1. Clear(settle.m, settle.rec.uid)
        BY <2>1, VerdictClears DEF LabelledUids
      <3>2. settle'.pc = "drop" /\ settle'.m = settle.m /\ settle'.rec = settle.rec
        BY <2>1, SettleAtFields
      <3>3. copy' = copy
        BY <1>4 DEF SettleGet
      <3> QED
        BY <3>1, <3>2, <3>3 DEF Cleaning, Clear
    <2>2. CASE SettleEnd
      BY <1>1, <2>2, SettleEndFields
    <2>3. CASE /\ Verdict(settle.m, settle.rec.uid) = "delete"
               /\ SettleAt("delete", settle.m, copy[settle.m].uid, settle.rec)
      <3>1. settle.rec.uid # 0 => copy[settle.m].uid = settle.rec.uid
        BY <2>3, VerdictDeletes
      <3>2. /\ settle'.pc = "delete" /\ settle'.m = settle.m /\ settle'.rec = settle.rec
            /\ settle'.seen = copy[settle.m].uid
        BY <2>3 DEF SettleAt
      <3>3. copy' = copy
        BY <1>4 DEF SettleGet
      <3> QED
        BY <3>1, <3>2, <3>3 DEF Cleaning
    <2> QED
      BY <1>4, <2>1, <2>2, <2>3 DEF SettleGet
  <1>5. CASE SettleDelete
    <2>1. CASE /\ OnMember(settle.m) /\ copy[settle.m].uid # settle.seen
               /\ SettleAt("drop", settle.m, 0, settle.rec)
      <3>1. Clear(settle.m, settle.rec.uid)
        BY <1>5, <2>1 DEF SettleDelete, Cleanings, Cleaning, Clear, OnMember
      <3>2. settle'.pc = "drop" /\ settle'.m = settle.m /\ settle'.rec = settle.rec
        BY <2>1, SettleAtFields
      <3>3. copy'[settle.m].uid = copy[settle.m].uid /\ copy'[settle.m].ours = copy[settle.m].ours
        BY <1>5, DeleteSpares DEF SettleDelete
      <3> QED
        BY <3>1, <3>2, <3>3 DEF Cleaning, Clear
    <2>2. CASE SettleEnd
      BY <1>1, <2>2, SettleEndFields
    <2> QED
      BY <1>5, <2>1, <2>2 DEF SettleDelete
  <1>6. CASE SettleDrop
    <2>1. CASE SettleEnd
      BY <1>1, <2>1, SettleEndFields
    <2>2. CASE /\ settle.rec.uid = 0 /\ UNCHANGED rec
               /\ SettleAt("forget", settle.m, 0, settle.rec)
      <3>1. ~ConfirmedOnMember(settle.m)
        BY <1>6, <2>2
        DEF SettleDrop, Cleanings, Cleaning, Clear, LabelledUids, Labelled, ConfirmedOnMember,
            OnMember
      <3>2. settle'.pc = "forget" /\ settle'.m = settle.m
        BY <2>2, SettleAtFields
      <3>3. copy' = copy
        BY <1>6 DEF SettleDrop
      <3> QED
        BY <2>2, <3>1, <3>2, <3>3 DEF Cleaning, ConfirmedOnMember, OnMember
    <2>3. ASSUME NEW v \in FreshVersion(settle.m),
                 Stored(settle.m, settle.rec, Bound(settle.rec, 0, v)),
                 SettleAt("forget", settle.m, 0, Bound(settle.rec, 0, v))
          PROVE  Goal
      <3>1. rec'[settle.m].uid = 0
        BY <2>3, StoredUids
      <3>2. settle'.pc = "forget" /\ settle'.m = settle.m
        BY <2>3, SettleAtFields, Contents
      <3> QED
        BY <3>1, <3>2 DEF Cleaning, ConfirmedOnMember, OnMember
    <2> QED
      BY <1>6, <2>1, <2>2, <2>3 DEF SettleDrop
  <1>7. CASE SettleForget \/ SettleFault
    BY <1>1, <1>7, SettleEndFields DEF SettleForget, SettleFault
  <1> QED
    BY <1>2, <1>3, <1>4, <1>5, <1>6, <1>7 DEF SettleStep, SettleContinue

\* Everyone but an applying pass only moves objects.
LEMMA CopiesMove ==
  ASSUME TypeOK, Next, NEW n \in Members
  PROVE  CopyMove(n) \/ fleet.pc = "apply"
  <1> USE CurrentTypes DEF hubVars, envVars, budgets
  <1>1. CASE UNCHANGED copy
    BY <1>1, CopyStays
  <1>2. CASE UnplaceDelete \/ SettleDelete
    BY <1>2, DeleteCopyMoves DEF UnplaceDelete, SettleDelete
  <1>3. CASE Apply
    BY <1>3 DEF Apply
  <1>4. ASSUME NEW m \in Members, Vanish(m) \/ MemberDelete(m) \/ MemberCreate(m)
        PROVE  CopyMove(n)
    BY <1>4, VanishMoves, MemberDeleteMoves, MemberCreateMoves
  <1>5. FleetStep => UNCHANGED copy \/ UnplaceDelete \/ Apply
    BY DEF FleetStep, AddFinalizer, BeginConverge, BeginFinalize, UnplaceBlocked,
       UnplaceOrphan, UnplaceStart, EnsureRecord, Turn, UnplaceGet, UnplaceDrop,
       UnplaceForget, ApplySkipped, HeldBack, ConfirmApplied, FinishPass, RenderFails
  <1>6. SettleStep => UNCHANGED copy \/ SettleDelete
    BY DEF SettleStep, SettleContinue, SettleOrphan, SettleStart, SettleGet, SettleDrop,
       SettleForget
  <1>7. FleetFault \/ SettleFault => UNCHANGED copy
    BY DEF FleetFault, SettleFault
  <1>8. Environment =>
          \/ UNCHANGED copy
          \/ \E m \in Members : Vanish(m) \/ MemberDelete(m) \/ MemberCreate(m)
    BY DEF Environment, SyncInstance, CreateInstance, DeleteInstance, ChangeDecision,
       SyncRecord, Engage, Disengage, ChangeProfile, ChangeGate, Disturb
  <1> QED
    BY <1>1, <1>2, <1>3, <1>4, <1>5, <1>6, <1>7, <1>8 DEF Next

LEMMA FleetStepsAlone == FleetStep \/ FleetFault => settle' = settle
  BY DEF FleetStep, FleetFault, AddFinalizer, BeginConverge, BeginFinalize, UnplaceBlocked,
     UnplaceOrphan, UnplaceStart, EnsureRecord, Turn, UnplaceGet, UnplaceDelete,
     UnplaceDrop,
     UnplaceForget, ApplySkipped, HeldBack, Apply, ConfirmApplied, FinishPass, RenderFails

LEMMA SettleStepsAlone == SettleStep \/ SettleFault => fleet' = fleet
  BY DEF SettleStep, SettleContinue, SettleFault, SettleOrphan, SettleStart, SettleGet,
     SettleDelete, SettleDrop, SettleForget

\* Placing and settling exclude each other, so the copies RecordReconciler looks
\* at and those FleetReconciler removes are not applied meanwhile.
LEMMA CleaningsNext ==
  ASSUME TypeOK, Phases, LabelledUids, Coherent, Cleanings, Confirming, [Next]_vars
  PROVE  Cleanings'
  <1> USE CurrentTypes
  <1>1. CASE UNCHANGED vars
    BY <1>1 DEF vars, Cleanings, Cleaning, Clear, ConfirmedOnMember, OnMember
  <1>2. CASE FleetStep \/ FleetFault
    <2>1. settle' = settle
      BY <1>2, FleetStepsAlone
    <2>2. CASE settle.pc = "idle"
      BY <1>2, <2>1, <2>2, FleetCleaning DEF Cleanings, Cleaning
    <2>3. CASE settle.pc # "idle"
      <3>1. CopyMove(settle.m) /\ fleet.pc # "confirm"
        BY <1>2, <2>3, SettlingExcludesPlacing, CopiesMove DEF Next
      <3>2. rec'[settle.m].uid = rec[settle.m].uid \/ rec'[settle.m].uid = 0
        BY <1>2, <3>1, CarefulFleet DEF Careful
      <3> QED
        BY <1>2, <2>1, <3>1, <3>2, FleetCleaning, SettleCleaningStays DEF Cleanings
    <2> QED
      BY <2>2, <2>3
  <1>3. CASE SettleStep \/ SettleFault
    <2>1. fleet' = fleet
      BY <1>3, SettleStepsAlone
    <2>2. CASE fleet.pc = "apply"
      BY <1>3, <2>1, <2>2, SettleCleaning DEF Cleanings, Cleaning
    <2>3. CASE fleet.pc # "apply"
      BY <1>3, <2>1, <2>3, CopiesMove, CarefulSettle, SettleCleaning, FleetCleaningStays
      DEF Cleanings, Next
    <2> QED
      BY <2>2, <2>3
  <1>4. CASE Environment
    <2>1. UNCHANGED <<rec, fleet, settle>>
      BY <1>4, EnvironmentReads
    <2>2. Cleaning(fleet.pc, fleet.m, fleet.recs[fleet.m].uid, fleet.seen)'
      <3>1. CASE fleet.pc = "apply"
        BY <2>1, <3>1 DEF Cleaning
      <3>2. CASE fleet.pc # "apply"
        BY <1>4, <2>1, <3>2, CopiesMove, FleetCleaningStays DEF Next
      <3> QED
        BY <3>1, <3>2
    <2>3. Cleaning(settle.pc, settle.m, settle.rec.uid, settle.seen)'
      <3>1. CASE settle.pc = "idle"
        BY <2>1, <3>1 DEF Cleaning
      <3>2. CASE settle.pc # "idle"
        BY <1>4, <2>1, <3>2, SettlingExcludesPlacing, CopiesMove, SettleCleaningStays DEF Next
      <3> QED
        BY <3>1, <3>2
    <2> QED
      BY <2>2, <2>3 DEF Cleanings
  <1> QED
    BY <1>1, <1>2, <1>3, <1>4 DEF Next

LEMMA ConfirmingNext ==
  ASSUME TypeOK, Confirming, [Next]_vars
  PROVE  Confirming'
  <1> USE CurrentTypes
  <1>1. CASE UNCHANGED vars
    BY <1>1 DEF vars, Confirming
  <1>2. CASE FleetStep \/ FleetFault
    BY <1>2, FleetConfirming
  <1>3. CASE Next /\ fleet' = fleet
    <2>1. CASE fleet.pc = "apply"
      BY <1>3, <2>1 DEF Confirming
    <2>2. CASE fleet.pc # "apply"
      BY <1>3, <2>2, CopiesMove, ConfirmingStays
    <2> QED
      BY <2>1, <2>2
  <1> QED
    BY <1>1, <1>2, <1>3, SettleStepsAlone, EnvironmentReads DEF Next

LEMMA InitIInv == Init => IInv
  <1>1. Init => LabelledTarget /\ Confirming
    BY DEF Init, LabelledTarget, Confirming, FleetIdle, SettleIdle
  <1>2. Init => LabelledUids
    BY SomeMemberType DEF Init, LabelledUids, Labelled, FleetIdle, SettleIdle, NoRecord
  <1>3. Init => Cleanings
    BY DEF Init, Cleanings, Cleaning, FleetIdle, SettleIdle
  <1> QED
    BY <1>1, <1>2, <1>3, InitType, PhasesInit, CoherentInit DEF IInv

LEMMA NextIInv ==
  ASSUME MaxLives = 1, IInv, [Next]_vars
  PROVE  IInv'
  BY NextType, LabelledTargetNext, PhasesNext, CoherentNext, LabelledUidsNext,
     CleaningsNext, ConfirmingNext DEF IInv

\* dropFromRecord, confirmApplied and hub.Delete: for an instance that lives once,
\* the ledger keeps every confirmed copy that is still there (LedgerHolds).
THEOREM LedgerCorrect ==
  ASSUME MaxLives = 1
  PROVE  Spec => LedgerHolds
  <1>1. Init => IInv
    BY InitIInv
  <1>2. IInv /\ [Next]_vars => IInv'
    BY NextIInv
  <1>3. IInv /\ [Next]_vars =>
          [\A m \in Members : ConfirmedOnMember(m) => rec'[m].uid = rec[m].uid]_vars
    BY CarefulFleet, CarefulSettle, EnvironmentReads DEF IInv, Next, Careful
  <1> QED
    BY <1>1, <1>2, <1>3, PTL DEF Spec, LedgerHolds
=============================================================================
