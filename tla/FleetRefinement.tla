--------------------------- MODULE FleetRefinement ---------------------------
(***************************************************************************)
(* FleetPlacement implements its two abstract specifications: the gate's   *)
(* view of placing (GatedPlacement) and the ledger (PlacementLedger).      *)
(***************************************************************************)
EXTENDS FleetPlacementProofs

-----------------------------------------------------------------------------
(* What the steps write to the records.                                     *)

Only(m) == \A n \in Members \ {m} : rec'[n] = rec[n]
Created(m) == Only(m) /\ ~Present(rec[m]) /\ Present(rec'[m]) /\ rec'[m].uid = 0
Deleted(m) == Only(m) /\ ~Present(rec'[m]) /\ rec'[m].uid = 0
Rewritten(m, uid) ==
    Only(m) /\ Present(rec[m]) /\ Present(rec'[m]) /\ rec'[m].uid = uid

LEMMA MarkRewrites ==
  ASSUME TypeOK, NEW m \in Members, NEW h \in Records, NEW o \in {"yes", "no"},
         NEW v \in FreshVersion(m), Stored(m, h, Marked(h, o, v))
  PROVE  Rewritten(m, h.uid)
  <1>1. Marked(h, o, v) \in Records /\ Marked(h, o, v).rv = v /\ Marked(h, o, v).uid = h.uid
    BY Contents
  <1> QED
    BY <1>1, StoredEffect, FreshVersionFact DEF Rewritten, Only, Present

LEMMA BindRewrites ==
  ASSUME TypeOK, NEW m \in Members, NEW h \in Records, NEW u \in Uids \cup {0},
         NEW v \in FreshVersion(m), Stored(m, h, Bound(h, u, v))
  PROVE  Rewritten(m, u)
  <1>1. Bound(h, u, v) \in Records /\ Bound(h, u, v).rv = v /\ Bound(h, u, v).uid = u
    BY Contents
  <1> QED
    BY <1>1, StoredEffect, FreshVersionFact DEF Rewritten, Only, Present

LEMMA BlankCreates ==
  ASSUME TypeOK, NEW m \in Members, NEW v \in FreshVersion(m), ~Present(rec[m]),
         rec' = [rec EXCEPT ![m] = Blank(v)]
  PROVE  Created(m)
  <1>1. v # 0
    BY FreshVersionFact
  <1> QED
    BY <1>1, CreatedEffect DEF Created, Only, Present

LEMMA ForgetDeletes ==
  ASSUME TypeOK, NEW m \in Members, rec' = [rec EXCEPT ![m] = NoRecord]
  PROVE  Deleted(m)
  BY ForgottenEffect DEF Deleted, Only

\* The writes of FleetReconciler.
LEMMA FleetWrites ==
  ASSUME TypeOK, FleetStep \/ FleetFault
  PROVE  \/ rec' = rec
         \/ \E m \in Members : EnsureRecord(m) /\ Created(m)
         \/ UnplaceForget /\ Deleted(fleet.m)
         \/ /\ \E m \in Members : UnplaceOrphan(m) \/ UnplaceStart(m)
            /\ \E m \in Members, r \in Records :
                 Stored(m, fleet.recs[m], r) /\ Rewritten(m, fleet.recs[m].uid)
         \/ /\ UnplaceDrop /\ fleet.recs[fleet.m].uid # 0
            /\ \E r \in Records : Stored(fleet.m, fleet.recs[fleet.m], r)
            /\ Rewritten(fleet.m, 0)
         \/ /\ ConfirmApplied /\ fleet.recs[fleet.m].uid # fleet.seen
            /\ \E r \in Records : Stored(fleet.m, fleet.recs[fleet.m], r)
            /\ Rewritten(fleet.m, fleet.seen)
  <1> USE CurrentTypes
  <1>1. ASSUME NEW m \in Members, UnplaceOrphan(m) \/ UnplaceStart(m), rec' # rec
        PROVE  \E r \in Records :
                 Stored(m, fleet.recs[m], r) /\ Rewritten(m, fleet.recs[m].uid)
    <2>1. \E o \in {"yes", "no"}, v \in FreshVersion(m) :
             Stored(m, fleet.recs[m], Marked(fleet.recs[m], o, v))
      BY <1>1 DEF UnplaceOrphan, UnplaceStart
    <2> QED
      BY <2>1, MarkRewrites, Contents
  <1>2. ASSUME NEW m \in Members, EnsureRecord(m), rec' # rec PROVE Created(m)
    BY <1>2, BlankCreates DEF EnsureRecord, Turn
  <1>3. ASSUME UnplaceDrop, rec' # rec
        PROVE  /\ fleet.recs[fleet.m].uid # 0
               /\ \E r \in Records : Stored(fleet.m, fleet.recs[fleet.m], r)
               /\ Rewritten(fleet.m, 0)
    <2>1. /\ fleet.recs[fleet.m].uid # 0
          /\ \E v \in FreshVersion(fleet.m) :
               Stored(fleet.m, fleet.recs[fleet.m], Bound(fleet.recs[fleet.m], 0, v))
      BY <1>3 DEF UnplaceDrop
    <2> QED
      BY <2>1, BindRewrites, Contents
  <1>4. ASSUME ConfirmApplied, rec' # rec
        PROVE  /\ fleet.recs[fleet.m].uid # fleet.seen
               /\ \E r \in Records : Stored(fleet.m, fleet.recs[fleet.m], r)
               /\ Rewritten(fleet.m, fleet.seen)
    <2>1. /\ fleet.recs[fleet.m].uid # fleet.seen
          /\ \E v \in FreshVersion(fleet.m) :
               Stored(fleet.m, fleet.recs[fleet.m],
                      Bound(fleet.recs[fleet.m], fleet.seen, v))
      BY <1>4 DEF ConfirmApplied
    <2> QED
      BY <2>1, BindRewrites, Contents
  <1>5. UnplaceForget => Deleted(fleet.m)
    BY ForgetDeletes DEF UnplaceForget
  <1>6. CASE \/ AddFinalizer \/ BeginConverge \/ BeginFinalize
             \/ \E m \in Members : UnplaceBlocked(m)
             \/ UnplaceGet \/ UnplaceDelete \/ RenderFails \/ ApplySkipped
             \/ (\E m \in Members : HeldBack(m)) \/ Apply
             \/ FinishPass \/ FleetFault
    BY <1>6 DEF AddFinalizer, BeginConverge, BeginFinalize, UnplaceBlocked, UnplaceGet,
       UnplaceDelete, RenderFails, ApplySkipped, HeldBack, Apply, FinishPass, FleetFault,
       hubVars
  <1> QED
    BY <1>1, <1>2, <1>3, <1>4, <1>5, <1>6 DEF FleetStep

\* The writes of RecordReconciler.
LEMMA SettleWrites ==
  ASSUME TypeOK, SettleStep \/ SettleFault
  PROVE  \/ rec' = rec
         \/ SettleForget /\ Deleted(settle.m)
         \/ \E m \in Members, r \in Records :
              Stored(m, crec[m], r) /\ Rewritten(m, crec[m].uid)
         \/ /\ SettleDrop /\ settle.rec.uid # 0
            /\ \E r \in Records : Stored(settle.m, settle.rec, r)
            /\ Rewritten(settle.m, 0)
  <1> USE CurrentTypes
  <1>1. ASSUME NEW m \in Members, SettleOrphan(m) \/ SettleStart(m), rec' # rec
        PROVE  \E r \in Records : Stored(m, crec[m], r) /\ Rewritten(m, crec[m].uid)
    <2>1. \E o \in {"yes", "no"}, v \in FreshVersion(m) :
             Stored(m, crec[m], Marked(crec[m], o, v))
      BY <1>1 DEF SettleOrphan, SettleStart
    <2> QED
      BY <2>1, MarkRewrites, Contents
  <1>2. ASSUME SettleDrop, rec' # rec
        PROVE  /\ settle.rec.uid # 0
               /\ \E r \in Records : Stored(settle.m, settle.rec, r)
               /\ Rewritten(settle.m, 0)
    <2>1. /\ settle.rec.uid # 0
          /\ \E v \in FreshVersion(settle.m) :
               Stored(settle.m, settle.rec, Bound(settle.rec, 0, v))
      BY <1>2 DEF SettleDrop
    <2> QED
      BY <2>1, BindRewrites, Contents
  <1>3. SettleForget => Deleted(settle.m)
    BY ForgetDeletes DEF SettleForget
  <1>4. SettleGet \/ SettleDelete \/ SettleFault => rec' = rec
    BY DEF SettleGet, SettleDelete, SettleFault, hubVars
  <1> QED
    BY <1>1, <1>2, <1>3, <1>4 DEF SettleStep, SettleContinue

-----------------------------------------------------------------------------
(* Placing goes through the gate.                                           *)

\* Between passes there is nothing to place; a pass applies to a member it means
\* to place and has let through the gate, and confirms only what it could write.
Placing ==
    /\ fleet.pc = "idle" => fleet.put = {}
    /\ fleet.pc \in {"apply", "confirm"} => fleet.m \in fleet.put /\ LetThrough(fleet.m)
    /\ fleet.pc = "confirm" => fleet.prof[fleet.m] = "healthy"

\* The pass goes on with the members and what it has read; it goes on so between
\* applies; it is done with some members, or with all.
Keeps == fleet'.put = fleet.put /\ fleet'.prof = fleet.prof /\ fleet'.gate = fleet.gate
Steady == Keeps /\ fleet.pc # "confirm" /\ fleet'.pc # "confirm"
Lessens ==
    /\ fleet'.pc # "confirm" /\ fleet'.put \subseteq fleet.put
    /\ fleet.pc = "confirm" => fleet.m \notin fleet'.put
    /\ (fleet'.prof = fleet.prof /\ fleet'.gate = fleet.gate) \/ fleet'.put = {}

LEMMA Moves ==
  ASSUME TypeOK
  PROVE  /\ \A m \in Members, p \in BOOLEAN :
              Unplaced(m, p) => Keeps /\ fleet'.pc # "confirm"
         /\ \A m \in Members :
              PlaceDone(m) /\ (fleet.pc = "confirm" => m = fleet.m) => Lessens
         /\ \A m \in Members, pc \in {"get", "apply"}, r \in Records :
              TakeUp(pc, m, r) => Keeps /\ fleet'.pc # "confirm"
         /\ \A r \in Records : Proceed("forget", r) => Keeps /\ fleet'.pc # "confirm"
         /\ \A pc \in {"drop", "delete", "confirm"}, u \in Uids \cup {0} :
              Hold(pc, u) => Keeps /\ fleet'.pc = pc /\ fleet'.m = fleet.m
         /\ EndPass => Lessens
         /\ Steady => Lessens
  <1>1. \A m \in Members, p \in BOOLEAN : Unplaced(m, p) => Keeps /\ fleet'.pc # "confirm"
    BY DEF TypeOK, Passes, Unplaced, Keeps
  <1>2. \A m \in Members :
          PlaceDone(m) /\ (fleet.pc = "confirm" => m = fleet.m) => Lessens
    BY DEF TypeOK, Passes, PlaceDone, Lessens
  <1>3. \A m \in Members, pc \in {"get", "apply"}, r \in Records :
          TakeUp(pc, m, r) => Keeps /\ fleet'.pc # "confirm"
    BY DEF TypeOK, Passes, TakeUp, Keeps
  <1>4. \A r \in Records : Proceed("forget", r) => Keeps /\ fleet'.pc # "confirm"
    BY DEF TypeOK, Passes, Proceed, Keeps
  <1>5. \A pc \in {"drop", "delete", "confirm"}, u \in Uids \cup {0} :
          Hold(pc, u) => Keeps /\ fleet'.pc = pc /\ fleet'.m = fleet.m
    BY DEF TypeOK, Passes, Hold, Keeps
  <1>6. EndPass => Lessens
    BY EndPassFields DEF Lessens
  <1> QED
    BY <1>1, <1>2, <1>3, <1>4, <1>5, <1>6 DEF Steady, Keeps, Lessens

\* All steps of a pass but the ones that begin it and the apply.
LEMMA PassLessens ==
  ASSUME TypeOK, FleetStep \/ FleetFault,
         ~AddFinalizer, ~BeginConverge, ~BeginFinalize, ~Apply
  PROVE  Lessens
  <1> USE CurrentTypes, Moves
  <1>1. ASSUME NEW m \in Members, UnplaceBlocked(m) \/ UnplaceOrphan(m) PROVE Lessens
    BY <1>1 DEF UnplaceBlocked, UnplaceOrphan, Steady
  <1>2. ASSUME NEW m \in Members, UnplaceStart(m) PROVE Lessens
    BY <1>2, Contents DEF UnplaceStart, Steady
  <1>3. ASSUME NEW m \in Members, EnsureRecord(m) PROVE Lessens
    BY <1>3, Contents DEF EnsureRecord, Turn, Steady
  <1>4. CASE UnplaceGet \/ UnplaceDelete
    BY <1>4 DEF UnplaceGet, UnplaceDelete, Steady
  <1>5. CASE UnplaceDrop
    BY <1>5, Contents DEF UnplaceDrop, Steady
  <1>6. CASE UnplaceForget
    BY <1>6 DEF UnplaceForget, Steady
  <1>7. ASSUME NEW m \in Members, HeldBack(m) PROVE Lessens
    BY <1>7 DEF HeldBack, Turn
  <1>8. CASE RenderFails \/ ApplySkipped \/ ConfirmApplied \/ FinishPass \/ FleetFault
    BY <1>8 DEF RenderFails, ApplySkipped, ConfirmApplied, FinishPass, FleetFault
  <1> QED
    BY <1>1, <1>2, <1>3, <1>4, <1>5, <1>6, <1>7, <1>8 DEF FleetStep

LEMMA SteadySteps ==
  ASSUME TypeOK, (\E m \in Members : EnsureRecord(m) /\ rec' # rec) \/ UnplaceForget
  PROVE  Steady
  <1> USE CurrentTypes, Moves
  <1>1. ASSUME NEW m \in Members, EnsureRecord(m), rec' # rec PROVE Steady
    BY <1>1, Contents DEF EnsureRecord, Turn, Steady
  <1>2. CASE UnplaceForget
    BY <1>2 DEF UnplaceForget, Steady
  <1> QED
    BY <1>1, <1>2

LEMMA ApplyHolds ==
  ASSUME TypeOK, Apply
  PROVE  Keeps /\ fleet'.pc = "confirm" /\ fleet'.m = fleet.m
  BY CurrentTypes, Moves, FreshUidFact DEF Apply

\* The pass picks the member to place from those it means to place.
LEMMA PlacingNext ==
  ASSUME TypeOK, Placing, [Next]_vars
  PROVE  Placing'
  <1> USE CurrentTypes
  <1>1. CASE fleet'.pc \notin {"idle", "apply", "confirm"}
    BY <1>1 DEF Placing
  <1>2. CASE fleet' = fleet
    BY <1>2 DEF Placing, LetThrough
  <1>3. CASE EndPass
    BY <1>3, EndPassFields DEF Placing
  <1>4. ASSUME NEW m \in Members, EnsureRecord(m) PROVE Placing'
    <2>1. ASSUME NEW r \in Records, TakeUp("apply", m, r) PROVE Placing'
      BY <1>4, <2>1, TakeUpFields, Moves DEF EnsureRecord, Turn, Placing, LetThrough, Keeps
    <2> QED
      BY <1>3, <1>4, <2>1, Contents DEF EnsureRecord
  <1>5. CASE Apply
    <2>1. fleet.pc = "apply" /\ fleet.prof[fleet.m] = "healthy"
      BY <1>5 DEF Apply
    <2> QED
      BY <1>5, <2>1, ApplyHolds DEF Keeps, Placing, LetThrough
  <1>6. CASE FleetStep \/ FleetFault
    <2>1. ASSUME NEW m \in Members,
                 UnplaceBlocked(m) \/ UnplaceOrphan(m) \/ UnplaceStart(m) \/ HeldBack(m)
          PROVE  fleet'.pc \in {"loop", "get"} \/ EndPass
      <3>1. CASE UnplaceBlocked(m) \/ UnplaceOrphan(m)
        BY <3>1, UnplacedFields DEF UnplaceBlocked, UnplaceOrphan
      <3>2. CASE UnplaceStart(m)
        BY <3>2, TakeUpFields, Contents DEF UnplaceStart
      <3>3. CASE HeldBack(m)
        BY <3>3, PlaceDoneFields DEF HeldBack
      <3> QED
        BY <2>1, <3>1, <3>2, <3>3
    <2>2. CASE UnplaceGet \/ UnplaceDelete \/ UnplaceDrop \/ UnplaceForget
      BY <1>1, <1>3, <2>2, UnplacedFields, HoldFields, ProceedFields, Contents
      DEF UnplaceGet, UnplaceDelete, UnplaceDrop, UnplaceForget
    <2>3. CASE \/ AddFinalizer \/ BeginConverge \/ BeginFinalize \/ RenderFails
               \/ ApplySkipped \/ ConfirmApplied \/ FinishPass \/ FleetFault
      BY <1>1, <1>3, <2>3, BeginFields, PlaceDoneFields
      DEF AddFinalizer, BeginConverge, BeginFinalize, RenderFails, ApplySkipped,
          ConfirmApplied, FinishPass, FleetFault
    <2> QED
      BY <1>1, <1>3, <1>4, <1>5, <1>6, <2>1, <2>2, <2>3 DEF FleetStep
  <1> QED
    BY <1>2, <1>6, SettleStepsAlone, EnvironmentReads DEF Next, vars

\* The sets that GatedPlacement sees.
Tracked == {m \in Members : Present(rec[m])}
Living == {m \in Members : OnMember(m)}

LEMMA GivesUp ==
  ASSUME Lessens, Tracked' = Tracked, Living' = Living
  PROVE  Gated!Next
  <1>1. Permission' \in [Members -> Gated!Permissions]
    BY DEF Permission, Gated!Permissions
  <1>2. \A m \in Members : Permission'[m] \in {Permission[m], "nothing"}
    BY DEF Permission, Lessens
  <1>3. Gated!GiveUp(Permission')
    BY <1>2 DEF Gated!GiveUp, Tracked, Living
  <1> QED
    BY <1>1, <1>3 DEF Gated!Next

LEMMA Begins ==
  ASSUME TypeOK, Placing, fleet.pc = "idle", fleet' = ConvergePass,
         Tracked' = Tracked, Living' = Living
  PROVE  Gated!Next
  <1>1. Gated!Idle
    BY DEF Gated!Idle, Permission, Placing
  <1>2. fleet'.pc = "loop" /\ fleet'.gate = gate
    BY DEF ConvergePass, FleetIdle
  <1>3. Permission' \in [Members -> {"nothing", "record", "write"}]
    BY <1>2 DEF Permission
  <1>4. \A m \in Members : Permission'[m] = "write" => m \in gate
    BY <1>2 DEF Permission
  <1>5. Gated!Begin(Permission')
    BY <1>1, <1>3, <1>4 DEF Gated!Begin, Tracked, Living
  <1>6. Permission' \in [Members -> Gated!Permissions]
    BY <1>3 DEF Gated!Permissions
  <1> QED
    BY <1>5, <1>6 DEF Gated!Next

\* The permission to write is used up by the apply.
LEMMA Writes ==
  ASSUME TypeOK, Placing, Apply
  PROVE  /\ Permission[fleet.m] = "write"
         /\ Permission' = [Permission EXCEPT ![fleet.m] = "written"]
  <1>1. fleet.pc = "apply" /\ fleet.prof[fleet.m] = "healthy" /\ fleet.m \in Members
    BY CurrentTypes DEF Apply
  <1>2. Permission[fleet.m] = "write"
    BY <1>1 DEF Placing, LetThrough, Permission
  <1>3. Permission' = [Permission EXCEPT ![fleet.m] = "written"]
    BY <1>1, ApplyHolds DEF Keeps, Permission
  <1> QED
    BY <1>2, <1>3

LEMMA Watches ==
  ASSUME fleet' = fleet,
         \/ Tracked' = Tracked /\ Living' = Living
         \/ \E m \in Tracked : Tracked' = Tracked \ {m} /\ Living' = Living
         \/ \E m \in Living : Living' = Living \ {m} /\ Tracked' = Tracked
         \/ \E m \in Members \ Living : Living' = Living \cup {m} /\ Tracked' = Tracked
  PROVE  Gated!Next
  <1>1. Permission' = Permission
    BY DEF Permission
  <1>2. CASE Tracked' = Tracked /\ Living' = Living
    BY <1>1, <1>2 DEF Gated!Next, Tracked, Living
  <1>3. ASSUME NEW m \in Members, m \in Tracked, Tracked' = Tracked \ {m}, Living' = Living
        PROVE  Gated!Next
    BY <1>1, <1>3 DEF Gated!Next, Gated!Forget, Tracked, Living
  <1>4. ASSUME NEW m \in Members, m \in Living, Living' = Living \ {m}, Tracked' = Tracked
        PROVE  Gated!Next
    BY <1>1, <1>4 DEF Gated!Next, Gated!Vanish, Tracked, Living
  <1>5. ASSUME NEW m \in Members, m \notin Living, Living' = Living \cup {m},
               Tracked' = Tracked
        PROVE  Gated!Next
    BY <1>1, <1>5 DEF Gated!Next, Gated!LocalCreate, Tracked, Living
  <1> QED
    BY <1>2, <1>3, <1>4, <1>5 DEF Tracked, Living

LEMMA SteadyPermission == Steady => Permission' = Permission
  BY DEF Steady, Keeps, Permission

\* What the writes look like from the gate.
LEMMA TrackedMoves ==
  ASSUME NEW m \in Members
  PROVE  /\ Created(m) => m \notin Tracked /\ Tracked' = Tracked \cup {m}
         /\ Deleted(m) => Tracked' = Tracked \ {m}
         /\ \A u : Rewritten(m, u) => Tracked' = Tracked
  BY DEF Created, Deleted, Rewritten, Only, Tracked

\* A delete only begins: the object is there until the member lets go of it.
LEMMA DeleteKeeps ==
  ASSUME TypeOK, NEW m \in Members, NEW u, DeleteCopy(m, u)
  PROVE  \A n \in Members : copy'[n].uid = copy[n].uid
  BY DEF TypeOK, DeleteCopy, Copies

\* The steps that touch the members.
LEMMA CopyChangers ==
  ASSUME Next
  PROVE  \/ UNCHANGED copy
         \/ Apply \/ UnplaceDelete \/ SettleDelete
         \/ \E m \in Members : Vanish(m) \/ MemberDelete(m) \/ MemberCreate(m)
  <1>1. FleetStep => UNCHANGED copy \/ UnplaceDelete \/ Apply
    BY DEF FleetStep, AddFinalizer, BeginConverge, BeginFinalize, UnplaceBlocked,
       UnplaceOrphan, UnplaceStart, EnsureRecord, Turn, UnplaceGet, UnplaceDrop,
       UnplaceForget, ApplySkipped, HeldBack, ConfirmApplied, FinishPass, RenderFails
  <1>2. SettleStep => UNCHANGED copy \/ SettleDelete
    BY DEF SettleStep, SettleContinue, SettleOrphan, SettleStart, SettleGet, SettleDrop,
       SettleForget
  <1>3. FleetFault \/ SettleFault => UNCHANGED copy
    BY DEF FleetFault, SettleFault
  <1>4. Environment =>
          \/ UNCHANGED copy
          \/ \E m \in Members : Vanish(m) \/ MemberDelete(m) \/ MemberCreate(m)
    BY DEF Environment, SyncInstance, CreateInstance, DeleteInstance, ChangeDecision,
       SyncRecord, Engage, Disengage, ChangeProfile, ChangeGate, Disturb
  <1> QED
    BY <1>1, <1>2, <1>3, <1>4 DEF Next

\* No step writes both a record and a member.
LEMMA RecordWritersSpareCopies ==
  ASSUME Next, rec' # rec
  PROVE  copy' = copy
  <1>1. Apply \/ UnplaceDelete \/ SettleDelete => rec' = rec
    BY DEF Apply, UnplaceDelete, SettleDelete, hubVars
  <1>2. \A m \in Members : Vanish(m) \/ MemberDelete(m) \/ MemberCreate(m) => rec' = rec
    BY DEF Vanish, MemberDelete, MemberCreate, Disturb, hubVars
  <1> QED
    BY <1>1, <1>2, CopyChangers

LEMMA GatedFleet ==
  ASSUME TypeOK, Placing, FleetStep \/ FleetFault
  PROVE  Gated!Next
  <1> USE CurrentTypes
  <1>1. CASE AddFinalizer \/ BeginConverge
    <2>1. /\ fleet.pc = "idle"
          /\ fleet' = ConvergePass /\ Tracked' = Tracked /\ Living' = Living
      BY <1>1 DEF AddFinalizer, BeginConverge, hubVars, Tracked, Living, OnMember
    <2> QED
      BY <2>1, Begins
  <1>2. CASE BeginFinalize
    <2>1. /\ fleet.pc = "idle" /\ fleet'.pc = "loop" /\ fleet'.put = {}
          /\ Tracked' = Tracked /\ Living' = Living
      BY <1>2, BeginFields DEF BeginFinalize, hubVars, Tracked, Living, OnMember
    <2> QED
      BY <2>1, GivesUp DEF Lessens
  <1>3. CASE Apply
    <2>1. Tracked' = Tracked
      BY <1>3 DEF Apply, hubVars, Tracked
    <2>2. Living' = Living \cup {fleet.m}
      BY <1>3, ApplyEffect DEF Living, OnMember
    <2> QED
      BY <1>3, <2>1, <2>2, Writes DEF Gated!Next, Gated!Write, Tracked, Living
  <1>4. ASSUME NEW m \in Members, EnsureRecord(m), Created(m) PROVE Gated!Next
    <2>1. Permission' = Permission
      BY <1>4, SteadySteps, SteadyPermission DEF Created
    <2>2. Living' = Living
      BY <1>4 DEF EnsureRecord, Turn, Living, OnMember
    <2>3. Permission[m] \in {"record", "write"}
      BY <1>4 DEF EnsureRecord, Turn, LetThrough, Permission
    <2>4. m \notin Tracked /\ Tracked' = Tracked \cup {m}
      BY <1>4, TrackedMoves
    <2> QED
      BY <2>1, <2>2, <2>3, <2>4 DEF Gated!Next, Gated!Record, Tracked, Living
  <1>5. CASE UnplaceForget
    <2>1. Permission' = Permission
      BY <1>5, SteadySteps, SteadyPermission
    <2>2. Living' = Living
      BY <1>5 DEF UnplaceForget, Living, OnMember
    <2>3. Tracked' = Tracked \ {fleet.m}
      BY <1>5, ForgetDeletes, TrackedMoves DEF UnplaceForget
    <2>4. CASE fleet.m \in Tracked
      BY <2>1, <2>2, <2>3, <2>4 DEF Gated!Next, Gated!Forget, Tracked, Living
    <2>5. CASE fleet.m \notin Tracked
      BY <2>1, <2>2, <2>3, <2>5 DEF Gated!Next, Tracked, Living
    <2> QED
      BY <2>4, <2>5
  <1>6. ASSUME ~AddFinalizer, ~BeginConverge, ~BeginFinalize, ~Apply, ~UnplaceForget,
               \A m \in Members : ~(EnsureRecord(m) /\ Created(m))
        PROVE  Gated!Next
    <2>1. Lessens
      BY <1>6, PassLessens
    <2>2. Tracked' = Tracked
      <3>1. rec' = rec \/ \E m \in Members, u \in Uids \cup {0} : Rewritten(m, u)
        BY <1>6, FleetWrites DEF Records
      <3> QED
        BY <3>1, TrackedMoves DEF Tracked
    <2>3. Living' = Living
      <3>1. CASE UnplaceDelete
        BY <3>1, DeleteKeeps DEF UnplaceDelete, Living, OnMember
      <3>2. CASE UNCHANGED copy
        BY <3>2 DEF Living, OnMember
      <3>3. UnplaceDelete \/ UNCHANGED copy
        BY <1>6 DEF FleetStep, UnplaceBlocked, UnplaceOrphan, UnplaceStart, EnsureRecord,
           Turn,
           UnplaceGet, UnplaceDrop, RenderFails, ApplySkipped, HeldBack, ConfirmApplied,
           FinishPass, FleetFault
      <3> QED
        BY <3>1, <3>2, <3>3
    <2> QED
      BY <2>1, <2>2, <2>3, GivesUp
  <1> QED
    BY <1>1, <1>2, <1>3, <1>4, <1>5, <1>6

LEMMA GatedSettle ==
  ASSUME TypeOK, SettleStep \/ SettleFault
  PROVE  Gated!Next
  <1> USE CurrentTypes
  <1>1. fleet' = fleet
    BY SettleStepsAlone
  <1>2. Living' = Living
    <2>1. CASE SettleDelete
      BY <2>1, DeleteKeeps DEF SettleDelete, Living, OnMember
    <2>2. CASE UNCHANGED copy
      BY <2>2 DEF Living, OnMember
    <2>3. SettleDelete \/ UNCHANGED copy
      BY DEF SettleStep, SettleContinue, SettleOrphan, SettleStart, SettleGet, SettleDrop,
         SettleForget, SettleFault
    <2> QED
      BY <2>1, <2>2, <2>3
  <1>3. Tracked' = Tracked \/ Tracked' = Tracked \ {settle.m}
    <2>1. rec' = rec \/ Deleted(settle.m)
          \/ \E m \in Members, u \in Uids \cup {0} : Rewritten(m, u)
      BY SettleWrites DEF Records
    <2> QED
      BY <2>1, TrackedMoves DEF Tracked
  <1> QED
    BY <1>1, <1>2, <1>3, Watches

LEMMA GatedEnvironment ==
  ASSUME TypeOK, Environment
  PROVE  Gated!Next
  <1> USE CurrentTypes
  <1>1. fleet' = fleet /\ Tracked' = Tracked
    BY EnvironmentReads DEF Tracked
  <1>2. ASSUME NEW m \in Members, Vanish(m) PROVE Gated!Next
    <2>1. Living' = Living \ {m}
      BY <1>2 DEF Vanish, Living, OnMember, NoCopy, TypeOK
    <2> QED
      BY <1>1, <2>1, Watches DEF Living
  <1>3. ASSUME NEW m \in Members, MemberDelete(m) PROVE Gated!Next
    <2>1. Living' = Living
      BY <1>3 DEF MemberDelete, Living, OnMember, TypeOK, Copies
    <2> QED
      BY <1>1, <2>1, Watches
  <1>4. ASSUME NEW m \in Members, MemberCreate(m) PROVE Gated!Next
    <2>1. PICK u \in FreshUid(m) :
            copy' = [copy EXCEPT ![m] = [NoCopy EXCEPT !.uid = u]]
      BY <1>4 DEF MemberCreate
    <2>2. /\ copy'[m] = [NoCopy EXCEPT !.uid = u]
          /\ \A n \in Members \ {m} : copy'[n] = copy[n]
      BY <2>1 DEF TypeOK
    <2>3. copy'[m].uid # 0
      BY <2>2, FreshUidFact DEF NoCopy
    <2>4. m \notin Living /\ Living' = Living \cup {m}
      BY <1>4, <2>2, <2>3 DEF MemberCreate, Living, OnMember
    <2> QED
      BY <1>1, <2>4, Watches
  <1>5. ASSUME UNCHANGED copy PROVE Gated!Next
    BY <1>1, <1>5, Watches DEF Living, OnMember
  <1>6. ASSUME NEW m \in Members,
               \/ SyncRecord(m) \/ Engage(m) \/ Disengage(m)
               \/ ChangeProfile(m) \/ ChangeGate(m)
        PROVE  UNCHANGED copy
    BY <1>6 DEF SyncRecord, Engage, Disengage, ChangeProfile, ChangeGate
  <1>7. SyncInstance \/ CreateInstance \/ DeleteInstance \/ ChangeDecision => UNCHANGED copy
    BY DEF SyncInstance, CreateInstance, DeleteInstance, ChangeDecision
  <1> QED
    BY <1>2, <1>3, <1>4, <1>5, <1>6, <1>7 DEF Environment

\* fleet_controller.go:286: for every fleet and any number of lives, a pass writes
\* to a member at most once, and only if it read the member as healthy and the gate
\* as open for it (PlacesThroughGate).
THEOREM GateRespected == Spec => PlacesThroughGate
  <1>1. Init => TypeOK /\ Placing /\ Gated!Init
    <2>1. Init => Placing
      BY DEF Init, Placing, FleetIdle
    <2>2. Init => Gated!Init
      BY DEF Init, Gated!Init, Permission, FleetIdle, Present, NoRecord, OnMember, NoCopy
    <2> QED
      BY <2>1, <2>2, InitType
  <1>2. TypeOK /\ Placing /\ [Next]_vars => (TypeOK /\ Placing)'
    BY NextType, PlacingNext
  <1>3. TypeOK /\ Placing /\ [Next]_vars => [Gated!Next]_(Gated!vars)
    <2>1. TypeOK /\ Placing /\ Next => Gated!Next
      BY GatedFleet, GatedSettle, GatedEnvironment DEF Next
    <2>2. UNCHANGED vars => UNCHANGED Gated!vars
      BY DEF vars, Gated!vars, Permission, Present, OnMember
    <2> QED
      BY <2>1, <2>2
  <1> QED
    BY <1>1, <1>2, <1>3, PTL DEF Spec, PlacesThroughGate, Gated!Spec

-----------------------------------------------------------------------------
(* The ledger.  What the inductive invariant lacks: an instance without its *)
(* finalizer has no records, and what is being confirmed was applied.       *)

NewIsClean == inst.st = "new" => \A m \in Members : ~Present(rec[m])
SeenApplied == fleet.pc = "confirm" => fleet.seen # 0
LInv == IInv /\ NewIsClean /\ SeenApplied

\* The ledger's entries and the members on which the confirmed copy is.
Entries == [m \in Members |-> EntryOf(rec[m])]
There == {m \in Members : ConfirmedOnMember(m)}

\* An instance that lives once goes from one phase to the next.
LEMMA InstanceMoves ==
  ASSUME MaxLives = 1, TypeOK, Phases, Next
  PROVE  \/ inst' = inst
         \/ /\ UNCHANGED <<rec, copy>>
            /\ \/ inst.st = "none" /\ cinst.st = "none" /\ inst'.st = "new"
               \/ inst.st = "new" /\ inst'.st \in {"live", "gone"}
               \/ inst.st = "live" /\ inst'.st = "deleting"
               \/ inst.st = "deleting" /\ inst'.st = "gone"
  <1> USE DEF hubVars, envVars, budgets
  <1>1. CASE AddFinalizer
    BY <1>1 DEF AddFinalizer, TypeOK, Instances
  <1>2. CASE FinishPass
    BY <1>2 DEF FinishPass, TypeOK, Instances
  <1>3. CASE CreateInstance
    BY <1>3 DEF CreateInstance, TypeOK, Instances, Phases
  <1>4. CASE DeleteInstance
    BY <1>4 DEF DeleteInstance, TypeOK, Instances
  <1>5. ASSUME NEW m \in Members,
               \/ UnplaceBlocked(m) \/ UnplaceOrphan(m) \/ UnplaceStart(m) \/ EnsureRecord(m)
               \/ SettleOrphan(m) \/ SettleStart(m)
        PROVE  inst' = inst
    BY <1>5 DEF UnplaceBlocked, UnplaceOrphan, UnplaceStart, EnsureRecord, Turn,
       SettleOrphan, SettleStart
  <1>6. ASSUME NEW m \in Members,
               \/ SyncRecord(m) \/ Engage(m) \/ Disengage(m) \/ Vanish(m)
               \/ ChangeProfile(m) \/ ChangeGate(m) \/ MemberDelete(m) \/ MemberCreate(m)
        PROVE  inst' = inst
    BY <1>6 DEF SyncRecord, Engage, Disengage, Vanish, ChangeProfile, ChangeGate,
       MemberDelete, MemberCreate, Disturb
  <1>7. CASE \/ BeginConverge \/ BeginFinalize \/ UnplaceGet \/ UnplaceDelete \/ UnplaceDrop
             \/ UnplaceForget \/ RenderFails \/ ApplySkipped
             \/ (\E m \in Members : HeldBack(m)) \/ Apply \/ ConfirmApplied
             \/ FleetFault
    BY <1>7 DEF BeginConverge, BeginFinalize, UnplaceGet, UnplaceDelete, UnplaceDrop,
       UnplaceForget, RenderFails, ApplySkipped, HeldBack, Apply, ConfirmApplied, FleetFault
  <1>8. CASE SettleContinue \/ SettleFault \/ SyncInstance \/ ChangeDecision
    BY <1>8 DEF SettleContinue, SettleGet, SettleDelete, SettleDrop, SettleForget,
       SettleFault, SyncInstance, ChangeDecision, Disturb
  <1> QED
    BY <1>1, <1>2, <1>3, <1>4, <1>5, <1>6, <1>7, <1>8
    DEF Next, FleetStep, SettleStep, Environment

\* Records are made for an instance that has its finalizer.
LEMMA CreatesLate ==
  ASSUME TypeOK, Phases, Next
  PROVE  \/ \A m \in Members : Present(rec'[m]) => Present(rec[m])
         \/ inst.st \in {"live", "deleting"}
  <1> USE CurrentTypes
  <1>1. \A m \in Members : EnsureRecord(m) => inst.st \in {"live", "deleting"}
    BY DEF EnsureRecord, Turn, Phases
  <1>2. CASE FleetStep \/ FleetFault
    BY <1>1, <1>2, FleetWrites DEF Deleted, Rewritten, Only
  <1>3. CASE SettleStep \/ SettleFault
    BY <1>3, SettleWrites DEF Deleted, Rewritten, Only
  <1> QED
    BY <1>2, <1>3, EnvironmentReads DEF Next

LEMMA NewIsCleanNext ==
  ASSUME MaxLives = 1, TypeOK, Phases, NewIsClean, [Next]_vars
  PROVE  NewIsClean'
  <1>1. CASE Next
    <2>1. CASE inst' = inst
      BY <1>1, <2>1, CreatesLate DEF NewIsClean
    <2>2. CASE inst' # inst
      BY <1>1, <2>2, InstanceMoves DEF NewIsClean, Phases
    <2> QED
      BY <2>1, <2>2
  <1> QED
    BY <1>1 DEF vars, NewIsClean

LEMMA SeenAppliedNext ==
  ASSUME TypeOK, SeenApplied, [Next]_vars
  PROVE  SeenApplied'
  <1> USE CurrentTypes
  <1>1. CASE fleet' = fleet
    BY <1>1 DEF SeenApplied
  <1>2. CASE Apply
    BY <1>2, ApplyEffect DEF SeenApplied
  <1>3. CASE FleetStep \/ FleetFault
    <2>1. ASSUME NEW m \in Members,
                 UnplaceBlocked(m) \/ UnplaceOrphan(m) \/ UnplaceStart(m) \/ EnsureRecord(m)
          PROVE  fleet'.pc \in {"loop", "get", "apply", "idle"}
      <3>1. CASE UnplaceBlocked(m) \/ UnplaceOrphan(m)
        BY <3>1, UnplacedFields, EndPassFields DEF UnplaceBlocked, UnplaceOrphan
      <3>2. CASE UnplaceStart(m)
        BY <3>2, EndPassFields, TakeUpFields, Contents DEF UnplaceStart
      <3>3. CASE EnsureRecord(m)
        BY <3>3, EndPassFields, TakeUpFields, Contents DEF EnsureRecord, Turn
      <3> QED
        BY <2>1, <3>1, <3>2, <3>3
    <2>2. CASE UnplaceGet \/ UnplaceDelete \/ UnplaceDrop \/ UnplaceForget
      BY <2>2, UnplacedFields, HoldFields, ProceedFields, EndPassFields, Contents
      DEF UnplaceGet, UnplaceDelete, UnplaceDrop, UnplaceForget, SeenApplied
    <2>3. CASE \/ AddFinalizer \/ BeginConverge \/ BeginFinalize \/ RenderFails
               \/ ApplySkipped \/ (\E m \in Members : HeldBack(m)) \/ ConfirmApplied
               \/ FinishPass \/ FleetFault
      BY <2>3, BeginFields, PlaceDoneFields, EndPassFields
      DEF AddFinalizer, BeginConverge, BeginFinalize, RenderFails, ApplySkipped, HeldBack,
          ConfirmApplied, FinishPass, FleetFault, SeenApplied
    <2> QED
      BY <1>2, <1>3, <2>1, <2>2, <2>3 DEF FleetStep, SeenApplied
  <1> QED
    BY <1>1, <1>3, SettleStepsAlone, EnvironmentReads DEF Next, vars

\* The moves of the ledger.
LEMMA LedgerKeeps ==
  ASSUME Entries' = Entries, There' = There, LedgerPhase' = LedgerPhase
  PROVE  UNCHANGED Ledger!vars
  BY DEF Ledger!vars, Entries, There

LEMMA LedgerLeaves ==
  ASSUME NEW m \in Members, Entries' = Entries, LedgerPhase' = LedgerPhase,
         There' = There \/ (m \in There /\ There' = There \ {m})
  PROVE  [Ledger!Next]_(Ledger!vars)
  BY LedgerKeeps DEF Ledger!Next, Ledger!Leave, Entries, There

LEMMA LedgerForgets ==
  ASSUME Coherent, NEW m \in Members, Deleted(m), ~ConfirmedOnMember(m), copy' = copy,
         LedgerPhase' = LedgerPhase
  PROVE  [Ledger!Next]_(Ledger!vars)
  <1>1. There' = There /\ m \notin There
    BY DEF Deleted, Only, There, ConfirmedOnMember, OnMember
  <1>2. CASE ~Present(rec[m])
    <2>1. Entries' = Entries
      BY <1>2 DEF Deleted, Only, Entries, EntryOf
    <2> QED
      BY <1>1, <2>1, LedgerKeeps
  <1>3. CASE Present(rec[m])
    <2>1. Entries[m] # "out"
      BY <1>3 DEF Entries, EntryOf
    <2>2. Entries' = [Entries EXCEPT ![m] = "out"]
      BY DEF Deleted, Only, Entries, EntryOf
    <2> QED
      BY <1>1, <2>1, <2>2 DEF Ledger!Next, Ledger!Forget, Entries, There
  <1> QED
    BY <1>2, <1>3

LEMMA LedgerIntends ==
  ASSUME Coherent, NEW m \in Members, Created(m), copy' = copy,
         inst.st \in {"live", "deleting"}, inst' = inst
  PROVE  Ledger!Next
  <1>1. There' = There
    BY DEF Coherent, Created, Only, There, ConfirmedOnMember, OnMember
  <1>2. Entries[m] = "out" /\ Entries' = [Entries EXCEPT ![m] = "intended"]
    BY DEF Created, Only, Entries, EntryOf
  <1>3. LedgerPhase \in {"open", "closing"} /\ LedgerPhase' = LedgerPhase
    BY DEF LedgerPhase
  <1> QED
    BY <1>1, <1>2, <1>3 DEF Ledger!Next, Ledger!Intend, Ledger!Unreleased, Entries, There

LEMMA LedgerRewrites ==
  ASSUME NEW m \in Members, NEW u \in Uids \cup {0}, Rewritten(m, u), copy' = copy,
         LedgerPhase' = LedgerPhase,
         \/ u = rec[m].uid
         \/ ~ConfirmedOnMember(m) /\ (u = 0 \/ LedgerPhase \in {"open", "closing"})
  PROVE  [Ledger!Next]_(Ledger!vars)
  <1>1. CASE u = rec[m].uid
    <2>1. There' = There /\ Entries' = Entries
      BY <1>1 DEF Rewritten, Only, There, ConfirmedOnMember, OnMember, Entries, EntryOf
    <2> QED
      BY <2>1, LedgerKeeps
  <1>2. CASE u = 0 /\ rec[m].uid # 0 /\ ~ConfirmedOnMember(m)
    <2>1. There' = There /\ m \notin There
      BY <1>2 DEF Rewritten, Only, There, ConfirmedOnMember, OnMember
    <2>2. Entries[m] = "confirmed" /\ Entries' = [Entries EXCEPT ![m] = "intended"]
      BY <1>2 DEF Rewritten, Only, Entries, EntryOf
    <2> QED
      BY <2>1, <2>2 DEF Ledger!Next, Ledger!Drop, Entries, There
  <1>3. CASE u # 0 /\ ~ConfirmedOnMember(m) /\ LedgerPhase \in {"open", "closing"}
    <2>1. m \notin There /\ (There' = There \/ There' = There \cup {m})
      BY <1>3 DEF Rewritten, Only, There, ConfirmedOnMember, OnMember
    <2>2. Entries[m] # "out" /\ Entries' = [Entries EXCEPT ![m] = "confirmed"]
      BY <1>3 DEF Rewritten, Only, Entries, EntryOf
    <2> QED
      BY <1>3, <2>1, <2>2
      DEF Ledger!Next, Ledger!Confirm, Ledger!Unreleased, Entries, There
  <1> QED
    BY <1>1, <1>2, <1>3

\* The steps, seen by the ledger.
LEMMA LedgerOfFleet ==
  ASSUME TypeOK, Phases, Coherent, Cleanings, Confirming, SeenApplied,
         FleetStep \/ FleetFault, rec' # rec, copy' = copy, inst' = inst
  PROVE  [Ledger!Next]_(Ledger!vars)
  <1> USE CurrentTypes
  <1>1. LedgerPhase' = LedgerPhase
    BY DEF LedgerPhase
  <1>2. ASSUME NEW m \in Members, EnsureRecord(m), Created(m)
        PROVE  [Ledger!Next]_(Ledger!vars)
    <2>1. inst.st \in {"live", "deleting"}
      BY <1>2 DEF EnsureRecord, Turn, Phases
    <2> QED
      BY <1>2, <2>1, LedgerIntends
  <1>3. CASE UnplaceForget /\ Deleted(fleet.m)
    <2>1. ~ConfirmedOnMember(fleet.m)
      BY <1>3 DEF UnplaceForget, Cleanings, Cleaning
    <2> QED
      BY <1>1, <1>3, <2>1, LedgerForgets
  <1>4. ASSUME NEW m \in Members, NEW r \in Records,
               Stored(m, fleet.recs[m], r), Rewritten(m, fleet.recs[m].uid)
        PROVE  [Ledger!Next]_(Ledger!vars)
    <2>1. fleet.recs[m].uid = rec[m].uid /\ rec[m].uid \in Uids \cup {0}
      BY <1>4, HeldIsCurrent DEF Records
    <2> QED
      BY <1>1, <1>4, <2>1, LedgerRewrites
  <1>5. ASSUME NEW r \in Records, UnplaceDrop, fleet.recs[fleet.m].uid # 0,
               Stored(fleet.m, fleet.recs[fleet.m], r), Rewritten(fleet.m, 0)
        PROVE  [Ledger!Next]_(Ledger!vars)
    <2>1. fleet.recs[fleet.m] = rec[fleet.m]
      BY <1>5, HeldIsCurrent
    <2>2. ~ConfirmedOnMember(fleet.m)
      BY <1>5, <2>1 DEF UnplaceDrop, Cleanings, Cleaning, Clear, ConfirmedOnMember
    <2> QED
      BY <1>1, <1>5, <2>2, LedgerRewrites
  <1>6. ASSUME NEW r \in Records, ConfirmApplied, fleet.recs[fleet.m].uid # fleet.seen,
               Stored(fleet.m, fleet.recs[fleet.m], r), Rewritten(fleet.m, fleet.seen)
        PROVE  [Ledger!Next]_(Ledger!vars)
    <2>1. fleet.recs[fleet.m] = rec[fleet.m]
      BY <1>6, HeldIsCurrent
    <2>2. ~ConfirmedOnMember(fleet.m)
      BY <1>6, <2>1 DEF ConfirmApplied, Confirming, ConfirmedOnMember, OnMember
    <2>3. LedgerPhase \in {"open", "closing"}
      BY <1>6 DEF ConfirmApplied, Phases, LedgerPhase
    <2> QED
      BY <1>1, <1>6, <2>2, <2>3, LedgerRewrites
  <1> QED
    BY <1>2, <1>3, <1>4, <1>5, <1>6, FleetWrites

LEMMA LedgerOfSettle ==
  ASSUME TypeOK, Coherent, Cleanings, SettleStep \/ SettleFault, rec' # rec,
         copy' = copy, inst' = inst
  PROVE  [Ledger!Next]_(Ledger!vars)
  <1> USE CurrentTypes
  <1>1. LedgerPhase' = LedgerPhase
    BY DEF LedgerPhase
  <1>2. CASE SettleForget /\ Deleted(settle.m)
    <2>1. ~ConfirmedOnMember(settle.m)
      BY <1>2 DEF SettleForget, Cleanings, Cleaning
    <2> QED
      BY <1>1, <1>2, <2>1, LedgerForgets
  <1>3. ASSUME NEW m \in Members, NEW r \in Records,
               Stored(m, crec[m], r), Rewritten(m, crec[m].uid)
        PROVE  [Ledger!Next]_(Ledger!vars)
    <2>1. crec[m].uid = rec[m].uid /\ rec[m].uid \in Uids \cup {0}
      BY <1>3, HeldIsCurrent DEF Records
    <2> QED
      BY <1>1, <1>3, <2>1, LedgerRewrites
  <1>4. ASSUME NEW r \in Records, SettleDrop, settle.rec.uid # 0,
               Stored(settle.m, settle.rec, r), Rewritten(settle.m, 0)
        PROVE  [Ledger!Next]_(Ledger!vars)
    <2>1. settle.rec = rec[settle.m]
      BY <1>4, HeldIsCurrent
    <2>2. ~ConfirmedOnMember(settle.m)
      BY <1>4, <2>1 DEF SettleDrop, Cleanings, Cleaning, Clear, ConfirmedOnMember
    <2> QED
      BY <1>1, <1>4, <2>2, LedgerRewrites
  <1> QED
    BY <1>2, <1>3, <1>4, SettleWrites

\* On the members, a confirmed copy can only go.
LEMMA ThereMoves ==
  ASSUME TypeOK, Coherent, Next, rec' = rec
  PROVE  There' = There \/ \E m \in There : There' = There \ {m}
  <1> USE CurrentTypes
  <1>1. CASE UNCHANGED copy
    BY <1>1 DEF There, ConfirmedOnMember, OnMember
  <1>2. CASE Apply
    BY <1>2, ApplyEffect, FreshUidFact DEF There, ConfirmedOnMember, OnMember
  <1>3. CASE UnplaceDelete \/ SettleDelete
    BY <1>3, DeleteKeeps DEF UnplaceDelete, SettleDelete, There, ConfirmedOnMember, OnMember
  <1>4. ASSUME NEW m \in Members, Vanish(m) PROVE There' = There \ {m}
    BY <1>4 DEF Vanish, There, ConfirmedOnMember, OnMember, NoCopy, TypeOK
  <1>5. ASSUME NEW m \in Members, MemberDelete(m) PROVE There' = There
    BY <1>5 DEF MemberDelete, There, ConfirmedOnMember, OnMember, TypeOK, Copies
  <1>6. ASSUME NEW m \in Members, MemberCreate(m) PROVE There' = There
    <2>1. PICK u \in FreshUid(m) :
            copy' = [copy EXCEPT ![m] = [NoCopy EXCEPT !.uid = u]]
      BY <1>6 DEF MemberCreate
    <2>2. /\ copy'[m] = [NoCopy EXCEPT !.uid = u]
          /\ \A n \in Members \ {m} : copy'[n] = copy[n]
      BY <2>1 DEF TypeOK
    <2>3. copy'[m].uid # rec[m].uid
      BY <2>2, FreshUidFact DEF NoCopy
    <2> QED
      BY <1>6, <2>2, <2>3 DEF MemberCreate, There, ConfirmedOnMember, OnMember
  <1> QED
    BY <1>1, <1>2, <1>3, <1>4, <1>5, <1>6, CopyChangers DEF There

LEMMA LedgerStep ==
  ASSUME MaxLives = 1, LInv, [Next]_vars
  PROVE  [Ledger!Next]_(Ledger!vars)
  <1> USE DEF LInv, IInv
  <1>1. CASE UNCHANGED vars
    <2>1. Entries' = Entries /\ There' = There /\ LedgerPhase' = LedgerPhase
      BY <1>1 DEF vars, Entries, There, LedgerPhase, ConfirmedOnMember, OnMember
    <2> QED
      BY <2>1, LedgerKeeps
  <1>2. CASE Next /\ rec' = rec /\ inst' = inst
    <2>1. Entries' = Entries /\ LedgerPhase' = LedgerPhase
      BY <1>2 DEF Entries, LedgerPhase
    <2> QED
      BY <1>2, <2>1, ThereMoves, LedgerKeeps, LedgerLeaves DEF There
  <1>3. CASE Next /\ rec' # rec /\ inst' = inst
    <2>1. copy' = copy
      BY <1>3, RecordWritersSpareCopies
    <2> QED
      BY <1>3, <2>1, LedgerOfFleet, LedgerOfSettle, EnvironmentReads DEF Next
  <1>4. CASE Next /\ inst' # inst
    <2>1. Entries' = Entries /\ There' = There
      BY <1>4, InstanceMoves DEF Entries, There, ConfirmedOnMember, OnMember
    <2>2. CASE inst.st = "none" /\ inst'.st = "new"
      BY <2>1, <2>2 DEF LedgerPhase, Ledger!Next, Ledger!Open, Entries, There
    <2>3. CASE inst.st = "new" /\ inst'.st = "live"
      <3>1. LedgerPhase' = LedgerPhase
        BY <2>3 DEF LedgerPhase
      <3> QED
        BY <2>1, <3>1, LedgerKeeps
    <2>4. CASE inst.st = "new" /\ inst'.st = "gone"
      <3>1. \A m \in Members : Entries[m] = "out"
        BY <2>4 DEF NewIsClean, Entries, EntryOf
      <3> QED
        BY <2>1, <2>4, <3>1 DEF LedgerPhase, Ledger!Next, Ledger!Release, Entries, There
    <2>5. CASE inst.st = "live" /\ inst'.st = "deleting"
      BY <2>1, <2>5 DEF LedgerPhase, Ledger!Next, Ledger!Close, Entries, There
    <2>6. CASE inst.st = "deleting" /\ inst'.st = "gone"
      BY <2>1, <2>6 DEF LedgerPhase, Ledger!Next, Ledger!Release, Entries, There
    <2> QED
      BY <1>4, <2>2, <2>3, <2>4, <2>5, <2>6, InstanceMoves
  <1> QED
    BY <1>1, <1>2, <1>3, <1>4

LEMMA LInvInit == Init => LInv
  BY InitIInv DEF Init, LInv, NewIsClean, SeenApplied, FleetIdle

LEMMA LInvNext ==
  ASSUME MaxLives = 1, LInv, [Next]_vars
  PROVE  LInv'
  BY NextIInv, NewIsCleanNext, SeenAppliedNext DEF LInv, IInv

LEMMA LedgerInit == Init => Ledger!Init
  BY DEF Init, Ledger!Init, LedgerPhase, EntryOf, Present, NoRecord, ConfirmedOnMember,
     OnMember, NoCopy

\* inventory.go, record_controller.go: for an instance that lives once, the records
\* of any fleet are the ledger that PlacementLedger promises (KeepsLedger).
THEOREM LedgerRefined ==
  ASSUME MaxLives = 1
  PROVE  Spec => KeepsLedger
  <1>1. Init => LInv /\ Ledger!Init
    BY LInvInit, LedgerInit
  <1>2. LInv /\ [Next]_vars => LInv'
    BY LInvNext
  <1>3. LInv /\ [Next]_vars => [Ledger!Next]_(Ledger!vars)
    BY LedgerStep
  <1> QED
    BY <1>1, <1>2, <1>3, PTL DEF Spec, KeepsLedger, Ledger!Spec
=============================================================================
