--------------------- MODULE DefinitionDistributionProofs ---------------------
(***************************************************************************)
(* Proofs about DefinitionDistribution, for every set of members, every    *)
(* supply of UIDs and resource versions, and every bound.                  *)
(***************************************************************************)
EXTENDS DefinitionDistribution, TLAPS

USE MembersAssumption, UidsAssumption, VersionsAssumption, BoundsAssumption

-----------------------------------------------------------------------------
(* The model's helpers, field by field.                                     *)

LEMMA FreshVersionFact ==
  ASSUME NEW v \in FreshVersion
  PROVE  v \in Versions /\ v # 0 /\ v # def.rv /\ v # cdef.rv /\ v # pass.def.rv
  BY DEF FreshVersion, Least

LEMMA FreshUidFact ==
  ASSUME NEW m \in Members, NEW u \in FreshUid(m)
  PROVE  u \in Uids /\ u # 0 /\ u # def.entry[m].uid /\ u # cdef.entry[m].uid
         /\ u # pass.def.entry[m].uid /\ u # pass.seen
  BY DEF FreshUid, Least

LEMMA NoEntryType == NoEntry \in Entries
  BY DEF NoEntry, Entries

LEMMA NoDefinitionType == NoDefinition \in Definitions
  BY NoEntryType DEF NoDefinition, Definitions, Revisions

LEMMA PassIdleType == PassIdle \in Passes
  BY NoEntryType, NoDefinitionType DEF PassIdle, Passes, SomeMember, Profiles

LEMMA CurrentTypes ==
  ASSUME TypeOK
  PROVE  /\ pass.m \in Members /\ pass.def \in Definitions /\ pass.def.rev \in Revisions
         /\ pass.seen \in Uids \cup {0}
         /\ \A m \in Members : /\ copy[m] \in Copies /\ copy[m].rev \in Revisions \cup {0}
                               /\ copy[m].uid \in Uids \cup {0}
                               /\ pass.def.entry[m] \in Entries
                               /\ pass.out[m] \in Entries
                               /\ def.entry[m] \in Entries /\ cdef.entry[m] \in Entries
                               /\ served[m] \subseteq Revisions \cup {0}
  BY DEF TypeOK, Passes, Copies, Definitions

\* The entries a pass computes.
LEMMA EntryTypes ==
  ASSUME NEW e \in Entries
  PROVE  /\ [e EXCEPT !.applied = FALSE] \in Entries
         /\ [e EXCEPT !.applied = FALSE, !.reason = "removing"] \in Entries
         /\ \A r \in Revisions : Unreached(e, r) \in Entries
         /\ Failed(e) \in Entries
  BY DEF Entries, Unreached, Failed

LEMMA ReadBackType ==
  ASSUME NEW e \in Entries, NEW c \in Copies, NEW r \in Revisions
  PROVE  ReadBack(e, c, r) \in Entries
  <1>1. c.rev \in Revisions \cup {0} /\ c.uid \in Uids \cup {0} /\ c.verdict \in {"none", "active", "refused"}
    BY DEF Copies
  <1>2. /\ (IF AcceptedCopy(c) THEN c.rev ELSE e.accepted) \in Revisions \cup {0}
        /\ (IF Fresh(c) THEN c.verdict ELSE "unknown") \in {"none", "unknown", "active", "refused"}
    BY <1>1 DEF Entries
  <1> DEFINE a == IF AcceptedCopy(c) THEN c.rev ELSE e.accepted
             v == IF Fresh(c) THEN c.verdict ELSE "unknown"
             applied == c.rev = r
  <1>3. ReadBack(e, c, r) = [e EXCEPT !.listed = TRUE, !.applied = applied, !.held = c.rev,
                               !.uid = c.uid, !.accepted = a, !.verdict = v, !.reason = "none"]
    BY DEF ReadBack, Entries
  <1>4. applied \in BOOLEAN
    OBVIOUS
  <1> HIDE DEF a, v, applied
  <1> QED
    BY <1>1, <1>2, <1>3, <1>4 DEF Entries, a, v

LEMMA GuardedType ==
  ASSUME NEW e \in Entries, NEW c \in Copies
  PROVE  Guarded(e, c) \in Entries
  <1> DEFINE a == IF AcceptedCopy(c) THEN c.rev ELSE e.accepted
             applied == c.rev = pass.def.hash
             r == c.rev
             u == c.uid
             v == c.verdict
  <1>1. r \in Revisions \cup {0} /\ u \in Uids \cup {0} /\ v \in {"none", "active", "refused"}
    BY DEF Copies
  <1>2. e.accepted \in Revisions \cup {0}
    BY DEF Entries
  <1>3. a \in Revisions \cup {0}
    BY <1>1, <1>2
  <1>4. applied \in BOOLEAN
    OBVIOUS
  <1>5. Guarded(e, c) = IF u = 0 THEN [e EXCEPT !.applied = FALSE]
                        ELSE [e EXCEPT !.applied = applied, !.held = r, !.uid = u,
                                       !.accepted = a, !.verdict = v, !.reason = "none"]
    BY DEF Guarded, Entries
  <1> HIDE DEF a, applied, r, u, v
  <1>6. [e EXCEPT !.applied = FALSE] \in Entries
    BY EntryTypes
  <1>7. [e EXCEPT !.applied = applied, !.held = r, !.uid = u,
                  !.accepted = a, !.verdict = v, !.reason = "none"] \in Entries
    BY <1>1, <1>3, <1>4 DEF Entries
  <1> QED
    BY <1>5, <1>6, <1>7

\* What the moves of a pass do.
LEMMA SettledFields ==
  ASSUME TypeOK, NEW m \in Members, NEW e \in Entries, NEW L \in SUBSET Members,
         Settled(m, e, L)
  PROVE  /\ pass' \in Passes
         /\ pass'.pc = "loop" /\ pass'.def = pass.def /\ pass'.prof = pass.prof
         /\ pass'.seen = 0 /\ pass'.leaving = pass.leaving \cup L
         /\ pass'.rm = pass.rm \ {m} /\ pass'.put = pass.put \ {m}
         /\ \A n \in Members : pass'.out[n] = IF n = m THEN e ELSE pass.out[n]
  BY DEF TypeOK, Settled, Passes, SomeMember

LEMMA HeldFields ==
  ASSUME TypeOK, NEW m \in Members, NEW e \in Entries, Held(m, e)
  PROVE  Settled(m, e, {m}) /\ pass' \in Passes
  BY SettledFields DEF Held

LEMMA PendingFields ==
  ASSUME TypeOK, NEW m \in Members, Pending(m)
  PROVE  /\ Settled(m, [pass.def.entry[m] EXCEPT !.applied = FALSE, !.reason = "removing"], {m})
         /\ pass' \in Passes
  BY CurrentTypes, EntryTypes, HeldFields DEF Pending, Held

LEMMA RemovedFields ==
  ASSUME TypeOK, NEW m \in Members, Removed(m)
  PROVE  Settled(m, NoEntry, {}) /\ pass' \in Passes
  BY NoEntryType, SettledFields DEF Removed

LEMMA MoveFields ==
  ASSUME TypeOK,
         \/ \E m \in Members : pass' = [pass EXCEPT !.pc = "get", !.m = m]
         \/ \E u \in Uids \cup {0} : pass' = [pass EXCEPT !.pc = "delete", !.seen = u]
  PROVE  /\ pass' \in Passes
         /\ pass'.def = pass.def /\ pass'.out = pass.out /\ pass'.leaving = pass.leaving
         /\ pass'.rm = pass.rm /\ pass'.put = pass.put /\ pass'.prof = pass.prof
  <1>1. pass \in Passes
    BY DEF TypeOK
  <1>2. ASSUME NEW m \in Members, pass' = [pass EXCEPT !.pc = "get", !.m = m]
        PROVE  pass' \in Passes /\ pass'.def = pass.def /\ pass'.out = pass.out
               /\ pass'.leaving = pass.leaving /\ pass'.rm = pass.rm
               /\ pass'.put = pass.put /\ pass'.prof = pass.prof
    BY <1>1, <1>2 DEF Passes
  <1>3. ASSUME NEW u \in Uids \cup {0}, pass' = [pass EXCEPT !.pc = "delete", !.seen = u]
        PROVE  pass' \in Passes /\ pass'.def = pass.def /\ pass'.out = pass.out
               /\ pass'.leaving = pass.leaving /\ pass'.rm = pass.rm
               /\ pass'.put = pass.put /\ pass'.prof = pass.prof
    BY <1>1, <1>3 DEF Passes
  <1> QED
    BY <1>2, <1>3

LEMMA StartFields ==
  ASSUME NEW d, NEW R, NEW P
  PROVE  /\ StartOf(d, R, P).pc = "loop" /\ StartOf(d, R, P).def = d
         /\ StartOf(d, R, P).prof = prof /\ StartOf(d, R, P).seen = 0
         /\ StartOf(d, R, P).rm = R /\ StartOf(d, R, P).put = P
         /\ StartOf(d, R, P).leaving = {}
         /\ \A m \in Members : StartOf(d, R, P).out[m] = NoEntry
  BY DEF StartOf, PassIdle

LEMMA StartInPasses ==
  ASSUME TypeOK, NEW d \in Definitions, NEW R \in SUBSET Members, NEW P \in SUBSET Members
  PROVE  StartOf(d, R, P) \in Passes
  <1>1. prof \in [Members -> Profiles]
    BY DEF TypeOK
  <1>2. PassIdle \in Passes
    BY PassIdleType
  <1>3. [PassIdle EXCEPT !.pc = "loop", !.def = d, !.prof = prof, !.rm = R, !.put = P] \in Passes
    BY <1>1, <1>2 DEF Passes
  <1> QED
    BY <1>3 DEF StartOf

LEMMA EndFields ==
  ASSUME EndPass
  PROVE  /\ pass' \in Passes /\ pass'.pc = "idle" /\ pass'.def = NoDefinition
         /\ pass'.leaving = {} /\ \A m \in Members : pass'.out[m] = NoEntry
  BY PassIdleType DEF EndPass, PassIdle

-----------------------------------------------------------------------------
(* Type correctness.                                                        *)

LEMMA InitType == Init => TypeOK
  <1> SUFFICES ASSUME Init PROVE TypeOK
    OBVIOUS
  <1>1. copy \in [Members -> Copies] /\ prof \in [Members -> Profiles]
    BY DEF Init, Copies, NoCopy, Profiles
  <1>2. served \in [Members -> SUBSET (Revisions \cup {0})]
    BY DEF Init
  <1>3. /\ rec \subseteq Members /\ live \subseteq Members
        /\ placing \in [Members -> Placement!Permissions]
    BY DEF Init, Placement!Init, Placement!Permissions
  <1> QED
    BY <1>1, <1>2, <1>3, NoDefinitionType, PassIdleType DEF Init, TypeOK

\* An update of the object on the API server.
LEMMA WriteType ==
  ASSUME TypeOK, NEW d \in Definitions, Write(d)
  PROVE  def' \in Definitions
  <1>1. CASE UNCHANGED def
    BY <1>1 DEF TypeOK
  <1>2. ASSUME NEW v \in FreshVersion, def' = [d EXCEPT !.rv = v] PROVE def' \in Definitions
    <2>1. v \in Versions
      BY FreshVersionFact
    <2> QED
      BY <1>2, <2>1 DEF Definitions
  <1> QED
    BY <1>1, <1>2 DEF Write

\* The copies a write or a call on a member leaves.
LEMMA RewrittenType ==
  ASSUME NEW c \in Copies, NEW r \in Revisions
  PROVE  [c EXCEPT !.ours = TRUE, !.rev = r, !.evaluated = @ /\ c.rev = r] \in Copies
  <1> DEFINE evaluated == c.evaluated /\ c.rev = r
  <1>1. evaluated \in BOOLEAN
    OBVIOUS
  <1>2. [c EXCEPT !.ours = TRUE, !.rev = r, !.evaluated = @ /\ c.rev = r]
          = [c EXCEPT !.ours = TRUE, !.rev = r, !.evaluated = evaluated]
    BY DEF Copies
  <1> HIDE DEF evaluated
  <1> QED
    BY <1>1, <1>2 DEF Copies

LEMMA NewCopyType ==
  ASSUME NEW m \in Members, NEW u \in FreshUid(m), NEW r \in Revisions
  PROVE  /\ [NoCopy EXCEPT !.uid = u, !.ours = TRUE, !.rev = r] \in Copies
         /\ [NoCopy EXCEPT !.uid = u] \in Copies
  <1>1. u \in Uids
    BY FreshUidFact
  <1> QED
    BY <1>1 DEF Copies, NoCopy

LEMMA StartType ==
  ASSUME TypeOK, AddFinalizer \/ BeginConverge \/ BeginFinalize PROVE TypeOK'
  <1> USE DEF hubVars, instanceVars, envVars, budgets, Began
  <1>0. \A d \in Definitions : Converge(d) \in Passes /\ StartOf(d, Listed(d), {}) \in Passes
    <2> TAKE d \in Definitions
    <2>1. Listed(d) \in SUBSET Members /\ DefinitionTargets(d) \in SUBSET Members
      BY DEF Listed, DefinitionTargets, TypeOK
    <2> QED
      BY <2>1, StartInPasses DEF Converge
  <1>1. CASE AddFinalizer
    <2>1. PICK v \in FreshVersion : /\ def' = [def EXCEPT !.st = "live", !.rv = v]
                                    /\ pass' = Converge([def EXCEPT !.st = "live", !.rv = v])
      BY <1>1 DEF AddFinalizer
    <2>2. [def EXCEPT !.st = "live", !.rv = v] \in Definitions
      BY FreshVersionFact DEF TypeOK, Definitions
    <2>3. def' \in Definitions /\ pass' \in Passes
      BY <1>0, <2>1, <2>2
    <2> QED
      BY <1>1, <2>3 DEF AddFinalizer, TypeOK
  <1>2. CASE BeginConverge
    BY <1>0, <1>2 DEF BeginConverge, TypeOK
  <1>3. CASE BeginFinalize
    BY <1>0, <1>3 DEF BeginFinalize, TypeOK
  <1> QED
    BY <1>1, <1>2, <1>3

LEMMA DyingType ==
  ASSUME copy \in [Members -> Copies], NEW m \in Members
  PROVE  [copy EXCEPT ![m].dying = TRUE] \in [Members -> Copies]
  <1>1. [copy[m] EXCEPT !.dying = TRUE] \in Copies
    <2>1. copy[m] \in Copies
      OBVIOUS
    <2> QED
      BY <2>1 DEF Copies
  <1>2. [copy EXCEPT ![m].dying = TRUE] = [copy EXCEPT ![m] = [copy[m] EXCEPT !.dying = TRUE]]
    OBVIOUS
  <1> QED
    BY <1>1, <1>2

RemoveStep ==
    \/ \E m \in Members : RemoveBlindly(m) \/ RemoveGuarded(m) \/ RemoveUnlisted(m)
    \/ RemoveGet \/ RemoveDelete
DistributeStep ==
    \E m \in Members : DistributeSkipped(m) \/ Distribute(m) \/ DistributeFailed(m)

LEMMA RemoveType ==
  ASSUME TypeOK, RemoveStep PROVE TypeOK'
  <1> USE DEF hubVars, instanceVars, envVars, budgets, history
  <1>1. ASSUME NEW m \in Members, RemoveBlindly(m) PROVE TypeOK'
    <2>1. pass' \in Passes
      <3>1. [pass.def.entry[m] EXCEPT !.applied = FALSE] \in Entries
        BY CurrentTypes, EntryTypes
      <3> QED
        BY <1>1, <3>1, HeldFields, PendingFields, RemovedFields DEF RemoveBlindly
    <2> QED
      BY <1>1, <2>1 DEF RemoveBlindly, TypeOK
  <1>2. ASSUME NEW m \in Members, RemoveGuarded(m) PROVE TypeOK'
    <2>1. ASSUME Held(m, Guarded(pass.def.entry[m], copy[m])) PROVE pass' \in Passes
      <3>1. Guarded(pass.def.entry[m], copy[m]) \in Entries
        BY CurrentTypes, GuardedType
      <3> QED
        BY <2>1, <3>1, HeldFields
    <2>2. ASSUME pass' = [pass EXCEPT !.pc = "get", !.m = m] PROVE pass' \in Passes
      BY <2>2, MoveFields
    <2>3. pass' \in Passes
      BY <1>2, <2>1, <2>2 DEF RemoveGuarded, TypeOK
    <2> QED
      BY <1>2, <2>3 DEF RemoveGuarded, TypeOK
  <1>3. ASSUME NEW m \in Members, RemoveUnlisted(m) PROVE TypeOK'
    <2>1. pass' \in Passes
      BY <1>3, PendingFields DEF RemoveUnlisted
    <2> QED
      BY <1>3, <2>1 DEF RemoveUnlisted, TypeOK
  <1>4. CASE RemoveGet
    <2>1. ASSUME pass' = [pass EXCEPT !.pc = "delete", !.seen = copy[pass.m].uid]
          PROVE  pass' \in Passes
      BY <2>1, CurrentTypes, MoveFields
    <2>2. ASSUME Removed(pass.m) \/ Pending(pass.m) PROVE pass' \in Passes
      BY <2>2, CurrentTypes, RemovedFields, PendingFields
    <2>3. \/ Removed(pass.m) \/ Pending(pass.m)
          \/ pass' = [pass EXCEPT !.pc = "delete", !.seen = copy[pass.m].uid]
      BY <1>4 DEF RemoveGet
    <2>4. pass' \in Passes
      BY <2>1, <2>2, <2>3
    <2> QED
      BY <1>4, <2>4 DEF RemoveGet, TypeOK
  <1>5. CASE RemoveDelete
    <2>1. copy \in [Members -> Copies]
      BY DEF TypeOK
    <2>2. copy' \in [Members -> Copies]
      BY <1>5, <2>1, CurrentTypes, DyingType DEF RemoveDelete
    <2>3. pass' \in Passes
      BY <1>5, CurrentTypes, RemovedFields, PendingFields DEF RemoveDelete
    <2> QED
      BY <1>5, <2>2, <2>3 DEF RemoveDelete, TypeOK
  <1> QED
    BY <1>1, <1>2, <1>3, <1>4, <1>5 DEF RemoveStep

LEMMA AppliedType ==
  ASSUME TypeOK, NEW m \in Members, NEW c \in Copies, Applied(m, c)
  PROVE  copy' \in [Members -> Copies] /\ pass' \in Passes
  <1>1. copy \in [Members -> Copies]
    BY DEF TypeOK
  <1>2. ReadBack(pass.def.entry[m], c, pass.def.rev) \in Entries
    BY CurrentTypes, ReadBackType
  <1> QED
    BY <1>1, <1>2, SettledFields DEF Applied

LEMMA DistributeType ==
  ASSUME TypeOK, DistributeStep PROVE TypeOK'
  <1> USE DEF hubVars, instanceVars, envVars, budgets, history
  <1>0. ASSUME NEW m \in Members
        PROVE  /\ Unreached(pass.def.entry[m], pass.def.rev) \in Entries
               /\ Failed(pass.def.entry[m]) \in Entries
    BY CurrentTypes, EntryTypes
  <1>1. ASSUME NEW m \in Members, DistributeSkipped(m) PROVE TypeOK'
    <2>1. pass' \in Passes
      BY <1>0, <1>1, SettledFields DEF DistributeSkipped
    <2> QED
      BY <1>1, <2>1 DEF DistributeSkipped, TypeOK
  <1>2. ASSUME NEW m \in Members, DistributeFailed(m) PROVE TypeOK'
    <2>1. pass' \in Passes
      BY <1>0, <1>2, SettledFields DEF DistributeFailed
    <2> QED
      BY <1>2, <2>1 DEF DistributeFailed, TypeOK
  <1>3. ASSUME NEW m \in Members, Distribute(m) PROVE TypeOK'
    <2>1. copy' \in [Members -> Copies] /\ pass' \in Passes
      <3>1. CASE Applied(m, [copy[m] EXCEPT !.ours = TRUE, !.rev = pass.def.rev,
                                            !.evaluated = @ /\ copy[m].rev = pass.def.rev])
        <4>1. [copy[m] EXCEPT !.ours = TRUE, !.rev = pass.def.rev,
                              !.evaluated = @ /\ copy[m].rev = pass.def.rev] \in Copies
          BY CurrentTypes, RewrittenType
        <4> QED
          BY <3>1, <4>1, AppliedType
      <3>2. ASSUME NEW u \in FreshUid(m),
                   Applied(m, [NoCopy EXCEPT !.uid = u, !.ours = TRUE, !.rev = pass.def.rev])
            PROVE  copy' \in [Members -> Copies] /\ pass' \in Passes
        BY <3>2, CurrentTypes, NewCopyType, AppliedType
      <3> QED
        BY <1>3, <3>1, <3>2 DEF Distribute
    <2> QED
      BY <1>3, <2>1 DEF Distribute, TypeOK
  <1> QED
    BY <1>1, <1>2, <1>3 DEF DistributeStep

\* What the rollup makes of a definition.
LEMMA RollupKeeps ==
  ASSUME NEW d \in Definitions, NEW T, NEW entry, NEW L
  PROVE  Rollup(d, T, entry, L).entry = d.entry /\ Rollup(d, T, entry, L).st = d.st
  <1> DEFINE distributed == /\ \A m \in T : entry[m].applied \/ entry[m].reason = "unengaged"
                            /\ \E m \in T : entry[m].applied
             accepted == T # {} /\ \A m \in T : Accepted(entry[m])
  <1>1. Rollup(d, T, entry, L)
          = [d EXCEPT !.targets = T, !.leaving = L, !.distributed = distributed, !.accepted = accepted]
    BY DEF Rollup
  <1> HIDE DEF distributed, accepted
  <1> QED
    BY <1>1 DEF Definitions

LEMMA RollupType ==
  ASSUME NEW d \in Definitions, NEW T \in SUBSET Members, NEW L \in SUBSET Members,
         NEW entry \in [Members -> Entries]
  PROVE  Rollup(d, T, entry, L) \in Definitions
  <1> DEFINE distributed == /\ \A m \in T : entry[m].applied \/ entry[m].reason = "unengaged"
                            /\ \E m \in T : entry[m].applied
             accepted == T # {} /\ \A m \in T : Accepted(entry[m])
  <1>1. Rollup(d, T, entry, L)
          = [d EXCEPT !.targets = T, !.leaving = L, !.distributed = distributed, !.accepted = accepted]
    BY DEF Rollup, Definitions
  <1>2. distributed \in BOOLEAN /\ accepted \in BOOLEAN
    OBVIOUS
  <1> HIDE DEF distributed, accepted
  <1> QED
    BY <1>1, <1>2 DEF Definitions

LEMMA FinishType ==
  ASSUME TypeOK, FinishPass \/ PassFault PROVE TypeOK'
  <1> USE CurrentTypes, EndFields DEF hubVars, instanceVars, envVars, budgets, history
  <1>1. CASE FinishPass
    <2> DEFINE entries == [pass.def EXCEPT !.entry = pass.out]
               targets == Listed(entries) \ pass.leaving
    <2>1. entries \in Definitions /\ pass.leaving \in SUBSET Members
          /\ pass.out \in [Members -> Entries]
      BY DEF TypeOK, Passes, Definitions
    <2>2. [entries EXCEPT !.hash = pass.def.rev] \in Definitions
          /\ [entries EXCEPT !.leaving = pass.leaving] \in Definitions
      BY <2>1 DEF Definitions
    <2>3. targets \in SUBSET Members
      BY DEF Listed
    <2>4. Rollup([entries EXCEPT !.hash = pass.def.rev], targets, pass.out, pass.leaving) \in Definitions
      BY <2>1, <2>2, <2>3, RollupType
    <2>5. [NoDefinition EXCEPT !.st = "gone"] \in Definitions
      BY NoDefinitionType DEF Definitions
    <2>6. def' \in Definitions
      BY <1>1, <2>2, <2>4, <2>5, WriteType DEF FinishPass, TypeOK
    <2> QED
      BY <1>1, <2>6 DEF FinishPass, TypeOK
  <1>2. CASE PassFault
    BY <1>2 DEF PassFault, TypeOK
  <1> QED
    BY <1>1, <1>2

LEMMA EnvironmentType ==
  ASSUME TypeOK, Environment PROVE TypeOK'
  <1> USE DEF hubVars, instanceVars, envVars, budgets, history, Disturb
  <1>0. copy \in [Members -> Copies]
    BY DEF TypeOK
  <1>1. CASE SyncDefinition
    BY <1>1 DEF SyncDefinition, TypeOK
  <1>2. CASE CreateDefinition
    <2>1. \A on \in BOOLEAN : [def EXCEPT !.st = "new", !.on = on] \in Definitions
      BY DEF TypeOK, Definitions
    <2> QED
      BY <1>2, <2>1, WriteType DEF CreateDefinition, TypeOK
  <1>3. CASE DeleteDefinition
    <2>1. /\ [NoDefinition EXCEPT !.st = "gone"] \in Definitions
          /\ [def EXCEPT !.st = "deleting"] \in Definitions
      BY NoDefinitionType DEF TypeOK, Definitions
    <2> QED
      BY <1>3, <2>1, WriteType DEF DeleteDefinition, TypeOK
  <1>4. CASE EditDefinition
    <2>1. [def EXCEPT !.rev = @ + 1] \in Definitions
      BY <1>4 DEF EditDefinition, TypeOK, Definitions, Revisions
    <2> QED
      BY <1>4, <2>1, WriteType DEF EditDefinition, TypeOK
  <1>5. CASE SwitchDistribution
    <2>1. [def EXCEPT !.on = ~@] \in Definitions
      BY DEF TypeOK, Definitions
    <2> QED
      BY <1>5, <2>1, WriteType DEF SwitchDistribution, TypeOK
  <1>6. CASE PlacementBegins
    BY <1>6 DEF PlacementBegins, TypeOK, Placement!Begin, Placement!Permissions
  <1>7. CASE PlacementEnds
    BY <1>7 DEF PlacementEnds, TypeOK, Placement!GiveUp, Placement!Permissions, Nothing
  <1>8. ASSUME NEW m \in Members, SyncRecord(m) PROVE TypeOK'
    BY <1>8 DEF SyncRecord, TypeOK
  <1>9. ASSUME NEW m \in Members, Engage(m) \/ Disengage(m) PROVE TypeOK'
    BY <1>9 DEF Engage, Disengage, TypeOK
  <1>10. ASSUME NEW m \in Members, KroEvaluates(m) PROVE TypeOK'
    <2>1. copy' \in [Members -> Copies]
      <3>1. PICK v \in {"active", "refused"}, d \in {TRUE, m \notin Undated} :
               copy' = [copy EXCEPT ![m].evaluated = TRUE, ![m].dated = d, ![m].verdict = v]
        BY <1>10 DEF KroEvaluates
      <3>2. copy' = [copy EXCEPT ![m] = [copy[m] EXCEPT !.evaluated = TRUE, !.dated = d,
                                                        !.verdict = v]]
        BY <1>0, <3>1 DEF Copies
      <3>3. [copy[m] EXCEPT !.evaluated = TRUE, !.dated = d, !.verdict = v] \in Copies
        BY <1>0 DEF Copies
      <3> QED
        BY <1>0, <3>2, <3>3
    <2>2. served' \in [Members -> SUBSET (Revisions \cup {0})]
      <3>1. served \in [Members -> SUBSET (Revisions \cup {0})]
        BY DEF TypeOK
      <3>2. served[m] \cup {copy[m].rev} \in SUBSET (Revisions \cup {0})
        BY CurrentTypes
      <3>3. \/ served' = served
            \/ served' = [served EXCEPT ![m] = served[m] \cup {copy[m].rev}]
            \/ served' = [served EXCEPT ![m] = Revisions \cup {0}]
        BY <1>10, <3>1 DEF KroEvaluates
      <3> QED
        BY <3>1, <3>2, <3>3
    <2> QED
      BY <1>10, <2>1, <2>2 DEF KroEvaluates, TypeOK
  <1>11. ASSUME NEW m \in Members, Vanish(m) PROVE TypeOK'
    <2>1. NoCopy \in Copies
      BY DEF NoCopy, Copies
    <2>2. copy' \in [Members -> Copies]
      BY <1>0, <1>11, <2>1 DEF Vanish
    <2> QED
      BY <1>0, <1>11, <2>2 DEF Vanish, TypeOK
  <1>12. ASSUME NEW m \in Members, ChangeMatching(m) \/ ChangeProfile(m) PROVE TypeOK'
    BY <1>12 DEF ChangeMatching, ChangeProfile, TypeOK
  <1>13. ASSUME NEW m \in Members, MemberDelete(m) PROVE TypeOK'
    <2>1. copy' \in [Members -> Copies]
      BY <1>0, <1>13, DyingType DEF MemberDelete
    <2> QED
      BY <1>13, <2>1 DEF MemberDelete, TypeOK
  <1>14. ASSUME NEW m \in Members, MemberCreate(m) PROVE TypeOK'
    <2>1. \A u \in FreshUid(m) : [NoCopy EXCEPT !.uid = u] \in Copies
      BY FreshUidFact DEF NoCopy, Copies
    <2>2. copy' \in [Members -> Copies]
      BY <1>0, <1>14, <2>1 DEF MemberCreate
    <2> QED
      BY <1>14, <2>2 DEF MemberCreate, TypeOK
  <1>15. ASSUME NEW m \in Members, PlacementRecords(m) \/ RecordGoes(m) PROVE TypeOK'
    BY <1>15 DEF PlacementRecords, RecordGoes, TypeOK, Placement!Record, Placement!Forget
  <1>16. ASSUME NEW m \in Members, PlacementWrites(m) \/ InstanceGoes(m) \/ LocalCreates(m)
         PROVE  TypeOK'
    BY <1>16 DEF PlacementWrites, InstanceGoes, LocalCreates, TypeOK,
                 Placement!Permissions, Placement!Write, Placement!Vanish,
                 Placement!LocalCreate
  <1> QED
    BY <1>1, <1>2, <1>3, <1>4, <1>5, <1>6, <1>7, <1>8, <1>9, <1>10, <1>11, <1>12,
       <1>13, <1>14, <1>15, <1>16 DEF Environment

LEMMA StepCases ==
  ASSUME Next
  PROVE  \/ AddFinalizer \/ BeginConverge \/ BeginFinalize
         \/ RemoveStep \/ DistributeStep
         \/ FinishPass \/ PassFault
         \/ Environment
  BY DEF Next, PassStep, RemoveStep, DistributeStep

\* TypeOK: the status holds only what distributeToMember and removeFromMember
\* (definition_controller.go:355-477) may write there, whatever the fleet.
THEOREM TypeCorrect == Spec => []TypeOK
  <1>1. TypeOK /\ [Next]_vars => TypeOK'
    <2> SUFFICES ASSUME TypeOK, [Next]_vars PROVE TypeOK'
      OBVIOUS
    <2>1. CASE Next
      BY <2>1, StepCases, StartType, RemoveType, DistributeType, FinishType, EnvironmentType
    <2>2. CASE UNCHANGED vars
      BY <2>2 DEF vars, TypeOK
    <2> QED
      BY <2>1, <2>2
  <1> QED
    BY <1>1, InitType, PTL DEF Spec

-----------------------------------------------------------------------------
(* What the status says of a member has been earned there.  Every place an  *)
(* entry passes through is covered: the object, the cache, the pass that    *)
(* read it, the results it computes, and the copies these are read from.    *)

\* What an entry says of a member whose kro can be quoted as serving the revisions s,
\* and what a copy's verdict does: once undated, it may be read at any revision.
Knows(s, e) == (e.accepted # 0 => e.accepted \in s) /\ (e.verdict = "active" => s # {})
Vouched(m, c) ==
    c.verdict = "active" => /\ served[m] # {}
                            /\ c.evaluated => c.rev \in served[m]
                            /\ ~c.dated => Revisions \cup {0} \subseteq served[m]
Earned(d) == d.accepted => d.targets # {} /\ \A m \in d.targets : d.hash \in served[m]

CopiesKnown == \A m \in Members : Vouched(m, copy[m])
StatusKnown ==
    \A m \in Members : /\ Knows(served[m], def.entry[m]) /\ Knows(served[m], cdef.entry[m])
                       /\ Knows(served[m], pass.def.entry[m]) /\ Knows(served[m], pass.out[m])
PassEarns ==
    \A m \in Members \ pass.leaving : Accepted(pass.out[m]) => pass.def.rev \in served[m]
ConditionsEarned == Earned(def) /\ Earned(cdef) /\ Earned(pass.def)
WritesEarned == \A m \in Members : placing[m] = "write" => served[m] # {}
Earning == CopiesKnown /\ StatusKnown /\ PassEarns /\ ConditionsEarned /\ WritesEarned

\* What a pass writes down about a member is still known there.
LEMMA KnowsKept ==
  ASSUME NEW m \in Members, NEW e \in Entries, NEW c \in Copies, NEW r \in Revisions,
         Knows(served[m], e), Vouched(m, c)
  PROVE  /\ Knows(served[m], NoEntry)
         /\ Knows(served[m], [e EXCEPT !.applied = FALSE])
         /\ Knows(served[m], [e EXCEPT !.applied = FALSE, !.reason = "removing"])
         /\ Knows(served[m], Guarded(e, c))
         /\ Knows(served[m], Unreached(e, r)) /\ Knows(served[m], Failed(e))
         /\ Knows(served[m], ReadBack(e, c, r))
  <1>1. Knows(served[m], NoEntry)
    BY DEF Knows, NoEntry
  <1>2. /\ Knows(served[m], [e EXCEPT !.applied = FALSE])
        /\ Knows(served[m], [e EXCEPT !.applied = FALSE, !.reason = "removing"])
        /\ Knows(served[m], Unreached(e, r)) /\ Knows(served[m], Failed(e))
    BY DEF Knows, Entries, Unreached, Failed
  <1>3. Knows(served[m], Guarded(e, c))
    <2>1. CASE c.uid = 0
      BY <1>2, <2>1 DEF Guarded
    <2>2. CASE c.uid # 0
      <3>1. /\ Guarded(e, c).verdict = c.verdict
            /\ Guarded(e, c).accepted = IF AcceptedCopy(c) THEN c.rev ELSE e.accepted
        BY <2>2 DEF Guarded, Entries
      <3>2. AcceptedCopy(c) => c.rev \in served[m]
        BY DEF AcceptedCopy, Fresh, Vouched, Copies
      <3> QED
        BY <3>1, <3>2 DEF Knows, Vouched
    <2> QED
      BY <2>1, <2>2
  <1>4. Knows(served[m], ReadBack(e, c, r))
    <2>1. /\ ReadBack(e, c, r).verdict = IF Fresh(c) THEN c.verdict ELSE "unknown"
          /\ ReadBack(e, c, r).accepted = IF AcceptedCopy(c) THEN c.rev ELSE e.accepted
      BY DEF ReadBack, Entries
    <2>2. AcceptedCopy(c) => c.rev \in served[m]
      BY DEF AcceptedCopy, Fresh, Vouched, Copies
    <2> QED
      BY <2>1, <2>2 DEF Knows, Vouched
  <1> QED
    BY <1>1, <1>2, <1>3, <1>4

\* An entry that a pass computes for a target and calls Accepted is earned.
LEMMA AcceptedEarned ==
  ASSUME NEW m \in Members, NEW e \in Entries, NEW c \in Copies, NEW r \in Revisions,
         Vouched(m, c)
  PROVE  /\ ~Accepted(NoEntry) /\ ~Accepted(Unreached(e, r)) /\ ~Accepted(Failed(e))
         /\ Accepted(ReadBack(e, c, r)) => r \in served[m]
  <1>1. ~Accepted(NoEntry) /\ ~Accepted(Unreached(e, r)) /\ ~Accepted(Failed(e))
    BY DEF Accepted, NoEntry, Unreached, Failed, Entries
  <1>2. /\ ReadBack(e, c, r).verdict = IF Fresh(c) THEN c.verdict ELSE "unknown"
        /\ ReadBack(e, c, r).applied = (c.rev = r)
    BY DEF ReadBack, Entries
  <1> QED
    BY <1>1, <1>2 DEF Accepted, Fresh, Vouched, Copies

LEMMA InitEarning == Init => Earning
  <1> SUFFICES ASSUME Init PROVE Earning
    OBVIOUS
  <1>1. \A m, s : Knows(s, NoEntry) /\ Vouched(m, NoCopy)
    BY DEF Knows, NoEntry, Vouched, NoCopy
  <1>2. /\ \A m \in Members : NoDefinition.entry[m] = NoEntry
        /\ ~NoDefinition.accepted
    BY DEF NoDefinition
  <1>3. /\ pass.def = NoDefinition /\ def = NoDefinition /\ cdef = NoDefinition
        /\ \A m \in Members : pass.out[m] = NoEntry
    BY DEF Init, PassIdle
  <1>4. CopiesKnown
    BY <1>1 DEF Init, CopiesKnown
  <1>5. StatusKnown
    BY <1>1, <1>2, <1>3 DEF StatusKnown
  <1>6. PassEarns
    BY <1>3 DEF PassEarns, Accepted, NoEntry
  <1>7. ConditionsEarned
    BY <1>2, <1>3 DEF ConditionsEarned, Earned
  <1>8. WritesEarned
    BY DEF Init, Placement!Init, WritesEarned
  <1> QED
    BY <1>4, <1>5, <1>6, <1>7, <1>8 DEF Earning

\* A member is settled with an entry that is known there.
LEMMA SettledEarns ==
  ASSUME TypeOK, Earning,
         NEW m \in Members, NEW e \in Entries, NEW L \in SUBSET Members, Settled(m, e, L),
         Knows(served[m], e),
         m \notin L /\ Accepted(e) => pass.def.rev \in served[m],
         UNCHANGED <<def, cdef, served, placing>>, CopiesKnown'
  PROVE  Earning'
  <1>1. /\ pass'.def = pass.def /\ pass'.leaving = pass.leaving \cup L
        /\ \A n \in Members : pass'.out[n] = IF n = m THEN e ELSE pass.out[n]
    BY SettledFields
  <1>2. StatusKnown'
    BY <1>1 DEF Earning, StatusKnown
  <1>3. PassEarns'
    BY <1>1 DEF Earning, PassEarns
  <1>4. ConditionsEarned' /\ WritesEarned'
    BY <1>1 DEF Earning, ConditionsEarned, Earned, WritesEarned
  <1> QED
    BY <1>2, <1>3, <1>4 DEF Earning

\* What is known stays known, as a member's kro only serves more revisions.
LEMMA FrameEarns ==
  ASSUME TypeOK, Earning, CopiesKnown', WritesEarned',
         \A m \in Members : served[m] \subseteq served[m]',
         pass'.def = pass.def /\ pass'.out = pass.out /\ pass'.leaving = pass.leaving,
         \A m \in Members : def'.entry[m] \in {def.entry[m], NoEntry},
         \A m \in Members : cdef'.entry[m] \in {cdef.entry[m], def.entry[m]},
         /\ def'.accepted => /\ def.accepted
                             /\ def'.targets = def.targets /\ def'.hash = def.hash
         /\ cdef' \in {cdef, def}
  PROVE  Earning'
  <1>1. \A m \in Members : \A e : Knows(served[m], e) => Knows(served[m]', e)
    BY DEF Knows
  <1>2. \A s : Knows(s, NoEntry)
    BY DEF Knows, NoEntry
  <1>3. StatusKnown'
    BY <1>1, <1>2 DEF Earning, StatusKnown
  <1>4. PassEarns'
    BY DEF Earning, PassEarns
  <1>5. ConditionsEarned'
    <2>1. /\ def.targets \subseteq Members /\ cdef.targets \subseteq Members
          /\ pass.def.targets \subseteq Members
      BY DEF TypeOK, Passes, Definitions
    <2>2. Earned(def)'
      BY <2>1 DEF Earning, ConditionsEarned, Earned
    <2>3. Earned(cdef)'
      <3>1. CASE cdef' = cdef
        BY <2>1, <3>1 DEF Earning, ConditionsEarned, Earned
      <3>2. CASE cdef' = def
        BY <2>1, <3>2 DEF Earning, ConditionsEarned, Earned
      <3> QED
        BY <3>1, <3>2
    <2>4. Earned(pass.def)'
      BY <2>1 DEF Earning, ConditionsEarned, Earned
    <2> QED
      BY <2>2, <2>3, <2>4 DEF ConditionsEarned
  <1> QED
    BY <1>3, <1>4, <1>5 DEF Earning

\* What the copies say survives a step that leaves their verdicts alone.
LEMMA CopiesFrame ==
  ASSUME CopiesKnown,
         \A m \in Members : served[m] \subseteq served[m]',
         \A m \in Members :
            \/ copy'[m].verdict = "none"
            \/ /\ copy'[m].verdict = copy[m].verdict /\ copy'[m].dated = copy[m].dated
               /\ copy'[m].evaluated => copy[m].evaluated /\ copy'[m].rev = copy[m].rev
  PROVE  CopiesKnown'
  <1> SUFFICES ASSUME NEW m \in Members PROVE Vouched(m, copy[m])'
    BY DEF CopiesKnown
  <1>1. Vouched(m, copy[m])
    BY DEF CopiesKnown
  <1> QED
    BY <1>1 DEF Vouched

LEMMA StartEarns ==
  ASSUME TypeOK, Earning, AddFinalizer \/ BeginConverge \/ BeginFinalize PROVE Earning'
  <1> USE DEF hubVars, instanceVars, envVars, budgets, Began
  <1>1. ASSUME NEW d \in Definitions, NEW R \in SUBSET Members, NEW P \in SUBSET Members,
               pass' = StartOf(d, R, P),
               /\ \A m \in Members : Knows(served[m], d.entry[m])
               /\ Earned(d)
               /\ def'.entry = def.entry /\ def'.accepted = def.accepted
               /\ def'.targets = def.targets /\ def'.hash = def.hash,
               UNCHANGED <<cdef, served, placing, copy>>
        PROVE  Earning'
    <2>1. pass'.def = d /\ pass'.leaving = {} /\ \A m \in Members : pass'.out[m] = NoEntry
      <3>1. pass' = StartOf(d, R, P)
        BY <1>1
      <3>2. /\ StartOf(d, R, P).def = d /\ StartOf(d, R, P).leaving = {}
            /\ \A m \in Members : StartOf(d, R, P).out[m] = NoEntry
        BY StartFields
      <3> QED
        BY <3>1, <3>2
    <2>2. \A s : Knows(s, NoEntry)
      BY DEF Knows, NoEntry
    <2>3. StatusKnown'
      BY <1>1, <2>1, <2>2 DEF Earning, StatusKnown
    <2>4. PassEarns'
      BY <2>1 DEF PassEarns, Accepted, NoEntry
    <2>5. ConditionsEarned'
      BY <1>1, <2>1 DEF Earning, ConditionsEarned, Earned
    <2>6. CopiesKnown' /\ WritesEarned'
      BY <1>1 DEF Earning, CopiesKnown, WritesEarned, Vouched
    <2> QED
      BY <2>3, <2>4, <2>5, <2>6 DEF Earning
  <1>2. \A d : /\ Listed(d) \in SUBSET Members /\ Listed(d) \ DefinitionTargets(d) \in SUBSET Members
               /\ DefinitionTargets(d) \in SUBSET Members
    BY DEF Listed, DefinitionTargets, TypeOK
  <1>3. CASE AddFinalizer
    <2>1. PICK v \in FreshVersion : /\ def' = [def EXCEPT !.st = "live", !.rv = v]
                                    /\ pass' = Converge([def EXCEPT !.st = "live", !.rv = v])
      BY <1>3 DEF AddFinalizer
    <2> DEFINE d == [def EXCEPT !.st = "live", !.rv = v]
    <2>2. d \in Definitions /\ d.entry = def.entry /\ d.accepted = def.accepted
          /\ d.targets = def.targets /\ d.hash = def.hash
      BY FreshVersionFact DEF TypeOK, Definitions
    <2>3. def' = d /\ pass' = StartOf(d, Listed(d) \ DefinitionTargets(d), DefinitionTargets(d))
      BY <2>1 DEF Converge
    <2> HIDE DEF d
    <2>4. Earned(d) /\ \A m \in Members : Knows(served[m], d.entry[m])
      BY <2>2 DEF Earning, ConditionsEarned, Earned, StatusKnown
    <2>5. UNCHANGED <<cdef, served, placing, copy>>
      BY <1>3 DEF AddFinalizer
    <2> QED
      BY <1>1, <1>2, <2>2, <2>3, <2>4, <2>5
  <1>4. CASE BeginConverge \/ BeginFinalize
    <2>1. Earned(cdef) /\ \A m \in Members : Knows(served[m], cdef.entry[m])
      BY DEF Earning, ConditionsEarned, StatusKnown
    <2>2. \/ pass' = StartOf(cdef, Listed(cdef) \ DefinitionTargets(cdef), DefinitionTargets(cdef))
          \/ pass' = StartOf(cdef, Listed(cdef), {})
      BY <1>4 DEF BeginConverge, BeginFinalize, Converge
    <2>3. UNCHANGED <<def, cdef, served, placing, copy>>
      BY <1>4 DEF BeginConverge, BeginFinalize
    <2>4. cdef \in Definitions
      BY DEF TypeOK
    <2> QED
      BY <1>1, <1>2, <2>1, <2>2, <2>3, <2>4
  <1> QED
    BY <1>3, <1>4

LEMMA RemoveEarns ==
  ASSUME TypeOK, Earning, RemoveStep PROVE Earning'
  <1> USE DEF hubVars, instanceVars, envVars, budgets, history
  <1>0. ASSUME NEW m \in Members
        PROVE  /\ Knows(served[m], NoEntry) /\ ~Accepted(NoEntry)
               /\ Knows(served[m], [pass.def.entry[m] EXCEPT !.applied = FALSE])
               /\ Knows(served[m], [pass.def.entry[m] EXCEPT !.applied = FALSE, !.reason = "removing"])
               /\ Knows(served[m], Guarded(pass.def.entry[m], copy[m]))
               /\ [pass.def.entry[m] EXCEPT !.applied = FALSE] \in Entries
               /\ [pass.def.entry[m] EXCEPT !.applied = FALSE, !.reason = "removing"] \in Entries
               /\ Guarded(pass.def.entry[m], copy[m]) \in Entries
    <2>1. /\ pass.def.entry[m] \in Entries /\ copy[m] \in Copies /\ pass.def.rev \in Revisions
          /\ Knows(served[m], pass.def.entry[m]) /\ Vouched(m, copy[m])
      BY CurrentTypes DEF Earning, StatusKnown, CopiesKnown
    <2> QED
      BY <2>1, KnowsKept, AcceptedEarned, EntryTypes, GuardedType
  <1>1. ASSUME NEW m \in Members, CopiesKnown', UNCHANGED <<def, cdef, served, placing>>,
               \/ Removed(m) \/ Pending(m)
               \/ Held(m, [pass.def.entry[m] EXCEPT !.applied = FALSE])
               \/ Held(m, Guarded(pass.def.entry[m], copy[m]))
        PROVE  Earning'
    <2>1. CASE Removed(m)
      BY <1>0, <1>1, <2>1, NoEntryType, SettledEarns DEF Removed
    <2>2. ASSUME NEW e \in Entries, Knows(served[m], e), Held(m, e) PROVE Earning'
      <3>1. {m} \in SUBSET Members /\ m \in {m} /\ Settled(m, e, {m})
        BY <2>2 DEF Held
      <3> QED
        BY <1>1, <2>2, <3>1, SettledEarns
    <2> QED
      BY <1>0, <1>1, <2>1, <2>2 DEF Pending
  <1>2. ASSUME UNCHANGED <<def, cdef, served, placing, copy>>,
               \/ \E m \in Members : pass' = [pass EXCEPT !.pc = "get", !.m = m]
               \/ \E u \in Uids \cup {0} : pass' = [pass EXCEPT !.pc = "delete", !.seen = u]
        PROVE  Earning'
    <2>1. pass'.def = pass.def /\ pass'.out = pass.out /\ pass'.leaving = pass.leaving
      BY <1>2, MoveFields
    <2>2. CopiesKnown' /\ WritesEarned'
      BY <1>2 DEF Earning, CopiesKnown, WritesEarned, Vouched
    <2> QED
      BY <1>2, <2>1, <2>2, FrameEarns
  <1>3. CASE copy' = copy /\ RemoveStep /\ ~RemoveDelete
    <2>1. CopiesKnown'
      <3>1. served' = served
        BY <1>3 DEF RemoveStep, RemoveBlindly, RemoveGuarded, RemoveUnlisted, RemoveGet
      <3> QED
        BY <1>3, <3>1 DEF Earning, CopiesKnown, Vouched
    <2>2. ASSUME NEW m \in Members, RemoveBlindly(m) PROVE Earning'
      BY <1>1, <2>1, <2>2 DEF RemoveBlindly
    <2>3. ASSUME NEW m \in Members, RemoveGuarded(m) PROVE Earning'
      BY <1>1, <1>2, <2>1, <2>3 DEF RemoveGuarded
    <2>4. ASSUME NEW m \in Members, RemoveUnlisted(m) PROVE Earning'
      BY <1>1, <2>1, <2>4 DEF RemoveUnlisted
    <2>5. CASE RemoveGet
      BY <1>1, <1>2, <2>1, <2>5, CurrentTypes DEF RemoveGet
    <2> QED
      BY <1>3, <2>2, <2>3, <2>4, <2>5 DEF RemoveStep
  <1>4. CASE RemoveDelete
    <2>1. CopiesKnown'
      <3>1. /\ copy \in [Members -> Copies] /\ served' = served
            /\ copy' = copy \/ copy' = [copy EXCEPT ![pass.m].dying = TRUE]
        BY <1>4 DEF RemoveDelete, TypeOK
      <3>2. \A m \in Members : /\ copy'[m].verdict = copy[m].verdict
                               /\ copy'[m].dated = copy[m].dated
                               /\ copy'[m].evaluated = copy[m].evaluated
                               /\ copy'[m].rev = copy[m].rev
        BY <3>1 DEF Copies
      <3> QED
        BY <3>1, <3>2, CopiesFrame DEF Earning
    <2> QED
      BY <1>1, <1>4, <2>1, CurrentTypes DEF RemoveDelete
  <1>5. RemoveStep /\ ~RemoveDelete => copy' = copy
    BY DEF RemoveStep, RemoveBlindly, RemoveGuarded, RemoveUnlisted, RemoveGet
  <1> QED
    BY <1>3, <1>4, <1>5

LEMMA DistributeEarns ==
  ASSUME TypeOK, Earning, DistributeStep PROVE Earning'
  <1> USE DEF hubVars, instanceVars, envVars, budgets, history
  <1>0. ASSUME NEW m \in Members, NEW c \in Copies, Vouched(m, c)
        PROVE  /\ Knows(served[m], Unreached(pass.def.entry[m], pass.def.rev))
               /\ Knows(served[m], Failed(pass.def.entry[m]))
               /\ Knows(served[m], ReadBack(pass.def.entry[m], c, pass.def.rev))
               /\ ~Accepted(Unreached(pass.def.entry[m], pass.def.rev))
               /\ ~Accepted(Failed(pass.def.entry[m]))
               /\ Accepted(ReadBack(pass.def.entry[m], c, pass.def.rev))
                    => pass.def.rev \in served[m]
               /\ Unreached(pass.def.entry[m], pass.def.rev) \in Entries
               /\ Failed(pass.def.entry[m]) \in Entries
               /\ ReadBack(pass.def.entry[m], c, pass.def.rev) \in Entries
    <2>1. /\ pass.def.entry[m] \in Entries /\ pass.def.rev \in Revisions
          /\ Knows(served[m], pass.def.entry[m])
      BY CurrentTypes DEF Earning, StatusKnown
    <2>2. Vouched(m, c)
      BY <1>0
    <2> QED
      BY <2>1, <2>2, KnowsKept, AcceptedEarned, EntryTypes, ReadBackType
  <1>1. ASSUME NEW m \in Members, NEW e \in Entries, CopiesKnown',
               UNCHANGED <<def, cdef, served, placing>>,
               Settled(m, e, {}), Knows(served[m], e),
               Accepted(e) => pass.def.rev \in served[m]
        PROVE  Earning'
    BY <1>1, SettledEarns
  <1>2. ASSUME NEW m \in Members, DistributeSkipped(m) \/ DistributeFailed(m)
        PROVE  Earning'
    <2>1. UNCHANGED <<def, cdef, served, placing, copy>>
      BY <1>2 DEF DistributeSkipped, DistributeFailed
    <2>2. CopiesKnown'
      BY <2>1 DEF Earning, CopiesKnown, Vouched
    <2>3. copy[m] \in Copies /\ Vouched(m, copy[m])
      BY CurrentTypes DEF Earning, CopiesKnown
    <2> QED
      BY <1>0, <1>1, <1>2, <2>1, <2>2, <2>3 DEF DistributeSkipped, DistributeFailed
  <1>3. ASSUME NEW m \in Members, NEW c \in Copies, Applied(m, c), Vouched(m, c),
               UNCHANGED <<def, cdef, served, placing>>
        PROVE  Earning'
    <2>1. copy \in [Members -> Copies] /\ copy' = [copy EXCEPT ![m] = c]
      BY <1>3 DEF Applied, TypeOK
    <2>2. CopiesKnown'
      BY <1>3, <2>1 DEF Earning, CopiesKnown, Vouched
    <2>3. Settled(m, ReadBack(pass.def.entry[m], c, pass.def.rev), {})
      BY <1>3 DEF Applied
    <2> QED
      BY <1>0, <1>1, <1>3, <2>2, <2>3
  <1>4. ASSUME NEW m \in Members, Distribute(m) PROVE Earning'
    <2> DEFINE rewritten == [copy[m] EXCEPT !.ours = TRUE, !.rev = pass.def.rev,
                                !.evaluated = @ /\ copy[m].rev = pass.def.rev]
    <2>1. UNCHANGED <<def, cdef, served, placing>> /\ pass.def.rev \in Revisions
      BY <1>4, CurrentTypes DEF Distribute
    <2>2. rewritten \in Copies /\ Vouched(m, rewritten)
      <3>1. copy[m] \in Copies /\ Vouched(m, copy[m])
        BY CurrentTypes DEF Earning, CopiesKnown
      <3>2. /\ rewritten.verdict = copy[m].verdict /\ rewritten.rev = pass.def.rev
            /\ rewritten.dated = copy[m].dated
            /\ rewritten.evaluated = (copy[m].evaluated /\ copy[m].rev = pass.def.rev)
        BY <3>1 DEF Copies
      <3>3. rewritten \in Copies
        BY <2>1, <3>1, RewrittenType
      <3> QED
        BY <2>1, <3>1, <3>2, <3>3 DEF Vouched
    <2>3. ASSUME NEW u \in FreshUid(m)
          PROVE  /\ [NoCopy EXCEPT !.uid = u, !.ours = TRUE, !.rev = pass.def.rev] \in Copies
                 /\ Vouched(m, [NoCopy EXCEPT !.uid = u, !.ours = TRUE,
                                                      !.rev = pass.def.rev])
      BY <2>1, NewCopyType DEF NoCopy, Vouched
    <2>4. \/ Applied(m, rewritten)
          \/ \E u \in FreshUid(m) :
                Applied(m, [NoCopy EXCEPT !.uid = u, !.ours = TRUE, !.rev = pass.def.rev])
      BY <1>4 DEF Distribute
    <2> HIDE DEF rewritten
    <2> QED
      BY <1>3, <2>1, <2>2, <2>3, <2>4
  <1> QED
    BY <1>2, <1>4 DEF DistributeStep

\* A write of the object keeps what it is given, but for the version.
LEMMA WriteFields ==
  ASSUME TypeOK, NEW d \in Definitions, Write(d)
  PROVE  /\ def'.entry = d.entry /\ def'.accepted = d.accepted /\ def'.targets = d.targets
         /\ def'.hash = d.hash /\ def'.st = d.st
         /\ def' = def \/ def'.rv \in FreshVersion
  <1>1. CASE UNCHANGED def /\ d = def
    BY <1>1
  <1>2. ASSUME NEW v \in FreshVersion, def' = [d EXCEPT !.rv = v]
        PROVE  /\ def'.entry = d.entry /\ def'.accepted = d.accepted /\ def'.targets = d.targets
               /\ def'.hash = d.hash /\ def'.st = d.st /\ def'.rv = v
    BY <1>2 DEF Definitions
  <1> QED
    BY <1>1, <1>2 DEF Write

LEMMA FinishEarns ==
  ASSUME TypeOK, Earning, FinishPass \/ PassFault PROVE Earning'
  <1> USE DEF hubVars, instanceVars, envVars, budgets, history
  <1>1. UNCHANGED <<cdef, served, placing, copy>> /\ EndPass
    BY DEF FinishPass, PassFault
  <1>2. /\ pass'.def = NoDefinition /\ ~NoDefinition.accepted /\ pass'.leaving = {}
        /\ \A m \in Members : pass'.out[m] = NoEntry /\ NoDefinition.entry[m] = NoEntry
    BY <1>1, EndFields DEF NoDefinition
  <1>3. \A s : Knows(s, NoEntry)
    BY DEF Knows, NoEntry
  <1>4. /\ \A m \in Members : Knows(served[m], def'.entry[m])
        /\ def'.accepted => /\ def'.targets # {}
                            /\ \A m \in def'.targets : def'.hash \in served[m]
    <2>1. CASE def' = def
      BY <2>1 DEF Earning, StatusKnown, ConditionsEarned, Earned
    <2>2. CASE FinishPass
      <3> DEFINE entries == [pass.def EXCEPT !.entry = pass.out]
                 kept == Listed(entries)
                 targets == kept \ pass.leaving
                 hashed == [entries EXCEPT !.hash = pass.def.rev]
                 rolled == Rollup(hashed, targets, pass.out, pass.leaving)
                 final == [entries EXCEPT !.leaving = pass.leaving]
      <3>1. /\ entries \in Definitions /\ pass.out \in [Members -> Entries]
            /\ pass.leaving \in SUBSET Members /\ kept \in SUBSET Members
        BY DEF TypeOK, Passes, Definitions, Listed
      <3>2. hashed \in Definitions /\ final \in Definitions
            /\ hashed.hash = pass.def.rev /\ hashed.entry = pass.out
            /\ final.hash = pass.def.hash /\ final.entry = pass.out
            /\ final.accepted = pass.def.accepted /\ final.targets = pass.def.targets
        BY <3>1 DEF TypeOK, Passes, Definitions
      <3>3. /\ rolled \in Definitions /\ rolled.entry = pass.out /\ rolled.hash = pass.def.rev
            /\ rolled.targets = targets
            /\ rolled.accepted = (targets # {} /\ \A m \in targets : Accepted(pass.out[m]))
        <4>1. rolled \in Definitions
          BY <3>1, <3>2, RollupType
        <4> HIDE DEF hashed, targets
        <4> QED
          BY <3>2, <4>1 DEF Rollup, Definitions
      <3>4. targets \subseteq Members \ pass.leaving
        BY <3>1
      <3>5. \/ def' = def \/ Write(rolled) \/ Write(final)
            \/ def' = [NoDefinition EXCEPT !.st = "gone"]
        BY <2>2 DEF FinishPass
      <3> HIDE DEF rolled, final, targets
      <3>6. CASE Write(rolled)
        <4>1. /\ def'.entry = pass.out /\ def'.hash = pass.def.rev /\ def'.targets = targets
              /\ def'.accepted = (targets # {} /\ \A m \in targets : Accepted(pass.out[m]))
          BY <3>3, <3>6, WriteFields
        <4> QED
          BY <3>4, <4>1 DEF Earning, StatusKnown, PassEarns
      <3>7. CASE Write(final)
        <4>1. /\ def'.entry = pass.out /\ def'.hash = pass.def.hash
              /\ def'.targets = pass.def.targets /\ def'.accepted = pass.def.accepted
          BY <3>2, <3>7, WriteFields
        <4> QED
          BY <4>1 DEF Earning, StatusKnown, ConditionsEarned, Earned
      <3>8. CASE def' = [NoDefinition EXCEPT !.st = "gone"]
        BY <1>3, <3>8 DEF NoDefinition
      <3> QED
        BY <2>1, <3>5, <3>6, <3>7, <3>8
    <2>3. CASE PassFault
      BY <2>1, <2>3 DEF PassFault
    <2> QED
      BY <2>2, <2>3
  <1>5. StatusKnown'
    BY <1>1, <1>2, <1>3, <1>4 DEF Earning, StatusKnown
  <1>6. PassEarns'
    BY <1>2 DEF PassEarns, Accepted, NoEntry
  <1>7. ConditionsEarned'
    BY <1>1, <1>2, <1>4 DEF Earning, ConditionsEarned, Earned
  <1>8. CopiesKnown' /\ WritesEarned'
    BY <1>1 DEF Earning, CopiesKnown, WritesEarned, Vouched
  <1> QED
    BY <1>5, <1>6, <1>7, <1>8 DEF Earning

LEMMA EnvironmentEarns ==
  ASSUME TypeOK, Earning, Environment PROVE Earning'
  <1> USE DEF hubVars, instanceVars, envVars, budgets, history, Disturb
  <1>0. copy \in [Members -> Copies] /\ served \in [Members -> SUBSET (Revisions \cup {0})]
        /\ placing \in [Members -> Placement!Permissions]
    BY DEF TypeOK
  <1>1. ASSUME UNCHANGED <<def, cdef, pass, copy, served>>, WritesEarned' PROVE Earning'
    <2>1. CopiesKnown'
      BY <1>1 DEF Earning, CopiesKnown, Vouched
    <2> QED
      BY <1>1, <2>1, FrameEarns
  <1>2. ASSUME UNCHANGED <<def, cdef, pass, placing>>, CopiesKnown',
               \A m \in Members : served[m] \subseteq served[m]'
        PROVE  Earning'
    <2>1. WritesEarned'
      BY <1>2 DEF Earning, WritesEarned
    <2> QED
      BY <1>2, <2>1, FrameEarns
  <1>3. ASSUME UNCHANGED <<cdef, pass, copy, served, placing>>,
               \/ def' = [NoDefinition EXCEPT !.st = "gone"]
               \/ \E d \in Definitions :
                     /\ Write(d)
                     /\ d.entry = def.entry /\ d.accepted = def.accepted
                     /\ d.targets = def.targets /\ d.hash = def.hash
        PROVE  Earning'
    <2>1. CopiesKnown' /\ WritesEarned'
      BY <1>3 DEF Earning, CopiesKnown, WritesEarned, Vouched
    <2>2. CASE def' = [NoDefinition EXCEPT !.st = "gone"]
      <3>1. ~def'.accepted /\ \A m \in Members : def'.entry[m] = NoEntry
        BY <2>2 DEF NoDefinition
      <3> QED
        BY <1>3, <2>1, <3>1, FrameEarns
    <2>3. ASSUME NEW d \in Definitions, Write(d),
                 d.entry = def.entry /\ d.accepted = def.accepted,
                 d.targets = def.targets /\ d.hash = def.hash
          PROVE  Earning'
      <3>1. def'.entry = def.entry /\ def'.accepted = def.accepted
            /\ def'.targets = def.targets /\ def'.hash = def.hash
        BY <2>3, WriteFields
      <3> QED
        BY <1>3, <2>1, <3>1, FrameEarns
    <2> QED
      BY <1>3, <2>2, <2>3
  <1>4. CASE SyncDefinition
    <2>1. CopiesKnown' /\ WritesEarned' /\ UNCHANGED <<def, pass, served>> /\ cdef' = def
      BY <1>4 DEF SyncDefinition, Earning, CopiesKnown, WritesEarned, Vouched
    <2> QED
      BY <2>1, FrameEarns
  <1>5. CASE CreateDefinition \/ DeleteDefinition \/ EditDefinition \/ SwitchDistribution
    <2>1. UNCHANGED <<cdef, pass, copy, served, placing>>
      BY <1>5 DEF CreateDefinition, DeleteDefinition, EditDefinition, SwitchDistribution
    <2>2. def \in Definitions
      BY DEF TypeOK
    <2>3. ASSUME NEW d \in Definitions, Write(d),
                 \/ \E on \in BOOLEAN : d = [def EXCEPT !.st = "new", !.on = on]
                 \/ d = [def EXCEPT !.st = "deleting"]
                 \/ d = [def EXCEPT !.rev = @ + 1]
                 \/ d = [def EXCEPT !.on = ~@]
          PROVE  Earning'
      <3>1. /\ d.entry = def.entry /\ d.accepted = def.accepted
            /\ d.targets = def.targets /\ d.hash = def.hash
        BY <2>2, <2>3 DEF Definitions
      <3> QED
        BY <1>3, <2>1, <2>3, <3>1
    <2>4. /\ [def EXCEPT !.st = "deleting"] \in Definitions
          /\ [def EXCEPT !.on = ~@] \in Definitions
          /\ \A on \in BOOLEAN : [def EXCEPT !.st = "new", !.on = on] \in Definitions
      BY <2>2 DEF Definitions
    <2>5. CASE CreateDefinition
      BY <2>3, <2>4, <2>5 DEF CreateDefinition
    <2>6. CASE DeleteDefinition
      BY <1>3, <2>1, <2>3, <2>4, <2>6 DEF DeleteDefinition
    <2>7. CASE EditDefinition
      <3>1. def.rev + 1 \in Revisions
        BY <2>2, <2>7 DEF EditDefinition, Definitions, Revisions
      <3>2. [def EXCEPT !.rev = @ + 1] \in Definitions
        BY <2>2, <3>1 DEF Definitions
      <3> QED
        BY <2>3, <2>7, <3>2 DEF EditDefinition
    <2>8. CASE SwitchDistribution
      BY <2>3, <2>4, <2>8 DEF SwitchDistribution
    <2> QED
      BY <1>5, <2>5, <2>6, <2>7, <2>8
  <1>6. CASE PlacementBegins
    <2>1. ASSUME NEW m \in Members, DefinitionGate(cdef, m) PROVE served[m] # {}
      BY <2>1 DEF DefinitionGate, Accepted, Serving, Earning, StatusKnown, Knows
    <2>2. WritesEarned'
      BY <1>6, <2>1 DEF PlacementBegins, Placement!Begin, WritesEarned
    <2> QED
      BY <1>1, <1>6, <2>2 DEF PlacementBegins
  <1>7. CASE PlacementEnds
    <2>1. WritesEarned'
      BY <1>7 DEF PlacementEnds, Placement!GiveUp, Nothing, WritesEarned
    <2> QED
      BY <1>1, <1>7, <2>1 DEF PlacementEnds
  <1>8. ASSUME NEW m \in Members,
               \/ SyncRecord(m) \/ Engage(m) \/ Disengage(m) \/ ChangeMatching(m) \/ ChangeProfile(m)
               \/ PlacementRecords(m) \/ RecordGoes(m)
               \/ PlacementWrites(m) \/ InstanceGoes(m) \/ LocalCreates(m)
        PROVE  Earning'
    <2>1. UNCHANGED <<def, cdef, pass, copy, served>>
      BY <1>8 DEF SyncRecord, Engage, Disengage, ChangeMatching, ChangeProfile,
            PlacementRecords, RecordGoes, PlacementWrites, InstanceGoes, LocalCreates,
            Placement!Record, Placement!Forget, Placement!Write, Placement!Vanish,
            Placement!LocalCreate
    <2>2. placing' = placing \/ placing' = [placing EXCEPT ![m] = "written"]
      BY <1>8 DEF SyncRecord, Engage, Disengage, ChangeMatching, ChangeProfile,
            PlacementRecords, RecordGoes, PlacementWrites, InstanceGoes, LocalCreates,
            Placement!Record, Placement!Forget, Placement!Write, Placement!Vanish,
            Placement!LocalCreate
    <2>3. WritesEarned'
      BY <1>0, <2>1, <2>2 DEF Earning, WritesEarned
    <2> QED
      BY <1>1, <2>1, <2>3
  <1>9. ASSUME NEW m \in Members, KroEvaluates(m) PROVE Earning'
    <2>1. PICK v \in {"active", "refused"}, d \in {TRUE, m \notin Undated} :
             /\ copy' = [copy EXCEPT ![m].evaluated = TRUE, ![m].dated = d, ![m].verdict = v]
             /\ served' = CASE v = "refused" -> served
                            [] d -> [served EXCEPT ![m] = @ \cup {copy[m].rev}]
                            [] OTHER -> [served EXCEPT ![m] = Revisions \cup {0}]
      BY <1>9 DEF KroEvaluates
    <2>2. copy[m].rev \in Revisions \cup {0} /\ served[m] \subseteq Revisions \cup {0}
      BY CurrentTypes
    <2>3. /\ \A n \in Members : served[n] \subseteq served'[n]
          /\ v = "active" => copy[m].rev \in served'[m]
          /\ v = "active" /\ ~d => Revisions \cup {0} \subseteq served'[m]
      <3>1. CASE v = "refused"
        BY <2>1, <3>1
      <3>2. CASE v = "active" /\ d
        <4>1. served' = [served EXCEPT ![m] = @ \cup {copy[m].rev}]
          BY <2>1, <3>2
        <4> QED
          BY <1>0, <3>2, <4>1
      <3>3. CASE v = "active" /\ ~d
        <4>1. served' = [served EXCEPT ![m] = Revisions \cup {0}]
          BY <2>1, <3>3
        <4> QED
          BY <1>0, <2>2, <3>3, <4>1
      <3> QED
        BY <3>1, <3>2, <3>3
    <2>4. \A n \in Members \ {m} : copy'[n] = copy[n]
      BY <1>0, <2>1
    <2>5. copy'[m].verdict = v /\ copy'[m].rev = copy[m].rev /\ copy'[m].dated = d
      BY <1>0, <2>1 DEF Copies
    <2>6. ASSUME NEW n \in Members PROVE Vouched(n, copy[n])'
      <3>1. CASE n = m
        BY <2>3, <2>5, <3>1 DEF Vouched
      <3>2. CASE n # m
        <4>1. Vouched(n, copy[n]) /\ copy'[n] = copy[n] /\ served[n] \subseteq served'[n]
          BY <2>3, <2>4, <3>2 DEF Earning, CopiesKnown
        <4> QED
          BY <4>1 DEF Vouched
      <3> QED
        BY <3>1, <3>2
    <2>7. CopiesKnown'
      BY <2>6 DEF CopiesKnown
    <2> QED
      BY <1>2, <1>9, <2>3, <2>7 DEF KroEvaluates
  <1>10. ASSUME NEW m \in Members, Vanish(m) \/ MemberDelete(m) \/ MemberCreate(m)
         PROVE  Earning'
    <2>1. UNCHANGED <<def, cdef, pass, placing, served>>
      BY <1>10 DEF Vanish, MemberDelete, MemberCreate
    <2>2. \A n \in Members :
             \/ copy'[n].verdict = "none"
             \/ /\ copy'[n].verdict = copy[n].verdict /\ copy'[n].dated = copy[n].dated
                /\ copy'[n].evaluated => copy[n].evaluated /\ copy'[n].rev = copy[n].rev
      <3>1. CASE Vanish(m)
        BY <1>0, <3>1 DEF Vanish, NoCopy
      <3>2. CASE MemberDelete(m)
        BY <1>0, <3>2 DEF MemberDelete, Copies
      <3>3. CASE MemberCreate(m)
        BY <1>0, <3>3 DEF MemberCreate, NoCopy
      <3> QED
        BY <1>10, <3>1, <3>2, <3>3
    <2>3. CopiesKnown'
      BY <2>1, <2>2, CopiesFrame DEF Earning
    <2> QED
      BY <1>2, <2>1, <2>3
  <1> QED
    BY <1>4, <1>5, <1>6, <1>7, <1>8, <1>9, <1>10 DEF Environment

LEMMA EarningHolds == Spec => [](TypeOK /\ Earning)
  <1>1. TypeOK /\ Earning /\ TypeOK' /\ [Next]_vars => Earning'
    <2> SUFFICES ASSUME TypeOK, Earning, TypeOK', [Next]_vars PROVE Earning'
      OBVIOUS
    <2>1. CASE Next
      BY <2>1, StepCases, StartEarns, RemoveEarns, DistributeEarns, FinishEarns, EnvironmentEarns
    <2>2. CASE UNCHANGED vars
      BY <2>2 DEF vars, Earning, CopiesKnown, Vouched, StatusKnown, PassEarns,
                  ConditionsEarned, Earned, WritesEarned
    <2> QED
      BY <2>1, <2>2
  <1> QED
    BY <1>1, InitEarning, TypeCorrect, PTL DEF Spec

\* AcceptedIsTrue: ObserveDefinition and Fresh (definition.go:199) write down as
\* accepted only a revision that the member's kro has called Active, for that very
\* generation, unless it has once called a copy Active without saying for which: on
\* whichever members kro may leave its verdicts undated.
THEOREM AcceptanceIsTrue == Spec => []AcceptedIsTrue
  <1>1. Earning => AcceptedIsTrue
    BY DEF Earning, StatusKnown, Knows, AcceptedIsTrue
  <1> QED
    BY <1>1, EarningHolds, PTL

\* GateIsEarned: DefinitionGate (definition.go:377) lets an instance onto a member
\* only when some revision was served there, read through a lagging cache and
\* acted upon after it has closed.
THEOREM GateOpensEarned == Spec => []GateIsEarned
  <1>1. Earning => GateIsEarned
    <2> SUFFICES ASSUME Earning, NEW m \in Members,
                        DefinitionGate(cdef, m) \/ placing[m] = "write"
                 PROVE  served[m] # {}
      BY DEF GateIsEarned
    <2>1. CASE placing[m] = "write"
      BY <2>1 DEF Earning, WritesEarned
    <2>2. CASE DefinitionGate(cdef, m)
      BY <2>2 DEF Earning, StatusKnown, Knows, DefinitionGate, Accepted, Serving
    <2> QED
      BY <2>1, <2>2
  <1> QED
    BY <1>1, EarningHolds, PTL

\* AcceptedConditionEarned: RollupDefinition (definition.go:279) reports Accepted
\* only for a revision that every targeted member's kro has called Active, unless it
\* has called some copy Active without saying which revision it meant.
THEOREM ConditionIsEarned == Spec => []AcceptedConditionEarned
  <1>1. Earning => AcceptedConditionEarned
    BY DEF Earning, ConditionsEarned, Earned, AcceptedConditionEarned
  <1> QED
    BY <1>1, EarningHolds, PTL

-----------------------------------------------------------------------------
(* The guard of the removal, taken when a member is begun with and relied   *)
(* on at the delete, two steps later.                                       *)

Guarding ==
    /\ busy \subseteq live
    /\ pass.pc \in {"get", "delete"} => pass.m \notin busy

LEMMA GuardingKept ==
  ASSUME TypeOK, Guarding, Next PROVE Guarding'
  <1> USE DEF hubVars, instanceVars, envVars, budgets, history, Disturb, Began
  <1>0. ASSUME busy' = busy, live' = live, pass'.pc \in {"idle", "loop"} PROVE Guarding'
    BY <1>0 DEF Guarding
  <1>1. CASE AddFinalizer \/ BeginConverge \/ BeginFinalize
    <2>1. busy' = live /\ live' = live
      BY <1>1 DEF AddFinalizer, BeginConverge, BeginFinalize
    <2>2. \E d : pass' = Converge(d) \/ pass' = StartOf(d, Listed(d), {})
      BY <1>1 DEF AddFinalizer, BeginConverge, BeginFinalize
    <2>3. pass'.pc = "loop"
      BY <2>2, StartFields DEF Converge
    <2> QED
      BY <2>1, <2>3 DEF Guarding
  <1>2. CASE RemoveStep
    <2>1. busy' = busy /\ live' = live
      BY <1>2 DEF RemoveStep, RemoveBlindly, RemoveGuarded, RemoveUnlisted, RemoveGet, RemoveDelete
    <2>2. ASSUME NEW m, NEW e, NEW L, Settled(m, e, L) PROVE pass'.pc = "loop"
      BY <2>2 DEF Settled, TypeOK, Passes
    <2>3. ASSUME NEW m \in Members, RemoveGuarded(m) PROVE Guarding'
      <3>1. CASE pass' = [pass EXCEPT !.pc = "get", !.m = m] /\ m \notin live
        <4>1. pass'.m = m
          BY <3>1 DEF TypeOK, Passes
        <4> QED
          BY <2>1, <3>1, <4>1 DEF Guarding
      <3>2. CASE pass'.pc = "loop"
        BY <1>0, <2>1, <3>2
      <3> QED
        BY <2>2, <2>3, <3>1, <3>2 DEF RemoveGuarded, MemberLocalInstances, Held
    <2>4. CASE RemoveGet
      <3>1. CASE pass' = [pass EXCEPT !.pc = "delete", !.seen = copy[pass.m].uid]
        <4>1. pass'.m = pass.m /\ pass.pc = "get"
          BY <2>4, <3>1 DEF RemoveGet, TypeOK, Passes
        <4> QED
          BY <2>1, <4>1 DEF Guarding
      <3>2. CASE pass'.pc = "loop"
        BY <1>0, <2>1, <3>2
      <3> QED
        BY <2>2, <2>4, <3>1, <3>2 DEF RemoveGet, Removed, Pending, Held
    <2>5. CASE RemoveDelete \/ \E m \in Members : RemoveBlindly(m) \/ RemoveUnlisted(m)
      <3>1. pass'.pc = "loop"
        BY <2>2, <2>5 DEF RemoveDelete, RemoveBlindly, RemoveUnlisted, Removed, Pending, Held
      <3> QED
        BY <1>0, <2>1, <3>1
    <2> QED
      BY <1>2, <2>3, <2>4, <2>5 DEF RemoveStep
  <1>3. CASE DistributeStep
    <2>1. busy' = busy /\ live' = live
      BY <1>3 DEF DistributeStep, DistributeSkipped, Distribute, DistributeFailed
    <2>2. \E m, e, L : Settled(m, e, L)
      BY <1>3 DEF DistributeStep, DistributeSkipped, Distribute, DistributeFailed, Applied
    <2>3. pass'.pc = "loop"
      BY <2>2 DEF Settled, TypeOK, Passes
    <2> QED
      BY <1>0, <2>1, <2>3
  <1>4. CASE FinishPass \/ PassFault
    BY <1>0, <1>4, EndFields DEF FinishPass, PassFault
  <1>5. CASE Environment
    <2>1. CASE UNCHANGED pass /\ UNCHANGED busy /\ live \subseteq live'
      BY <2>1 DEF Guarding
    <2>2. ASSUME NEW m \in Members, InstanceGoes(m) PROVE Guarding'
      BY <2>2 DEF InstanceGoes, Placement!Vanish, Guarding
    <2>3. CASE \E m \in Members : RecordGoes(m) \/ PlacementRecords(m) \/ PlacementWrites(m)
                                  \/ LocalCreates(m)
      BY <2>1, <2>3 DEF RecordGoes, PlacementRecords, PlacementWrites, LocalCreates,
           Placement!Forget, Placement!Record, Placement!Write, Placement!LocalCreate
    <2>4. CASE PlacementBegins \/ PlacementEnds
      BY <2>1, <2>4 DEF PlacementBegins, PlacementEnds, Placement!Begin, Placement!GiveUp
    <2>5. CASE \/ SyncDefinition \/ CreateDefinition \/ DeleteDefinition
               \/ EditDefinition \/ SwitchDistribution
      BY <2>1, <2>5 DEF SyncDefinition, CreateDefinition, DeleteDefinition,
           EditDefinition, SwitchDistribution
    <2>6. CASE \E m \in Members :
                  \/ SyncRecord(m) \/ Engage(m) \/ Disengage(m) \/ KroEvaluates(m) \/ Vanish(m)
                  \/ ChangeMatching(m) \/ ChangeProfile(m) \/ MemberDelete(m) \/ MemberCreate(m)
      BY <2>1, <2>6 DEF SyncRecord, Engage, Disengage, KroEvaluates, Vanish,
           ChangeMatching, ChangeProfile, MemberDelete, MemberCreate
    <2> QED
      BY <1>5, <2>2, <2>3, <2>4, <2>5, <2>6 DEF Environment
  <1> QED
    BY <1>1, <1>2, <1>3, <1>4, <1>5, StepCases

\* The environment leaves the pass alone.
LEMMA EnvironmentLeavesPass ==
  ASSUME Environment PROVE UNCHANGED pass
  BY DEF Environment, hubVars, instanceVars, envVars, budgets, history, Disturb,
         SyncDefinition, CreateDefinition, DeleteDefinition, EditDefinition, SwitchDistribution,
         PlacementBegins, PlacementEnds, SyncRecord, Engage, Disengage, KroEvaluates, Vanish,
         ChangeMatching, ChangeProfile, MemberDelete, MemberCreate, PlacementRecords,
         PlacementWrites, InstanceGoes, RecordGoes, LocalCreates

\* GuardHonoured: removeFromMember (definition_controller.go:409) deletes no copy
\* on a member that has had an instance of the kind ever since its pass began,
\* whatever the members, the placing and the users do between guard and delete.
THEOREM GuardIsHonoured == Spec => GuardHonoured
  <1>1. Init => Guarding
    BY DEF Init, Guarding, PassIdle
  <1>2. TypeOK /\ Guarding /\ [Next]_vars => Guarding'
    <2>1. Guarding /\ UNCHANGED vars => Guarding'
      BY DEF vars, Guarding
    <2> QED
      BY <2>1, GuardingKept
  <1>3. TypeOK /\ Guarding /\ [Next]_vars =>
          [pass' # pass =>
             \A m \in Members : copy'[m].dying /\ ~copy[m].dying => m \notin busy]_vars
    <2> SUFFICES ASSUME TypeOK, Guarding, Next, pass' # pass,
                        NEW m \in Members, copy'[m].dying, ~copy[m].dying
                 PROVE  m \notin busy
      BY DEF vars
    <2> USE DEF hubVars, instanceVars, envVars, budgets, history
    <2>0. copy \in [Members -> Copies] /\ copy' # copy
      BY DEF TypeOK
    <2>1. CASE RemoveDelete
      BY <2>0, <2>1 DEF RemoveDelete, Guarding, Copies
    <2>2. CASE RemoveStep /\ ~RemoveDelete
      BY <2>0, <2>2 DEF RemoveStep, RemoveBlindly, RemoveGuarded, RemoveUnlisted, RemoveGet
    <2>3. CASE DistributeStep
      <3>1. PICK n \in Members : Distribute(n)
        BY <2>0, <2>3 DEF DistributeStep, DistributeSkipped, DistributeFailed
      <3>2. ~copy'[n].dying \/ copy'[n].dying = copy[n].dying
        <4>1. CASE Applied(n, [copy[n] EXCEPT !.ours = TRUE, !.rev = pass.def.rev,
                                              !.evaluated = @ /\ copy[n].rev = pass.def.rev])
          <5>1. copy'[n].dying = copy[n].dying
            BY <2>0, <4>1 DEF Applied, Copies
          <5> QED
            BY <5>1
        <4>2. ASSUME NEW u,
                     Applied(n, [NoCopy EXCEPT !.uid = u, !.ours = TRUE, !.rev = pass.def.rev])
              PROVE  ~copy'[n].dying
          BY <2>0, <4>2 DEF Applied, NoCopy
        <4> QED
          BY <3>1, <4>1, <4>2 DEF Distribute
      <3>3. \A k \in Members \ {n} : copy'[k] = copy[k]
        BY <2>0, <3>1 DEF Distribute, Applied
      <3> QED
        BY <3>2, <3>3
    <2>4. CASE \/ AddFinalizer \/ BeginConverge \/ BeginFinalize \/ FinishPass \/ PassFault
      BY <2>0, <2>4 DEF AddFinalizer, BeginConverge, BeginFinalize, FinishPass, PassFault
    <2>5. CASE Environment
      BY <2>5, EnvironmentLeavesPass
    <2> QED
      BY <2>1, <2>2, <2>3, <2>4, <2>5, StepCases
  <1> QED
    BY <1>1, <1>2, <1>3, TypeCorrect, PTL DEF Spec, GuardHonoured

-----------------------------------------------------------------------------
(* The inventory of copies.  An entry leaves status.members at the end of a *)
(* pass, and only if that pass started from the very status it replaces and *)
(* saw the copy gone.                                                       *)

NoEntries(d) == \A m \in Members : d.entry[m] = NoEntry
Blank(d) == d.rv = 0 => NoEntries(d)
SameVersion(d, e) == d.rv = e.rv => \A m \in Members : d.entry[m] = e.entry[m]
Coherent ==
    /\ Blank(def) /\ Blank(cdef) /\ Blank(pass.def)
    /\ SameVersion(def, cdef) /\ SameVersion(def, pass.def)
NewIsEmpty == def.st \in {"none", "new"} => Listed(def) = {}
PassWellFormed ==
    /\ pass.pc # "idle" => pass.def.st \in {"live", "deleting"}
    /\ pass.rm \subseteq Listed(pass.def)
    /\ pass.pc \in {"get", "delete"} => pass.m \in pass.rm
    /\ pass.pc = "delete" => pass.def.entry[pass.m].uid \in {0, pass.seen}
CopyGone(m) == ~(OnMember(m) /\ copy[m].ours /\ copy[m].uid = pass.def.entry[m].uid)
Cleared ==
    \A m \in Listed(pass.def) \ (pass.rm \cup pass.put) :
        pass.pc # "idle" /\ ~pass.out[m].listed /\ pass.prof[m] # "none" => CopyGone(m)
Listing == Coherent /\ NewIsEmpty /\ PassWellFormed /\ Cleared

LEMMA BlankFacts ==
  /\ NoDefinition.rv = 0 /\ NoEntries(NoDefinition)
  /\ NoEntries([NoDefinition EXCEPT !.st = "gone"]) /\ [NoDefinition EXCEPT !.st = "gone"].rv = 0
  /\ [NoDefinition EXCEPT !.st = "gone"].st = "gone" /\ ~NoEntry.listed
  BY DEF NoDefinition, NoEntries, NoEntry

LEMMA InitListing == Init => Listing
  <1> SUFFICES ASSUME Init PROVE Listing
    OBVIOUS
  <1>1. /\ pass.def = NoDefinition /\ def = NoDefinition /\ cdef = NoDefinition
        /\ pass.pc = "idle" /\ pass.rm = {} /\ NoDefinition.st = "none"
    BY DEF Init, PassIdle, NoDefinition
  <1>2. Coherent
    BY <1>1, BlankFacts DEF Coherent, Blank, SameVersion
  <1>3. NewIsEmpty
    BY <1>1, BlankFacts DEF NewIsEmpty, Listed, NoEntries
  <1>4. PassWellFormed /\ Cleared
    BY <1>1 DEF PassWellFormed, Cleared
  <1> QED
    BY <1>2, <1>3, <1>4 DEF Listing

\* What a write of the object, or its end, leaves of the versions read before.
LEMMA CoherentKept ==
  ASSUME TypeOK, Coherent, UNCHANGED cdef,
         \/ def'.rv \in FreshVersion
         \/ def'.rv = 0 /\ NoEntries(def')
         \/ def' = def,
         pass'.def \in {pass.def, NoDefinition}
  PROVE  Coherent'
  <1>1. def'.rv \in FreshVersion => def'.rv # 0 /\ def'.rv # cdef.rv /\ def'.rv # pass.def.rv
    BY FreshVersionFact
  <1>2. Blank(def)' /\ Blank(cdef)' /\ Blank(pass.def)'
    BY <1>1, BlankFacts DEF Coherent, Blank, NoEntries
  <1>3. SameVersion(def, cdef)'
    BY <1>1 DEF Coherent, Blank, SameVersion, NoEntries
  <1>4. SameVersion(def, pass.def)'
    BY <1>1, <1>2, BlankFacts DEF Coherent, Blank, SameVersion, NoEntries
  <1> QED
    BY <1>2, <1>3, <1>4 DEF Coherent

\* A member is settled: it stays listed, has left, or its copy is gone.
LEMMA SettledListed ==
  ASSUME TypeOK, Listing,
         NEW m \in Members, NEW e \in Entries, NEW L \in SUBSET Members, Settled(m, e, L),
         pass.pc # "idle", UNCHANGED <<def, cdef>>,
         \A n \in Members \ {m} :
            copy'[n].uid = copy[n].uid /\ copy'[n].ours = copy[n].ours,
         \/ e.listed
         \/ pass.prof[m] = "none"
         \/ ~(copy'[m].uid # 0 /\ copy'[m].ours /\ copy'[m].uid = pass.def.entry[m].uid)
  PROVE  Listing'
  <1>1. /\ pass'.pc = "loop" /\ pass'.def = pass.def /\ pass'.prof = pass.prof
        /\ pass'.rm = pass.rm \ {m} /\ pass'.put = pass.put \ {m}
        /\ \A n \in Members : pass'.out[n] = IF n = m THEN e ELSE pass.out[n]
    BY SettledFields
  <1>2. Coherent' /\ NewIsEmpty'
    BY <1>1 DEF Listing, Coherent, Blank, SameVersion, NewIsEmpty, Listed, NoEntries
  <1>3. PassWellFormed'
    BY <1>1 DEF Listing, PassWellFormed, Listed
  <1>4. ASSUME NEW n \in Listed(pass.def), n \notin pass'.rm \cup pass'.put,
               ~pass'.out[n].listed, pass.prof[n] # "none"
        PROVE  CopyGone(n)'
    <2>1. n \in Members
      BY DEF Listed
    <2>2. CASE n = m
      BY <1>1, <1>4, <2>1, <2>2 DEF CopyGone, OnMember
    <2>3. CASE n # m
      BY <1>1, <1>4, <2>1, <2>3 DEF CopyGone, OnMember, Listing, Cleared
    <2> QED
      BY <2>2, <2>3
  <1>5. Cleared'
    BY <1>1, <1>4 DEF Cleared, Listed
  <1> QED
    BY <1>2, <1>3, <1>5 DEF Listing

LEMMA StartListing ==
  ASSUME TypeOK, Listing, AddFinalizer \/ BeginConverge \/ BeginFinalize PROVE Listing'
  <1> USE DEF hubVars, instanceVars, envVars, budgets, Began
  <1>1. ASSUME NEW d, NEW R, NEW P, pass' = StartOf(d, R, P),
               d.st \in {"live", "deleting"}, R \subseteq Listed(d), Listed(d) \subseteq R \cup P
        PROVE  PassWellFormed' /\ Cleared' /\ pass'.def = d
    <2>1. /\ StartOf(d, R, P).pc = "loop" /\ StartOf(d, R, P).def = d
          /\ StartOf(d, R, P).rm = R /\ StartOf(d, R, P).put = P
      BY StartFields
    <2>2. /\ pass'.pc = "loop" /\ pass'.def = d /\ pass'.rm = R /\ pass'.put = P
      BY <1>1, <2>1
    <2> QED
      BY <1>1, <2>2 DEF PassWellFormed, Cleared, Listed
  <1>2. \A d : Listed(d) \ DefinitionTargets(d) \subseteq Listed(d)
               /\ Listed(d) \subseteq (Listed(d) \ DefinitionTargets(d)) \cup DefinitionTargets(d)
    OBVIOUS
  <1>3. CASE AddFinalizer
    <2>1. PICK v \in FreshVersion : /\ def' = [def EXCEPT !.st = "live", !.rv = v]
                                    /\ pass' = Converge([def EXCEPT !.st = "live", !.rv = v])
      BY <1>3 DEF AddFinalizer
    <2> DEFINE d == [def EXCEPT !.st = "live", !.rv = v]
    <2>2. d.st = "live" /\ d.rv = v
      BY DEF TypeOK, Definitions
    <2>3. def' = d /\ pass' = StartOf(d, Listed(d) \ DefinitionTargets(d), DefinitionTargets(d))
      BY <2>1 DEF Converge
    <2> HIDE DEF d
    <2>4. PassWellFormed' /\ Cleared' /\ pass'.def = d
      BY <1>1, <1>2, <2>2, <2>3
    <2>5. NewIsEmpty'
      BY <2>2, <2>3 DEF NewIsEmpty
    <2>6. Coherent'
      BY <1>3, <2>2, <2>3, <2>4, FreshVersionFact
         DEF AddFinalizer, Listing, Coherent, Blank, SameVersion, NoEntries
    <2> QED
      BY <2>4, <2>5, <2>6 DEF Listing
  <1>4. CASE BeginConverge \/ BeginFinalize
    <2>1. PassWellFormed' /\ Cleared' /\ pass'.def = cdef
      <3>1. \/ pass' = StartOf(cdef, Listed(cdef) \ DefinitionTargets(cdef), DefinitionTargets(cdef))
            \/ pass' = StartOf(cdef, Listed(cdef), {})
        BY <1>4 DEF BeginConverge, BeginFinalize, Converge
      <3>2. cdef.st \in {"live", "deleting"}
        BY <1>4 DEF BeginConverge, BeginFinalize
      <3> QED
        BY <1>1, <1>2, <3>1, <3>2
    <2>2. UNCHANGED <<def, cdef>>
      BY <1>4 DEF BeginConverge, BeginFinalize
    <2>3. Coherent' /\ NewIsEmpty'
      BY <2>1, <2>2 DEF Listing, Coherent, Blank, SameVersion, NoEntries, NewIsEmpty, Listed
    <2> QED
      BY <2>1, <2>3 DEF Listing
  <1> QED
    BY <1>3, <1>4

LEMMA RemoveListing ==
  ASSUME TypeOK, Listing, RemoveStep PROVE Listing'
  <1> USE DEF hubVars, instanceVars, envVars, budgets, history
  <1>1. ASSUME NEW m \in pass.rm
        PROVE  /\ m \in Members /\ pass.def.entry[m].listed
               /\ [pass.def.entry[m] EXCEPT !.applied = FALSE] \in Entries
               /\ [pass.def.entry[m] EXCEPT !.applied = FALSE].listed
               /\ [pass.def.entry[m] EXCEPT !.applied = FALSE, !.reason = "removing"] \in Entries
               /\ [pass.def.entry[m] EXCEPT !.applied = FALSE, !.reason = "removing"].listed
               /\ Guarded(pass.def.entry[m], copy[m]) \in Entries
               /\ Guarded(pass.def.entry[m], copy[m]).listed
    <2>1. m \in Members /\ pass.def.entry[m].listed
      BY DEF Listing, PassWellFormed, Listed
    <2>2. pass.def.entry[m] \in Entries /\ copy[m] \in Copies
      BY <2>1, CurrentTypes
    <2>3. /\ [pass.def.entry[m] EXCEPT !.applied = FALSE] \in Entries
          /\ [pass.def.entry[m] EXCEPT !.applied = FALSE, !.reason = "removing"] \in Entries
          /\ Guarded(pass.def.entry[m], copy[m]) \in Entries
      BY <2>2, EntryTypes, GuardedType
    <2>4. /\ [pass.def.entry[m] EXCEPT !.applied = FALSE].listed
          /\ [pass.def.entry[m] EXCEPT !.applied = FALSE, !.reason = "removing"].listed
          /\ Guarded(pass.def.entry[m], copy[m]).listed
      BY <2>1, <2>2 DEF Entries, Guarded
    <2> QED
      BY <2>1, <2>3, <2>4
  <1>2. ASSUME NEW m \in pass.rm, pass.pc # "idle", UNCHANGED <<def, cdef>>,
               \A n \in Members \ {m} :
                  copy'[n].uid = copy[n].uid /\ copy'[n].ours = copy[n].ours,
               \/ Pending(m)
               \/ Held(m, [pass.def.entry[m] EXCEPT !.applied = FALSE])
               \/ Held(m, Guarded(pass.def.entry[m], copy[m]))
               \/ /\ Removed(m)
                  /\ \/ pass.prof[m] = "none"
                     \/ ~(copy'[m].uid # 0 /\ copy'[m].ours
                          /\ copy'[m].uid = pass.def.entry[m].uid)
        PROVE  Listing'
    <2>1. ASSUME NEW e \in Entries, e.listed, Held(m, e) PROVE Listing'
      <3>1. {m} \in SUBSET Members /\ Settled(m, e, {m}) /\ m \in Members
        BY <1>1, <2>1 DEF Held
      <3> QED
        BY <1>2, <2>1, <3>1, SettledListed
    <2>2. ASSUME Removed(m),
                 \/ pass.prof[m] = "none"
                 \/ ~(copy'[m].uid # 0 /\ copy'[m].ours
                      /\ copy'[m].uid = pass.def.entry[m].uid)
          PROVE  Listing'
      <3>1. {} \in SUBSET Members /\ Settled(m, NoEntry, {}) /\ m \in Members
        BY <1>1, <2>2 DEF Removed
      <3> QED
        BY <1>2, <2>2, <3>1, NoEntryType, SettledListed
    <2> QED
      BY <1>1, <1>2, <2>1, <2>2 DEF Pending
  <1>3. ASSUME UNCHANGED <<def, cdef, copy>>,
               \/ \E m \in Members : pass' = [pass EXCEPT !.pc = "get", !.m = m]
               \/ \E u \in Uids \cup {0} : pass' = [pass EXCEPT !.pc = "delete", !.seen = u],
               PassWellFormed', pass.pc # "idle"
        PROVE  Listing'
    <2>1. /\ pass'.def = pass.def /\ pass'.out = pass.out /\ pass'.prof = pass.prof
          /\ pass'.rm = pass.rm /\ pass'.put = pass.put
      BY <1>3, MoveFields
    <2>2. Coherent' /\ NewIsEmpty'
      BY <1>3, <2>1 DEF Listing, Coherent, Blank, SameVersion, NoEntries, NewIsEmpty, Listed
    <2>3. Cleared'
      BY <1>3, <2>1 DEF Listing, Listed, Cleared, CopyGone, OnMember
    <2> QED
      BY <1>3, <2>2, <2>3 DEF Listing
  <1>4. ASSUME NEW m \in Members, RemoveBlindly(m) \/ RemoveUnlisted(m) PROVE Listing'
    BY <1>2, <1>4 DEF RemoveBlindly, RemoveUnlisted
  <1>5. ASSUME NEW m \in Members, RemoveGuarded(m) PROVE Listing'
    <2>1. CASE pass' = [pass EXCEPT !.pc = "get", !.m = m]
      <3>1. /\ pass'.pc = "get" /\ pass'.m = m
        BY <2>1 DEF TypeOK, Passes
      <3>2. pass'.def = pass.def /\ pass'.rm = pass.rm
        BY <2>1, MoveFields
      <3>3. m \in pass.rm /\ pass.pc = "loop" /\ UNCHANGED <<def, cdef, copy>>
        BY <1>5 DEF RemoveGuarded
      <3>4. PassWellFormed'
        BY <3>1, <3>2, <3>3 DEF Listing, PassWellFormed, Listed
      <3> QED
        BY <1>3, <2>1, <3>3, <3>4
    <2>2. CASE Held(m, Guarded(pass.def.entry[m], copy[m]))
      BY <1>2, <1>5, <2>2 DEF RemoveGuarded
    <2> QED
      BY <1>5, <2>1, <2>2 DEF RemoveGuarded
  <1>6. CASE RemoveGet
    <2>1. pass.m \in pass.rm /\ pass.m \in Members /\ UNCHANGED <<def, cdef, copy>>
          /\ pass.pc = "get"
      BY <1>6, CurrentTypes DEF RemoveGet, Listing, PassWellFormed
    <2>2. CASE pass' = [pass EXCEPT !.pc = "delete", !.seen = copy[pass.m].uid]
               /\ Find(pass.m, pass.def.entry[pass.m].uid) = "delete"
      <3>1. pass.def.entry[pass.m].uid \in {0, copy[pass.m].uid}
        BY <2>2 DEF Find
      <3>2. /\ pass'.pc = "delete" /\ pass'.m = pass.m /\ pass'.seen = copy[pass.m].uid
        BY <2>2 DEF TypeOK, Passes
      <3>3. copy[pass.m].uid \in Uids \cup {0}
        BY <2>1, CurrentTypes
      <3>4. pass'.def = pass.def /\ pass'.rm = pass.rm
        BY <2>2, <3>3, MoveFields
      <3>5. PassWellFormed'
        BY <2>1, <3>1, <3>2, <3>4 DEF Listing, PassWellFormed, Listed
      <3> QED
        BY <1>3, <2>1, <2>2, <3>3, <3>5
    <2>3. CASE Removed(pass.m) /\ Find(pass.m, pass.def.entry[pass.m].uid) = "gone"
      <3>1. ~(copy[pass.m].uid # 0 /\ copy[pass.m].ours
              /\ copy[pass.m].uid = pass.def.entry[pass.m].uid)
        BY <2>3 DEF Find, OnMember
      <3> QED
        BY <1>2, <2>1, <2>3, <3>1
    <2>4. CASE Pending(pass.m)
      BY <1>2, <2>1, <2>4
    <2> QED
      BY <1>6, <2>2, <2>3, <2>4 DEF RemoveGet
  <1>7. CASE RemoveDelete
    <2>1. /\ pass.m \in pass.rm /\ pass.m \in Members /\ UNCHANGED <<def, cdef>>
          /\ pass.pc = "delete" /\ pass.def.entry[pass.m].uid \in {0, pass.seen}
      BY <1>7, CurrentTypes DEF RemoveDelete, Listing, PassWellFormed
    <2>2. /\ copy \in [Members -> Copies]
          /\ copy' = copy \/ copy' = [copy EXCEPT ![pass.m].dying = TRUE]
      BY <1>7 DEF RemoveDelete, TypeOK
    <2>3. \A n \in Members : copy'[n].uid = copy[n].uid /\ copy'[n].ours = copy[n].ours
      BY <2>2 DEF Copies
    <2>4. CASE Pending(pass.m)
      BY <1>2, <2>1, <2>3, <2>4
    <2>5. CASE Removed(pass.m) /\ OnMember(pass.m) /\ copy[pass.m].uid # pass.seen
      <3>1. ~(copy'[pass.m].uid # 0 /\ copy'[pass.m].ours
              /\ copy'[pass.m].uid = pass.def.entry[pass.m].uid)
        BY <2>1, <2>3, <2>5 DEF OnMember
      <3> QED
        BY <1>2, <2>1, <2>3, <2>5, <3>1
    <2> QED
      BY <1>7, <2>4, <2>5 DEF RemoveDelete
  <1> QED
    BY <1>4, <1>5, <1>6, <1>7 DEF RemoveStep

LEMMA DistributeListing ==
  ASSUME TypeOK, Listing, DistributeStep PROVE Listing'
  <1> USE DEF hubVars, instanceVars, envVars, budgets, history
  <1>1. ASSUME NEW m \in Members, NEW e \in Entries, e.listed, Settled(m, e, {}), Turn(m),
               UNCHANGED <<def, cdef>>, \A n \in Members \ {m} : copy'[n] = copy[n]
        PROVE  Listing'
    BY <1>1, SettledListed DEF Turn
  <1>2. ASSUME NEW m \in Members
        PROVE  /\ Unreached(pass.def.entry[m], pass.def.rev) \in Entries
               /\ Unreached(pass.def.entry[m], pass.def.rev).listed
               /\ Failed(pass.def.entry[m]) \in Entries /\ Failed(pass.def.entry[m]).listed
               /\ \A c \in Copies : /\ ReadBack(pass.def.entry[m], c, pass.def.rev) \in Entries
                                    /\ ReadBack(pass.def.entry[m], c, pass.def.rev).listed
    <2>1. pass.def.entry[m] \in Entries /\ pass.def.rev \in Revisions
      BY CurrentTypes
    <2>2. /\ Unreached(pass.def.entry[m], pass.def.rev).listed
          /\ Failed(pass.def.entry[m]).listed
          /\ \A c : ReadBack(pass.def.entry[m], c, pass.def.rev).listed
      BY <2>1 DEF Unreached, Failed, ReadBack, Entries
    <2> QED
      BY <2>1, <2>2, EntryTypes, ReadBackType
  <1>3. ASSUME NEW m \in Members, DistributeSkipped(m) \/ DistributeFailed(m) PROVE Listing'
    BY <1>1, <1>2, <1>3 DEF DistributeSkipped, DistributeFailed
  <1>4. ASSUME NEW m \in Members, Distribute(m) PROVE Listing'
    <2>1. PICK c \in Copies : Applied(m, c)
      <3>1. pass.def.rev \in Revisions /\ copy[m] \in Copies
        BY CurrentTypes
      <3> QED
        BY <1>4, <3>1, RewrittenType, NewCopyType DEF Distribute
    <2>2. copy' = [copy EXCEPT ![m] = c] /\ copy \in [Members -> Copies]
      BY <2>1 DEF Applied, TypeOK
    <2>3. Settled(m, ReadBack(pass.def.entry[m], c, pass.def.rev), {})
      BY <2>1 DEF Applied
    <2> QED
      BY <1>1, <1>2, <1>4, <2>2, <2>3 DEF Distribute
  <1> QED
    BY <1>3, <1>4 DEF DistributeStep

\* What the end of a pass makes of the object.
LEMMA FinishWrites ==
  ASSUME TypeOK, FinishPass
  PROVE  \/ def' = def
         \/ /\ def.rv = pass.def.rv /\ def'.entry = pass.out /\ def'.st = pass.def.st
            /\ def' = def \/ def'.rv \in FreshVersion
         \/ /\ def.rv = pass.def.rv /\ def' = [NoDefinition EXCEPT !.st = "gone"]
            /\ \A m \in Members : ~pass.out[m].listed
  <1> DEFINE entries == [pass.def EXCEPT !.entry = pass.out]
             targets == Listed(entries) \ pass.leaving
             hashed == [entries EXCEPT !.hash = pass.def.rev]
             rolled == Rollup(hashed, targets, pass.out, pass.leaving)
             final == [entries EXCEPT !.leaving = pass.leaving]
  <1>1. /\ entries \in Definitions /\ pass.out \in [Members -> Entries]
        /\ pass.leaving \in SUBSET Members
    BY DEF TypeOK, Passes, Definitions
  <1>2. /\ hashed \in Definitions /\ final \in Definitions /\ entries.entry = pass.out
        /\ hashed.entry = pass.out /\ hashed.st = pass.def.st
        /\ final.entry = pass.out /\ final.st = pass.def.st
    BY <1>1 DEF TypeOK, Passes, Definitions
  <1>3. targets \in SUBSET Members
    BY DEF Listed
  <1>4. rolled \in Definitions /\ rolled.entry = pass.out /\ rolled.st = pass.def.st
    <2> HIDE DEF hashed, targets
    <2>1. rolled \in Definitions
      BY <1>1, <1>2, <1>3, RollupType
    <2>2. rolled.entry = hashed.entry /\ rolled.st = hashed.st
      BY <1>2, RollupKeeps
    <2> QED
      BY <1>2, <2>1, <2>2
  <1>5. Listed(entries) = {} => \A m \in Members : ~pass.out[m].listed
    BY <1>2 DEF Listed
  <1>6. \/ def' = def
        \/ def.rv = pass.def.rv /\ (Write(rolled) \/ Write(final))
        \/ /\ def.rv = pass.def.rv /\ Listed(entries) = {}
           /\ def' = [NoDefinition EXCEPT !.st = "gone"]
    BY DEF FinishPass
  <1> HIDE DEF entries, rolled, final
  <1> QED
    BY <1>2, <1>4, <1>5, <1>6, WriteFields

LEMMA FinishListing ==
  ASSUME TypeOK, Listing, FinishPass \/ PassFault PROVE Listing'
  <1> USE DEF hubVars, instanceVars, envVars, budgets, history
  <1>1. UNCHANGED <<cdef, copy>> /\ EndPass /\ pass.pc # "idle"
    BY DEF FinishPass, PassFault
  <1>2. pass'.pc = "idle" /\ pass'.def = NoDefinition /\ pass'.rm = {}
    BY <1>1 DEF EndPass, PassIdle
  <1>3. PassWellFormed' /\ Cleared'
    BY <1>2 DEF PassWellFormed, Cleared
  <1>4. pass.def.st \in {"live", "deleting"}
    BY <1>1 DEF Listing, PassWellFormed
  <1>5. \/ def' = def
        \/ def'.rv \in FreshVersion /\ def'.st = pass.def.st
        \/ def' = [NoDefinition EXCEPT !.st = "gone"]
    BY FinishWrites DEF PassFault
  <1>6. NewIsEmpty'
    <2>1. CASE def' = def
      BY <2>1 DEF Listing, NewIsEmpty, Listed
    <2>2. CASE def' # def
      BY <1>4, <1>5, <2>2, BlankFacts DEF NewIsEmpty
    <2> QED
      BY <2>1, <2>2
  <1>7. Coherent'
    BY <1>1, <1>2, <1>5, BlankFacts, CoherentKept DEF Listing
  <1> QED
    BY <1>3, <1>6, <1>7 DEF Listing

LEMMA EnvironmentListing ==
  ASSUME TypeOK, Listing, Environment PROVE Listing'
  <1> USE DEF hubVars, instanceVars, envVars, budgets, history, Disturb
  <1>0. UNCHANGED pass /\ copy \in [Members -> Copies]
    BY EnvironmentLeavesPass DEF TypeOK
  <1>1. PassWellFormed'
    BY <1>0 DEF Listing, PassWellFormed, Listed
  <1>2. Cleared'
    <2>1. \A m \in Members : CopyGone(m) => CopyGone(m)'
      <3>1. \A m \in Members : \/ copy'[m].uid = 0 \/ ~copy'[m].ours
                               \/ copy'[m].uid = copy[m].uid /\ copy'[m].ours = copy[m].ours
        <4>1. CASE copy' = copy
          BY <4>1
        <4>2. ASSUME NEW m \in Members, KroEvaluates(m)
              PROVE  \A n \in Members : copy'[n].uid = copy[n].uid /\ copy'[n].ours = copy[n].ours
          BY <1>0, <4>2 DEF KroEvaluates, Copies
        <4>3. ASSUME NEW m \in Members, MemberDelete(m)
              PROVE  \A n \in Members : copy'[n].uid = copy[n].uid /\ copy'[n].ours = copy[n].ours
          BY <1>0, <4>3 DEF MemberDelete, Copies
        <4>4. ASSUME NEW m \in Members, Vanish(m) \/ MemberCreate(m)
              PROVE  ~copy'[m].ours /\ \A n \in Members \ {m} : copy'[n] = copy[n]
          BY <1>0, <4>4 DEF Vanish, MemberCreate, NoCopy
        <4>5. \/ copy' = copy
              \/ \E m \in Members : KroEvaluates(m) \/ MemberDelete(m) \/ Vanish(m) \/ MemberCreate(m)
          BY DEF Environment, SyncDefinition, CreateDefinition, DeleteDefinition, EditDefinition,
                 SwitchDistribution, PlacementBegins, PlacementEnds, SyncRecord, Engage, Disengage,
                 ChangeMatching, ChangeProfile, PlacementRecords, PlacementWrites,
                 InstanceGoes, RecordGoes, LocalCreates
        <4> QED
          BY <4>1, <4>2, <4>3, <4>4, <4>5
      <3> QED
        BY <1>0, <3>1 DEF CopyGone, OnMember
    <2> QED
      BY <1>0, <2>1 DEF Listing, Cleared, Listed
  <1>3. CASE UNCHANGED <<def, cdef>>
    BY <1>0, <1>1, <1>2, <1>3
       DEF Listing, Coherent, Blank, SameVersion, NoEntries, NewIsEmpty, Listed
  <1>4. CASE SyncDefinition
    <2>1. cdef' = def /\ def' = def
      BY <1>4 DEF SyncDefinition
    <2> QED
      BY <1>0, <1>1, <1>2, <2>1
         DEF Listing, Coherent, Blank, SameVersion, NoEntries, NewIsEmpty, Listed
  <1>5. CASE CreateDefinition \/ DeleteDefinition \/ EditDefinition \/ SwitchDistribution
    <2>1. UNCHANGED cdef
      BY <1>5 DEF CreateDefinition, DeleteDefinition, EditDefinition, SwitchDistribution
    <2>2. def \in Definitions
      BY DEF TypeOK
    <2>3. ASSUME NEW d \in Definitions, Write(d), d.entry = def.entry,
                 d.st = "new" => def.st = "none", d.st # "none"
          PROVE  Listing'
      <3>1. def'.entry = d.entry /\ def'.st = d.st /\ (def' = def \/ def'.rv \in FreshVersion)
        BY <2>3, WriteFields
      <3>2. Coherent'
        BY <1>0, <2>1, <3>1, CoherentKept DEF Listing
      <3>3. NewIsEmpty'
        BY <2>3, <3>1 DEF Listing, NewIsEmpty, Listed
      <3> QED
        BY <1>1, <1>2, <3>2, <3>3 DEF Listing
    <2>4. ASSUME def' = [NoDefinition EXCEPT !.st = "gone"] PROVE Listing'
      <3>1. Coherent'
        BY <1>0, <2>1, <2>4, BlankFacts, CoherentKept DEF Listing
      <3>2. NewIsEmpty'
        BY <2>4, BlankFacts DEF NewIsEmpty
      <3> QED
        BY <1>1, <1>2, <3>1, <3>2 DEF Listing
    <2>5. CASE CreateDefinition
      <3>1. PICK on \in BOOLEAN : Write([def EXCEPT !.st = "new", !.on = on])
        BY <2>5 DEF CreateDefinition
      <3>2. /\ [def EXCEPT !.st = "new", !.on = on] \in Definitions
            /\ [def EXCEPT !.st = "new", !.on = on].entry = def.entry
            /\ [def EXCEPT !.st = "new", !.on = on].st = "new"
        BY <2>2 DEF Definitions
      <3> QED
        BY <2>3, <2>5, <3>1, <3>2 DEF CreateDefinition
    <2>6. CASE DeleteDefinition
      <3>1. /\ [def EXCEPT !.st = "deleting"] \in Definitions
            /\ [def EXCEPT !.st = "deleting"].entry = def.entry
            /\ [def EXCEPT !.st = "deleting"].st = "deleting"
        BY <2>2 DEF Definitions
      <3> QED
        BY <2>3, <2>4, <2>6, <3>1 DEF DeleteDefinition
    <2>7. CASE EditDefinition
      <3>1. def.rev + 1 \in Revisions /\ def.st = "live"
        BY <2>2, <2>7 DEF EditDefinition, Definitions, Revisions
      <3>2. /\ [def EXCEPT !.rev = @ + 1] \in Definitions
            /\ [def EXCEPT !.rev = @ + 1].entry = def.entry
            /\ [def EXCEPT !.rev = @ + 1].st = "live"
        BY <2>2, <3>1 DEF Definitions
      <3> QED
        BY <2>3, <2>7, <3>2 DEF EditDefinition
    <2>8. CASE SwitchDistribution
      <3>1. /\ [def EXCEPT !.on = ~@] \in Definitions
            /\ [def EXCEPT !.on = ~@].entry = def.entry
            /\ [def EXCEPT !.on = ~@].st = def.st
        BY <2>2 DEF Definitions
      <3> QED
        BY <2>3, <2>8, <3>1 DEF SwitchDistribution
    <2> QED
      BY <1>5, <2>5, <2>6, <2>7, <2>8
  <1>6. \/ UNCHANGED <<def, cdef>> \/ SyncDefinition
        \/ CreateDefinition \/ DeleteDefinition \/ EditDefinition \/ SwitchDistribution
    BY DEF Environment, PlacementBegins, PlacementEnds, SyncRecord, Engage, Disengage,
           KroEvaluates, Vanish, MemberDelete, MemberCreate, ChangeMatching, ChangeProfile,
           PlacementRecords, PlacementWrites, InstanceGoes, RecordGoes, LocalCreates
  <1> QED
    BY <1>3, <1>4, <1>5, <1>6

LEMMA ListingHolds == Spec => [](TypeOK /\ Listing)
  <1>1. TypeOK /\ Listing /\ [Next]_vars => Listing'
    <2> SUFFICES ASSUME TypeOK, Listing, [Next]_vars PROVE Listing'
      OBVIOUS
    <2>1. CASE Next
      BY <2>1, StepCases, StartListing, RemoveListing, DistributeListing, FinishListing,
         EnvironmentListing
    <2>2. CASE UNCHANGED vars
      BY <2>2 DEF vars, Listing, Coherent, Blank, SameVersion, NoEntries, NewIsEmpty, Listed,
                  PassWellFormed, Cleared, CopyGone, OnMember
    <2> QED
      BY <2>1, <2>2
  <1> QED
    BY <1>1, InitListing, TypeCorrect, PTL DEF Spec

\* ListedUntilGone: status.members is the inventory of copies
\* (definition_controller.go:67), and the one write that can take an entry out of
\* it does so only when the copy it names is gone or its member has left, however
\* stale the object that the pass started from and whatever happened meanwhile.
THEOREM EntriesOutliveCopies == Spec => ListedUntilGone
  <1>1. TypeOK /\ Listing /\ [Next]_vars =>
          [\A m \in Members :
             def.entry[m].listed /\ ~def'.entry[m].listed /\ pass.prof[m] # "none"
               => ~(OnMember(m) /\ copy[m].ours /\ copy[m].uid = def.entry[m].uid)]_vars
    <2> SUFFICES ASSUME TypeOK, Listing, Next, NEW m \in Members,
                        def.entry[m].listed, ~def'.entry[m].listed, pass.prof[m] # "none"
                 PROVE  ~(OnMember(m) /\ copy[m].ours /\ copy[m].uid = def.entry[m].uid)
      OBVIOUS
    <2> USE DEF hubVars, instanceVars, envVars, budgets, history, Disturb
    <2>1. CASE def'.entry = def.entry
      BY <2>1
    <2>2. CASE FinishPass
      <3>1. def.rv = pass.def.rv /\ ~pass.out[m].listed
        BY <2>2, FinishWrites
      <3>2. pass.pc # "idle" /\ pass.rm = {} /\ pass.put = {}
        BY <2>2 DEF FinishPass
      <3>3. pass.def.entry[m] = def.entry[m]
        BY <3>1 DEF Listing, Coherent, SameVersion
      <3>4. m \in Listed(pass.def)
        BY <3>3 DEF Listed
      <3> QED
        BY <3>1, <3>2, <3>3, <3>4 DEF Listing, Cleared, CopyGone
    <2>3. CASE DeleteDefinition
      <3>1. CASE def.st = "new"
        BY <3>1 DEF Listing, NewIsEmpty, Listed
      <3>2. CASE Write([def EXCEPT !.st = "deleting"])
        <4>1. /\ [def EXCEPT !.st = "deleting"] \in Definitions
              /\ [def EXCEPT !.st = "deleting"].entry = def.entry
          BY DEF TypeOK, Definitions
        <4> QED
          BY <2>1, <3>2, <4>1, WriteFields
      <3> QED
        BY <2>3, <3>1, <3>2 DEF DeleteDefinition
    <2>4. CASE CreateDefinition \/ EditDefinition \/ SwitchDistribution
      <3>1. def \in Definitions
        BY DEF TypeOK
      <3>2. ASSUME NEW d, NEW v, d.entry = def.entry, d \in Definitions,
                   def' = [d EXCEPT !.rv = v]
            PROVE  def'.entry = def.entry
        BY <3>2 DEF Definitions
      <3>3. PICK d : /\ Write(d)
                     /\ \/ \E on \in BOOLEAN : d = [def EXCEPT !.st = "new", !.on = on]
                        \/ d = [def EXCEPT !.rev = @ + 1] /\ EditDefinition
                        \/ d = [def EXCEPT !.on = ~@]
        BY <2>4 DEF CreateDefinition, EditDefinition, SwitchDistribution
      <3>4. EditDefinition => def.rev + 1 \in Revisions
        BY <3>1 DEF EditDefinition, Definitions, Revisions
      <3>5. d.entry = def.entry /\ d \in Definitions
        BY <3>1, <3>3, <3>4 DEF Definitions
      <3>6. def'.entry = def.entry
        BY <3>2, <3>3, <3>5 DEF Write
      <3> QED
        BY <2>1, <3>6
    <2>5. CASE AddFinalizer
      <3>1. def'.entry = def.entry
        BY <2>5 DEF AddFinalizer, TypeOK, Definitions
      <3> QED
        BY <2>1, <3>1
    <2>6. CASE UNCHANGED def
      BY <2>1, <2>6
    <2>7. \/ UNCHANGED def \/ FinishPass \/ AddFinalizer
          \/ CreateDefinition \/ DeleteDefinition \/ EditDefinition \/ SwitchDistribution
      <3>1. CASE Environment
        BY <3>1 DEF Environment, SyncDefinition, PlacementBegins, PlacementEnds, SyncRecord,
           Engage, Disengage, KroEvaluates, Vanish, MemberDelete, MemberCreate,
           ChangeMatching, ChangeProfile, PlacementRecords, PlacementWrites, InstanceGoes,
           RecordGoes, LocalCreates
      <3>2. RemoveStep \/ DistributeStep \/ BeginConverge \/ BeginFinalize \/ PassFault
              => UNCHANGED def
        BY DEF RemoveStep, RemoveBlindly, RemoveGuarded, RemoveUnlisted, RemoveGet, RemoveDelete,
           DistributeStep, DistributeSkipped, Distribute, DistributeFailed, BeginConverge,
           BeginFinalize, PassFault
      <3> QED
        BY <3>1, <3>2, StepCases
    <2> QED
      BY <2>2, <2>3, <2>4, <2>5, <2>6, <2>7
  <1> QED
    BY <1>1, ListingHolds, PTL DEF Spec, ListedUntilGone
=============================================================================
