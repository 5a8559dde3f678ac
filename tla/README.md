# Formal models of kro-fleet

kro-fleet is a hub controller that places one `FleetGenAIService` on many
clusters ("members") and hands every member the kro `ResourceGraphDefinition`
its kind needs. It keeps no state of its own: what it knows is in Kubernetes
objects on the hub, read through informer caches that lag, and written under
optimistic concurrency. The members change underneath it. This directory holds
TLA+ models of its controllers, TLC configurations that check them on small
fleets, and TLAPS proofs of all their invariants, action properties and refinements:
the placement inventory is safe and implements the abstract ledger and the gate's
contract, the distribution of a definition never reports, opens or removes what it
should not, a decision fails closed, the scheduler assigns what fits, and the gateway
gives everyone its share. What is left to TLC alone is liveness.

## The system

| Component | Source | State | Operations |
|---|---|---|---|
| FleetReconciler | `internal/controller/fleet_controller.go` | finalizer and status of a `FleetGenAIService`; a pass's snapshot in memory | `Reconcile`, `finalize`, `unplace`, `applyToMember`, `readMemberStatus`, `observeHeldMember`, `renderMemberObject` |
| Manifest inventory | `inventory.go`, `api/v1alpha1/appliedmanifestrecord_types.go` | one `AppliedManifestRecord` per instance and member: the intent, the confirmed entries with their UIDs, the Orphaned condition | `ensureRecord`, `confirmApplied`, `deleteManifests`, `dropFromRecord`, `markOrphaned` |
| RecordReconciler | `record_controller.go` | none | settles the record of an instance that is gone |
| Placement resolution and verdicts | `decision.go`, `placement.go`, `api/v1alpha1/types.go` | none (pure functions) | `ResolvePlacement`, `ResolveDecision`, `ClassifyPlacement`, `RollupReady` |
| DefinitionReconciler | `definition_controller.go`, `definition.go`, `api/v1alpha1/fleetresourcegraphdefinition_types.go` | `status.members` of a `FleetResourceGraphDefinition`, which is also its inventory of copies | `Reconcile`, `finalize`, `distributeToMember`, `removeFromMember`, `DefinitionGate` |
| LazyMemberKind | `lazysource.go` | one poller per member and kind | starts a watch once the member serves the kind |
| Demo scheduler | `internal/demo/scheduler` | `PlacementDecision`s | `Reconcile`, `accountCapacity`, `Assign` |
| Demo inventory agent | `internal/demo/inventory` | `ClusterProfile` properties | advertises total and free accelerators |
| Demo gateway | `internal/demo/gateway` | weighted upstreams | `Reconcile`, `pick` |
| Hub manager, programs, plugin, scripts | `internal/hub`, `cmd`, `headlamp-plugin`, `scripts`, `hack` | none that the controllers read | start-up wiring, user interface, demonstrations |

How they interact:

- An instance's `spec.placement` selects members by label or by a
  `PlacementDecision` that someone else writes (in the demonstration, the demo
  scheduler, which reads what the inventory agent advertises).
- FleetReconciler resolves it, removes the copies on members no longer decided,
  then, for every decided member that passes `DefinitionGate`, records the
  intent, applies the copy and confirms its UID in the record.
- `DefinitionGate` reads the status that DefinitionReconciler wrote;
  DefinitionReconciler's guard reads the records that FleetReconciler wrote and
  lists the instances on the member. The two never lock each other out.
- RecordReconciler takes over a record once its instance is no longer found.
- The cluster provider engages members; a member's kro expands instances,
  evaluates definitions and holds finalizers on what is being deleted.
- LazyMemberKind's watches tell FleetReconciler of a member's copy; FleetReconciler
  writes what it reads back into the status, which the gateway, a process of its
  own, routes by.

What makes it hard: every pass is a sequence of calls to two API servers, each of
which may fail; the caches it starts from may be old; an object on a member may be
deleted and replaced by its namesake between a read and a delete; and the
inventories (records, `status.members`) are written before or after the thing
they describe, never together with it.

What makes each part correct:

- *Inventory*: what the hub put on a member is never forgotten while it is there;
  what it did not put there is never deleted; only one controller acts on a record.
  In short, it is a ledger (PlacementLedger), whatever caches and versions do.
  The first of these holds while the instance's name is used once; of the other two
  "What the code does not keep", below, says how far.
- *FleetReconciler*: the fleet comes to what the placement says; a deletion ends.
- *Resolution*: one bad reference places nobody; slice order does not matter;
  Ready is never vacuous, and means every member where nothing is tolerated.
- *DefinitionReconciler*: status and gate claim nothing a member's kro did not
  evaluate; a copy stays under the instances found; a copy stays listed until gone.
- *Scheduler*: a decision fits the room there is; spread is even.
- *Serving*: a member is watched though its kind appears late; the gateway ends with
  the members that are reachable and ready, and shares the requests by weight.

## Modules

The modules and how they hang together:

```
PlacementLedger <--implements-- FleetPlacement --implements--> GatedPlacement
                                (FleetRefinement: proofs)           |
                                                                    | INSTANCE, gate <- DefinitionGate
                                                            DefinitionDistribution
                                                            (DefinitionDistributionProofs)
MemberWatch --INSTANCE--> ServingPath <--INSTANCE-- Gateway
                          (ServingPathProofs)
PlacementResolution <--EXTENDS-- MCPlacementResolution
                                 (PlacementResolutionProofs)
DemoScheduler <--EXTENDS-- MCDemoScheduler
(DemoSchedulerProofs)
SumTheorems: used by the last three proof modules
```

### FleetPlacement

FleetReconciler, the inventory and RecordReconciler for one instance name and a
set of members. The split into actions follows the API calls:

- `fleet.pc` walks through a pass: `loop` (whom to do next), `get`/`delete`/
  `drop`/`forget` (unplace), `apply`/`confirm` (place). `fleet.rm` and `fleet.put`
  are the members yet to be unplaced and placed. Members to unplace come in any
  order (Go map iteration) and before the ones to place. Members to place come in
  any order too; the code's order is that of the decision, so the model allows more.
- `settle` is RecordReconciler's pass over one record.
- `rec`, `inst` are the objects on the hub; `crec`, `cinst` the informer caches,
  each synchronised key by key at any time. A pass reads the cache when it
  begins, as the code does (`Reconcile` lists profiles, decision, records and
  definition before it acts); these reads of a pass are one step.
- `copy[m]` is the object of the instance's name on member `m`: its UID, whether it
  carries the placed-by label, whether it is being deleted.
- An update carries the version it was computed from and is refused when that is
  not the current one (`Stored`, `Refused`). The delete of a record carries none,
  as in the code. The delete of a copy carries the UID that was just read.
- The gate is part of a pass's snapshot (`fleet.gate`) and asked at each member's turn
  (`LetThrough`, `HeldBack`), as in the code, where it also does not hold up a member
  that is unhealthy.
- A decision may carry a parameter that cannot be rendered (`unreadable`); a pass
  then ends with an error at the member, after it has unplaced (`RenderFails`).
- A failing call, a crash and a restart are `FleetFault` and `SettleFault`: the pass
  is lost, what was written stays. A failed apply, or one whose answer is lost, only skips that member.
- Versions and UIDs are compared for equality only, so the ones nobody holds are
  reused (`FreshVersion`, `FreshUid`). That keeps the state space finite and loses
  no behaviour as long as there are more of them than holders. A step that finds
  no fresh one would be blocked; the runs have four of each, and with six the
  safety runs reach exactly the same number of states, so four are enough there.

Left out: the template, whose content never changes what is tracked; the pruning
in `applyToMember`, which never has anything to prune while a record holds one
manifest; the workload namespace, which is deliberately not inventoried.

### PlacementLedger, GatedPlacement

What FleetPlacement promises to two kinds of onlookers, without passes, caches,
versions and UIDs. PlacementLedger is the inventory as a ledger: an entry per member
(`out`, `intended`, `confirmed`), an instance that is opened, closed and released,
and the rule that an entry whose copy is on its member is never struck off or
replaced. GatedPlacement is what a definition sees of the placing of
instances: a pass that asks the gate once, at its beginning, and may then record
and write until it ends. A write takes the permission with it (`"written"`), also where
an instance was there before. A write without permission, a second one in a pass, or
one on a member that was held back is therefore no step of it at all: neither a stutter nor
an instance that comes from elsewhere (`LocalCreate` leaves `pass` as it is).

FleetPlacement implements both: `KeepsLedger` and `PlacesThroughGate` are their
specifications under the refinement mappings at the end of FleetPlacement
(`LedgerPhase`, `EntryOf`, `Permission`).

### FleetPlacementProofs, FleetRefinement

The theorems about FleetPlacement, and the proofs that it implements the two
abstract specifications (below).

### PlacementResolution, MCPlacementResolution

`decision.go` and `placement.go` as operators, one to one: slices are merged in the
order of index then name, a reference is accepted or refuses the decision, the
result is classified, and the facts met on the members are folded into the
status. MCPlacementResolution enumerates the inputs, resolves (`Plan`), chooses the
tolerances (`GoOn`) and folds (`Fold`); the facts are what a pass can meet, for example a member behind a closed
gate that holds an old copy. Member names are numbers because only their order
matters. A replicas parameter is read twice in the code and so in the model:
`replicasOf` counts it if it is an int32 of at least 0 (`Counted`), and `renderMemberObject`
renders any int64 as it is and fails the pass on anything else (`Text`,
`Renders`). 900 stands for the largest int32; a number above it is one that only the
second reads. Sums are exact, while the code adds int32: no sum of the run comes near
the width, and the four invariants do not depend on it. PlacementResolutionProofs proves
what the operators do with any slices and members, and from that the four invariants.

### DefinitionDistribution

DefinitionReconciler for one definition. `def` is the hub object with its
status; `def.entry[m]` the member's entry in `status.members`; `pass.out` the
entries a pass has computed so far and writes in one update at its end
(`FinishPass`), which is refused if the object changed. `KroEvaluates` is the
member's kro giving a verdict for the generation it has seen. Instances of the
kind (`live`) come through the hub or are made on the member.

The hub's placing is not invented again here: `Placement == INSTANCE
GatedPlacement WITH gate <- {m \in Members : DefinitionGate(cdef, m)}, pass <-
placing`, and `PlacementBegins`, `PlacementRecords`, `PlacementWrites`,
`PlacementEnds`, `InstanceGoes`, `RecordGoes` and `LocalCreates` take its
actions. So the gate that FleetReconciler asks is the one that follows from the
status DefinitionReconciler wrote, the guard counts the records that FleetReconciler
makes, and what the environment may do is what FleetPlacement is proved to do
(`GateRespected`). Some of FleetPlacement's steps are narrower in this
composition: one instance of the kind, the profile read by a pass is the present one
when it begins, and an instance is written only where the kind exists.

`Undated` are the members whose kro may leave `observedGeneration` off its Ready
(`copy[m].dated`; a verdict at a time, so that dated and undated ones follow each other).
`ObservedDefinition.Fresh` takes such a verdict as fresh whatever it is about, and so
does `Fresh`: there a Ready left from the revision before counts for the new one. `AcceptedIsTrue`
and `AcceptedConditionEarned` therefore promise less of such a member: that its kro has called
the revision Active, or has once called some copy Active without saying which it meant.

`served` and `busy` are history variables: the revisions each member's kro can be quoted
as serving (the ones it called Active, and every one as soon as it has called a copy Active without
a generation), and the members that have had an instance ever since the pass began. The
definition's own actions read neither; instances are written where `served` is not empty. The
kind's CRD stays on a member when a definition goes, as kro leaves it.

DefinitionDistributionProofs holds the proofs of all its safety properties.

### MemberWatch, Gateway, ServingPath

MemberWatch is LazyMemberKind's source on each member: off, polling or on.
Gateway is the balancer: `Set` for new upstreams, `Pick` for a request, both under the
mutex and so one step each; `picks` is a history variable that counts the requests
of a round. ServingPath composes the two with what lies between them: the events
that make FleetReconciler's next pass due (watch, profile, its own status
update), the requeue timer, the pass as far as it decides about the status, and the
gateway's own lagging view of the instance. A pass visits the members in the order of
their names. A failed apply or read-back is no error and leaves an empty entry
(`VisitFails`); an error loses the status of the whole pass (`PassFault`); a
controller or gateway that restarts loses what it had in memory. An error in
LazyMemberKind's `Start` fails the engagement, which the provider tries again: in the
model an engagement that has not happened yet. ServingPathProofs has the proofs.

### DemoScheduler, MCDemoScheduler

The scheduler's accounting and its four policies (`spread` hands out one replica
at a time, the others fill in an order), the ledger read from the cache
(`cdec`), the advertised free count (`free`), the pods and the other tenants of a
cluster. Pods are counted per cluster, not per instance: nothing reads more.
MCDemoScheduler adds the symmetry of the instances. DemoSchedulerProofs has the proofs.

### SumTheorems

No code: what a sum over a finite set computes, for every finite set, and that a
finite ordered set has a last element. The models add up replicas, accelerators
and weights with a fold of the community modules, and the code with loops over slices and maps; that
the order of the loop does not matter is a fact to prove.

## Runs

| Run | Checks | Shows |
|---|---|---|
| placement | `TypeOK`, `DeletesOnlyLabelled`, `LedgerHolds`, `KeepsLedger`, `PlacesThroughGate`, `EventuallyConverged`, `DeletionCompletes`, `EventuallySettled` | the inventory under three outside changes, one fault and lagging caches; it implements ledger and gate; the fleet comes to rest where it should, deletions end, leftovers are settled |
| placement_fleet | `EventuallyConverged` | two members under one decision, which a single profile can get refused for both |
| inventory_knows | `InventoryKnows` violated | finding 1 |
| definition_safety | `TypeOK`, `AcceptedIsTrue`, `GateIsEarned`, `AcceptedConditionEarned`, `GuardHonoured`, `ListedUntilGone` | status, gate, guard and inventory of a definition, with instances placed through the gate, and a kro that dates its verdicts or does not |
| definition_live | `EventuallyDistributed`, `DeletionReleases` | the definition reaches its targets, leaves the others, and its deletion ends |
| stale_verdict | `StaleVerdictDoesNotCount` violated | finding 2 |
| finalize_leak | `FinalizeRemovesEverywhere` violated | finding 3 |
| under_instances | `NeverFromUnderInstances` violated | finding 4 |
| resolution | `FailClosed`, `OrderDoesNotMatter`, `ReadyIsEarned`, `ReadyMeansAll` | every small placement, every small set of facts, every tolerance of 0 or 1 or none |
| scheduler | `TypeOK`, `AssignsWhatFits`, `SpreadIsEven`, `NoOvercommit` | every ledger two instances and two clusters can reach |
| ratchet | `FindsNoMoreRoomThanExists` violated | finding 5 |
| serving | `TypeOK`, `ShareIsKept`, `EventuallyWatched`, `EventuallyRouted` | two members from the appearance of the kind to the gateway's requests |

Deadlock is not an error in any run: the systems come to rest when the outside
changes are used up.

### Bounds

- *One member* in most placement and definition runs: a member's record,
  copy and entry are touched by steps for that member only. What members share
  is the pass (one pass does them one after the other, any may end it), the
  decision that is refused as a whole, and the finalizer; `placement_fleet` has two
  members for this, and the theorems hold for any number.
- *Disturbances* names the kinds of outside change a run allows, `MaxChanges` how
  many of them happen. Two changes give the hazards listed here (delete and
  re-create, deregister and return, undecide and decide again); three are
  used where the state space allows. `MaxFaults` bounds the failing passes. It is 0 in placement_fleet and
  definition_live, where one fault makes the liveness check too long: in the first a pass
  is ended by conflicts and stale caches, in the second a failed apply does not
  happen; placement and definition_safety have the faults.
  Cache lag, engagement, kro's deletions, creation and deletion of the hub
  object are not bounded by these.
- *MaxLives = 1*: the instance's name is used once. With two lives `LedgerHolds`
  does not hold: RecordReconciler deletes a record by name, and it may be the next
  instance's by then (`record_controller.go:146`): see "What the code does not keep" below.
- *Undated* has the member in definition_safety. In the other definition runs it is
  empty: in the two violations about guard and finalizer the verdict plays no part, stale_verdict
  is about a verdict that is dated, and in definition_live undated verdicts make the check too long
  (they end as dated ones do, once kro has evaluated the last revision).
- *MaxRevision = 2* gives a current and an older revision, which is all that the
  code tells apart.
- *resolution*: two registered members and an unregistered one, up to two slices
  with up to two references, replicas 0, 1, negative, absent or text, template 2 or
  none. *scheduler*: two instances, two clusters, one that advertises a total and
  one that does not, two accelerators each.
- *serving*: two members, so that one is visited while the other changes, weights 0
  to 3 and two disturbances (a health change, a rollout, a disengagement, a kind
  that goes, a failed poll, visit or pass, a restart of the gateway, a deletion).
  `ShareIsKept`'s first conjunct, less than one request off, is a fact about at most
  three members. Four with the weights 1, 5, 21, 21 come to be exactly one request
  behind, five with 1, 1, 1, 6, 6 too; never ahead, and a whole round still gives everyone
  its share, in a fleet of any size (`ShareKept` and `NobodyAhead` below).

### Fairness

`FleetStep`, `PassStep`: a pass once begun goes on, and every key is requeued (30
seconds, 15 when something is pending), so passes begin again and again.
`SettleOrphan`, `SettleStart`: strong, because records are resynced and retried
with back-off whatever the other controllers do, and the worker serves each key in
its turn. Informers deliver; the provider engages a healthy member and lets go of a
deregistered one; kro finishes a deletion and gives its verdict. In ServingPath
the queue, the timer, the polls, the two informers and the provider's
engagements are served, and kro serves the kind on a member the hub has reached; a
member let go of makes no event, which is why the timer matters. In
DefinitionDistribution a placing pass ends (`PlacementEnds`), nothing more. Nothing
makes users, schedulers or instances do anything: they are never fair. A failing
call is never fair either and their number is bounded, so the liveness results
say what happens once calls succeed.

## Findings

1. `inventory_knows`: unplace has deleted the record of an undecided member; the
   member is decided again while the cache still lists that record.
   `ensureRecord` takes it for the intent and writes nothing, and the copy is
   applied with no record on the hub. The comments at
   `appliedmanifestrecord_types.go:53` and `fleet_controller.go:310` say that this
   cannot happen. The next pass with a fresh cache makes up for it; a deletion of the
   instance before that leaves the copy behind. The same state is reached another way:
   a confirmed copy is deleted on its member, a pass applies it again and stops before
   `confirmApplied`, the member is undecided, `deleteManifests` takes the copy for a
   foreign object because of its UID (`inventory.go:245`), and the record goes.
2. `stale_verdict`: `distributeToMember` turns a verdict on an older generation
   into Unknown; the read-back of a copy held by the guard
   (`definition_controller.go:455`) does not, so the entry is Accepted for a
   revision the member's kro has not evaluated.
3. `finalize_leak`: copies are applied before `status.members` lists them. If the
   definition is deleted in between, the status update is refused, and
   `finalize` finds nobody to remove the copy from.
4. `under_instances`: the guard counts records and instances, then the copy is read
   and deleted. An instance placed after the count loses its definition.
5. `ratchet`: reserved replicas whose pods do not run yet are subtracted from the
   consumption seen, so they hide other tenants, and a re-evaluation finds more
   room than the tenants leave.

### What the code does not keep

Four more places where code and comments part ways were met in modelling. They are read in the
code; no run shows them.

- RecordReconciler looks for the instance in the cache once. If one of the same name is created
  after that look, or is not in the cache yet, the pass marks the live instance's record, deletes what
  it tracks, or deletes the record by name (`record_controller.go:146`); the comment at
  `record_controller.go:45` says that records of live instances are ignored there. It takes two
  lives of the name, which is why `LedgerHolds` is claimed for one.
- The apply takes over an object that somebody else made under the instance's name
  (`fleet_controller.go:466`), labels it and confirms its UID, so the two guards of
  `deleteManifests` hold for it when the member is undecided, and it is deleted. The comments at
  `inventory.go:221` and `appliedmanifestrecord_types.go:86` say that such an object is left alone.
  `DeletesOnlyLabelled` is the half that the code keeps.
- `Fresh` (`definition.go:199`) counts a Ready without `observedGeneration`, as its own comment
  says ("or does not say"); the one on `Accepted` four lines below promises a verdict about
  the copy's own generation. `AcceptedIsTrue` and `AcceptedConditionEarned` say what is left then.
- A replicas parameter of -1, or one beyond int32, is not counted by `replicasOf`
  (`decision.go:276`) and rendered by `renderMemberObject` (`fleet_controller.go:619`). The status
  reports the template's replicas as assigned, which `types.go:262` calls what the copy was
  given; and a template of 2 with the parameters 2 and -1 is called Placed. So nothing is claimed
  of how the rendered replicas add up.

## Theorems

In FleetPlacementProofs and FleetRefinement, for any set of members, UIDs, versions
and bounds that satisfy the named assumptions of FleetPlacement (some member, UIDs and versions
positive numbers, one of the two sources).

| Theorem | States | Needs |
|---|---|---|
| TypeCorrect | `Spec => []TypeOK` | |
| DeletesLabelled | `Spec => DeletesOnlyLabelled` | |
| LedgerCorrect | `Spec => LedgerHolds` | `MaxLives = 1` |
| GateRespected | `Spec => PlacesThroughGate` (implements GatedPlacement) | |
| LedgerRefined | `Spec => KeepsLedger` (implements PlacementLedger) | `MaxLives = 1` |

The invariant behind them is the conjunction of

- `LabelledTarget`: at the `delete` step of either pass, an object with the UID
  just read carries the label. A label is never taken off an object, and a UID
  that a pass remembers is given to no other object. That makes every delete a
  delete of a labelled object (DeletesLabelled).
- `Phases`: the cached instance runs behind the real one, a finalizing pass places
  nothing, a placing pass means an instance that is not gone, and RecordReconciler
  is at work only when it is. With one life the instance cannot come back.
- `Coherent`: a cached or held record whose version is the current one *is* the
  current record. This is what optimistic concurrency buys, and it is what makes a
  write computed from a stale snapshot harmless.
- `LabelledUids`: every UID written down anywhere (record, cache, pass) that is
  still on the member belongs to a labelled object.
- `Cleanings`, `Confirming`: at the steps `drop` and `forget`, what the record in
  hand confirms is off the member; at `confirm`, the entry about to be replaced
  names an object that is off the member, or the very one just applied.

None of these statements is inductive alone: `LedgerHolds`, for instance, is
about a delete without a precondition, and only `Cleanings` knows that no
confirmation can have slipped in since the look at the member, which in turn needs
that a placing pass is never at work next to RecordReconciler or a finalizing pass
(`Phases`) and that nobody writes from an old version (`Coherent`).

The refinements are step simulations. Each family of steps (of the two
controllers, of the members, of caches and users) is first shown to write what a
few small operators say it writes (`Created`, `Deleted`, `Rewritten` for records;
`Steady`, `Lessens` for what the pass may still do; the like for copies), and each of
those effects is a step of the abstract specification or none. GateRespected needs
the invariant `Placing` (a pass at `apply` or `confirm` is at a member it still has to
place and was let through to): with it an apply is the step `Write`, and no other. LedgerRefined needs the inductive invariant above and two more facts:
`NewIsClean` (an instance without its finalizer has no records, so it may be
released at once) and `SeenApplied` (what is about to be confirmed is
the UID of an object).

In DefinitionDistributionProofs, for any set of members, UIDs, versions and bounds
that satisfy the named assumptions of DefinitionDistribution, which are of the same kind,
and for any set `Undated` of members whose kro may leave its verdicts undated:

| Theorem | States |
|---|---|
| TypeCorrect | `Spec => []TypeOK` |
| AcceptanceIsTrue | `Spec => []AcceptedIsTrue` |
| GateOpensEarned | `Spec => []GateIsEarned` |
| ConditionIsEarned | `Spec => []AcceptedConditionEarned` |
| GuardIsHonoured | `Spec => GuardHonoured` |
| EntriesOutliveCopies | `Spec => ListedUntilGone` |

Three inductive invariants carry them, each on top of `TypeOK`:

- `Earning` follows a verdict on its way: from the copy on the member
  (`CopiesKnown`) to the entry a pass computes, from there to the object, to
  the cache, and to the next pass (`StatusKnown`), into the Accepted condition
  (`PassEarns`, `ConditionsEarned`) and through the gate into a pass of
  FleetReconciler (`WritesEarned`). Each of these places may be stale against
  the others; that does no harm because `served` only grows, so what was earned
  once stays earned. The three invariants are about the object and the cached
  gate alone and would not survive the next pass or the next read.
- `Guarding`: a member at `get` or `delete` had no instance when the guard looked,
  so it is not one that has had an instance since the pass began.
- `Listing`: an object, a cached one and one that a pass started from have the same
  entries if they have the same version (`Coherent`); a pass in which a member is
  done with has kept it listed, or found the member gone, or its copy gone
  (`Cleared`); and at `delete` the UID seen is the entry's (`PassWellFormed`). A copy
  that is gone stays gone, as no UID is handed out twice, so it is still true when
  the status is written, several steps later.

In PlacementResolutionProofs. The first group is about the operators, whatever they
are applied to; slices are only assumed to have different names, as objects of one
namespace do. The second is about every pass of MCPlacementResolution, whose members
and slices are enumerated and whose `Requests` and `Parameters` are any numbers
(`NumbersAssumption`; `Absent` and `Text` are among them), besides a negative parameter.

| Theorem | States |
|---|---|
| DecisionFailsClosed | a decision is resolved exactly if every reference is in the fleet and eligible, and then to the members named |
| DecisionIgnoresListing | every permutation of the listed slices resolves to the same |
| ReadyNeedsACopy, ReadyNeedsEveryCopy | what `Status` promises when it says Ready, with any tolerances and with none |
| FailsClosed | `Spec => []FailClosed` |
| ListingIgnored | `Spec => []OrderDoesNotMatter` |
| ReadyEarned | `Spec => []ReadyIsEarned` |
| ReadyAsAWhole | `Spec => []ReadyMeansAll` |

References are put in the order of index, name and position, and the first with a
name wins. `BeforeIsTotal` says that two references are never level although indices may be equal,
so "the first" does not depend on the listing, and a permutation carries the references of one
listing to those of the other (`Moved`). The inductive invariant `PassInv` says that
an input that is still known is one that was chosen, and that the verdict is the
classification of that very input; after `GoOn` the input is forgotten, and all that the
fold may rely on is that the verdict has finitely many members and, where they do not
divide the template, that it places them. Without it none
of the four relates `verdict` to `input` at all.

In ServingPathProofs, for any finite set of members and any weights
(`MembersAssumption`, `BoundsAssumption`):

| Theorem | States | Needs |
|---|---|---|
| TypeCorrect | `Spec => []TypeOK`, with MemberWatch's and Gateway's | |
| CreditInvariant | `Spec => [](TypeOK /\ CreditInv)` | |
| NobodyAhead | `Spec => []NeverAhead`: nobody is a whole request ahead, a whole round is exact | |
| ShareKept | `Spec => []ShareIsKept` | at most three members |

`ShareIsKept` speaks of counts of requests, the code of credits; `CreditInv` ties them
together. After `P` picks of a round of `T`, a member's credit is exactly what it is
owed, `P * weight - T * picks`; the credits add up to nothing; and none is as low as
`-T`. The last is the point: the one that pays has the most credit, and since all
credits add up to `T` when they have been earned, it has some. At the end of a round,
when `P = T`, no upstream can then have had more picks than its weight, and as both add
up to the same, each has had exactly its weight (`RoundEnds`). That no member is a
whole request *behind* does not follow, and is false from four members on. For three,
`SmallInv` keeps credits from `-2T/3` up: the best of three has at least a third of `T`
to pay with. Then another member and the best together have at most `T + 2T/3` when the
third is as low as it can be, so the other one, having no more than the best, has
less than `T`. The hypothesis of `ShareKept` is therefore not there for the
prover's sake.

In DemoSchedulerProofs, for any finite sets of instances and clusters, any room and
any of the two tenancies (`ClustersAssumption`, `InstancesAssumption`, `RoomAssumption`,
`KindsAssumption`):

| Theorem | States |
|---|---|
| FillAssigns, SpreadAssigns | what the greedy fill and the spread assign, to any capacities: what is wanted or all there is, nobody more than its room; the spread evenly |
| TypeCorrect | `Spec => []TypeOK` |
| AssignsFit | `Spec => []AssignsWhatFits` |
| SpreadEven | `Spec => []SpreadIsEven` |
| NothingOvercommitted | `Spec => NoOvercommit` |

The fill goes along an order of the clusters: each gets the lesser of its room and of
what those ahead of it leave (`Filled`). That this adds up is shown by
induction on the set of clusters, taking away the one that comes last (`LastExists`),
because nobody else's share depends on that one. The spread is a course of single replicas
(`Course`); `Spreads` (the sum, the room, evenness) holds at its beginning and is
kept by one more replica, because the next cluster is one of those with the fewest. The invariants
are then instances of these facts, as the capacity is a number in every typed state
(`CapacityType`). `NoOvercommit` needs only the types too: on an up-to-date ledger
`accountCapacity` has taken off all that the others reserved, so what the new decision
gives the cluster fits beside them.

SumTheorems: the library's induction theorems take a predicate as a parameter, which
the provers cannot instantiate. The inductions here are about a *set* instead (`NumbersByInduction`,
`SubsetsByInduction`, `SubsetsOneByOne`), from the well-foundedness theorem `WFMin`,
which has no such parameter.

### What stays with TLC

- Liveness: `EventuallyConverged`, `DeletionCompletes`, `EventuallySettled`,
  `EventuallyDistributed`, `DeletionReleases`, `EventuallyWatched`, `EventuallyRouted`.
  They rest on fairness, hence on ENABLED, which the prover does not handle. The
  refinement theorems are about the safety part of the abstract specifications, which is all of it.
- The five violated properties of the findings, which are not theorems.
- The second life of an instance's name, for which `LedgerHolds` is false, and
  the share in fleets of more than three members, for which `ShareIsKept` is false.

## Not modelled

- Two instances whose record names collide (`inventory.go:49`): instance `a-b` on
  member `c` and instance `a` on member `b-c` have the same record. Names are opaque in
  the models, and FleetPlacement is about one instance.
- The inventory agent beyond the accelerators it advertises: the mirroring of the
  other properties and its own event sources.
- The gateway's proxying, the syntax of endpoints; condition messages, Kubernetes
  events and metrics.
- The hub manager and the programs (start-up wiring), the cluster properties'
  names, generated code, the plugin, scripts, manifests and the phase-0
  experiment: none holds state that the controllers depend on.
- Two versions of a controller at work at once: leader election is left to
  controller-runtime.

## Plan

Done: FleetPlacement, the two abstract specifications and the refinements,
PlacementResolution, DefinitionDistribution composed with GatedPlacement,
DemoScheduler, Gateway, MemberWatch and ServingPath; all their invariants, action
properties and refinements are proved. Next, in this order:

1. An abstract specification of what ServingPath promises the gateway (it routes
   only by a status that a pass wrote), and the proof that ServingPath implements it.
2. The inventory agent in full: mirrored properties, its own event sources.
3. Two instances in one fleet, with names as pairs.
