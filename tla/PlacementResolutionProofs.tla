--------------------- MODULE PlacementResolutionProofs ----------------------
(***************************************************************************)
(* Proofs about PlacementResolution: what the resolution of a decision     *)
(* does with any number of slices, references and members, and the         *)
(* invariants of MCPlacementResolution for all its parameters.             *)
(***************************************************************************)
EXTENDS MCPlacementResolution, SumTheorems

-----------------------------------------------------------------------------
(* The order of the references of a decision.                               *)

\* Slices are objects of one namespace, so their names differ.
IsListing(slices) ==
    /\ DOMAIN slices \subseteq Nat
    /\ \A i \in DOMAIN slices :
          slices[i].name \in Nat /\ slices[i].index \in Nat /\ DOMAIN slices[i].refs \subseteq Nat
    /\ \A i, j \in DOMAIN slices : slices[i].name = slices[j].name => i = j

LEMMA ReferenceFacts ==
  ASSUME NEW slices, NEW r
  PROVE  r \in References(slices)
           <=> \E i \in DOMAIN slices : \E k \in DOMAIN slices[i].refs : r = <<i, k>>
  BY DEF References

LEMMA ReferenceTypes ==
  ASSUME NEW slices, IsListing(slices), NEW r \in References(slices)
  PROVE  /\ r[1] \in DOMAIN slices /\ r[2] \in DOMAIN slices[r[1]].refs
         /\ r = <<r[1], r[2]>> /\ r[2] \in Nat
         /\ slices[r[1]].index \in Nat /\ slices[r[1]].name \in Nat
  <1>1. PICK i \in DOMAIN slices : \E k \in DOMAIN slices[i].refs : r = <<i, k>>
    BY ReferenceFacts
  <1>2. PICK k \in DOMAIN slices[i].refs : r = <<i, k>>
    BY <1>1
  <1> QED
    BY <1>2 DEF IsListing

\* Of two references one comes first.
LEMMA BeforeIsTotal ==
  ASSUME NEW slices, IsListing(slices),
         NEW r \in References(slices), NEW q \in References(slices), r # q
  PROVE  Before(slices, r, q) \/ Before(slices, q, r)
  <1>1. /\ slices[r[1]].index \in Nat /\ slices[r[1]].name \in Nat /\ r[2] \in Nat
        /\ slices[q[1]].index \in Nat /\ slices[q[1]].name \in Nat /\ q[2] \in Nat
        /\ r = <<r[1], r[2]>> /\ q = <<q[1], q[2]>>
        /\ r[1] \in DOMAIN slices /\ q[1] \in DOMAIN slices
    BY ReferenceTypes
  <1>2. CASE r[1] = q[1]
    <2>1. r[2] # q[2]
      BY <1>1, <1>2
    <2> QED
      BY <1>1, <1>2, <2>1 DEF Before
  <1>3. CASE r[1] # q[1]
    <2>1. slices[r[1]].name # slices[q[1]].name
      BY <1>1, <1>3 DEF IsListing
    <2> QED
      BY <1>1, <2>1 DEF Before, SliceBefore
  <1> QED
    BY <1>2, <1>3

\* Among references there is a first one.
LEMMA FirstExists ==
  ASSUME NEW slices, IsListing(slices), NEW S \in SUBSET References(slices), S # {}
  PROVE  \E q \in S : \A p \in S : ~Before(slices, p, q)
  <1> DEFINE indexes == {slices[q[1]].index : q \in S}
  <1>1. \A q \in S : slices[q[1]].index \in Nat /\ slices[q[1]].name \in Nat /\ q[2] \in Nat
    BY ReferenceTypes
  <1>2. PICK a \in indexes : \A b \in indexes : a <= b
    <2>1. indexes \in SUBSET Nat /\ indexes # {}
      BY <1>1
    <2> HIDE DEF indexes
    <2> QED
      BY <2>1, LeastNumber
  <1> DEFINE earliest == {q \in S : slices[q[1]].index = a}
             names == {slices[q[1]].name : q \in earliest}
  <1>3. PICK n \in names : \A b \in names : n <= b
    <2>1. names \in SUBSET Nat /\ names # {}
      BY <1>1, <1>2
    <2> HIDE DEF names
    <2> QED
      BY <2>1, LeastNumber
  <1> DEFINE listed == {q \in earliest : slices[q[1]].name = n}
             places == {q[2] : q \in listed}
  <1>4. PICK k \in places : \A b \in places : k <= b
    <2>1. places \in SUBSET Nat /\ places # {}
      BY <1>1, <1>3
    <2> HIDE DEF places
    <2> QED
      BY <2>1, LeastNumber
  <1>5. PICK q \in listed : q[2] = k
    <2> HIDE DEF listed
    <2>1. k \in places
      BY <1>4
    <2> QED
      BY <2>1
  <1>6. ASSUME NEW p \in S, Before(slices, p, q) PROVE FALSE
    <2>1. a <= slices[p[1]].index /\ slices[q[1]].index = a /\ slices[q[1]].name = n
      BY <1>2, <1>5
    <2>2. a \in Nat /\ n \in Nat /\ slices[p[1]].index \in Nat /\ slices[p[1]].name \in Nat
          /\ p[2] \in Nat /\ q[2] \in Nat
      BY <1>1, <1>2, <1>3, <1>5
    <2>3. CASE SliceBefore(slices, p[1], q[1])
      <3>1. slices[p[1]].index = a /\ slices[p[1]].name < n
        BY <2>1, <2>2, <2>3 DEF SliceBefore
      <3>2. n <= slices[p[1]].name
        BY <1>3, <3>1
      <3> QED
        BY <2>2, <3>1, <3>2
    <2>4. CASE p[1] = q[1] /\ p[2] < q[2]
      <3>1. p \in listed
        BY <1>5, <2>4
      <3>2. k <= p[2]
        BY <1>4, <3>1
      <3> QED
        BY <1>5, <2>2, <2>4, <3>2
    <2> QED
      BY <1>6, <2>3, <2>4 DEF Before
  <1> QED
    BY <1>5, <1>6

\* A member that is named inside the fleet has one reference in Named.
LEMMA NamedOnce ==
  ASSUME NEW slices, IsListing(slices), NEW home
  PROVE  /\ \A r \in References(slices) :
               InFleet(Ref(slices, r), home) =>
                 \E q \in Named(slices, home) : Ref(slices, q).name = Ref(slices, r).name
         /\ \A r, q \in Named(slices, home) :
               Ref(slices, r).name = Ref(slices, q).name => r = q
         /\ \A r \in Named(slices, home) :
               r \in References(slices) /\ InFleet(Ref(slices, r), home)
  <1>1. ASSUME NEW r \in References(slices), InFleet(Ref(slices, r), home)
        PROVE  \E q \in Named(slices, home) : Ref(slices, q).name = Ref(slices, r).name
    <2> DEFINE same == {q \in References(slices) :
                          /\ InFleet(Ref(slices, q), home)
                          /\ Ref(slices, q).name = Ref(slices, r).name}
    <2>1. same \in SUBSET References(slices) /\ same # {}
      BY <1>1
    <2>2. PICK q \in same : \A p \in same : ~Before(slices, p, q)
      <3> HIDE DEF same
      <3> QED
        BY <2>1, FirstExists
    <2> QED
      BY <2>2 DEF Named
  <1>2. ASSUME NEW r \in Named(slices, home), NEW q \in Named(slices, home),
               Ref(slices, r).name = Ref(slices, q).name
        PROVE  r = q
    BY <1>2, BeforeIsTotal DEF Named
  <1>3. \A r \in Named(slices, home) :
          r \in References(slices) /\ InFleet(Ref(slices, r), home)
    BY DEF Named
  <1> QED
    BY <1>1, <1>2, <1>3

-----------------------------------------------------------------------------
(* ResolveDecision.                                                         *)

GoodOnes(slices, home, profiles, required) ==
    {r \in Named(slices, home) : Eligible(Ref(slices, r), profiles, required)}

\* What ResolveDecision returns, by the references it finds good.
LEMMA Resolved ==
  ASSUME NEW slices, IsListing(slices), NEW home, NEW profiles, NEW required,
         NEW good, good = GoodOnes(slices, home, profiles, required),
         NEW res, res = ResolveDecision(slices, home, profiles, required)
  PROVE  /\ res.state = IF \/ good # Named(slices, home)
                           \/ \E r \in References(slices) : ~InFleet(Ref(slices, r), home)
                        THEN "violated" ELSE "resolved"
         /\ DOMAIN res.members = {Ref(slices, r).name : r \in good}
         /\ \A r \in good : res.members[Ref(slices, r).name]
                              = slices[r[1]].params[Ref(slices, r).name]
         /\ res = [state |-> res.state, members |-> [n \in DOMAIN res.members |-> res.members[n]]]
  <1> DEFINE At(n) == CHOOSE r \in good : Ref(slices, r).name = n
             members == [n \in {Ref(slices, r).name : r \in good} |-> slices[At(n)[1]].params[n]]
             state == IF Violated(slices, home, Named(slices, home), good)
                      THEN "violated" ELSE "resolved"
  <1>1. res = [state |-> state, members |-> members]
    BY DEF ResolveDecision, GoodOnes
  <1>2. state = IF \/ good # Named(slices, home)
                   \/ \E r \in References(slices) : ~InFleet(Ref(slices, r), home)
                THEN "violated" ELSE "resolved"
    BY DEF Violated
  <1>3. ASSUME NEW r \in good
        PROVE  members[Ref(slices, r).name] = slices[r[1]].params[Ref(slices, r).name]
    <2> DEFINE n == Ref(slices, r).name
    <2>1. At(n) \in good /\ Ref(slices, At(n)).name = n
      OBVIOUS
    <2> HIDE DEF At
    <2>2. r \in Named(slices, home) /\ At(n) \in Named(slices, home)
      BY <2>1 DEF GoodOnes
    <2>3. At(n) = r
      BY <2>1, <2>2, NamedOnce
    <2> QED
      BY <2>3
  <1>4. DOMAIN members = {Ref(slices, r).name : r \in good}
    OBVIOUS
  <1>5. members = [n \in DOMAIN members |-> members[n]]
    OBVIOUS
  <1> HIDE DEF members, state
  <1> QED
    BY <1>1, <1>2, <1>3, <1>4, <1>5

\* ResolveDecision (decision.go:145) fails closed: a decision is accepted if and
\* only if each one of its references, however many slices it has and whatever
\* else they say, is to a cluster of the fleet that meets the requirements; and
\* then nobody it names is left out, and nobody added.
THEOREM DecisionFailsClosed ==
  ASSUME NEW slices, IsListing(slices), NEW home, NEW profiles, NEW required,
         NEW res, res = ResolveDecision(slices, home, profiles, required)
  PROVE  /\ res.state \in {"resolved", "violated"}
         /\ res.state = "resolved"
              <=> \A r \in References(slices) : /\ InFleet(Ref(slices, r), home)
                                                /\ Eligible(Ref(slices, r), profiles, required)
         /\ res.state = "resolved" =>
              DOMAIN res.members = {Ref(slices, r).name : r \in References(slices)}
  <1> DEFINE good == GoodOnes(slices, home, profiles, required)
  <1>1. /\ res.state = IF \/ good # Named(slices, home)
                          \/ \E r \in References(slices) : ~InFleet(Ref(slices, r), home)
                       THEN "violated" ELSE "resolved"
        /\ DOMAIN res.members = {Ref(slices, r).name : r \in good}
    BY Resolved
  <1>2. ASSUME good = Named(slices, home),
               \A r \in References(slices) : InFleet(Ref(slices, r), home)
        PROVE  /\ \A r \in References(slices) : Eligible(Ref(slices, r), profiles, required)
               /\ {Ref(slices, r).name : r \in good} = {Ref(slices, r).name : r \in References(slices)}
    <2>1. ASSUME NEW r \in References(slices)
          PROVE  \E q \in good : Ref(slices, q).name = Ref(slices, r).name
      BY <1>2, NamedOnce
    <2>2. \A q \in good : q \in References(slices) /\ Eligible(Ref(slices, q), profiles, required)
      BY NamedOnce DEF GoodOnes
    <2>3. ASSUME NEW r \in References(slices) PROVE Eligible(Ref(slices, r), profiles, required)
      <3>1. PICK q \in good : Ref(slices, q).name = Ref(slices, r).name
        BY <2>1
      <3> QED
        BY <2>2, <3>1 DEF Eligible
    <2> HIDE DEF good
    <2> QED
      BY <2>1, <2>2, <2>3
  <1>3. ASSUME \A r \in References(slices) : Eligible(Ref(slices, r), profiles, required)
        PROVE  good = Named(slices, home)
    BY <1>3, NamedOnce DEF GoodOnes
  <1> HIDE DEF good
  <1> QED
    BY <1>1, <1>2, <1>3

\* The same slices in another order: place i has the slice that was at p[i].
IsRelisting(relisted, slices, p) ==
    /\ DOMAIN relisted \subseteq Nat
    /\ p \in [DOMAIN relisted -> DOMAIN slices]
    /\ \A i \in DOMAIN relisted : relisted[i] = slices[p[i]]
    /\ \A i, j \in DOMAIN relisted : p[i] = p[j] => i = j
    /\ \A j \in DOMAIN slices : \E i \in DOMAIN relisted : p[i] = j

Moved(p, r) == <<p[r[1]], r[2]>>

\* References keep their content and their order.
LEMMA RelistingFacts ==
  ASSUME NEW slices, IsListing(slices), NEW relisted, NEW p, IsRelisting(relisted, slices, p)
  PROVE  /\ IsListing(relisted)
         /\ \A r \in References(relisted) :
               /\ Moved(p, r) \in References(slices)
               /\ Ref(relisted, r) = Ref(slices, Moved(p, r))
               /\ relisted[r[1]] = slices[Moved(p, r)[1]]
         /\ \A q \in References(slices) : \E r \in References(relisted) : Moved(p, r) = q
         /\ \A r, q \in References(relisted) :
               Before(relisted, r, q) <=> Before(slices, Moved(p, r), Moved(p, q))
  <1>1. IsListing(relisted)
    BY DEF IsListing, IsRelisting
  <1>2. ASSUME NEW r \in References(relisted)
        PROVE  /\ Moved(p, r) \in References(slices)
               /\ Ref(relisted, r) = Ref(slices, Moved(p, r))
               /\ relisted[r[1]] = slices[Moved(p, r)[1]]
    <2>1. r[1] \in DOMAIN relisted /\ r[2] \in DOMAIN relisted[r[1]].refs
      BY <1>1, ReferenceTypes
    <2>2. p[r[1]] \in DOMAIN slices /\ relisted[r[1]] = slices[p[r[1]]]
      BY <2>1 DEF IsRelisting
    <2> QED
      BY <2>1, <2>2, ReferenceFacts DEF Moved, Ref
  <1>3. ASSUME NEW q \in References(slices)
        PROVE  \E r \in References(relisted) : Moved(p, r) = q
    <2>1. q[1] \in DOMAIN slices /\ q[2] \in DOMAIN slices[q[1]].refs /\ q = <<q[1], q[2]>>
      BY ReferenceTypes
    <2>2. PICK i \in DOMAIN relisted : p[i] = q[1]
      BY <2>1 DEF IsRelisting
    <2>3. relisted[i] = slices[q[1]]
      BY <2>2 DEF IsRelisting
    <2>4. <<i, q[2]>> \in References(relisted)
      BY <2>1, <2>2, <2>3, ReferenceFacts
    <2> QED
      BY <2>1, <2>2, <2>4 DEF Moved
  <1>4. ASSUME NEW r \in References(relisted), NEW q \in References(relisted)
        PROVE  Before(relisted, r, q) <=> Before(slices, Moved(p, r), Moved(p, q))
    <2>1. r[1] \in DOMAIN relisted /\ q[1] \in DOMAIN relisted
      BY <1>1, ReferenceTypes
    <2>2. /\ relisted[r[1]] = slices[p[r[1]]] /\ relisted[q[1]] = slices[p[q[1]]]
          /\ r[1] = q[1] <=> p[r[1]] = p[q[1]]
      BY <2>1 DEF IsRelisting
    <2> QED
      BY <2>2 DEF Before, SliceBefore, Moved
  <1> QED
    BY <1>1, <1>2, <1>3, <1>4

\* So the same references are the first ones to their members.
LEMMA RelistingNames ==
  ASSUME NEW slices, IsListing(slices), NEW relisted, NEW p, IsRelisting(relisted, slices, p),
         NEW home
  PROVE  /\ \A r \in Named(relisted, home) : Moved(p, r) \in Named(slices, home)
         /\ \A q \in Named(slices, home) : \E r \in Named(relisted, home) : Moved(p, r) = q
  <1>1. ASSUME NEW r \in Named(relisted, home) PROVE Moved(p, r) \in Named(slices, home)
    <2>1. r \in References(relisted) /\ InFleet(Ref(relisted, r), home)
      BY DEF Named
    <2>2. Moved(p, r) \in References(slices) /\ InFleet(Ref(slices, Moved(p, r)), home)
      BY <2>1, RelistingFacts
    <2>3. ASSUME NEW q \in References(slices), InFleet(Ref(slices, q), home),
                 Ref(slices, q).name = Ref(slices, Moved(p, r)).name,
                 Before(slices, q, Moved(p, r))
          PROVE  FALSE
      <3>1. PICK o \in References(relisted) : Moved(p, o) = q
        BY RelistingFacts
      <3>2. Ref(relisted, o) = Ref(slices, q) /\ Ref(relisted, r) = Ref(slices, Moved(p, r))
        BY <2>1, <3>1, RelistingFacts
      <3>3. Before(relisted, o, r)
        BY <2>1, <2>3, <3>1, RelistingFacts
      <3> QED
        BY <2>3, <3>2, <3>3 DEF Named
    <2> QED
      BY <2>2, <2>3 DEF Named
  <1>2. ASSUME NEW q \in Named(slices, home)
        PROVE  \E r \in Named(relisted, home) : Moved(p, r) = q
    <2>1. q \in References(slices) /\ InFleet(Ref(slices, q), home)
      BY DEF Named
    <2>2. PICK r \in References(relisted) : Moved(p, r) = q
      BY <2>1, RelistingFacts
    <2>3. InFleet(Ref(relisted, r), home) /\ Ref(relisted, r) = Ref(slices, q)
      BY <2>1, <2>2, RelistingFacts
    <2>4. ASSUME NEW o \in References(relisted), InFleet(Ref(relisted, o), home),
                 Ref(relisted, o).name = Ref(relisted, r).name, Before(relisted, o, r)
          PROVE  FALSE
      <3>1. /\ Moved(p, o) \in References(slices)
            /\ Ref(relisted, o) = Ref(slices, Moved(p, o))
            /\ Before(slices, Moved(p, o), q)
        BY <2>2, <2>4, RelistingFacts
      <3> QED
        BY <2>3, <2>4, <3>1 DEF Named
    <2>5. r \in Named(relisted, home)
      BY <2>3, <2>4 DEF Named
    <2> QED
      BY <2>2, <2>5
  <1> QED
    BY <1>1, <1>2

\* ResolveDecision (decision.go:146): whatever order the cache lists the slices
\* in, the same members are decided with the same parameters, or the decision is
\* refused.
THEOREM DecisionIgnoresListing ==
  ASSUME NEW slices, IsListing(slices), NEW relisted, NEW p, IsRelisting(relisted, slices, p),
         NEW home, NEW profiles, NEW required
  PROVE  ResolveDecision(relisted, home, profiles, required)
           = ResolveDecision(slices, home, profiles, required)
  <1> DEFINE old == ResolveDecision(slices, home, profiles, required)
             new == ResolveDecision(relisted, home, profiles, required)
             good == GoodOnes(slices, home, profiles, required)
             found == GoodOnes(relisted, home, profiles, required)
  <1>1. IsListing(relisted)
    BY RelistingFacts
  <1>2. /\ \A r \in Named(relisted, home) :
              /\ r \in References(relisted) /\ Moved(p, r) \in Named(slices, home)
              /\ Ref(relisted, r) = Ref(slices, Moved(p, r))
              /\ relisted[r[1]] = slices[Moved(p, r)[1]]
        /\ \A q \in Named(slices, home) : \E r \in Named(relisted, home) : Moved(p, r) = q
    BY RelistingFacts, RelistingNames DEF Named
  <1>3. /\ \A r \in found : Moved(p, r) \in good
        /\ \A q \in good : \E r \in found : Moved(p, r) = q
    BY <1>2 DEF GoodOnes
  <1>4. found # Named(relisted, home) <=> good # Named(slices, home)
    BY <1>2 DEF GoodOnes
  <1>5. (\E r \in References(relisted) : ~InFleet(Ref(relisted, r), home))
          <=> \E q \in References(slices) : ~InFleet(Ref(slices, q), home)
    BY RelistingFacts
  <1>6. \A r \in found : /\ r \in Named(relisted, home)
                         /\ Ref(relisted, r) = Ref(slices, Moved(p, r))
                         /\ relisted[r[1]] = slices[Moved(p, r)[1]]
    BY <1>2 DEF GoodOnes
  <1>7. /\ old.state = IF \/ good # Named(slices, home)
                          \/ \E r \in References(slices) : ~InFleet(Ref(slices, r), home)
                       THEN "violated" ELSE "resolved"
        /\ DOMAIN old.members = {Ref(slices, r).name : r \in good}
        /\ \A r \in good : old.members[Ref(slices, r).name]
                             = slices[r[1]].params[Ref(slices, r).name]
        /\ old = [state |-> old.state, members |-> [n \in DOMAIN old.members |-> old.members[n]]]
    <2> HIDE DEF old, good
    <2> QED
      BY Resolved DEF old, good
  <1>8. /\ new.state = IF \/ found # Named(relisted, home)
                          \/ \E r \in References(relisted) : ~InFleet(Ref(relisted, r), home)
                       THEN "violated" ELSE "resolved"
        /\ DOMAIN new.members = {Ref(relisted, r).name : r \in found}
        /\ \A r \in found : new.members[Ref(relisted, r).name]
                              = relisted[r[1]].params[Ref(relisted, r).name]
        /\ new = [state |-> new.state, members |-> [n \in DOMAIN new.members |-> new.members[n]]]
    <2> HIDE DEF new, found
    <2> QED
      BY <1>1, Resolved DEF new, found
  <1> HIDE DEF old, new, good, found
  <1>9. new.state = old.state
    BY <1>4, <1>5, <1>7, <1>8
  <1>10. DOMAIN new.members = DOMAIN old.members
    <2>1. {Ref(relisted, r).name : r \in found} = {Ref(slices, r).name : r \in good}
      BY <1>3, <1>6
    <2> QED
      BY <1>7, <1>8, <2>1
  <1>11. ASSUME NEW n \in DOMAIN new.members PROVE new.members[n] = old.members[n]
    <2>1. PICK r \in found : n = Ref(relisted, r).name
      BY <1>8
    <2>2. Moved(p, r) \in good /\ n = Ref(slices, Moved(p, r)).name
      BY <1>3, <1>6, <2>1
    <2>3. new.members[n] = relisted[r[1]].params[n]
      BY <1>8, <2>1
    <2>4. old.members[n] = slices[Moved(p, r)[1]].params[n]
      BY <1>7, <2>2
    <2> QED
      BY <1>6, <2>1, <2>3, <2>4
  <1>12. [n \in DOMAIN new.members |-> new.members[n]] = [n \in DOMAIN old.members |-> old.members[n]]
    BY <1>10, <1>11
  <1>13. new = old
    BY <1>7, <1>8, <1>9, <1>12
  <1> QED
    BY <1>13 DEF new, old

-----------------------------------------------------------------------------
(* ClassifyPlacement and RollupReady.                                       *)

LEMMA TotalIsSum == \A f : Total(f) = SumOf(f, DOMAIN f)
  BY DEF Total, SumOf

\* RollupReady (placement.go:159): Ready needs a copy that can be read and is up,
\* whatever was placed, was held back or is tolerated.
THEOREM ReadyNeedsACopy ==
  ASSUME NEW placement, IsFiniteSet(DOMAIN placement.members), NEW template, NEW met,
         \A n \in DOMAIN placement.members : met[n].ready \in Nat,
         NEW minClusters, NEW minReplicas,
         Status(placement, template, met, minClusters, minReplicas).ready
  PROVE  \E n \in DOMAIN placement.members :
            /\ met[n].healthy /\ met[n].answers
            /\ met[n].expanded \/ (met[n].reports /\ met[n].ready > 0)
  <1> DEFINE members == placement.members
             requested == IF Given(template) THEN template ELSE 0
             Assigned(n) == IF Given(template) THEN ReplicasOf(members[n], template) ELSE 0
             acted == DOMAIN members \ {n \in DOMAIN members : Gated(met[n])}
             up == {n \in acted : Ready(met[n], Assigned(n))}
             counted == [n \in acted |-> ReadyReplicas(met[n])]
             total == IF Divided(members) THEN requested
                      ELSE requested * Cardinality(DOMAIN members)
  <1>1. RollupReady(Cardinality(DOMAIN members), Divided(members), Cardinality(up),
                    total, Total(counted), minClusters, minReplicas)
    BY DEF Status, PlacedClusters
  <1> HIDE DEF total
  <1>2. Cardinality(up) > 0 \/ Total(counted) > 0
    BY <1>1 DEF RollupReady
  <1>3. acted \in SUBSET DOMAIN placement.members /\ up \in SUBSET DOMAIN placement.members
    OBVIOUS
  <1>4. IsFiniteSet(acted) /\ IsFiniteSet(up)
    <2> HIDE DEF acted, up
    <2> QED
      BY <1>3, FS_Subset
  <1>5. ASSUME Cardinality(up) > 0
        PROVE  \E n \in acted : Ready(met[n], Assigned(n))
    <2>1. Cardinality(up) # 0
      <3> HIDE DEF up
      <3> QED
        BY <1>5
    <2>2. up # {}
      <3> HIDE DEF up
      <3> QED
        BY <2>1, FS_EmptySet
    <2> QED
      BY <2>2
  <1>6. ASSUME Total(counted) > 0
        PROVE  \E n \in acted : ReadyReplicas(met[n]) # 0
    <2>1. Total(counted) = SumOf(counted, acted)
      BY TotalIsSum
    <2>2. ASSUME \A n \in acted : counted[n] = 0 PROVE FALSE
      <3> HIDE DEF counted, acted
      <3>1. SumOf(counted, acted) = 0
        BY <1>4, <2>2, SumOfZeros
      <3> QED
        BY <1>6, <2>1, <3>1
    <2> QED
      BY <2>2
  <1>7. \A n \in acted : met[n].ready \in Nat
    BY <1>3
  <1> HIDE DEF acted
  <1>8. ASSUME NEW n \in acted, Ready(met[n], Assigned(n))
        PROVE  met[n].healthy /\ met[n].answers /\ met[n].expanded
    BY <1>8 DEF Ready, Readable
  <1>9. ASSUME NEW n \in acted, ReadyReplicas(met[n]) # 0
        PROVE  met[n].healthy /\ met[n].answers /\ met[n].reports /\ met[n].ready > 0
    BY <1>7, <1>9 DEF ReadyReplicas, Readable
  <1> QED
    BY <1>2, <1>3, <1>5, <1>6, <1>8, <1>9

\* RollupReady (placement.go:159): where nothing is divided and nothing tolerated,
\* Ready needs every decided member, a gated one too: as many copies are up as
\* members are decided, so each of them is, and none was held back.
THEOREM ReadyNeedsEveryCopy ==
  ASSUME NEW placement, IsFiniteSet(DOMAIN placement.members), NEW template, NEW met,
         Status(placement, template, met, Absent, Absent).ready,
         ~Divided(placement.members)
  PROVE  /\ DOMAIN placement.members # {}
         /\ \A n \in DOMAIN placement.members :
              /\ ~Gated(met[n])
              /\ Ready(met[n], IF Given(template)
                               THEN ReplicasOf(placement.members[n], template) ELSE 0)
         /\ Status(placement, template, met, Absent, Absent).placed <=> placement.placed
  <1> DEFINE members == placement.members
             requested == IF Given(template) THEN template ELSE 0
             Assigned(n) == IF Given(template) THEN ReplicasOf(members[n], template) ELSE 0
             gated == {n \in DOMAIN members : Gated(met[n])}
             acted == DOMAIN members \ gated
             up == {n \in acted : Ready(met[n], Assigned(n))}
             replicas == Total([n \in acted |-> ReadyReplicas(met[n])])
             total == IF Divided(members) THEN requested
                      ELSE requested * Cardinality(DOMAIN members)
  <1>1. RollupReady(Cardinality(DOMAIN members), Divided(members), Cardinality(up),
                    total, replicas, Absent, Absent)
    BY DEF Status, PlacedClusters
  <1>2. Status(placement, template, met, Absent, Absent).placed
          <=> placement.placed /\ gated = {}
    BY DEF Status
  <1> HIDE DEF total, replicas
  <1>3. up \in SUBSET DOMAIN members /\ IsFiniteSet(DOMAIN members)
    OBVIOUS
  <1>4. Cardinality(DOMAIN members) # 0 /\ Cardinality(up) >= Cardinality(DOMAIN members)
    <2> HIDE DEF up
    <2> QED
      BY <1>1 DEF RollupReady, Given
  <1>5. DOMAIN members # {} /\ up = DOMAIN members
    <2> HIDE DEF up, members
    <2>1. /\ Cardinality(up) <= Cardinality(DOMAIN members)
          /\ Cardinality(DOMAIN members) = Cardinality(up) => DOMAIN members = up
          /\ IsFiniteSet(up)
      BY <1>3, FS_Subset
    <2>2. Cardinality(up) \in Nat /\ Cardinality(DOMAIN members) \in Nat
      BY <1>3, <2>1, FS_CardinalityType
    <2>3. DOMAIN members # {}
      BY <1>4, FS_EmptySet
    <2> QED
      BY <1>4, <2>1, <2>2, <2>3
  <1>6. \A n \in DOMAIN members : ~Gated(met[n]) /\ Ready(met[n], Assigned(n))
    BY <1>5
  <1>7. gated = {}
    BY <1>6
  <1> QED
    BY <1>2, <1>5, <1>6, <1>7

-----------------------------------------------------------------------------
(* The passes of MCPlacementResolution.                                     *)

USE NumbersAssumption

LEMMA InputFacts ==
  ASSUME NEW in \in Inputs
  PROVE  /\ "slices" \in DOMAIN in /\ in.profiles \in Profiles /\ in.template \in Requests
         /\ in.slices # <<>> => /\ in.sources = {"placementKey"} /\ in.slices \in Lists
                                /\ in.required = [k \in {"gpu"} |-> "h100"]
  BY DEF Inputs

LEMMA ProfileFacts ==
  ASSUME NEW profiles \in Profiles
  PROVE  DOMAIN profiles = {1, 2} /\ \A n \in {1, 2} : DOMAIN profiles[n] = {"gpu"}
  BY DEF Profiles, Registered

LEMMA SliceFacts ==
  ASSUME NEW names, NEW refs, NEW s \in Slices(names, refs)
  PROVE  s.name \in names /\ s.index \in Nat /\ s.refs \in refs
  BY DEF Slices, Unindexed

LEMMA ListFacts ==
  ASSUME NEW slices \in Lists
  PROVE  /\ IsListing(slices)
         /\ Len(slices) \in Nat /\ DOMAIN slices = 1 .. Len(slices)
         /\ slices # <<>> => Len(slices) > 0
  <1>1. CASE slices = <<>>
    BY <1>1 DEF IsListing
  <1>2. ASSUME NEW s \in Alone, slices = <<s>>
        PROVE  /\ IsListing(slices)
               /\ Len(slices) = 1 /\ DOMAIN slices = 1 .. 1
    <2>1. s.name = 1 /\ s.index \in Nat /\ s.refs \in {<<>>} \cup Pairs
      BY SliceFacts DEF Alone, First, Second
    <2>2. DOMAIN s.refs \subseteq Nat
      BY <2>1 DEF Pairs
    <2> QED
      BY <1>2, <2>1, <2>2 DEF IsListing
  <1>3. ASSUME NEW s \in Second, NEW t \in First, slices = <<s, t>>
        PROVE  /\ IsListing(slices)
               /\ Len(slices) = 2 /\ DOMAIN slices = 1 .. 2
    <2>1. s.name = 2 /\ s.index \in Nat /\ s.refs \in {<<a>> : a \in Clusters}
      BY SliceFacts DEF Alone, First, Second
    <2>2. t.name = 1 /\ t.index \in Nat /\ t.refs \in {<<>>} \cup {<<a>> : a \in Clusters}
      BY SliceFacts DEF Alone, First, Second
    <2>3. DOMAIN s.refs \subseteq Nat /\ DOMAIN t.refs \subseteq Nat
      BY <2>1, <2>2
    <2>4. DOMAIN slices = 1 .. 2 /\ slices[1] = s /\ slices[2] = t /\ Len(slices) = 2
      BY <1>3
    <2>5. 1 .. 2 = {1, 2}
      OBVIOUS
    <2> QED
      BY <2>1, <2>2, <2>3, <2>4, <2>5 DEF IsListing
  <1>4. \/ slices = <<>>
        \/ \E s \in Alone : slices = <<s>>
        \/ \E s \in Second :
             \E t \in First : slices = <<s, t>>
    <2>1. slices = <<>> \/ slices \in {<<s>> : s \in Alone} \/ slices \in TwoSlices
      BY DEF Lists
    <2>2. slices \in TwoSlices => \E s \in Second : \E t \in First : slices = <<s, t>>
      BY DEF TwoSlices
    <2> QED
      BY <2>1, <2>2
  <1>5. CASE \E s \in Alone : slices = <<s>>
    BY <1>2, <1>5
  <1>6. CASE \E s \in Second :
               \E t \in First : slices = <<s, t>>
    BY <1>3, <1>6
  <1> QED
    BY <1>1, <1>4, <1>5, <1>6

LEMMA ResolvesDecision ==
  ASSUME NEW in, in.sources = {"placementKey"}, in.slices # <<>>
  PROVE  Resolve(in) = ResolveDecision(in.slices, in.home, in.profiles, in.required)
  <1>1. Cardinality({"placementKey"}) = 1
    BY FS_Singleton
  <1>2. {"placementKey"} # {"clusterSelector"}
    OBVIOUS
  <1> QED
    BY <1>1, <1>2 DEF Resolve

\* Only registered members are ever decided.
LEMMA ResolvedMembers ==
  ASSUME NEW in \in Inputs
  PROVE  /\ DOMAIN Resolve(in).members \subseteq {1, 2}
         /\ Resolve(in).state \in {"invalid", "pending", "violated", "resolved"}
  <1>1. DOMAIN in.profiles = {1, 2}
    BY InputFacts, ProfileFacts
  <1>2. DOMAIN Nobody = {}
    BY DEF Nobody
  <1>3. CASE in.slices = <<>>
    BY <1>1, <1>2, <1>3 DEF Resolve, Absent
  <1>4. ASSUME in.slices # <<>>
        PROVE  /\ DOMAIN Resolve(in).members \subseteq {1, 2}
               /\ Resolve(in).state \in {"violated", "resolved"}
    <2> DEFINE slices == in.slices
               good == GoodOnes(slices, in.home, in.profiles, in.required)
               res == Resolve(in)
    <2>1. slices \in Lists /\ res = ResolveDecision(slices, in.home, in.profiles, in.required)
      BY <1>4, InputFacts, ResolvesDecision
    <2>2. IsListing(slices)
      BY <2>1, ListFacts
    <2>3. /\ DOMAIN res.members = {Ref(slices, r).name : r \in good}
          /\ res.state \in {"violated", "resolved"}
      <3> HIDE DEF res, slices, good
      <3> QED
        BY <2>1, <2>2, Resolved DEF good
    <2>4. \A r \in good : Ref(slices, r).name \in {1, 2}
      BY <1>1, <2>2, NamedOnce, ReferenceTypes DEF GoodOnes, Eligible
    <2> HIDE DEF res, slices, good
    <2>5. DOMAIN res.members \subseteq {1, 2}
      BY <2>3, <2>4
    <2> QED
      BY <2>3, <2>5 DEF res
  <1> QED
    BY <1>3, <1>4

LEMMA TwoIsFinite == IsFiniteSet({1, 2})
  <1>1. IsFiniteSet({1} \cup {2})
    BY FS_Singleton, FS_AddElement
  <1>2. {1} \cup {2} = {1, 2}
    OBVIOUS
  <1> QED
    BY <1>1, <1>2

LEMMA Classified ==
  ASSUME NEW in \in Inputs, NEW v, v = Classify(Resolve(in), Requested(in))
  PROVE  /\ v.reason # "none"
         /\ DOMAIN v.members \subseteq {1, 2} /\ IsFiniteSet(DOMAIN v.members)
         /\ DOMAIN v.members # {} /\ ~Divided(v.members) => v.placed
  <1>1. DOMAIN Nobody = {}
    BY DEF Nobody
  <1>2. v.reason # "none" /\ DOMAIN v.members \subseteq {1, 2}
    BY <1>1, ResolvedMembers DEF Classify, Verdict
  <1>3. DOMAIN v.members # {} /\ ~Divided(v.members) => v.placed
    BY <1>1 DEF Classify, Verdict, FallsShort
  <1> QED
    BY <1>2, <1>3, TwoIsFinite, FS_Subset

-----------------------------------------------------------------------------
(* The invariants of the passes.                                            *)

\* The inductive invariant: as long as the input is known it is one that was
\* chosen, the verdict on it, once there is one, is its classification, and
\* nothing was written; whatever the verdict is, it has finitely many members, and
\* only where they divide the template can it fail to place them.
PassInv ==
    /\ verdict.reason = "none" => "slices" \in DOMAIN input
    /\ "slices" \in DOMAIN input =>
         /\ input \in Inputs /\ status = NoStatus
         /\ verdict.reason # "none" => verdict = Classify(Resolve(input), Requested(input))
    /\ input.template \in Requests
    /\ IsFiniteSet(DOMAIN verdict.members)
    /\ DOMAIN verdict.members # {} /\ ~Divided(verdict.members) => verdict.placed
    /\ ReadyIsEarned
    /\ ReadyMeansAll

LEMMA NobodyIsFinite == DOMAIN Nobody = {} /\ IsFiniteSet(DOMAIN Nobody)
  <1>1. DOMAIN Nobody = {}
    BY DEF Nobody
  <1> QED
    BY <1>1, FS_EmptySet

LEMMA PassInit ==
  ASSUME Init
  PROVE  PassInv
  <1>1. "slices" \in DOMAIN input
    BY InputFacts DEF Init
  <1>2. verdict.reason = "none" /\ verdict.members = Nobody
    BY DEF Init, Verdict
  <1>3. ~status.ready
    BY DEF Init, NoStatus
  <1>4. status = NoStatus /\ input \in Inputs /\ input.template \in Requests
    BY InputFacts DEF Init
  <1> QED
    BY <1>1, <1>2, <1>3, <1>4, NobodyIsFinite DEF PassInv, ReadyIsEarned, ReadyMeansAll

LEMMA FactsAreTyped ==
  ASSUME NEW f \in Facts
  PROVE  f.ready \in Nat
  <1>1. \/ f.ready \in {0}
        \/ f.ready \in 0 .. 2
    BY DEF Facts, Shown
  <1> QED
    BY <1>1

\* Writing the status: ReadyNeedsEveryCopy, read in the terms of the property.
LEMMA ReadyWithoutTolerances ==
  ASSUME IsFiniteSet(DOMAIN verdict.members),
         DOMAIN verdict.members # {} /\ ~Divided(verdict.members) => verdict.placed,
         verdict' = verdict, input' = input, input.template \in Nat,
         \A n \in DOMAIN verdict.members : facts'[n].ready \in Nat,
         status' = Status(verdict, input.template, facts', input.minClusters,
                          input.minReplicas)
  PROVE  ReadyMeansAll'
  <1> DEFINE members == verdict.members
  <1>1. SUFFICES ASSUME status'.ready, ~Divided(members),
                        ~Given(input.minClusters), ~Given(input.minReplicas)
                 PROVE  /\ status'.placed
                        /\ \A n \in DOMAIN members :
                             LET f == facts'[n] IN
                             /\ f.healthy /\ f.answers /\ (f.gate \/ f.held) /\ f.expanded
                             /\ f.reports /\ Given(input.template)
                                  => f.ready >= input.template
    BY DEF ReadyMeansAll
  <1>2. status' = Status(verdict, input.template, facts', Absent, Absent)
    BY <1>1 DEF Given
  <1>3. /\ DOMAIN members # {}
        /\ \A n \in DOMAIN members :
             Ready(facts'[n], IF Given(input.template)
                              THEN ReplicasOf(members[n], input.template) ELSE 0)
        /\ status'.placed <=> verdict.placed
    BY <1>1, <1>2, ReadyNeedsEveryCopy
  <1>4. \A n \in DOMAIN members : ReplicasOf(members[n], input.template) = input.template
    BY <1>1 DEF Divided, Given, ReplicasOf, Counted, Absent, MaxInt32
  <1>5. ASSUME NEW n \in DOMAIN members
        PROVE  LET f == facts'[n] IN
               /\ f.healthy /\ f.answers /\ (f.gate \/ f.held) /\ f.expanded
               /\ f.reports /\ Given(input.template) => f.ready >= input.template
    <2>1. Ready(facts'[n], IF Given(input.template) THEN input.template ELSE 0)
      BY <1>3, <1>4
    <2> QED
      BY <2>1 DEF Ready, Readable
  <1> QED
    BY <1>1, <1>3, <1>5

LEMMA PassNext ==
  ASSUME PassInv, [Next]_vars
  PROVE  PassInv'
  <1>1. ASSUME Plan PROVE PassInv'
    <2>1. "slices" \in DOMAIN input /\ input \in Inputs /\ status = NoStatus
      BY <1>1 DEF Plan, PassInv
    <2>2. verdict' = Classify(Resolve(input), Requested(input))
          /\ input' = input /\ status' = status
      BY <1>1 DEF Plan
    <2>3. /\ verdict'.reason # "none" /\ IsFiniteSet(DOMAIN verdict'.members)
          /\ DOMAIN verdict'.members # {} /\ ~Divided(verdict'.members) => verdict'.placed
      BY <2>1, <2>2, Classified
    <2>4. ~status.ready
      BY <2>1 DEF NoStatus
    <2> QED
      BY <2>1, <2>2, <2>3, <2>4 DEF PassInv, ReadyIsEarned, ReadyMeansAll
  <1>2. ASSUME GoOn PROVE PassInv'
    <2>1. "slices" \notin DOMAIN input'
      BY <1>2 DEF GoOn
    <2>2. verdict' = verdict /\ verdict.reason # "none" /\ facts' = facts /\ status' = status
      BY <1>2 DEF GoOn
    <2>3. ~status.ready
      BY <1>2 DEF GoOn, PassInv, NoStatus
    <2>4. input'.template \in Requests
      BY <1>2 DEF GoOn, PassInv
    <2>5. ReadyIsEarned' /\ ReadyMeansAll'
      BY <2>2, <2>3 DEF ReadyIsEarned, ReadyMeansAll
    <2> QED
      BY <2>1, <2>2, <2>4, <2>5 DEF PassInv
  <1>3. ASSUME Fold PROVE PassInv'
    <2>1. /\ "slices" \notin DOMAIN input /\ input' = input /\ verdict' = verdict
          /\ verdict.reason # "none" /\ IsFiniteSet(DOMAIN verdict.members)
      BY <1>3 DEF Fold, PassInv
    <2>2. /\ facts' \in [DOMAIN verdict.members -> Facts]
          /\ status' = Status(verdict, input.template, facts', input.minClusters,
                              input.minReplicas)
      BY <1>3 DEF Fold
    <2>3. \A n \in DOMAIN verdict.members : facts'[n].ready \in Nat
      BY <2>2, FactsAreTyped
    <2>4. ASSUME status'.ready
          PROVE  \E n \in DOMAIN verdict.members :
                    /\ facts'[n].healthy /\ facts'[n].answers
                    /\ facts'[n].expanded \/ (facts'[n].reports /\ facts'[n].ready > 0)
      BY <2>1, <2>2, <2>3, <2>4, ReadyNeedsACopy
    <2>5. ReadyIsEarned'
      BY <2>1, <2>4 DEF ReadyIsEarned
    <2>6. ReadyMeansAll'
      BY <2>1, <2>2, <2>3, ReadyWithoutTolerances DEF PassInv
    <2> QED
      BY <1>3, <2>1, <2>5, <2>6 DEF PassInv
  <1>4. ASSUME UNCHANGED vars PROVE PassInv'
    <2>1. ReadyIsEarned' /\ ReadyMeansAll'
      BY <1>4 DEF vars, PassInv, ReadyIsEarned, ReadyMeansAll
    <2> QED
      BY <1>4, <2>1 DEF vars, PassInv
  <1> QED
    BY <1>1, <1>2, <1>3, <1>4 DEF Next

THEOREM PassInvariant == Spec => []PassInv
  <1> QED
    BY PassInit, PassNext, PTL DEF Spec

\* RollupReady (placement.go:159): the instance is Ready only if a copy that can
\* be read is up, in every pass over every placement.
THEOREM ReadyEarned == Spec => []ReadyIsEarned
  <1>1. PassInv => ReadyIsEarned
    BY DEF PassInv
  <1> QED
    BY <1>1, PassInvariant, PTL

\* RollupReady (placement.go:159): an instance that tolerates nothing and is not
\* divided is Ready only as a whole, and then Placed, in every pass over every
\* placement.
THEOREM ReadyAsAWhole == Spec => []ReadyMeansAll
  <1>1. PassInv => ReadyMeansAll
    BY DEF PassInv
  <1> QED
    BY <1>1, PassInvariant, PTL

\* What a state of Decided looks like.
LEMMA DecidedFacts ==
  ASSUME PassInv, Decided
  PROVE  /\ input \in Inputs /\ input.sources = {"placementKey"} /\ input.slices # <<>>
         /\ input.slices \in Lists /\ IsListing(input.slices)
         /\ verdict = Classify(Resolve(input), Requested(input))
         /\ Resolve(input)
              = ResolveDecision(input.slices, input.home, input.profiles, input.required)
         /\ input.required = [k \in {"gpu"} |-> "h100"]
         /\ input.profiles \in Profiles /\ input.template \in Requests
  <1>1. /\ input \in Inputs /\ input.slices # <<>>
        /\ verdict = Classify(Resolve(input), Requested(input))
    BY DEF PassInv, Decided, Planned
  <1>2. /\ input.sources = {"placementKey"} /\ input.slices \in Lists
        /\ input.required = [k \in {"gpu"} |-> "h100"]
        /\ input.profiles \in Profiles /\ input.template \in Requests
    BY <1>1, InputFacts
  <1> QED
    BY <1>1, <1>2, ListFacts, ResolvesDecision

\* Acceptable says of a reference what ResolveDecision requires of it.
LEMMA AcceptableRefs ==
  ASSUME PassInv, Decided, NEW ref
  PROVE  Acceptable(ref)
           <=> InFleet(ref, input.home) /\ Eligible(ref, input.profiles, input.required)
  <1>1. /\ DOMAIN input.profiles = {1, 2} /\ \A n \in {1, 2} : DOMAIN input.profiles[n] = {"gpu"}
        /\ input.required = [k \in {"gpu"} |-> "h100"]
    BY DecidedFacts, ProfileFacts
  <1>2. /\ DOMAIN input.required = {"gpu"} /\ input.required["gpu"] = "h100"
    BY <1>1
  <1>3. Eligible(ref, input.profiles, input.required)
          <=> ref.name \in {1, 2} /\ input.profiles[ref.name]["gpu"] = "h100"
    BY <1>1, <1>2 DEF Eligible, Fits
  <1> QED
    BY <1>3 DEF Acceptable, InFleet, Registered

\* ResolveDecision, ClassifyPlacement (decision.go:145, placement.go:204): one
\* reference that is not acceptable refuses the decision as a whole, and otherwise
\* the members are exactly the clusters named, in every pass over every decision.
THEOREM FailsClosed == Spec => []FailClosed
  <1>1. ASSUME PassInv, Decided
        PROVE  IF \E ref \in AllRefs : ~Acceptable(ref)
               THEN verdict.reason = "DecisionViolatesRequirements" /\ verdict.members = Nobody
               ELSE DOMAIN verdict.members = {ref.name : ref \in AllRefs}
    <2> DEFINE res == Resolve(input)
               refs == References(input.slices)
    <2>1. /\ verdict = Classify(res, Requested(input))
          /\ res = ResolveDecision(input.slices, input.home, input.profiles, input.required)
          /\ IsListing(input.slices)
      BY <1>1, DecidedFacts
    <2>2. /\ res.state \in {"resolved", "violated"}
          /\ res.state = "resolved" <=> \A r \in refs : Acceptable(Ref(input.slices, r))
          /\ res.state = "resolved" =>
               DOMAIN res.members = {Ref(input.slices, r).name : r \in refs}
      <3> HIDE DEF res
      <3>1. /\ res.state \in {"resolved", "violated"}
            /\ res.state = "resolved"
                 <=> \A r \in refs : /\ InFleet(Ref(input.slices, r), input.home)
                                     /\ Eligible(Ref(input.slices, r), input.profiles,
                                                 input.required)
            /\ res.state = "resolved" =>
                 DOMAIN res.members = {Ref(input.slices, r).name : r \in refs}
        BY <2>1, DecisionFailsClosed
      <3> QED
        BY <1>1, <3>1, AcceptableRefs
    <2>3. AllRefs = {Ref(input.slices, r) : r \in refs}
      BY DEF AllRefs, Ref
    <2> HIDE DEF res, refs
    <2>4. CASE res.state = "violated"
      <3>1. verdict.reason = "DecisionViolatesRequirements" /\ verdict.members = Nobody
        BY <2>1, <2>4 DEF Classify, Verdict
      <3>2. \E ref \in AllRefs : ~Acceptable(ref)
        BY <2>2, <2>3, <2>4
      <3> QED
        BY <3>1, <3>2
    <2>5. CASE res.state = "resolved"
      <3>1. verdict.members = res.members
        BY <2>1, <2>5, NobodyIsFinite DEF Classify, Verdict
      <3>2. ~\E ref \in AllRefs : ~Acceptable(ref)
        BY <2>2, <2>3, <2>5
      <3>3. DOMAIN res.members = {ref.name : ref \in AllRefs}
        BY <2>2, <2>3, <2>5
      <3> QED
        BY <3>1, <3>2, <3>3
    <2> QED
      BY <2>2, <2>4, <2>5
  <1>2. PassInv => FailClosed
    BY <1>1 DEF FailClosed
  <1> QED
    BY <1>2, PassInvariant, PTL

\* ResolveDecision (decision.go:146): in whatever order the cache lists the slices
\* of a decision, the verdict on it is the same.
THEOREM ListingIgnored == Spec => []OrderDoesNotMatter
  <1>1. ASSUME PassInv, Decided,
               NEW relisted,
               relisted = [input EXCEPT !.slices =
                             [i \in 1 .. Len(input.slices) |->
                                input.slices[Len(input.slices) + 1 - i]]]
        PROVE  Classify(Resolve(relisted), Requested(input)) = verdict
    <2> DEFINE n == Len(input.slices)
               reversed == [i \in 1 .. n |-> input.slices[n + 1 - i]]
               p == [i \in 1 .. n |-> n + 1 - i]
    <2>1. /\ verdict = Classify(Resolve(input), Requested(input))
          /\ Resolve(input)
               = ResolveDecision(input.slices, input.home, input.profiles, input.required)
          /\ IsListing(input.slices) /\ input.sources = {"placementKey"}
      BY <1>1, DecidedFacts
    <2>2. n \in Nat /\ DOMAIN input.slices = 1 .. n /\ n > 0
      BY <1>1, DecidedFacts, ListFacts
    <2>3. IsRelisting(reversed, input.slices, p)
      <3> HIDE DEF n
      <3>1. \A i \in 1 .. n : n + 1 - i \in 1 .. n
        BY <2>2
      <3>2. \A j \in 1 .. n : p[n + 1 - j] = j
        BY <2>2
      <3> QED
        BY <2>2, <3>1, <3>2 DEF IsRelisting
    <2>4. ResolveDecision(reversed, input.home, input.profiles, input.required)
            = ResolveDecision(input.slices, input.home, input.profiles, input.required)
      <3> HIDE DEF reversed, p
      <3> QED
        BY <2>1, <2>3, DecisionIgnoresListing
    <2>5. reversed # <<>>
      <3>1. DOMAIN reversed = 1 .. n /\ 1 \in 1 .. n
        BY <2>2
      <3>2. 1 \notin DOMAIN <<>>
        OBVIOUS
      <3> HIDE DEF reversed, n
      <3> QED
        BY <3>1, <3>2
    <2>6. /\ relisted.slices = reversed /\ relisted.sources = {"placementKey"}
          /\ relisted.home = input.home /\ relisted.profiles = input.profiles
          /\ relisted.required = input.required
      <3>1. {"slices", "sources", "home", "profiles", "required"} \subseteq DOMAIN input
        BY <1>1, DecidedFacts DEF Inputs
      <3> HIDE DEF reversed
      <3> QED
        BY <1>1, <2>1, <3>1 DEF reversed
    <2> HIDE DEF reversed
    <2>7. Resolve(relisted)
            = ResolveDecision(reversed, input.home, input.profiles, input.required)
      BY <2>5, <2>6, ResolvesDecision
    <2> QED
      BY <2>1, <2>4, <2>7
  <1>2. PassInv => OrderDoesNotMatter
    BY <1>1 DEF OrderDoesNotMatter
  <1> QED
    BY <1>2, PassInvariant, PTL

=============================================================================
