------------------------- MODULE DemoSchedulerProofs ------------------------
(***************************************************************************)
(* Proofs about DemoScheduler: what its policies assign, its type          *)
(* invariant, and that a decision on an up-to-date ledger reserves no      *)
(* accelerator twice.                                                      *)
(***************************************************************************)
EXTENDS DemoScheduler, SumTheorems

USE ClustersAssumption, InstancesAssumption, RoomAssumption, KindsAssumption

-----------------------------------------------------------------------------
(* The room on the clusters.                                                *)

LEMMA SumIsSumOf == \A f, S : Sum(f, S) = SumOf(f, S)
  BY DEF Sum, SumOf

LEMMA LessFacts ==
  ASSUME NEW a \in Nat, NEW b \in Nat
  PROVE  /\ Less(a, b) \in Nat /\ Less(a, b) <= a
         /\ \A x \in Nat : x > 0 /\ x <= Less(a, b) => x + b <= a
  BY DEF Less

LEMMA LessType == \A a, b \in Nat : Less(a, b) \in Nat
  BY DEF Less

LEMMA SmallerFacts ==
  ASSUME NEW a \in Nat, NEW b \in Nat
  PROVE  Smaller(a, b) \in Nat /\ Smaller(a, b) <= a /\ Smaller(a, b) <= b
  BY DEF Smaller

\* No ledger, however it came about, yields anything but a number of replicas.
LEMMA CapacityType ==
  ASSUME TypeOK, NEW i \in Instances
  PROVE  /\ Capacity(i) \in [Clusters -> Nat]
         /\ \A c \in Clusters : Own(i, c) \in Nat /\ Others(i, c) \in Nat
  <1>1. ASSUME NEW c \in Clusters
        PROVE  /\ Own(i, c) \in Nat /\ Others(i, c) \in Nat
               /\ AccountCapacity(Room, free[c], c \in Totalling, Own(i, c), Others(i, c)) \in Nat
    <2>1. \A j \in Instances : cdec[j][c] \in Nat
      BY DEF TypeOK, Assignments
    <2>2. Own(i, c) \in Nat /\ free[c] \in Nat
      BY <2>1 DEF Own, TypeOK
    <2>3. Others(i, c) \in Nat
      <3> DEFINE f == [j \in Instances |-> cdec[j][c]]
      <3>1. IsFiniteSet(Instances \ {i})
        BY FS_Subset
      <3>2. \A j \in Instances \ {i} : f[j] \in Nat
        BY <2>1
      <3> HIDE DEF f
      <3>3. SumOf(f, Instances \ {i}) \in Nat
        BY <3>1, <3>2, SumIsNatural
      <3> QED
        BY <3>3, SumIsSumOf DEF Others, f
    <2> DEFINE ext == External(Room, free[c], Own(i, c), Others(i, c))
    <2>4. ext \in Nat
      <3>1. free[c] + Own(i, c) + Others(i, c) \in Nat
        BY <2>2, <2>3
      <3> QED
        BY <3>1, LessType DEF External
    <2>5. Less(Room, Others(i, c) + ext) \in Nat
      <3> HIDE DEF ext
      <3>1. Others(i, c) + ext \in Nat
        BY <2>3, <2>4
      <3> QED
        BY <3>1, LessType
    <2> QED
      BY <2>2, <2>3, <2>5 DEF AccountCapacity
  <1> QED
    BY <1>1 DEF Capacity

-----------------------------------------------------------------------------
(* The policies that fill one cluster after the other.                      *)

Filling == Policies \ {"spread"}

LEMMA FirstIsOrder ==
  ASSUME NEW policy \in Filling, NEW cap \in [Clusters -> Nat]
  PROVE  /\ \A c, d \in Clusters :
               /\ c # d => First(policy, cap, c, d) \/ First(policy, cap, d, c)
               /\ ~(First(policy, cap, c, d) /\ First(policy, cap, d, c))
         /\ \A c, d, e \in Clusters :
               First(policy, cap, c, d) /\ First(policy, cap, d, e) => First(policy, cap, c, e)
  <1>0. \A c \in Clusters : cap[c] \in Nat /\ c \in Nat
    OBVIOUS
  <1>1. CASE policy = "cheapest-first"
    <2>1. \A c, d \in Clusters : First(policy, cap, c, d) <=> c < d
      BY <1>1 DEF First
    <2> QED
      BY <1>0, <2>1
  <1>2. CASE policy = "spot-first"
    <2>1. \A c, d \in Clusters :
             First(policy, cap, c, d)
               <=> \/ c \in Spot /\ d \notin Spot
                   \/ (c \in Spot <=> d \in Spot) /\ c < d
      BY <1>2 DEF First
    <2> QED
      BY <1>0, <2>1
  <1>3. CASE policy = "bin-pack"
    <2>1. \A c, d \in Clusters :
             First(policy, cap, c, d) <=> cap[c] > cap[d] \/ (cap[c] = cap[d] /\ c < d)
      BY <1>0, <1>3 DEF First
    <2> QED
      BY <1>0, <2>1
  <1> QED
    BY <1>1, <1>2, <1>3 DEF Filling, Policies

LEMMA FillTakesNext ==
  ASSUME NEW r \in Nat, NEW s \in Nat, NEW k \in Nat
  PROVE  Smaller(r, s) + Smaller(k, Less(r, s)) = Smaller(r, k + s)
  BY DEF Smaller, Less
\* What Fill would assign if there were only the clusters of T.
Ahead(policy, cap, c, S) == {d \in S : d # c /\ First(policy, cap, d, c)}
Filled(policy, r, cap, S) ==
    [c \in S |-> Smaller(cap[c], Less(r, SumOf(cap, Ahead(policy, cap, c, S))))]

LEMMA FillIsFilled ==
  ASSUME NEW policy, NEW r, NEW cap
  PROVE  Fill(policy, r, cap) = Filled(policy, r, cap, Clusters)
  BY SumIsSumOf DEF Fill, Filled, Ahead

\* Some cluster of S is filled last, and the others as if it were not there.
IsLast(policy, cap, z, S) ==
    /\ Ahead(policy, cap, z, S) = S \ {z}
    /\ \A c \in S \ {z} : Ahead(policy, cap, c, S) = Ahead(policy, cap, c, S \ {z})

LEMMA LastFilled ==
  ASSUME NEW policy \in Filling, NEW cap \in [Clusters -> Nat],
         NEW S \in SUBSET Clusters, S # {}
  PROVE  \E z \in S : IsLast(policy, cap, z, S)
  <1> DEFINE R == {p \in Clusters \X Clusters : First(policy, cap, p[1], p[2])}
  <1>1. \A c, d \in Clusters : <<c, d>> \in R <=> First(policy, cap, c, d)
    OBVIOUS
  <1> HIDE DEF R
  <1>2. IsOrder(R, Clusters)
    BY <1>1, FirstIsOrder DEF IsOrder
  <1>3. PICK z \in S : ComesLast(z, S, R)
    BY <1>2, LastExists
  <1>4. \A y \in S : y # z => First(policy, cap, y, z) /\ ~First(policy, cap, z, y)
    BY <1>1, <1>3, FirstIsOrder DEF ComesLast
  <1>5. Ahead(policy, cap, z, S) = S \ {z}
    BY <1>4 DEF Ahead
  <1>6. \A c \in S \ {z} : Ahead(policy, cap, c, S) = Ahead(policy, cap, c, S \ {z})
    BY <1>4 DEF Ahead
  <1> QED
    BY <1>5, <1>6 DEF IsLast

LEMMA FilledSum ==
  ASSUME NEW policy \in Filling, NEW r \in Nat, NEW cap \in [Clusters -> Nat]
  PROVE  \A S \in SUBSET Clusters :
            SumOf(Filled(policy, r, cap, S), S) = Smaller(r, SumOf(cap, S))
  <1> DEFINE Good == {S \in SUBSET Clusters :
                        SumOf(Filled(policy, r, cap, S), S) = Smaller(r, SumOf(cap, S))}
  <1>0. \A c \in Clusters : cap[c] \in Nat
    OBVIOUS
  <1>1. \A S \in SUBSET Clusters : IsFiniteSet(S) /\ SumOf(cap, S) \in Nat
    <2>1. ASSUME NEW S \in SUBSET Clusters PROVE IsFiniteSet(S) /\ SumOf(cap, S) \in Nat
      <3>1. IsFiniteSet(S)
        BY FS_Subset
      <3>2. \A c \in S : cap[c] \in Nat
        BY <1>0
      <3> QED
        BY <3>1, <3>2, SumIsNatural
    <2> QED
      BY <2>1
  <1>2. \A S \in SUBSET Clusters : \A c \in S :
           /\ Filled(policy, r, cap, S)[c]
                = Smaller(cap[c], Less(r, SumOf(cap, Ahead(policy, cap, c, S))))
           /\ Filled(policy, r, cap, S)[c] \in Nat
    <2>1. ASSUME NEW S \in SUBSET Clusters, NEW c \in S
          PROVE  Smaller(cap[c], Less(r, SumOf(cap, Ahead(policy, cap, c, S)))) \in Nat
      <3>1. SumOf(cap, Ahead(policy, cap, c, S)) \in Nat
        BY <1>1 DEF Ahead
      <3>2. Less(r, SumOf(cap, Ahead(policy, cap, c, S))) \in Nat
        BY <3>1, LessType
      <3>3. cap[c] \in Nat
        BY <1>0
      <3> QED
        BY <3>2, <3>3, SmallerFacts
    <2> QED
      BY <2>1 DEF Filled
  <1>3. {} \in Good
    <2>1. SumOf(Filled(policy, r, cap, {}), {}) = 0 /\ SumOf(cap, {}) = 0
      BY SumOfNothing
    <2>2. Smaller(r, 0) = 0
      BY DEF Smaller
    <2> QED
      BY <2>1, <2>2
  <1>4. ASSUME NEW S \in SUBSET Clusters, \A U \in SUBSET S : U # S => U \in Good
        PROVE  S \in Good
    <2>1. CASE S = {}
      BY <1>3, <2>1
    <2>2. CASE S # {}
      <3>1. PICK z \in S : IsLast(policy, cap, z, S)
        BY <2>2, LastFilled
      <3> DEFINE rest == S \ {z}
                 f == Filled(policy, r, cap, S)
                 g == Filled(policy, r, cap, rest)
      <3>2. rest \in SUBSET Clusters /\ rest \in SUBSET S /\ rest # S /\ z \in Clusters
        BY <3>1
      <3>3. SumOf(g, rest) = Smaller(r, SumOf(cap, rest))
        <4>1. rest \in Good
          <5> HIDE DEF Good, rest
          <5> QED
            BY <1>4, <3>2
        <4> QED
          BY <4>1
      <3>4. f[z] = Smaller(cap[z], Less(r, SumOf(cap, rest)))
        BY <1>2, <3>1 DEF IsLast
      <3>5. \A c \in rest : f[c] \in Nat /\ f[c] = g[c]
        BY <1>2, <3>1, <3>2 DEF IsLast
      <3>6. \A c \in S : f[c] \in Int /\ cap[c] \in Int
        BY <1>0, <1>2
      <3> HIDE DEF f, g
      <3>7. SumOf(f, S) = f[z] + SumOf(f, rest) /\ SumOf(cap, S) = cap[z] + SumOf(cap, rest)
        BY <1>1, <3>6, SumTakesOut
      <3> HIDE DEF rest
      <3>8. SumOf(f, rest) = SumOf(g, rest)
        <4>1. \A c \in rest : f[c] \in Int /\ f[c] = g[c]
          BY <3>5
        <4> QED
          BY <1>1, <3>2, <4>1, SumOfSame
      <3>9. Smaller(r, SumOf(cap, rest)) + Smaller(cap[z], Less(r, SumOf(cap, rest)))
              = Smaller(r, cap[z] + SumOf(cap, rest))
        BY <1>0, <1>1, <3>2, FillTakesNext
      <3>10. /\ Smaller(r, SumOf(cap, rest)) \in Nat
             /\ Smaller(cap[z], Less(r, SumOf(cap, rest))) \in Nat
        <4>1. SumOf(cap, rest) \in Nat /\ cap[z] \in Nat
          BY <1>0, <1>1, <3>2
        <4> QED
          BY <4>1, LessType, SmallerFacts
      <3>11. SumOf(f, S) = Smaller(r, SumOf(cap, S))
        BY <3>3, <3>4, <3>7, <3>8, <3>9, <3>10
      <3> QED
        BY <3>11 DEF f
    <2> QED
      BY <2>1, <2>2
  <1>5. \A S \in SUBSET Clusters : S \in Good
    <2> HIDE DEF Good
    <2> QED
      BY <1>4, SubsetsByInduction
  <1> QED
    BY <1>5

\* Fill (policy.go:98): no cluster gets more than it has room for or than is asked
\* for, and all together get what is asked for, or as much as there is.
THEOREM FillAssigns ==
  ASSUME NEW policy \in Filling, NEW r \in Nat, NEW cap \in [Clusters -> Nat]
  PROVE  LET out == Fill(policy, r, cap) IN
         /\ out \in [Clusters -> 0 .. r]
         /\ \A c \in Clusters : out[c] <= cap[c]
         /\ Sum(out, Clusters) = Smaller(r, Sum(cap, Clusters))
  <1> DEFINE out == Fill(policy, r, cap)
  <1>1. Sum(out, Clusters) = Smaller(r, Sum(cap, Clusters))
    BY FilledSum, FillIsFilled, SumIsSumOf
  <1>2. ASSUME NEW c \in Clusters
        PROVE  /\ out[c] \in Nat /\ out[c] <= cap[c] /\ out[c] <= r
    <2> DEFINE ahead == SumOf(cap, Ahead(policy, cap, c, Clusters))
    <2>1. out[c] = Smaller(cap[c], Less(r, ahead))
      BY FillIsFilled DEF Filled
    <2>2. ahead \in Nat
      <3> DEFINE S == Ahead(policy, cap, c, Clusters)
      <3>1. S \in SUBSET Clusters
        BY DEF Ahead
      <3> HIDE DEF S
      <3>2. IsFiniteSet(S) /\ \A d \in S : cap[d] \in Nat
        BY <3>1, FS_Subset
      <3> QED
        BY <3>2, SumIsNatural DEF S
    <2> HIDE DEF ahead, out
    <2>3. Less(r, ahead) \in Nat /\ Less(r, ahead) <= r /\ cap[c] \in Nat
      BY <2>2, LessFacts
    <2>4. out[c] \in Nat /\ out[c] <= cap[c] /\ out[c] <= Less(r, ahead)
      BY <2>1, <2>3, SmallerFacts
    <2> QED
      BY <2>3, <2>4
  <1>3. out \in [Clusters -> 0 .. r]
    <2>1. \A c \in Clusters : out[c] \in 0 .. r
      BY <1>2
    <2>2. out = [c \in Clusters |-> out[c]]
      BY DEF Fill
    <2> HIDE DEF out
    <2> QED
      BY <2>1, <2>2
  <1> QED
    BY <1>1, <1>2, <1>3

-----------------------------------------------------------------------------
(* The policy that spreads the replicas.                                    *)

\* One replica more, and the assignments after 0 to n replicas.
Added(out, cap) ==
    IF \A c \in Clusters : out[c] >= cap[c] THEN out
    ELSE [out EXCEPT ![NextCluster(out, cap)] = @ + 1]
Course(g, n, cap) ==
    [k \in 0 .. n |-> IF k = 0 THEN Nothing ELSE Added(g[k - 1], cap)]

LEMMA SpreadIsCourse ==
  ASSUME NEW n, NEW cap
  PROVE  Spread(n, cap) = (CHOOSE g : g = Course(g, n, cap))[n]
  BY DEF Spread, Course, Added

LEMMA CourseExists ==
  ASSUME NEW cap
  PROVE  \A n \in Nat : \E g : g = Course(g, n, cap)
  <1> DEFINE Good == {n \in Nat : \E g : g = Course(g, n, cap)}
  <1>1. 0 \in Good
    <2> DEFINE g == [k \in 0 .. 0 |-> Nothing]
    <2>1. g = Course(g, 0, cap)
      BY DEF Course
    <2> QED
      BY <2>1
  <1>2. ASSUME NEW n \in Nat, n \in Good PROVE n + 1 \in Good
    <2>1. PICK g : g = Course(g, n, cap)
      BY <1>2
    <2> DEFINE h == [k \in 0 .. n + 1 |-> IF k = n + 1 THEN Added(g[n], cap) ELSE g[k]]
    <2>2. ASSUME NEW k \in 0 .. n + 1
          PROVE  h[k] = IF k = 0 THEN Nothing ELSE Added(h[k - 1], cap)
      <3>1. CASE k = n + 1
        <4>1. h[k] = Added(g[n], cap) /\ k # 0 /\ h[k - 1] = g[n]
          BY <3>1
        <4> QED
          BY <4>1
      <3>2. CASE k \in 0 .. n
        <4>1. h[k] = g[k] /\ g[k] = IF k = 0 THEN Nothing ELSE Added(g[k - 1], cap)
          BY <2>1, <3>2 DEF Course
        <4>2. k # 0 => h[k - 1] = g[k - 1]
          BY <3>2
        <4> HIDE DEF h
        <4> QED
          BY <4>1, <4>2
      <3> QED
        BY <3>1, <3>2
    <2>3. h = [k \in 0 .. n + 1 |-> h[k]]
      OBVIOUS
    <2>4. h = Course(h, n + 1, cap)
      <3> HIDE DEF h
      <3> QED
        BY <2>2, <2>3 DEF Course
    <2> QED
      BY <2>4
  <1>3. \A n \in Nat : n \in Good
    <2>1. \A n \in Nat : n \in Good => n + 1 \in Good
      BY <1>2
    <2> HIDE DEF Good
    <2> QED
      BY <1>1, <2>1, NumbersByInduction
  <1> QED
    BY <1>3

\* The cluster that is next has room, and no cluster with room has less on it.
LEMMA NextFacts ==
  ASSUME NEW out \in [Clusters -> Nat], NEW cap \in [Clusters -> Nat],
         ~\A c \in Clusters : out[c] >= cap[c]
  PROVE  LET b == NextCluster(out, cap) IN
         /\ b \in Clusters /\ out[b] < cap[b]
         /\ \A d \in Clusters : out[d] < cap[d] => out[b] <= out[d]
  <1> DEFINE open == {c \in Clusters : out[c] < cap[c]}
             levels == {out[c] : c \in open}
             least == {c \in open : \A d \in open : out[c] <= out[d]}
  <1>1. \A c \in Clusters : out[c] \in Nat /\ cap[c] \in Nat /\ c \in Nat
    OBVIOUS
  <1>2. levels \in SUBSET Nat /\ levels # {}
    BY <1>1
  <1>3. PICK k \in levels : \A l \in levels : k <= l
    <2> HIDE DEF levels
    <2> QED
      BY <1>2, LeastNumber
  <1>4. PICK c \in open : out[c] = k
    <2> HIDE DEF open
    <2>1. k \in levels
      BY <1>3
    <2> QED
      BY <2>1
  <1>5. \A d \in open : out[c] <= out[d]
    <2> HIDE DEF open
    <2> QED
      BY <1>3, <1>4
  <1>6. least \in SUBSET Nat /\ least # {}
    BY <1>1, <1>4, <1>5
  <1>7. NextCluster(out, cap) = Min(least)
    BY DEF NextCluster
  <1>8. Min(least) \in least
    <2> HIDE DEF least
    <2>1. \E x \in least : \A y \in least : x <= y
      BY <1>6, LeastNumber
    <2> QED
      BY <2>1 DEF Min
  <1> QED
    BY <1>7, <1>8

\* What holds after n replicas.
Even(out, cap) == \A c, d \in Clusters : out[c] > out[d] + 1 => out[d] = cap[d]
Spreads(out, n, cap) ==
    /\ out \in [Clusters -> Nat]
    /\ \A c \in Clusters : out[c] <= cap[c]
    /\ SumOf(out, Clusters) = Smaller(n, SumOf(cap, Clusters))
    /\ Even(out, cap)

LEMMA AddedSpreads ==
  ASSUME NEW n \in Nat, NEW cap \in [Clusters -> Nat], NEW out, Spreads(out, n, cap)
  PROVE  Spreads(Added(out, cap), n + 1, cap)
  <1>1. /\ out \in [Clusters -> Nat] /\ \A c \in Clusters : out[c] <= cap[c]
        /\ SumOf(out, Clusters) = Smaller(n, SumOf(cap, Clusters)) /\ Even(out, cap)
    BY DEF Spreads
  <1>2. \A c \in Clusters : out[c] \in Nat /\ cap[c] \in Nat
    BY <1>1
  <1>3. SumOf(out, Clusters) \in Nat /\ SumOf(cap, Clusters) \in Nat
    BY <1>2, SumIsNatural
  <1>4. CASE \A c \in Clusters : out[c] >= cap[c]
    <2>1. Added(out, cap) = out
      BY <1>4 DEF Added
    <2>2. SumOf(out, Clusters) = SumOf(cap, Clusters)
      <3>1. \A c \in Clusters : out[c] \in Int /\ cap[c] \in Int /\ out[c] = cap[c]
        BY <1>1, <1>2, <1>4
      <3> QED
        BY <3>1, SumOfSame
    <2>3. SumOf(out, Clusters) = Smaller(n + 1, SumOf(cap, Clusters))
      BY <1>1, <1>3, <2>2 DEF Smaller
    <2> QED
      BY <1>1, <2>1, <2>3 DEF Spreads
  <1>5. CASE ~\A c \in Clusters : out[c] >= cap[c]
    <2> DEFINE b == NextCluster(out, cap)
               new == [out EXCEPT ![b] = @ + 1]
    <2>1. Added(out, cap) = new
      BY <1>5 DEF Added
    <2>2. /\ b \in Clusters /\ out[b] < cap[b]
          /\ \A d \in Clusters : out[d] < cap[d] => out[b] <= out[d]
      BY <1>1, <1>5, NextFacts
    <2> HIDE DEF b
    <2>3. /\ new \in [Clusters -> Nat] /\ new[b] = out[b] + 1
          /\ \A c \in Clusters : c # b => new[c] = out[c]
      BY <1>1, <2>2
    <2> HIDE DEF new
    <2>4. \A c \in Clusters : new[c] <= cap[c]
      <3>1. \A c \in Clusters : out[c] \in Nat /\ cap[c] \in Nat /\ out[c] <= cap[c]
        BY <1>1, <1>2
      <3> QED
        BY <2>2, <2>3, <3>1
    <2> DEFINE rest == SumOf(out, Clusters \ {b})
    <2>5. IsFiniteSet(Clusters \ {b})
      BY FS_Subset
    <2>6. SumOf(out, Clusters) = out[b] + rest /\ rest \in Nat
      <3>1. \A c \in Clusters : out[c] \in Int
        BY <1>2
      <3>2. SumOf(out, Clusters) = out[b] + rest
        BY <2>2, <3>1, SumTakesOut
      <3>3. rest \in Nat
        BY <1>2, <2>5, SumIsNatural
      <3> QED
        BY <3>2, <3>3
    <2>7. SumOf(new, Clusters) = SumOf(out, Clusters) + 1
      <3>1. \A c \in Clusters : new[c] \in Int
        BY <2>3
      <3>2. SumOf(new, Clusters) = new[b] + SumOf(new, Clusters \ {b})
        BY <2>2, <3>1, SumTakesOut
      <3>3. SumOf(new, Clusters \ {b}) = rest
        <4>1. \A c \in Clusters \ {b} : new[c] \in Int /\ new[c] = out[c]
          BY <2>3, <3>1
        <4> QED
          BY <2>5, <4>1, SumOfSame
      <3> HIDE DEF rest
      <3>4. out[b] \in Nat
        BY <1>2, <2>2
      <3> QED
        BY <2>3, <2>6, <3>2, <3>3, <3>4
    <2>8. SumOf(out, Clusters) < SumOf(cap, Clusters)
      <3> DEFINE all == SumOf(cap, Clusters \ {b})
      <3>1. \A c \in Clusters : cap[c] \in Int
        BY <1>2
      <3>2. SumOf(cap, Clusters) = cap[b] + all /\ all \in Int
        BY <2>2, <2>5, <3>1, SumTakesOut
      <3>3. rest <= all
        <4>1. \A c \in Clusters \ {b} : out[c] \in Int /\ cap[c] \in Int /\ out[c] <= cap[c]
          BY <1>1, <1>2
        <4> QED
          BY <2>5, <4>1, SumAtMost
      <3>4. out[b] \in Nat /\ cap[b] \in Nat
        BY <1>2, <2>2
      <3> HIDE DEF all, rest
      <3> QED
        BY <2>2, <2>6, <3>2, <3>3, <3>4
    <2>9. SumOf(new, Clusters) = Smaller(n + 1, SumOf(cap, Clusters))
      BY <1>1, <1>3, <2>7, <2>8 DEF Smaller
    <2>10. ASSUME NEW c \in Clusters, NEW d \in Clusters, new[c] > new[d] + 1
           PROVE  new[d] = cap[d]
      <3>1. /\ out[c] \in Nat /\ out[d] \in Nat /\ cap[d] \in Nat /\ out[b] \in Nat
            /\ cap[b] \in Nat /\ out[d] <= cap[d]
        BY <1>1, <1>2, <2>2
      <3>2. out[c] > out[d] + 1 => out[d] = cap[d]
        BY <1>1 DEF Even
      <3>3. d # b
        <4>1. ASSUME d = b PROVE FALSE
          <5>1. c # b
            BY <2>3, <2>10, <3>1, <4>1
          <5>2. out[c] > out[d] + 1
            BY <2>3, <2>10, <3>1, <4>1, <5>1
          <5> QED
            BY <2>2, <3>1, <3>2, <4>1, <5>2
        <4> QED
          BY <4>1
      <3>4. new[d] = out[d]
        BY <2>3, <3>3
      <3>5. CASE c = b
        <4>1. out[b] > out[d]
          BY <2>3, <2>10, <3>1, <3>4, <3>5
        <4>2. ~(out[d] < cap[d])
          BY <2>2, <3>1, <4>1
        <4> QED
          BY <3>1, <3>4, <4>2
      <3>6. CASE c # b
        BY <2>3, <2>10, <3>2, <3>4, <3>6
      <3> QED
        BY <3>5, <3>6
    <2> QED
      BY <2>1, <2>3, <2>4, <2>9, <2>10 DEF Spreads, Even
  <1> QED
    BY <1>4, <1>5

LEMMA SpreadSpreads ==
  ASSUME NEW n \in Nat, NEW cap \in [Clusters -> Nat]
  PROVE  Spreads(Spread(n, cap), n, cap)
  <1> DEFINE g == CHOOSE h : h = Course(h, n, cap)
  <1>1. g = Course(g, n, cap)
    BY CourseExists
  <1>2. Spread(n, cap) = g[n]
    BY SpreadIsCourse
  <1> HIDE DEF g
  <1>3. \A k \in 0 .. n : g[k] = IF k = 0 THEN Nothing ELSE Added(g[k - 1], cap)
    BY <1>1 DEF Course
  <1> DEFINE Good == {k \in Nat : k <= n => Spreads(g[k], k, cap)}
  <1>4. 0 \in Good
    <2>1. g[0] = Nothing
      BY <1>3
    <2>2. \A c \in Clusters : Nothing[c] = 0 /\ cap[c] \in Nat
      BY DEF Nothing
    <2>3. SumOf(Nothing, Clusters) = 0 /\ SumOf(cap, Clusters) \in Nat
      BY <2>2, SumOfZeros, SumIsNatural
    <2>4. Smaller(0, SumOf(cap, Clusters)) = 0
      BY <2>3 DEF Smaller
    <2>5. Nothing \in [Clusters -> Nat]
      BY DEF Nothing
    <2>6. Spreads(Nothing, 0, cap)
      BY <2>2, <2>3, <2>4, <2>5 DEF Spreads, Even
    <2> QED
      BY <2>1, <2>6
  <1>5. ASSUME NEW k \in Nat, k \in Good PROVE k + 1 \in Good
    <2>1. ASSUME k + 1 <= n PROVE Spreads(g[k + 1], k + 1, cap)
      <3>1. Spreads(g[k], k, cap)
        BY <1>5, <2>1
      <3>2. g[k + 1] = Added(g[k], cap)
        <4>1. k + 1 \in 0 .. n /\ k + 1 # 0 /\ (k + 1) - 1 = k
          BY <2>1
        <4> QED
          BY <1>3, <4>1
      <3> QED
        BY <3>1, <3>2, AddedSpreads
    <2> QED
      BY <2>1
  <1>6. \A k \in Nat : k \in Good
    <2>1. \A k \in Nat : k \in Good => k + 1 \in Good
      BY <1>5
    <2> HIDE DEF Good
    <2> QED
      BY <1>4, <2>1, NumbersByInduction
  <1> QED
    BY <1>2, <1>6

\* spread (policy.go:115): no cluster gets more than it has room for or than is asked
\* for, all together get what is asked for or as much as there is, and a cluster gets
\* two replicas more than another only when that one is full.
THEOREM SpreadAssigns ==
  ASSUME NEW r \in Nat, NEW cap \in [Clusters -> Nat]
  PROVE  LET out == Spread(r, cap) IN
         /\ out \in [Clusters -> 0 .. r]
         /\ \A c \in Clusters : out[c] <= cap[c]
         /\ Sum(out, Clusters) = Smaller(r, Sum(cap, Clusters))
         /\ \A c, d \in Clusters : out[c] > out[d] + 1 => out[d] = cap[d]
  <1> DEFINE out == Spread(r, cap)
  <1>1. /\ out \in [Clusters -> Nat] /\ \A c \in Clusters : out[c] <= cap[c]
        /\ SumOf(out, Clusters) = Smaller(r, SumOf(cap, Clusters)) /\ Even(out, cap)
    BY SpreadSpreads DEF Spreads
  <1> HIDE DEF out
  <1>2. ASSUME NEW c \in Clusters PROVE out[c] \in 0 .. r
    <2>1. \A d \in Clusters : out[d] \in Nat /\ cap[d] \in Nat
      BY <1>1
    <2>2. SumOf(out, Clusters) <= r
      <3>1. SumOf(cap, Clusters) \in Nat
        BY <2>1, SumIsNatural
      <3> QED
        BY <1>1, <3>1, SmallerFacts
    <2>3. SumOf(out, Clusters) = out[c] + SumOf(out, Clusters \ {c})
      <3>1. \A d \in Clusters : out[d] \in Int
        BY <2>1
      <3> QED
        BY <3>1, SumTakesOut
    <2>4. SumOf(out, Clusters \ {c}) \in Nat
      <3>1. IsFiniteSet(Clusters \ {c})
        BY FS_Subset
      <3> QED
        BY <2>1, <3>1, SumIsNatural
    <2>5. out[c] \in Nat
      BY <2>1
    <2> QED
      BY <2>2, <2>3, <2>4, <2>5
  <1>3. out \in [Clusters -> 0 .. r]
    BY <1>1, <1>2
  <1>4. Sum(out, Clusters) = Smaller(r, Sum(cap, Clusters))
    BY <1>1, SumIsSumOf
  <1> QED
    BY <1>1, <1>3, <1>4 DEF Even, out

\* Assign (policy.go:61), whatever the policy: an unknown one assigns nothing.
LEMMA AssignTypes ==
  ASSUME NEW policy \in Policies \cup {"unknown"}, NEW r \in Nat, NEW cap \in [Clusters -> Nat]
  PROVE  /\ Assign(policy, r, cap) \in [Clusters -> 0 .. r]
         /\ \A c \in Clusters : Assign(policy, r, cap)[c] <= cap[c]
         /\ policy \in Policies =>
              Sum(Assign(policy, r, cap), Clusters) = Smaller(r, Sum(cap, Clusters))
  <1>1. CASE policy = "spread"
    <2>1. Assign(policy, r, cap) = Spread(r, cap)
      BY <1>1 DEF Assign
    <2> QED
      BY <2>1, SpreadAssigns
  <1>2. CASE policy \in Filling
    <2>1. Assign(policy, r, cap) = Fill(policy, r, cap)
      BY <1>2 DEF Assign, Filling, Policies
    <2> QED
      BY <1>2, <2>1, FillAssigns
  <1>3. CASE policy = "unknown"
    <2>1. Assign(policy, r, cap) = Nothing /\ policy \notin Policies
      BY <1>3 DEF Assign, Policies
    <2>2. Nothing \in [Clusters -> 0 .. r] /\ \A c \in Clusters : Nothing[c] = 0
      BY DEF Nothing
    <2>3. \A c \in Clusters : cap[c] \in Nat
      OBVIOUS
    <2> QED
      BY <2>1, <2>2, <2>3
  <1> QED
    BY <1>1, <1>2, <1>3 DEF Filling

-----------------------------------------------------------------------------
(* The invariants.                                                          *)

LEMMA TypeInit ==
  ASSUME Init
  PROVE  TypeOK
  <1>1. Nothing \in Assignments /\ Nothing \in [Clusters -> 0 .. Room]
    BY DEF Nothing, Assignments
  <1>2. want \in [Instances -> 0 .. MaxWant]
    <2>1. 0 \in 0 .. MaxWant /\ MaxWant \in 0 .. MaxWant
      OBVIOUS
    <2> QED
      BY <2>1 DEF Init
  <1>3. [c \in Clusters |-> Room] \in [Clusters -> 0 .. Room] /\ 0 \in 0 .. MaxChanges
    OBVIOUS
  <1> QED
    BY <1>1, <1>2, <1>3 DEF Init, TypeOK

LEMMA DecidedTypes ==
  ASSUME TypeOK, NEW i \in Instances, NEW policy \in Policies \cup {"unknown"}
  PROVE  Assign(policy, want[i], Capacity(i)) \in Assignments
  <1>1. want[i] \in 0 .. MaxWant /\ want[i] \in Nat
    BY DEF TypeOK
  <1>2. Capacity(i) \in [Clusters -> Nat]
    BY CapacityType
  <1> DEFINE out == Assign(policy, want[i], Capacity(i))
  <1>3. out \in [Clusters -> 0 .. want[i]]
    BY <1>1, <1>2, AssignTypes
  <1> HIDE DEF out
  <1>4. out \in Assignments
    BY <1>1, <1>3 DEF Assignments
  <1> QED
    BY <1>4 DEF out

LEMMA DisturbTypes ==
  ASSUME TypeOK, Disturb
  PROVE  /\ changes' \in 0 .. MaxChanges
         /\ dec' \in [Instances -> Assignments] /\ cdec' \in [Instances -> Assignments]
         /\ pods' \in [Clusters -> 0 .. Room] /\ free' \in [Clusters -> 0 .. Room]
  BY DEF Disturb, TypeOK

LEMMA InstanceTypes ==
  ASSUME TypeOK, NEW i \in Instances,
         Decide(i) \/ SyncDecision(i) \/ CollectDecision(i) \/ ChangeWant(i)
  PROVE  TypeOK'
  <1>1. CASE Decide(i)
    <2>1. PICK policy \in Policies \cup {"unknown"} :
             dec' = [dec EXCEPT ![i] = Assign(policy, want[i], Capacity(i))]
      BY <1>1 DEF Decide
    <2>2. dec' \in [Instances -> Assignments]
      BY <2>1, DecidedTypes DEF TypeOK
    <2> QED
      BY <1>1, <2>2 DEF Decide, TypeOK
  <1>2. CASE SyncDecision(i)
    BY <1>2 DEF SyncDecision, TypeOK
  <1>3. CASE CollectDecision(i)
    <2>1. Nothing \in Assignments
      BY DEF Nothing, Assignments
    <2> QED
      BY <1>3, <2>1 DEF CollectDecision, TypeOK
  <1>4. CASE ChangeWant(i)
    <2>1. want' \in [Instances -> 0 .. MaxWant]
      BY <1>4 DEF ChangeWant, TypeOK
    <2> QED
      BY <1>4, <2>1, DisturbTypes DEF ChangeWant, TypeOK
  <1> QED
    BY <1>1, <1>2, <1>3, <1>4

LEMMA ClusterTypes ==
  ASSUME TypeOK, NEW c \in Clusters,
         Advertise(c) \/ PodStarts(c) \/ PodStops(c) \/ ChangeTenants(c) \/ ChangeUsable(c)
  PROVE  TypeOK'
  <1>1. /\ pods[c] \in Nat /\ tenants[c] \in Nat /\ pods[c] <= Room /\ tenants[c] <= Room
        /\ Used(c) = pods[c] + tenants[c]
    BY DEF TypeOK, Used
  <1>2. CASE Advertise(c)
    <2>1. Less(Room, Used(c)) \in 0 .. Room
      <3>1. Used(c) \in Nat
        BY <1>1
      <3>2. Less(Room, Used(c)) \in Nat /\ Less(Room, Used(c)) <= Room
        BY <3>1, LessFacts
      <3> QED
        BY <3>2
    <2> QED
      BY <1>2, <2>1 DEF Advertise, TypeOK
  <1>3. CASE PodStarts(c)
    <2>1. pods[c] + 1 \in 0 .. Room
      BY <1>1, <1>3 DEF PodStarts
    <2> QED
      BY <1>3, <2>1 DEF PodStarts, TypeOK
  <1>4. CASE PodStops(c)
    <2>1. pods[c] - 1 \in 0 .. Room
      BY <1>1, <1>4 DEF PodStops
    <2> QED
      BY <1>4, <2>1 DEF PodStops, TypeOK
  <1>5. CASE ChangeTenants(c)
    <2>1. tenants' \in [Clusters -> 0 .. Room]
      <3>1. CASE Used(c) < Room /\ tenants' = [tenants EXCEPT ![c] = @ + 1]
        <4>1. tenants[c] + 1 \in 0 .. Room
          BY <1>1, <3>1
        <4> QED
          BY <3>1, <4>1 DEF TypeOK
      <3>2. CASE tenants[c] > 0 /\ tenants' = [tenants EXCEPT ![c] = @ - 1]
        <4>1. tenants[c] - 1 \in 0 .. Room
          BY <1>1, <3>2
        <4> QED
          BY <3>2, <4>1 DEF TypeOK
      <3> QED
        BY <1>5, <3>1, <3>2 DEF ChangeTenants
    <2> QED
      BY <1>5, <2>1, DisturbTypes DEF ChangeTenants, TypeOK
  <1>6. CASE ChangeUsable(c)
    <2>1. usable' \subseteq Clusters
      BY <1>6 DEF ChangeUsable, TypeOK
    <2> QED
      BY <1>6, <2>1, DisturbTypes DEF ChangeUsable, TypeOK
  <1> QED
    BY <1>2, <1>3, <1>4, <1>5, <1>6

\* Every variable keeps its type: no policy (policy.go:61) assigns an instance more on
\* one cluster than it asked for, and no more pods run than there is room for.
THEOREM TypeCorrect == Spec => []TypeOK
  <1>1. Init => TypeOK
    BY TypeInit
  <1>2. TypeOK /\ [Next]_vars => TypeOK'
    <2>1. ASSUME TypeOK, UNCHANGED vars PROVE TypeOK'
      BY <2>1 DEF vars, TypeOK
    <2> QED
      BY <2>1, InstanceTypes, ClusterTypes DEF Next
  <1> QED
    BY <1>1, <1>2, PTL DEF Spec

\* Assign (policy.go:61): on every ledger and free count that can arise, each policy
\* assigns no cluster more than its capacity, and in total what is asked for, or all
\* there is.
THEOREM AssignsFit == Spec => []AssignsWhatFits
  <1>1. ASSUME TypeOK, NEW i \in Instances, NEW policy \in Policies
        PROVE  LET cap == Capacity(i)
                   out == Assign(policy, want[i], cap)
               IN  /\ \A c \in Clusters : out[c] <= cap[c]
                   /\ Sum(out, Clusters) = Smaller(want[i], Sum(cap, Clusters))
    <2>1. want[i] \in Nat /\ Capacity(i) \in [Clusters -> Nat]
      BY <1>1, CapacityType DEF TypeOK
    <2> QED
      BY <2>1, AssignTypes
  <1>2. TypeOK => AssignsWhatFits
    BY <1>1 DEF AssignsWhatFits
  <1> QED
    BY <1>2, TypeCorrect, PTL

\* spread (policy.go:115): on every ledger and free count that can arise, a cluster is
\* given two replicas more than another only when that one is full.
THEOREM SpreadEven == Spec => []SpreadIsEven
  <1>1. ASSUME TypeOK, NEW i \in Instances
        PROVE  LET cap == Capacity(i)
                   out == Spread(want[i], cap)
               IN  \A c, d \in Clusters : out[c] > out[d] + 1 => out[d] = cap[d]
    <2>1. want[i] \in Nat /\ Capacity(i) \in [Clusters -> Nat]
      BY <1>1, CapacityType DEF TypeOK
    <2> QED
      BY <2>1, SpreadAssigns
  <1>2. TypeOK => SpreadIsEven
    BY <1>1 DEF SpreadIsEven
  <1> QED
    BY <1>2, TypeCorrect, PTL

\* A replica assigned on a cluster that advertises its total leaves the room that the
\* other decisions in the ledger have taken.
LEMMA LeavesTheOthers ==
  ASSUME TypeOK, NEW i \in Instances, NEW c \in Totalling,
         NEW n \in Nat, n > 0, n <= Capacity(i)[c]
  PROVE  n + Others(i, c) <= Room
  <1>1. Own(i, c) \in Nat /\ Others(i, c) \in Nat /\ free[c] \in Nat /\ c \in Clusters
    BY CapacityType DEF TypeOK
  <1> DEFINE ext == External(Room, free[c], Own(i, c), Others(i, c))
  <1>2. ext \in Nat
    <2>1. free[c] + Own(i, c) + Others(i, c) \in Nat
      BY <1>1
    <2> QED
      BY <2>1, LessType DEF External
  <1>3. n <= Less(Room, Others(i, c) + ext)
    <2>1. Capacity(i)[c] = IF c \in usable
                           THEN AccountCapacity(Room, free[c], c \in Totalling, Own(i, c),
                                                Others(i, c))
                           ELSE 0
      BY <1>1 DEF Capacity
    <2>2. Capacity(i)[c] # 0
      <3>1. Capacity(i)[c] \in Nat
        BY <1>1, CapacityType
      <3> QED
        BY <3>1
    <2>3. Capacity(i)[c] = Less(Room, Others(i, c) + ext)
      <3>1. Capacity(i)[c] = AccountCapacity(Room, free[c], c \in Totalling, Own(i, c),
                                             Others(i, c))
        BY <2>1, <2>2
      <3> QED
        BY <3>1 DEF AccountCapacity
    <2> QED
      BY <2>3
  <1> HIDE DEF ext
  <1>4. Others(i, c) + ext \in Nat
    BY <1>1, <1>2
  <1>5. n + (Others(i, c) + ext) <= Room
    BY <1>3, <1>4, LessFacts
  <1> QED
    BY <1>1, <1>2, <1>5

LEMMA ReservedAfter ==
  ASSUME TypeOK, TypeOK', cdec = dec, NEW i \in Instances, NEW c \in Clusters,
         \A j \in Instances \ {i} : dec'[j] = dec[j]
  PROVE  Reserved(c)' = dec'[i][c] + Others(i, c)
  <1> DEFINE f == [j \in Instances |-> dec'[j][c]]
             g == [j \in Instances |-> cdec[j][c]]
  <1>1. \A j \in Instances : f[j] = dec'[j][c] /\ f[j] \in Nat /\ g[j] = cdec[j][c]
    BY DEF TypeOK, Assignments
  <1>2. Reserved(c)' = SumOf(f, Instances)
    BY DEF Reserved, Sum, SumOf, MapThenSumSet, MapThenFoldSet
  <1>3. Others(i, c) = SumOf(g, Instances \ {i})
    BY SumIsSumOf DEF Others
  <1> HIDE DEF f, g
  <1>4. SumOf(f, Instances) = f[i] + SumOf(f, Instances \ {i})
    <2>1. \A j \in Instances : f[j] \in Int
      BY <1>1
    <2> QED
      BY <2>1, SumTakesOut
  <1>5. SumOf(f, Instances \ {i}) = SumOf(g, Instances \ {i})
    <2>1. IsFiniteSet(Instances \ {i})
      BY FS_Subset
    <2>2. \A j \in Instances \ {i} : f[j] \in Int /\ f[j] = g[j]
      BY <1>1
    <2> QED
      BY <2>1, <2>2, SumOfSame
  <1> QED
    BY <1>1, <1>2, <1>3, <1>4, <1>5

\* accountCapacity (scheduler.go:239): whatever pods and tenants do, a decision made on
\* an up-to-date ledger reserves no accelerator twice: where it assigns a replica, all
\* decisions together fit the cluster.
THEOREM NothingOvercommitted == Spec => NoOvercommit
  <1>1. ASSUME TypeOK, TypeOK', [Next]_vars, cdec = dec, NEW i \in Instances, NEW c \in Totalling,
               dec'[i] # dec[i], dec'[i][c] > 0
        PROVE  Reserved(c)' <= Room
    <2>1. c \in Clusters
      OBVIOUS
    <2>2. dec' # dec
      BY <1>1
    <2>3. PICK k \in Instances : Decide(k) \/ CollectDecision(k)
      BY <1>1, <2>2 DEF Next, vars, Disturb, SyncDecision, ChangeWant, Advertise, PodStarts,
         PodStops, ChangeTenants, ChangeUsable
    <2>4. \E out : dec' = [dec EXCEPT ![k] = out]
      BY <2>3 DEF Decide, CollectDecision
    <2>5. k = i /\ \A j \in Instances \ {i} : dec'[j] = dec[j]
      BY <1>1, <2>4 DEF TypeOK
    <2>6. Decide(i)
      <3>1. ASSUME CollectDecision(i) PROVE FALSE
        <4>1. dec'[i] = Nothing
          BY <1>1, <3>1 DEF CollectDecision, TypeOK
        <4>2. dec'[i][c] = 0
          BY <2>1, <4>1 DEF Nothing
        <4> QED
          BY <1>1, <4>2
      <3> QED
        BY <2>3, <2>5, <3>1
    <2>7. PICK policy \in Policies \cup {"unknown"} :
             dec' = [dec EXCEPT ![i] = Assign(policy, want[i], Capacity(i))]
      BY <2>6 DEF Decide
    <2>8. dec'[i] = Assign(policy, want[i], Capacity(i))
      BY <1>1, <2>7 DEF TypeOK
    <2>9. dec'[i][c] <= Capacity(i)[c]
      <3>1. want[i] \in Nat /\ Capacity(i) \in [Clusters -> Nat]
        BY <1>1, CapacityType DEF TypeOK
      <3> QED
        BY <2>1, <2>8, <3>1, AssignTypes
    <2>10. dec'[i][c] \in Nat
      BY <1>1, <2>1 DEF TypeOK, Assignments
    <2>11. dec'[i][c] + Others(i, c) <= Room
      BY <1>1, <2>9, <2>10, LeavesTheOthers
    <2>12. Reserved(c)' = dec'[i][c] + Others(i, c)
      BY <1>1, <2>1, <2>5, ReservedAfter
    <2> QED
      BY <2>11, <2>12
  <1>2. TypeOK /\ TypeOK' /\ [Next]_vars =>
          [cdec = dec =>
             \A i \in Instances, c \in Totalling :
                dec'[i] # dec[i] /\ dec'[i][c] > 0 => Reserved(c)' <= Room]_vars
    BY <1>1
  <1> QED
    BY <1>2, TypeCorrect, PTL DEF Spec, NoOvercommit

=============================================================================
