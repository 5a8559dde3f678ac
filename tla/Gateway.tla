------------------------------ MODULE Gateway ------------------------------
(***************************************************************************)
(* The demo gateway's balancer: the upstreams it has taken from a status,  *)
(* and the smooth weighted round-robin by which it picks one of them for   *)
(* each request.  Both hold the gateway's mutex, so each is one step.      *)
(*                                                                         *)
(* A member's weight is its ready replicas, 0 when it is no upstream.      *)
(* Members are numbered in the order of their names.                       *)
(***************************************************************************)
EXTENDS Integers, FiniteSetsExt

CONSTANTS
    Members,        \* member numbers
    MaxReady        \* bound: ready replicas of a member

VARIABLES
    weight,     \* each member's weight
    current,    \* each upstream's credit
    picks       \* history: requests sent to each member in this round

Zeros == [m \in Members |-> 0]
Total(f) == MapThenSumSet(LAMBDA m : f[m], Members)
Upstreams == {m \in Members : weight[m] > 0}

Init == weight = Zeros /\ current = Zeros /\ picks = Zeros

\* Fault: the new upstreams are added to those there are.
SetAppends(w) ==
    /\ weight' = [m \in Members |-> weight[m] + w[m]]
    /\ current' = Zeros /\ picks' = Zeros
\* set: new upstreams, whose credits start from nothing.
Set(w) ==
    /\ weight' = w
    /\ current' = Zeros /\ picks' = Zeros

\* The upstream with the most credit, the first of them by name.
Credit(m) == current[m] + weight[m]
Best == CHOOSE m \in Upstreams :
            \A n \in Upstreams : \/ Credit(n) < Credit(m)
                                 \/ Credit(n) = Credit(m) /\ m <= n

\* A round is over when as many requests were sent as there are ready replicas.
RoundOver == Total(picks) = Total(weight)
Count(m) == picks' = [(IF RoundOver THEN Zeros ELSE picks) EXCEPT ![m] = @ + 1]

\* Fault: the pick is not paid for.
PickForFree ==
    /\ Upstreams # {}
    /\ current' = [m \in Members |-> Credit(m)]
    /\ Count(Best)
    /\ UNCHANGED weight
\* pick: every upstream earns its weight, the best one pays for all of them.
Pick ==
    /\ Upstreams # {}
    /\ current' = [m \in Members |-> Credit(m) - IF m = Best THEN Total(weight) ELSE 0]
    /\ Count(Best)
    /\ UNCHANGED weight

-----------------------------------------------------------------------------
TypeOK ==
    /\ weight \in [Members -> 0 .. MaxReady]
    /\ current \in [Members -> Int]
    /\ picks \in [Members -> Nat]

\* pick (gateway.go:125 "members with more ready replicas get proportionally more
\* requests, evenly interleaved"): in a fleet of at most three, no member is a whole
\* request away from its share at any time since the upstreams were set, and a round
\* gives every upstream exactly as many requests as it has ready replicas.
ShareIsKept ==
    Upstreams # {} =>
      \A m \in Members :
        LET owed == Total(picks) * weight[m] - Total(weight) * picks[m] IN
        /\ -Total(weight) < owed /\ owed < Total(weight)
        /\ RoundOver => owed = 0
=============================================================================
