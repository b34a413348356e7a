------------------------------ MODULE MCCounts ------------------------------
(* Counts for TLC. *)
EXTENDS Counts, TLC

(* Tool calls *)

CONSTANTS u1, wow, c1, c2

OneUser == {u1}
TwoCalls == {c1, c2}
OneKit == {wow}
OneFreeOnePaid == {[kit |-> wow, paidOnly |-> FALSE], [kit |-> wow, paidOnly |-> TRUE]}
CapOfOneAndTwo == [t \in {"free", "paid"} |-> IF t = "free" THEN 1 ELSE 2]

(* Two calls at once, a midnight, and two of everything else at every step *)
(* of them.                                                                *)
Busy == [calls |-> 2, others |-> 2, ticks |-> 1]

Symmetry == Permutations(TwoCalls)

-----------------------------------------------------------------------------
(* Limiters: three names and more in a map that keeps two, two in one that keeps *)
(* one, bursts of two and three requests, rates of half a request and of one in a *)
(* unit of time. The clients are the calls: one symmetry for both.               *)

CONSTANTS i1, i2, i3, i4, d1, d2, d3, a1, a2, a3, a4, v1, v2, p1, p2, h1, h2

FourInstances == {i1, i2, i3, i4}
ThreeDevices == {d1, d2, d3}
TheirDevice == i1 :> d1 @@ i2 :> d1 @@ i3 :> d2 @@ i4 :> d3
FourAddresses == {a1, a2, a3, a4}
InRange == {a4}
TwoCodeUsers == {v1, v2}
TwoCodePosts == {p1, p2}
TwoHosts == {h1, h2}
TwoCallers == {a1, a2}

TwoOrOne == [m \in Maps |-> IF m = "users" THEN 1 ELSE 2]

Groups == Maps \cup Single
Bursts == [g \in Groups |-> IF g \in {"devices", AllTrusted, AllRegistrations, AllMisses} THEN 6 ELSE 4]
Rates == [g \in Groups |-> IF g \in {"instances", "addresses", "users"} THEN 1 ELSE 2]
=============================================================================
