------------------------------ MODULE Buckets -------------------------------
(* What the rate limits promise, whatever the process keeps in memory: every    *)
(* name has a bucket of its own, full at first, that loses a request's cost and *)
(* fills with time. A bucket is full before its time only when it is forgotten: *)
(* one of a group at a time, and of a kept group only while MaxTracked others   *)
(* of it are not full (ingest-limit.ts:27-38, oidc-registration.ts:244-248,     *)
(* devices.ts:89-90).                                                           *)
EXTENDS Naturals, FiniteSets

CONSTANTS
  Names,          \* what has a bucket
  Requested,      \* the sets of names that one request takes from
  Full,           \* what the bucket of each holds at most
  Rate,           \* what flows into each in a unit of time
  Cost,           \* what a request takes
  Kept,           \* groups of names of which MaxTracked that are not full are remembered
  Cached,         \* groups of names of which any one may be forgotten
  MaxTracked,
  Holders         \* who may hold what it took for a while

VARIABLES
  level,          \* what each bucket holds
  out             \* who took and may give back: pairs of a holder and what it took from

Init == level = Full /\ out = {}

Least(x, y) == IF x <= y THEN x ELSE y

\* What may be forgotten at a request that changes the buckets of `used`.
Forgettable(gone, used) ==
  /\ gone \subseteq UNION (Kept \cup Cached)
  /\ \A group \in Kept \cup Cached : Cardinality(gone \cap group) <= 1
  /\ \A group \in Kept : gone \cap group # {} =>
       Cardinality({n \in group \ used : level[n] < Full[n]}) >= MaxTracked

\* The other buckets stay, or are forgotten and full again.
OthersStay(used) ==
  /\ \A n \in Names \ used : level'[n] \in {level[n], Full[n]}
  /\ Forgettable({n \in Names \ used : level'[n] # level[n]}, used)

Lowered(used) ==
  /\ \A n \in used : level[n] >= Cost /\ level'[n] = level[n] - Cost
  /\ OthersStay(used)

Raised(used) ==
  /\ \A n \in used : level'[n] = Least(Full[n], level[n] + Cost)
  /\ OthersStay(used)

\* A request takes for good.
Take(used) == Lowered(used) /\ UNCHANGED out

\* A request takes and may give back, once.
Begin(h, used) ==
  /\ \A o \in out : o[1] # h
  /\ Lowered(used)
  /\ out' = out \cup {<<h, used>>}

GiveBack(o) == Raised(o[2]) /\ out' = out \ {o}

Spend(o) == out' = out \ {o} /\ UNCHANGED level

Pass == level' = [n \in Names |-> Least(Full[n], level[n] + Rate[n])] /\ UNCHANGED out

Restart == level' = Full /\ out' = {}

Next ==
  \/ Restart \/ Pass
  \/ \E used \in Requested : Take(used) \/ \E h \in Holders : Begin(h, used)
  \/ \E o \in out : GiveBack(o) \/ Spend(o)

Spec == Init /\ [][Next]_<<level, out>>
=============================================================================
