------------------------------- MODULE MCIngest -------------------------------
(* Small instances of Ingest for TLC. *)
EXTENDS Ingest, TLC

CONSTANTS r1, r2, a, b

TwoRequests == {r1, r2}
TwoContents == {a, b}
TwoDevices == {1, 2}
OneDevice == {1}

(* A paid user may upload from one device more. *)
OneAndTwo == [t \in {"free", "paid"} |-> IF t = "free" THEN 1 ELSE 2]

(* Two uploads, of the same bytes or not, from one device or from two. One *)
(* of everything else meets them at each of their steps.                   *)
Races == [uploads |-> 2, deletes |-> 1, changes |-> 1, batches |-> 1, reparses |-> 1]

Symmetry == Permutations(TwoRequests) \cup Permutations(TwoContents)
=============================================================================
