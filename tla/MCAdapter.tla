------------------------------ MODULE MCAdapter -------------------------------
(* Small instances of Adapter for TLC. *)
EXTENDS Adapter

CONSTANTS f1, f2

TwoPlaces == {f1, f2}
TwoVersions == {1, 2}

(* An old folder, beside anything else that is not up to date. *)
Beside == {Missing, Linked, NotFolder, Folder(Unreadable)}
AnyBesideOld == {[p \in TwoPlaces |-> IF p = f1 THEN Folder(1) ELSE e] : e \in Beside}

Everything == [releases |-> 1, plays |-> 2, crashes |-> 1, faults |-> 1, meddles |-> 1]
=============================================================================
