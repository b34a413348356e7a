------------------------------ MODULE MCGrants ------------------------------
(* Small instances of Grants for TLC. *)
EXTENDS Grants, TLC

CONSTANTS u1, u2, i1, i2, r1, r2, g1, g2, d1, d2, t1, t2, t3

OneUser == {u1}
TwoUsers == {u1, u2}
TwoInteractions == {i1, i2}
TwoRequests == {r1, r2}
TwoGrants == {g1, g2}
TwoDevices == {d1, d2}
ThreeTokens == {t1, t2, t3}

Symmetry == Permutations(TwoInteractions) \cup Permutations(TwoRequests)
=============================================================================
