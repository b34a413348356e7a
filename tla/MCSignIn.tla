------------------------------ MODULE MCSignIn ------------------------------
(* Small instances of SignIn for TLC. *)
EXTENDS SignIn, TLC

CONSTANTS u1, u2, b1, b2, t1, t2, t3, r1, r2, a1, a2

TwoUsers == {u1, u2}
TwoBrowsers == {b1, b2}
OneProvider == {"google"}
TwoAccounts == {[provider |-> "google", id |-> a1], [provider |-> "google", id |-> a2]}
ThreeTokens == {t1, t2, t3}
TwoRequests == {r1, r2}

Symmetry == Permutations(TwoRequests) \cup Permutations(TwoBrowsers)
=============================================================================
