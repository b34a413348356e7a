------------------------------- MODULE MCLogin -------------------------------
(* Small instances of Login for TLC. *)
EXTENDS Login, TLC

CONSTANTS poller, uploader

TwoCallers == {poller, uploader}
OnlyPoller == {poller}
TwoGrants == {1, 2}

(* Two logins, and the events that end a token, up to four in a story and  *)
(* in every order: a save that fails twice and its retry, a refresh whose  *)
(* answer is lost before a crash, a revocation and a crash around a login. *)
Events == {
  [expiries |-> 1, lapses |-> 1, faults |-> 1, revokes |-> 0, restarts |-> 1],
  [expiries |-> 0, lapses |-> 1, faults |-> 2, revokes |-> 1, restarts |-> 0],
  [expiries |-> 0, lapses |-> 0, faults |-> 2, revokes |-> 1, restarts |-> 1]}
=============================================================================
