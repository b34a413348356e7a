----------------------------- MODULE MCUploader -----------------------------
(* Small instances of Uploader for TLC. *)
EXTENDS Uploader

CONSTANTS i1, a, b, big, none

OneFile == {i1}
TwoContents == {a, b}
ContentAndOversize == {a, big}
OnlyBig == {big}

(* The bounds on what the environment does. Two writes and a sync reach    *)
(* every order of a write, its report, an attempt and the attempt's end;   *)
(* the restart comes at every point of that. The fault is a lost answer, a *)
(* failed read, a rate limit, or an error counted meanwhile.               *)
Writes == [writes |-> 2, syncs |-> 1, faults |-> 1, restarts |-> 1]
=============================================================================
