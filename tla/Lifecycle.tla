------------------------------- MODULE Lifecycle -------------------------------
(***************************************************************************)
(* What the platform promises of a thing that lets someone in, a web       *)
(* session or a grant: it is opened once, by a sign-in or an approval,     *)
(* and once it is closed it is never open again (web-sessions.ts:13-24,    *)
(* oidc-tokens.ts:40-51). How it is stored, and when it is looked up, is   *)
(* left to the specifications that implement this one.                     *)
(***************************************************************************)
CONSTANT Things

VARIABLES open, closed

TypeOK == open \subseteq Things /\ closed \subseteq Things

Init == open \subseteq Things /\ closed = {}

Open(t) == t \notin open \cup closed /\ open' = open \cup {t} /\ closed' = closed

(* One, or all that one user had. *)
Close(S) == S # {} /\ S \subseteq open /\ open' = open \ S /\ closed' = closed \cup S

Next == (\E t \in Things : Open(t)) \/ (\E S \in SUBSET Things : Close(S))

Spec == Init /\ [][Next]_<<open, closed>>
=============================================================================
