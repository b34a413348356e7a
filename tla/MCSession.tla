------------------------------ MODULE MCSession ------------------------------
(* Small instances of Session for TLC. *)
EXTENDS Session, TLC

CONSTANTS s1, s2

TwoServers == {s1, s2}
OneServer == {s1}
OneLoginName == {1}
TwoLogins == {1, 2}

(* Two logins and a change of server; a save that fails and a change of    *)
(* server; and three of a login that ends at the server, a new login, a    *)
(* save that fails and a change with its sync, in every order.             *)
Stories == {
  [logins |-> 2, changes |-> 0, servers |-> 1, revokes |-> 0, faults |-> 0],
  [logins |-> 0, changes |-> 1, servers |-> 1, revokes |-> 0, faults |-> 1],
  [logins |-> 1, changes |-> 0, servers |-> 0, revokes |-> 1, faults |-> 1],
  [logins |-> 1, changes |-> 1, servers |-> 0, revokes |-> 0, faults |-> 1],
  [logins |-> 0, changes |-> 1, servers |-> 0, revokes |-> 1, faults |-> 1],
  [logins |-> 1, changes |-> 1, servers |-> 0, revokes |-> 1, faults |-> 0]}
Race == {[logins |-> 1, changes |-> 1, servers |-> 0, revokes |-> 0, faults |-> 1]}

(* Servers are interchangeable: the bridge starts with the first. Nothing  *)
(* happens at the other one in a story that does not change the server.    *)
FirstServer == base = s1 /\ (budget.servers = 0 => \A s \in Servers \ {s1} : auth[s] = "none")
StoryInit == SessionInit /\ FirstServer
StorySpec == StoryInit /\ [][SessionNext]_sessionVars /\ Fairness
=============================================================================
