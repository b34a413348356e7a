---------------------------- MODULE MCServerParts ----------------------------
(* ServerParts for TLC: two containers, of one version or of two branches, and  *)
(* the inputs of MCReaders.                                                     *)
EXTENDS ServerParts, MCReaders

CONSTANTS a, b, ask1, ask2

TwoContainers == {a, b}
TwoRequests == {ask1, ask2}

Deployed(mine, other, malformed, failing, recorded) ==
  [image |-> (a :> mine) @@ (b :> other), twice |-> {}, malformed |-> malformed, failing |-> failing, recorded |-> recorded]

\* A first deploy, one with a bad file, two branches that add a lower and a
\* higher number, and an image with a number used twice.
FewDeploys ==
  { Deployed({1, 2}, {1, 2}, {}, {}, {}),
    Deployed({1, 2, 3}, {1, 2}, {}, {3}, {1}),
    Deployed({1, 2}, {1, 3}, {3}, {}, {1}),
    Deployed({1, 2}, {1, 3}, {}, {}, {1}),
    [Deployed({1, 2}, {1, 2}, {}, {}, {1}) EXCEPT !.twice = {b}] }

Some == [crash |-> 1, fault |-> 1, outage |-> 1, wait |-> 1]
=============================================================================
