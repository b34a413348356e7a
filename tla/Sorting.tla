------------------------------ MODULE Sorting ------------------------------
(* Array.prototype.sort, which keeps the order of elements that compare equal. *)
EXTENDS Naturals, Sequences, SequencesExt, FiniteSets

\* "e" put into the sorted "s", after every element that does not come after it.
Placed(s, e, before) ==
  LET n == Cardinality({i \in DOMAIN s : ~before[<<e, s[i]>>]})
  IN SubSeq(s, 1, n) \o <<e>> \o SubSeq(s, n + 1, Len(s))

\* The first n of "s" sorted, for each n.
SortedUpTo(s, before) ==
  LET done[n \in 0..Len(s)] == IF n = 0 THEN <<>> ELSE Placed(done[n - 1], s[n], before) IN done

StableSort(s, Before(_, _)) == SortedUpTo(s, [a, b \in Range(s) |-> Before(a, b)])[Len(s)]
=============================================================================
