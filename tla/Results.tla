------------------------------ MODULE Results ------------------------------
(***************************************************************************)
(* How the kits' tools read their arguments and fit a result under the size *)
(* cap (wow_get_state, wow_get_history and bg1_get_state): what is left out *)
(* first, and the search for the most that fits.                            *)
(*                                                                         *)
(* A result's parts are given by their sizes in bytes of JSON. A cut result *)
(* says what it keeps; "size" adds the note that says what it left out.     *)
(***************************************************************************)
EXTENDS Integers, Sequences, FiniteSets, Functions

\* SECTIONS of the two kits.
WowSections == {"character", "location", "quests", "inventory", "skills", "recent_path", "flight_points"}
Bg1Sections == {"game", "party", "inventory", "quests", "former_party"}

\* The bytes of the first n parts, for each n.
Sums(sizes) ==
  LET sum[n \in 0..Len(sizes)] == IF n = 0 THEN 0 ELSE sum[n - 1] + sizes[n]
  IN sum

\* readInput(): null is absent. The sections are "absent", "bad" or a "list" of
\* names; "other" is a bad argument beside them.
ReadInput(args, all, default) ==
  LET good == \/ args.kind = "absent"
              \/ args.kind = "list" /\ args.list # <<>> /\ Range(args.list) \subseteq all
  IN [ok |-> good /\ ~args.other, sections |-> IF args.kind = "list" THEN Range(args.list) ELSE default]

\* A search that goes on past a count that fits.
NarrowedPastOne(b, fitting) ==
  LET mid == (b[1] + b[2] + 1) \div 2
  IN IF b[1] >= b[2] THEN b
     ELSE IF mid \in fitting THEN <<IF mid < b[2] THEN mid + 1 ELSE mid, b[2]>> ELSE <<b[1], mid - 1>>
\* One turn of mostThatFit()'s loop, with its bounds low and high.
Narrowed(b, fitting) ==
  LET mid == (b[1] + b[2] + 1) \div 2
  IN IF b[1] >= b[2] THEN b ELSE IF mid \in fitting THEN <<mid, b[2]>> ELSE <<b[1], mid - 1>>
\* mostThatFit(): the binary search for the largest count of those that fit. As
\* many turns as there are counts end it.
Bounds(low, high, fitting) ==
  LET bounds[k \in 0..high - low] == IF k = 0 THEN <<low, high>> ELSE Narrowed(bounds[k - 1], fitting)
  IN bounds
MostThatFit(low, high, fitting) == Bounds(low, high, fitting)[high - low][1]

\* The digits of a list's length, which is below 2^32.
DigitCount(n) == 1 + Cardinality({k \in 1..9 : 10^k <= n})
\* What trimNote() says of a list cut to "shown" of "total".
CutSize(shown, total) == 40 + DigitCount(shown) + DigitCount(total)
\* trimNote(): the bytes of the note, none when nothing is left out. It tells of
\* the cut lists in "cuts" bytes.
NoteSize(descriptionsLeftOut, cuts) ==
  IF ~descriptionsLeftOut /\ cuts = 0 THEN 0 ELSE 120 + (IF descriptionsLeftOut THEN 33 ELSE 0) + cuts

-----------------------------------------------------------------------------
(* wow_get_state: [base, descriptions, items], an item list or none *)

StateResult(s, described, shown) ==
  LET total == Len(s.items)
      left == s.descriptions > 0 /\ ~described
  IN [described |-> described, shown |-> shown,
      size |-> s.base + (IF described THEN s.descriptions ELSE 0) + Sums(s.items)[shown]
               + NoteSize(left, IF shown < total THEN CutSize(shown, total) ELSE 0)]
TrimState(s, max) ==
  LET total == Len(s.items)
      fits(r) == r.size <= max
      cut(shown) == StateResult(s, FALSE, shown)
  IN IF fits(StateResult(s, TRUE, total)) THEN StateResult(s, TRUE, total)
     ELSE IF fits(cut(total)) \/ total = 0 THEN cut(total)
     ELSE cut(MostThatFit(0, total - 1, {n \in 1..total : fits(cut(n))}))

-----------------------------------------------------------------------------
(* wow_get_history: a list of the above, newest first *)

\* The bytes of a listed snapshot.
EntrySize(s, described, shown) == s.base + (IF described THEN s.descriptions ELSE 0) + Sums(s.items)[shown]
HistoryResult(list, described, snapshots, shown) ==
  LET left == (\E i \in DOMAIN list : list[i].descriptions > 0) /\ ~described
      items == Len(list[1].items)
      entries == [i \in DOMAIN list |-> EntrySize(list[i], described, IF i = 1 THEN shown ELSE Len(list[i].items))]
  IN [described |-> described, snapshots |-> snapshots, shown |-> shown,
      size |-> Sums(entries)[snapshots]
               + NoteSize(left, (IF snapshots < Len(list) THEN CutSize(snapshots, Len(list)) ELSE 0)
                                + (IF shown < items THEN CutSize(shown, items) ELSE 0))]
TrimHistory(list, max) ==
  LET total == Len(list)
      items == Len(list[1].items)
      fits(r) == r.size <= max
      cut(n) == HistoryResult(list, FALSE, n, items)
      newest(n) == HistoryResult(list, FALSE, 1, n)
      most == cut(MostThatFit(1, total, {n \in 1..total : fits(cut(n))}))
  IN IF fits(HistoryResult(list, TRUE, total, items)) THEN HistoryResult(list, TRUE, total, items)
     ELSE IF fits(most) \/ items = 0 THEN most
     ELSE newest(MostThatFit(0, items - 1, {n \in 1..items : fits(newest(n))}))

-----------------------------------------------------------------------------
(* bg1_get_state: [base, completed, other]: the sizes of the completed quests' *)
(* entries and of the texts of the entries of no quest, oldest first *)

JournalResult(s, described, kept) ==
  LET total == Len(s.other)
      left == s.completed > 0 /\ ~described
  IN [described |-> described, kept |-> kept,
      size |-> s.base + (IF described THEN s.completed ELSE 0)
               + (Sums(s.other)[total] - Sums(s.other)[total - kept])
               + NoteSize(left, IF kept < total THEN CutSize(total - kept, total) ELSE 0)]
TrimJournal(s, max) ==
  LET total == Len(s.other)
      fits(r) == r.size <= max
      cut(kept) == JournalResult(s, FALSE, kept)
  IN IF fits(JournalResult(s, TRUE, total)) \/ ~s.quests THEN JournalResult(s, TRUE, total)
     ELSE IF fits(cut(total)) \/ total = 0 THEN cut(total)
     ELSE cut(MostThatFit(0, total - 1, {n \in 1..total : fits(cut(n))}))

-----------------------------------------------------------------------------
(* The tools' handlers. "found" is what the context gave: it rejects the      *)
(* query, or the snapshots, newest first.                                   *)

Refused(error) == [error |-> error, result |-> <<>>]
\* The handler of a tool: "shown" is the result of the sections and what was found.
Handled(input, found, shown) ==
  CASE ~input.ok -> Refused("bad_arguments")
    [] input.ok /\ found.rejects -> Refused("user_error")
    [] input.ok /\ ~found.rejects /\ found.snapshots = <<>> -> Refused("no_snapshot")
    [] OTHER -> [error |-> "", result |-> shown]

\* buildSections(): what the sections leave of a snapshot's sizes.
Picked(s, sections) == [s EXCEPT !.descriptions = IF "quests" \in sections THEN @ ELSE 0,
                                 !.items = IF "inventory" \in sections THEN @ ELSE <<>>]
WowGetState(args, found, max) ==
  LET input == ReadInput(args, WowSections, WowSections)
  IN Handled(input, found, TrimState(Picked(found.snapshots[1], input.sections), max))

DefaultLimit == 20
\* readSince() and the limit come before the query.
WowGetHistory(args, found, max) ==
  LET input == ReadInput(args, WowSections, {"character", "location"})
      limit == IF args.limit = <<>> THEN DefaultLimit ELSE args.limit[1]
      list == SubSeq(found.snapshots, 1, IF limit < Len(found.snapshots) THEN limit ELSE Len(found.snapshots))
  IN Handled([input EXCEPT !.ok = @ /\ args.since /\ limit >= 1], found,
             TrimHistory([i \in DOMAIN list |-> Picked(list[i], input.sections)], max))

Bg1Picked(s, sections) ==
  IF "quests" \in sections THEN [base |-> s.base, completed |-> s.completed, other |-> s.other, quests |-> TRUE]
  ELSE [base |-> s.base, completed |-> 0, other |-> <<>>, quests |-> FALSE]
Bg1GetState(args, found, max) ==
  LET input == ReadInput(args, Bg1Sections, Bg1Sections)
  IN Handled(input, found, TrimJournal(Bg1Picked(found.snapshots[1], input.sections), max))
=============================================================================
