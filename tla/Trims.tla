------------------------------- MODULE Trims -------------------------------
(***************************************************************************)
(* A kit's tool that is called once (the handlers of wow_get_state,         *)
(* wow_get_history and bg1_get_state, as answerCall() in tools.ts runs      *)
(* them): one step makes the answer of the call's arguments, of what the    *)
(* context found and of the size cap.                                       *)
(***************************************************************************)
EXTENDS Results, Reading

CallTool ==
  /\ subject = "result"
  /\ Make(CASE given.tool = "wow_get_state" -> WowGetState(given.args, given.found, given.max)
            [] given.tool = "wow_get_history" -> WowGetHistory(given.args, given.found, given.max)
            [] given.tool = "bg1_get_state" -> Bg1GetState(given.args, given.found, given.max))

\* The least a snapshot takes in a history: its time, flavor, rules and character.
SmallestEntry == 60
\* The least that the text of a journal's entry takes, with its key and its strref.
SmallestText == 10
\* The sizes of a stored snapshot, by tool.
Snapshots(tool) ==
  IF tool = "bg1_get_state" THEN [base : Nat, completed : Nat, other : Seq({n \in Nat : n >= SmallestText})]
  ELSE [base : {n \in Nat : n >= SmallestEntry}, descriptions : Nat, items : Seq(Nat)]
\* The calls a tool may be given. Its query, when it gives an answer, gives a list.
Called(c) ==
  /\ c.tool \in {"wow_get_state", "wow_get_history", "bg1_get_state"}
  /\ c.args.kind \in {"absent", "bad", "list"} /\ c.args.list \in Seq(STRING)
  /\ c.args.other \in BOOLEAN /\ c.args.since \in BOOLEAN
  /\ c.args.limit = <<>> \/ c.args.limit[1] \in Nat
  /\ c.found.rejects \in BOOLEAN /\ c.found.snapshots \in Seq(Snapshots(c.tool))
  /\ c.max \in Nat
ASSUME InputsAssumption == \A i \in Inputs : i.subject = "result" => \A c \in i.given : Called(c)

ToolSpec == Begun("result") /\ [][CallTool]_<<subject, given, made>>

-----------------------------------------------------------------------------
(* Properties *)

\* The result with nothing left out, and the cut ones: the greater the number,
\* the less is left out.
Whole(tool, list) ==
  CASE tool = "wow_get_state" -> StateResult(list[1], TRUE, Len(list[1].items))
    [] tool = "wow_get_history" -> HistoryResult(list, TRUE, Len(list), Len(list[1].items))
    [] tool = "bg1_get_state" -> JournalResult(list[1], TRUE, Len(list[1].other))
Cuts(tool, list) ==
  LET items == Len(list[1].items)
      other == Len(list[1].other)
  IN CASE tool = "wow_get_state" -> [n \in 0..items |-> StateResult(list[1], FALSE, n)]
       [] tool = "wow_get_history" ->
            [n \in (IF items = 0 THEN 1 ELSE 1 - items)..Len(list) |->
               IF n >= 1 THEN HistoryResult(list, FALSE, n, items) ELSE HistoryResult(list, FALSE, 1, items - 1 + n)]
       [] tool = "bg1_get_state" ->
            [n \in (IF list[1].quests THEN 0 ELSE other)..other |-> JournalResult(list[1], ~list[1].quests, n)]
\* The cut that leaves out least of those under the cap; the smallest when none is.
BestCut(result, cuts, max) ==
  \E n \in DOMAIN cuts :
    /\ result = cuts[n]
    /\ cuts[n].size <= max \/ \A k \in DOMAIN cuts : n <= k
    /\ \A k \in DOMAIN cuts : n < k => cuts[k].size > max

\* A trimmed result leaves out the least that brings it under the cap: the
\* binary search finds what trying every cut in turn would. When nothing fits
\* it is the smallest, for the platform to refuse. A call answers with a result
\* whenever its arguments are good and there is a snapshot.
TrimKeepsMost ==
  Made("result") =>
    LET tool == given.tool
        names == IF tool = "bg1_get_state" THEN Bg1Sections ELSE WowSections
        asked == IF given.args.kind = "list" THEN Range(given.args.list)
                 ELSE IF tool = "wow_get_history" THEN {"character", "location"} ELSE names
        limit == IF given.args.limit = <<>> THEN DefaultLimit ELSE given.args.limit[1]
        found == IF tool = "wow_get_history" /\ limit < Len(given.found.snapshots)
                 THEN SubSeq(given.found.snapshots, 1, limit) ELSE given.found.snapshots
        list == [i \in DOMAIN found |-> IF tool = "bg1_get_state" THEN Bg1Picked(found[i], asked) ELSE Picked(found[i], asked)]
        good == asked # {} /\ asked \subseteq names /\ given.args.kind # "bad" /\ ~given.args.other
                /\ (tool = "wow_get_history" => given.args.since /\ limit >= 1)
        whole == Whole(tool, list)
    IN /\ (made[1].error = "") = (good /\ ~given.found.rejects /\ given.found.snapshots # <<>>)
       /\ made[1].error = "" =>
            IF whole.size <= given.max THEN made[1].result = whole
            ELSE BestCut(made[1].result, Cuts(tool, list), given.max)
=============================================================================
