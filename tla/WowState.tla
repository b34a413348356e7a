------------------------------ MODULE WowState -----------------------------
(***************************************************************************)
(* What the WoW kit makes of a parsed file (kits/wow/interpreter): the      *)
(* checks of parse, the flavor, and the sections the tools show - above all *)
(* the gear comparison - from the items of a snapshot.                      *)
(*                                                                         *)
(* "Null" is JSON's null among numbers, of which none here is negative. An  *)
(* optional record is <<>> or <<it>>.                                       *)
(***************************************************************************)
EXTENDS Integers, Sequences, SequencesExt, FiniteSets, Sorting

Null == -1
None == <<>>
Some(x) == <<x>>
Or(n, default) == IF n = Null THEN default ELSE n

-----------------------------------------------------------------------------
(* parse (index.ts) and detect (detect.ts) *)

AdapterSchema == 1
CapturedAtMin == 1072915200
CapturedAtAhead == 86400

Projects == [mainline |-> 1, classic |-> 2, tbc |-> 5, mists |-> 19]
\* The interface numbers of each flavor's client.
InRange(flavor, iface) ==
  LET between(a, b) == iface >= a /\ iface <= b
  IN CASE flavor \in {"classic_era", "classic_sod"} -> between(11000, 11999)
       [] flavor = "tbc_classic" -> between(20000, 29999)
       [] flavor = "mists_classic" -> between(50000, 59999)
       [] flavor = "forever" -> between(16000, 16999)
       [] flavor = "retail" -> between(100000, 999999)
       [] OTHER -> FALSE

\* The table's rows by season: the flavor and the rules, or none.
ClassicRow(season) ==
  CASE season = 0 -> <<"classic_era", {}>> [] season = 2 -> <<"classic_sod", {}>>
    [] season = 3 -> <<"classic_era", {"hardcore"}>> [] season = 11 -> <<"classic_era", {"fresh"}>>
    [] season = 12 -> <<"classic_era", {"fresh", "hardcore"}>> [] OTHER -> None
Row(client) ==
  CASE client.project = Projects.classic -> ClassicRow(Or(client.season, 0))
    [] client.project = Projects.tbc -> <<"tbc_classic", {}>>
    [] client.project = Projects.mists -> <<"mists_classic", {}>>
    [] client.project = Projects.mainline ->
         IF InRange("forever", client.interface) THEN <<"forever", {}>> ELSE <<"retail", {}>>
    [] OTHER -> None
\* detect(): of the client's facts, none when the adapter could not read them.
Detect(client) ==
  LET row == IF client = None THEN None ELSE Row(client[1])
  IN IF row # None /\ InRange(row[1], client[1].interface)
     THEN [flavor |-> row[1], rules |-> row[2]] ELSE [flavor |-> "unknown", rules |-> {}]

\* capturedAt(): the adapter's stamp, unless it cannot be right.
CapturedAt(stamp, now) ==
  IF stamp = Null \/ stamp < CapturedAtMin \/ stamp > now + CapturedAtAhead THEN Null ELSE stamp

\* dbSchema: the client's facts and every section are as the adapter writes them.
SchemaGood(db) == db.clientGood /\ db.restGood

\* parse(): in the order of its checks. "db" is what the reader gave: its kind,
\* its schema number, its client facts (good or not) and whether the rest is good.
ParseDb(db, now) ==
  LET refused(facts) == [ok |-> FALSE, facts |-> facts]
      detected == IF db.clientGood THEN {Detect(db.client).flavor} ELSE {}
  IN CASE db.kind \in {"unreadable", "missing"} -> refused({})
       [] db.kind = "list" \/ db.schema = Null -> refused({})
       [] db.kind = "table" /\ db.schema # Null /\ db.schema # AdapterSchema -> refused({"schema"})
       [] db.kind = "table" /\ db.schema = AdapterSchema /\ ~SchemaGood(db) ->
            refused({"schema"} \cup detected)
       [] OTHER -> [ok |-> TRUE, flavor |-> Detect(db.client).flavor, rules |-> Detect(db.client).rules,
                    character |-> db.guid, capturedAt |-> CapturedAt(db.stamp, now)]

-----------------------------------------------------------------------------
(* Items (schema.ts, items.ts) *)

\* statFromText(): the stat of a tooltip line, or none.
StatFromText(line) ==
  IF line.form = "other" \/ line.long THEN None
  ELSE Some([name |-> IF line.name = "reinforced_armor" THEN "armor" ELSE line.name, value |-> line.value])

\* addStats(): the base, none when null, plus the lines' stats summed by name.
AddStats(base, lines) ==
  LET read == SelectSeq([i \in DOMAIN lines |-> StatFromText(lines[i])], LAMBDA s : s # None)
      add(stats, s) == [n \in DOMAIN stats \cup {s[1].name} |->
                          (IF n \in DOMAIN stats THEN stats[n] ELSE 0) + (IF n = s[1].name THEN s[1].value ELSE 0)]
  IN IF base = None /\ read = <<>> THEN None
     ELSE Some(FoldLeft(add, IF base = None THEN [n \in {} |-> 0] ELSE base[1], read))

\* withLinkIds(): the IDs of a link that holds an item string of whole numbers.
LinkIds(item) == IF item.link = None \/ ~item.link[1].whole THEN [enchant |-> 0, suffix |-> 0]
                 ELSE [enchant |-> item.link[1].enchant, suffix |-> item.link[1].suffix]

\* buildItem(): a suffix changes the stats, an enchant has its own.
BuildItem(item) ==
  LET ids == LinkIds(item)
      lines == SelectSeq(item.suffixText, LAMBDA l : ~l.blank)
      line == SelectSeq(item.enchantText, LAMBDA l : ~l.blank)
  IN [id |-> item.id, slot |-> item.slot, loc |-> item.loc, item_level |-> item.item_level,
      min_level |-> item.min_level,
      stats |-> IF ids.suffix # 0 /\ lines # <<>> THEN AddStats(item.stats, lines) ELSE item.stats,
      enchant |-> IF ids.enchant = 0 THEN None
                  ELSE Some([id |-> ids.enchant, text |-> line # <<>>, stats |-> AddStats(None, line)])]

-----------------------------------------------------------------------------
(* The gear comparison (gear.ts) *)

ArmorLocs == {"head", "shoulder", "chest", "robe", "waist", "legs", "feet", "wrist", "hand", "cloak"}
\* SLOTS_BY_EQUIP_LOC: none for an item no slot takes.
SlotsOf(loc) ==
  CASE loc = "robe" -> <<"chest">>
    [] loc = "finger" -> <<"finger0", "finger1">> [] loc = "trinket" -> <<"trinket0", "trinket1">>
    [] loc \in {"weapon", "2hweapon", "weaponmainhand"} -> <<"mainhand">>
    [] loc \in {"weaponoffhand", "shield", "holdable"} -> <<"secondaryhand">>
    [] loc \in {"ranged", "rangedright", "thrown", "relic"} -> <<"ranged">>
    [] loc \in (ArmorLocs \ {"robe"}) \cup {"neck", "body", "tabard"} -> <<loc>>
    [] OTHER -> <<>>
SlotOrder == <<"head", "neck", "shoulder", "body", "chest", "waist", "legs", "feet", "wrist", "hand", "finger0",
               "finger1", "trinket0", "trinket1", "cloak", "mainhand", "secondaryhand", "ranged", "tabard">>
\* GROUP_BY_EQUIP_LOC: the group and its measure.
GroupOf(loc) ==
  CASE loc = "2hweapon" -> <<"two-hand", "dps">>
    [] loc \in {"weapon", "weaponmainhand", "weaponoffhand"} -> <<"one-hand", "dps">>
    [] loc \in {"ranged", "rangedright", "thrown"} -> <<"ranged", "dps">>
    [] loc = "shield" -> <<"shield", "armor">> [] loc = "holdable" -> <<"held", "item_level">>
    [] loc = "relic" -> <<"relic", "item_level">>
    [] loc \in ArmorLocs -> <<"armor", "armor">>
    [] loc \in {"neck", "finger", "trinket", "body", "tabard"} -> <<"other", "item_level">>
    [] OTHER -> None

StatOf(stats, name) == IF stats = None \/ name \notin DOMAIN stats[1] THEN Null ELSE stats[1][name]
\* measured(): the stat with the enchant's of the same name.
Measured(item, measure) ==
  IF measure = "item_level" THEN item.item_level
  ELSE LET value == StatOf(item.stats, measure)
           enchant == IF item.enchant = None THEN 0 ELSE Or(StatOf(item.enchant[1].stats, measure), 0)
       IN IF value = Null THEN Null ELSE value + enchant

\* compareGear(): on the group's measure, else on the item level.
CompareGear(equipped, candidate) ==
  LET theirs == GroupOf(candidate.loc)
      known(m) == Measured(equipped, m) # Null /\ Measured(candidate, m) # Null
      by(m) == Some([item |-> candidate.id, measure |-> m, value |-> Measured(candidate, m),
                     equippedValue |-> Measured(equipped, m)])
  IN IF GroupOf(equipped.loc) = None \/ theirs = None \/ GroupOf(equipped.loc)[1] # theirs[1] THEN None
     ELSE IF known(theirs[2]) THEN by(theirs[2]) ELSE IF known("item_level") THEN by("item_level") ELSE None

EmptySummary(slot, equipped) ==
  [slot |-> slot, equipped |-> equipped, measure |-> "none", comparison |-> "no_candidates",
   candidates |-> 0, notCompared |-> 0, aboveLevel |-> 0, better |-> <<>>, losesEnchant |-> FALSE]
\* A Map of summaries in the order they were made.
EntryAt(sums, slot) == IF \E i \in DOMAIN sums : sums[i].slot = slot
                       THEN CHOOSE i \in DOMAIN sums : sums[i].slot = slot ELSE 0
EquippedIn(sums, slot) == IF EntryAt(sums, slot) = 0 THEN None ELSE sums[EntryAt(sums, slot)].equipped

\* The slot with the highest item level.
SlotOfStrongest(sums, slots) ==
  LET level(i) == IF EquippedIn(sums, slots[i]) = None THEN 0 ELSE Or(EquippedIn(sums, slots[i])[1].item_level, 0)
      strongest == {i \in DOMAIN slots : \A j \in DOMAIN slots : level(i) >= level(j)}
  IN slots[Min(strongest)]
\* The slot a bag item goes to: the first empty one, else the first of the lowest item level.
SlotFor(sums, slots) ==
  LET empty == {i \in DOMAIN slots : EquippedIn(sums, slots[i]) = None}
      level(i) == Or(EquippedIn(sums, slots[i])[1].item_level, 0)
      weakest == {i \in DOMAIN slots : \A j \in DOMAIN slots : level(i) <= level(j)}
  IN slots[Min(IF empty # {} THEN empty ELSE weakest)]

\* One bag item, against the item of its slot.
Compared(entry, item, twoHand) ==
  LET c == CompareGear(entry.equipped[1], item)
      counted == [entry EXCEPT !.candidates = @ + 1]
  IN IF entry.slot = "secondaryhand" /\ twoHand THEN [counted EXCEPT !.notCompared = @ + 1]
     ELSE IF entry.equipped = None THEN counted
     ELSE IF c = None THEN [counted EXCEPT !.notCompared = @ + 1]
     ELSE [counted EXCEPT !.measure = IF @ \in {"none", "item_level"} THEN c[1].measure ELSE @,
                          !.better = IF c[1].value > c[1].equippedValue THEN Append(@, c[1]) ELSE @]

Counted(entry, item, level, twoHand) ==
  IF level # Null /\ item.min_level # Null /\ item.min_level > level
  THEN [entry EXCEPT !.aboveLevel = @ + 1] ELSE Compared(entry, item, twoHand)

\* summary(): the summaries with the one of "slot", made when there is none.
WithSummary(sums, slot, equipped) ==
  IF EntryAt(sums, slot) = 0 THEN Append(sums, EmptySummary(slot, equipped)) ELSE sums
Candidate(sums, item, level, twoHand) ==
  IF SlotsOf(item.loc) = <<>> THEN sums
  ELSE LET slot == SlotFor(sums, SlotsOf(item.loc))
           all == WithSummary(sums, slot, None)
       IN [all EXCEPT ![EntryAt(all, slot)] = Counted(@, item, level, twoHand)]

\* What the slot reads, once every bag item is in.
Summarised(entry) ==
  LET better == StableSort(entry.better,
                           LAMBDA a, b : \/ a.measure # "item_level" /\ b.measure = "item_level"
                                         \/ (a.measure = "item_level") = (b.measure = "item_level") /\ a.value > b.value)
      enchant == IF entry.equipped = None THEN None ELSE entry.equipped[1].enchant
      comparison == CASE entry.candidates = 0 -> "no_candidates"
                      [] entry.candidates > 0 /\ better # <<>> ->
                           IF enchant # None /\ ~enchant[1].text THEN "incomplete" ELSE "better_in_bags"
                      [] entry.candidates > 0 /\ better = <<>> /\ entry.notCompared = entry.candidates -> "not_compared"
                      [] entry.candidates > entry.notCompared /\ better = <<>> ->
                           IF entry.equipped = None THEN "fills_empty_slot" ELSE "none_better"
  IN [entry EXCEPT !.better = better, !.comparison = comparison,
                   !.measure = IF better = <<>> THEN @ ELSE better[1].measure,
                   !.losesEnchant = comparison = "better_in_bags" /\ enchant # None]

\* The summaries of the first n worn items, for each n.
SumsOfWorn(equipped) ==
  LET sums[n \in 0..Len(equipped)] ==
        IF n = 0 THEN <<>> ELSE WithSummary(sums[n - 1], equipped[n].slot, Some(equipped[n]))
  IN sums
\* Those with the first n items of the bags, for each n.
SumsWithBags(worn, items, level, twoHand) ==
  LET sums[n \in 0..Len(items)] == IF n = 0 THEN worn ELSE Candidate(sums[n - 1], items[n], level, twoHand) IN sums
\* summariseGear(): the filled slots in their order, then the empty ones a bag item fits.
SummariseGear(equipped, items, level) ==
  LET worn == SumsOfWorn(equipped)[Len(equipped)]
      main == EquippedIn(worn, "mainhand")
      twoHand == main # None /\ main[1].loc = "2hweapon"
      all == SumsWithBags(worn, items, level, twoHand)[Len(items)]
      orderOf(slot) == CHOOSE i \in DOMAIN SlotOrder : SlotOrder[i] = slot
      sorted == StableSort(all, LAMBDA a, b : b.equipped = None /\ (a.equipped = None => orderOf(a.slot) < orderOf(b.slot)))
  IN [i \in DOMAIN sorted |-> Summarised(sorted[i])]

-----------------------------------------------------------------------------
(* The sections (sections.ts) *)

MaxBetter == 3
\* buildInventory(): with items whose details are pending, no slot claims there is nothing better.
BuildInventory(inventory, level) ==
  LET pending == inventory.pending # 0
      equipped == [i \in DOMAIN inventory.equipped |-> BuildItem(inventory.equipped[i])]
      items == [i \in DOMAIN inventory.items |-> BuildItem(inventory.items[i])]
      gear == SummariseGear(equipped, items, level)
      honest(comparison) == IF pending /\ comparison \in {"none_better", "no_candidates"} THEN "incomplete" ELSE comparison
      shown(g) ==
        [slot |-> g.slot, equipped |-> g.equipped, comparison |-> honest(g.comparison),
         caveat |-> g.comparison \in {"better_in_bags", "fills_empty_slot"}, losesEnchant |-> g.losesEnchant,
         measure |-> g.measure, candidates |-> g.candidates, notCompared |-> g.notCompared, aboveLevel |-> g.aboveLevel,
         better_total |-> Len(g.better), better |-> SubSeq(g.better, 1, IF Len(g.better) < MaxBetter THEN Len(g.better) ELSE MaxBetter)]
  IN [gear_incomplete |-> pending, equipped |-> equipped, items |-> items, gear |-> [i \in DOMAIN gear |-> shown(gear[i])]]

Categories == <<"profession", "secondary", "weapon", "defense", "class", "armor", "language", "other">>
AtMax(skill) == skill.rank # Null /\ skill.max_rank > 0 /\ skill.rank >= skill.max_rank
\* due(): a trainer can still raise it; classic_era's highest maximum is 300.
Due(skill, flavor) ==
  /\ AtMax(skill) /\ skill.category \in {"profession", "secondary"} /\ ~skill.riding
  /\ flavor = "classic_era" => skill.max_rank < 300
\* filter(): the members of "kept" among the first n of a list, for each n.
Filtered(list, kept) ==
  LET first[n \in 0..Len(list)] ==
        IF n = 0 THEN <<>> ELSE IF list[n] \in kept THEN Append(first[n - 1], list[n]) ELSE first[n - 1]
  IN first
Filter(list, kept) == Filtered(list, kept)[Len(list)]
\* flatMap(): the skills of the first n categories, for each n.
Grouped(lines) ==
  LET upTo[n \in 0..Len(Categories)] ==
        IF n = 0 THEN <<>> ELSE upTo[n - 1] \o Filter(lines, {s \in Range(lines) : s.category = Categories[n]})
  IN upTo
BuildSkills(lines, flavor) ==
  LET grouped == Grouped(lines)[Len(Categories)]
  IN [lines |-> grouped, training_due |-> Filter(grouped, {s \in Range(grouped) : Due(s, flavor)})]

\* In tenths of a percent of the map's height.
MinMove == 20
\* The way of "east" and "north". An eighth turns at tan(pi/8), which is the square
\* root of 2 less 1.
Way(east, north) ==
  LET abs(n) == IF n < 0 THEN -n ELSE n
      near(a, b) == (abs(a) + abs(b)) * (abs(a) + abs(b)) < 2 * b * b
      side(pos, neg, n) == IF n > 0 THEN pos ELSE neg
  IN IF near(east, north) THEN side("north", "south", north)
     ELSE IF near(north, east) THEN side("east", "west", east)
     ELSE IF north > 0 THEN side("northeast", "northwest", east) ELSE side("southeast", "southwest", east)
\* Positions as if a map were square.
DirectionOnSquare(from, to) ==
  IF Null \in {from.x, from.y, to.x, to.y} THEN "none" ELSE Way(2 * (to.x - from.x), 2 * (from.y - to.y))
\* directionBetween(): positions in tenths of a percent, to which percent() rounds.
\* East is 1.5 times as long as it reads; both are doubled here.
DirectionBetween(from, to) ==
  LET east == 3 * (to.x - from.x)
      north == 2 * (from.y - to.y)
  IN IF Null \in {from.x, from.y, to.x, to.y} \/ east * east + north * north < 4 * MinMove * MinMove THEN "none"
     ELSE Way(east, north)

\* buildRecentPath(): newest first, each with the way from the place before.
BuildRecentPath(path) ==
  Reverse([i \in DOMAIN path |->
             [place |-> path[i],
              moved |-> IF i > 1 /\ path[i - 1].map # Null /\ path[i - 1].map = path[i].map
                        THEN DirectionBetween(path[i - 1], path[i]) ELSE "none"]])

\* buildFlightPoints(): unknown until a taxi map was seen.
BuildFlightPoints(continents) == IF continents = None \/ continents[1] = <<>> THEN "unknown" ELSE "observed"
=============================================================================
