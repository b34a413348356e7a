------------------------------ MODULE WowShown ------------------------------
(***************************************************************************)
(* What the tools of the WoW kit tell of one parsed file: its flavor, its   *)
(* time, the recent path, the skills and the flight points, and of the bags *)
(* against what is worn (kits/wow, index.ts, sections.ts and gear.ts).      *)
(***************************************************************************)
EXTENDS Integers, Sequences, FiniteSets, Functions, Reading

Wow == INSTANCE WowState

ShowState ==
  /\ subject = "state"
  /\ Make([parsed |-> Wow!ParseDb(given.db, given.now), skills |-> Wow!BuildSkills(given.skills, given.flavor),
           path |-> Wow!BuildRecentPath(given.path), flights |-> Wow!BuildFlightPoints(given.flights)])
ShowInventory == subject = "gear" /\ Make(Wow!BuildInventory(given.inventory, given.level))

\* A file as the schema lets it through, or not: numbers are integers, and Null is one.
ClientFacts == [project : Int, season : Int, interface : Int]
Positions == [map : Int, x : Int, y : Int]
Skills == [category : Range(Wow!Categories), rank : Int, max_rank : Int, riding : BOOLEAN]
Stored(file) ==
  /\ file.db.kind \in {"table", "list", "missing", "unreadable"}
  /\ file.db.clientGood \in BOOLEAN /\ file.db.restGood \in BOOLEAN
  /\ file.db.client = <<>> \/ file.db.client[1] \in ClientFacts
  /\ file.db.schema \in Int /\ file.db.stamp \in Int /\ file.now \in Int
  /\ file.path \in Seq(Positions) /\ file.skills \in Seq(Skills)
\* Lists of items, each with its levels; the adapter reads each slot once.
Packed(bags) ==
  LET worn == bags.inventory.equipped
      items == bags.inventory.items
  IN /\ worn \in Seq(Range(worn)) /\ items \in Seq(Range(items))
     /\ \A item \in Range(worn) \cup Range(items) : item.item_level \in Int /\ item.min_level \in Int
     /\ \A i, j \in DOMAIN worn : worn[i].slot = worn[j].slot => i = j
     /\ bags.inventory.pending \in Int /\ bags.level \in Nat \cup {Wow!Null}
ASSUME FilesAssumption == \A i \in Inputs : /\ i.subject = "state" => \A file \in i.given : Stored(file)
                                            /\ i.subject = "gear" => \A bags \in i.given : Packed(bags)

ShownSpec == Begun("state") /\ [][ShowState]_<<subject, given, made>>
InventorySpec == Begun("gear") /\ [][ShowInventory]_<<subject, given, made>>

-----------------------------------------------------------------------------
(* Properties *)

Flavors == {"classic_era", "tbc_classic", "mists_classic", "forever", "retail"}
\* What was parsed was read by its own schema, and says no more of the client, the
\* realm and the clock than is certain.
ParsedTrue(parsed, db, now) ==
  LET claimed(i) == {f \in Flavors : Wow!InRange(f, i)}
  IN parsed.ok =>
       /\ db.schema = Wow!AdapterSchema
       /\ parsed.flavor # "unknown" =>
            /\ db.client # <<>>
            /\ claimed(db.client[1].interface) = {IF parsed.flavor = "classic_sod" THEN "classic_era" ELSE parsed.flavor}
       /\ "hardcore" \in parsed.rules => parsed.flavor = "classic_era" /\ db.client[1].season \in {3, 12}
       /\ parsed.capturedAt # Wow!Null => parsed.capturedAt \in Wow!CapturedAtMin..now + Wow!CapturedAtAhead

\* The eight ways, east and north.
Ways == [north |-> <<0, 1>>, northeast |-> <<1, 1>>, east |-> <<1, 0>>, southeast |-> <<1, -1>>,
         south |-> <<0, -1>>, southwest |-> <<-1, -1>>, west |-> <<-1, 0>>, northwest |-> <<-1, 1>>]
\* A way is the one from place to place when the move is along it, and no further
\* aside than a sixteenth of a turn: the square root of 2 less 1 of what is along.
WayTrue(from, to, way) ==
  LET east == 3 * (to.x - from.x)
      north == 2 * (from.y - to.y)
      along == Ways[way][1] * east + Ways[way][2] * north
      across == Ways[way][1] * north - Ways[way][2] * east
      aside == IF across < 0 THEN -across ELSE across
  IN along > 0 /\ (along + aside) * (along + aside) <= 2 * along * along
\* The path is newest first, and each way is the one the character went.
PathTrue(shown, path) ==
  LET n == Len(path)
  IN \A i \in 1..n :
       LET to == path[n + 1 - i]
           from == path[n - i]
       IN /\ shown[i].place = to
          /\ shown[i].moved # "none" => i < n /\ from.map = to.map /\ WayTrue(from, to, shown[i].moved)

CountIn(list, v) == Cardinality({i \in DOMAIN list : list[i] = v})
\* Every skill is listed as often as the game lists it, and a trainer is due only
\* for one of them that is at its maximum.
SkillsTrue(shown, lines) ==
  /\ \A s \in Range(lines) : CountIn(shown.lines, s) = CountIn(lines, s)
  /\ \A s \in Range(shown.training_due) : s \in Range(lines) /\ s.rank >= s.max_rank /\ s.max_rank > 0

\* What the tools tell of a parsed file is true of it: it was read by its own
\* schema, a flavor is claimed only for a client whose interface number no other
\* flavor's clients have, hardcore only for a hardcore realm, and a capture
\* time only one the game can have had; the path is newest first with the way
\* the character really went; every skill is listed once, and a visit to a
\* trainer is due only for a skill that is at its maximum.
StateTrue ==
  Made("state") =>
    /\ ParsedTrue(made[1].parsed, given.db, given.now)
    /\ PathTrue(made[1].path, given.path)
    /\ SkillsTrue(made[1].skills, given.skills)

-----------------------------------------------------------------------------
(* The gear *)

Fitting(items) == {i \in DOMAIN items : Wow!SlotsOf(items[i].loc) # <<>>}
Wearable(item, level) == level = Wow!Null \/ item.min_level <= level
Beats(item, worn) == LET c == Wow!CompareGear(worn, item) IN c # <<>> /\ c[1].value > c[1].equippedValue
TwoHanded(equipped) == \E e \in Range(equipped) : e.slot = "mainhand" /\ e.loc = "2hweapon"
WornAt(slot, equipped) == {e \in Range(equipped) : e.slot = slot}

\* A slot says which items are better, unless it can not tell or both hands are full.
Told(shown, slot) ==
  \E k \in DOMAIN shown.gear :
    LET g == shown.gear[k]
    IN g.slot = slot /\ \/ g.comparison \in {"better_in_bags", "incomplete"}
                        \/ g.slot = "secondaryhand" /\ TwoHanded(shown.equipped) /\ g.notCompared > 0

\* Every item that fits has a home, its first slot or its last. It is counted
\* there, and there only. The home is empty, or all its slots are filled and no
\* item worn in them is of a lower level; and an item that beats the one it would
\* replace is told of.
Homed(shown, level) ==
  \E later \in SUBSET Fitting(shown.items) :
    LET slots(i) == Wow!SlotsOf(shown.items[i].loc)
        home(i) == slots(i)[IF i \in later THEN Len(slots(i)) ELSE 1]
        levelOf(e) == Wow!Or(e.item_level, 0)
    IN /\ \A k \in DOMAIN shown.gear :
            shown.gear[k].candidates + shown.gear[k].aboveLevel
              = Cardinality({i \in Fitting(shown.items) : home(i) = shown.gear[k].slot})
       /\ \A i \in Fitting(shown.items) :
            /\ \E k \in DOMAIN shown.gear : shown.gear[k].slot = home(i)
            /\ \A e \in WornAt(home(i), shown.equipped) :
                 /\ \A slot \in Range(slots(i)) : \E f \in WornAt(slot, shown.equipped) : levelOf(e) <= levelOf(f)
                 /\ Wearable(shown.items[i], level) /\ Beats(shown.items[i], e) => Told(shown, home(i))

\* What a slot says is so.
LineTrue(g, shown, level, pending) ==
  /\ Range(g.equipped) = WornAt(g.slot, shown.equipped)
  /\ pending # 0 => g.comparison \notin {"none_better", "no_candidates"}
  /\ g.better_total > 0 => ~(g.slot = "secondaryhand" /\ TwoHanded(shown.equipped))
  /\ \A b \in Range(g.better) :
       \E i \in Fitting(shown.items) :
         LET item == shown.items[i]
         IN /\ item.id = b.item /\ Wearable(item, level) /\ Beats(item, g.equipped[1])
            /\ b.value = Wow!Measured(item, b.measure)
  /\ g.losesEnchant = (g.comparison = "better_in_bags" /\ g.equipped[1].enchant # <<>>)

\* The gear says what the bags hold, one line for a slot: every item that fits is
\* counted once, at an empty slot or against the weakest item of its slots; a slot
\* with something wearable that beats what is worn there never reads as if there
\* were nothing, nor does any while details are pending; what it calls better is
\* wearable now and beats the worn item on the measure it names; and a swap that
\* loses an enchant says so.
GearHonest ==
  Made("gear") =>
    /\ \A j, k \in DOMAIN made[1].gear : made[1].gear[j].slot = made[1].gear[k].slot => j = k
    /\ Homed(made[1], given.level)
    /\ \A k \in DOMAIN made[1].gear : LineTrue(made[1].gear[k], made[1], given.level, given.inventory.pending)
=============================================================================
