------------------------------ MODULE Bg1Save ------------------------------
(***************************************************************************)
(* The reader of Baldur's Gate saves (kits/bg1/interpreter): from the       *)
(* offsets, counts and records of a BALDUR.gam to the state the tools show, *)
(* or to the error that refuses the save.                                   *)
(*                                                                         *)
(* A save is a record: "len" is the file's length, each list has the offset *)
(* and the count its header gives ("at" and "n"), and the records it would  *)
(* read there. Offsets inside a character are relative to its CRE record,   *)
(* whose own "at" and "len" its NPC record gives. A reader answers "Good"   *)
(* with a value or an error: "damaged" or "too_many".                       *)
(***************************************************************************)
EXTENDS Integers, Sequences, SequencesExt, FiniteSets, Sorting

CONSTANTS Limits,  \* ReadLimits, by its names
          Tables   \* the name tables: quests, strings, joinable

None == <<>>
Good(v) == [error |-> "", value |-> v]
Bad(error) == [error |-> error, value |-> None]
FailedRead(r) == r.error # ""
\* What follows a read, of its value; an error ends it.
Then(r, Next(_)) == IF FailedRead(r) THEN r ELSE Next(r.value)
\* The results of "rs", in the order they are read, or the first error.
All(rs) == IF \E i \in DOMAIN rs : FailedRead(rs[i])
           THEN rs[CHOOSE i \in DOMAIN rs : FailedRead(rs[i]) /\ \A j \in 1..i - 1 : ~FailedRead(rs[j])]
           ELSE Good([i \in DOMAIN rs |-> rs[i].value])

HeaderSize == 180
NpcSize == 352
VariableSize == 84
JournalSize == 12
CreHeaderSize == 724
InfoSize == 16
SpellSize == 12
ItemSize == 20
EffectSizes == <<48, 264>>   \* of the formats 0 and 1
PartyMax == 6
SlotCount == 38
NoItem == 65535
Proficiency == 233

\* check(): "size" bytes at "at" are inside a view of "len" bytes.
Inside(len, at, size) == at + size <= len
\* The records of a list, once its count and its bytes are checked.
Records(list, records, size, max, len) ==
  IF list.n > max THEN Bad("too_many")
  ELSE IF list.n > 0 /\ ~Inside(len, list.at, list.n * size) THEN Bad("damaged")
  ELSE Good(SubSeq(records, 1, list.n))

-----------------------------------------------------------------------------
(* A character's record *)

\* Entries that list more spells in all than there are.
NeverOverlap(infos, n) == FALSE
Overlap(infos, n) == FoldLeft(LAMBDA sum, info : sum + info.n, 0, infos) > n

\* readMemorized(): each memorization entry's part of the spell list.
ReadMemorized(cre) ==
  LET n == cre.spellList.n
      listing(infos) == SelectSeq(infos, LAMBDA info : info.first + info.n <= n)
      spellsOf(info, spells) ==
        [k \in 1..info.n |-> [code |-> spells[info.first + k].code, ready |-> spells[info.first + k].ready,
                              level |-> info.level + 1, type |-> info.type]]
      listed(infos, spells) == FoldLeft(LAMBDA all, info : all \o spellsOf(info, spells), <<>>, infos)
      lists == <<Records(cre.infoList, cre.infos, InfoSize, Limits.spellLevels, cre.len),
                 Records(cre.spellList, cre.spells, SpellSize, Limits.memorizedSpells, cre.len)>>
  IN IF cre.infoList.n > Limits.spellLevels \/ cre.spellList.n > Limits.memorizedSpells THEN Bad("too_many")
     ELSE Then(All(lists), LAMBDA read :
            IF Overlap(listing(read[1]), n) THEN Bad("damaged") ELSE Good(listed(listing(read[1]), read[2])))

\* readSlots(): the item of each slot, by its index in the item list.
ReadSlots(cre) ==
  LET itemAt(items, index) == IF index = NoItem \/ index >= cre.itemList.n THEN None ELSE <<items[index + 1]>>
  IN Then(Records(cre.itemList, cre.items, ItemSize, Limits.items, cre.len), LAMBDA items :
       IF ~Inside(cre.len, cre.slotsAt, 2 * SlotCount) THEN Bad("damaged")
       ELSE Good([i \in DOMAIN cre.slots |-> itemAt(items, cre.slots[i])]))

\* readProficiencies(): the effects in order, each of which sets pips or adds to them.
ReadProficiencies(cre) ==
  LET known == cre.format \in 0..1
      effects == Records(cre.effectList, cre.effects, IF known THEN EffectSizes[cre.format + 1] ELSE 0,
                         Limits.effects, cre.len)
      apply(pips, effect) ==
        IF effect.opcode # Proficiency THEN pips
        ELSE LET before == IF effect.add /\ effect.id \in DOMAIN pips THEN pips[effect.id] ELSE 0
             IN [id \in DOMAIN pips \cup {effect.id} |-> IF id = effect.id THEN before + effect.amount ELSE pips[id]]
  IN IF cre.effectList.n = 0 THEN Good(<<>>)
     ELSE IF cre.effectList.n <= Limits.effects /\ ~known THEN Bad("damaged")
     ELSE Then(effects, LAMBDA list : Good(FoldLeft(apply, <<>>, list)))

\* readCreHeader(): its size, then its signature.
CreHeader(cre) == IF cre.len < CreHeaderSize \/ ~cre.signed THEN Bad("damaged") ELSE Good(cre)

ReadCre(cre) ==
  Then(All(<<CreHeader(cre), ReadMemorized(cre), ReadSlots(cre), ReadProficiencies(cre)>>), LAMBDA read :
    Good([cre EXCEPT !.spells = read[2], !.slots = read[3], !.effects = read[4]]))

\* creRecord(): none when its size is 0, else inside the file. A member of the
\* party is read whole, of anyone else the header.
CreOf(npc, len, whole) ==
  IF npc.creLen = 0 THEN Good([npc EXCEPT !.cre = None])
  ELSE IF ~Inside(len, npc.creAt, npc.creLen) THEN Bad("damaged")
  ELSE LET cre == [npc.cre EXCEPT !.len = npc.creLen]
       IN Then(IF whole THEN ReadCre(cre) ELSE CreHeader(cre), LAMBDA read : Good([npc EXCEPT !.cre = <<read>>]))

-----------------------------------------------------------------------------
(* The whole save *)

\* npcRecords(), and each record's character.
Npcs(list, npcs, max, len, whole) ==
  Then(Records(list, npcs, NpcSize, max, len), LAMBDA records :
    All([i \in DOMAIN records |-> CreOf(records[i], len, whole)]))

\* readChapter(): the first variable of that name.
ReadChapter(save) ==
  LET named(vars) == SelectSeq(vars, LAMBDA v : v.name = "chapter")
  IN Then(Records(save.varList, save.vars, VariableSize, Limits.variables, save.len), LAMBDA vars :
       Good(IF named(vars) = <<>> THEN None ELSE <<named(vars)[1].value>>))

\* readJournal(): the entries whose text is in dialog.tlk.
ReadJournal(save) ==
  Then(Records(save.journalList, save.journal, JournalSize, Limits.journalEntries, save.len), LAMBDA entries :
    Good(SelectSeq(entries, LAMBDA e : e.tlk)))

ReadGam(save) ==
  Then(All(<<Npcs(save.partyList, save.party, PartyMax, save.len, TRUE),
             Npcs(save.otherList, save.others, Limits.otherCharacters, save.len, FALSE),
             ReadChapter(save), ReadJournal(save)>>), LAMBDA read :
    Good([save EXCEPT !.party = read[1], !.others = read[2], !.vars = read[3], !.journal = read[4]]))

\* detect(): the flavor, from the loading progress and the campaign.
DetectBg1(save) == IF save.progress > 1 THEN "unknown"
                   ELSE IF save.campaign = "" THEN "bgee"
                   ELSE IF save.campaign = "sod" THEN "sod" ELSE "unknown"

-----------------------------------------------------------------------------
(* The state (state.ts) *)

PerHour == 300
PerDay == 7200
JournalTicks == 15
Text(strref) == IF strref \in Tables.strings THEN <<"text", strref>> ELSE <<"strref", strref>>

\* CLASS_COUNT: how many classes a multi-class has.
ClassCount(class) == IF class \in {10, 17} THEN 3 ELSE IF class \in {7, 8, 9, 13, 14, 15, 16, 18} THEN 2 ELSE 1
ThiefSkillClasses == {4, 5, 9, 10, 12, 13, 15, 18, 20}
DeadStates == 6..11
DeadState == 11

\* memorizedSpells(): one line per type, level and code.
SpellLines(cre) ==
  LET keyOf(spell) == <<spell.type, spell.level, spell.code>>
      add(lines, spell) ==
        LET old == SelectSeq(lines, LAMBDA l : l.key = keyOf(spell))
            ready == IF spell.ready THEN 1 ELSE 0
        IN IF old = <<>> THEN Append(lines, [key |-> keyOf(spell), memorized |-> 1, ready |-> ready])
           ELSE [i \in DOMAIN lines |->
                   IF lines[i].key = keyOf(spell)
                   THEN [lines[i] EXCEPT !.memorized = @ + 1, !.ready = @ + ready] ELSE lines[i]]
  IN FoldLeft(add, <<>>, cre.spells)

\* The proficiencies with pips, in the order of their IDs.
Proficiencies(pips) ==
  LET ids == SetToSortSeq({id \in DOMAIN pips : pips[id] > 0}, LAMBDA a, b : a < b)
  IN [i \in DOMAIN ids |-> [id |-> ids[i], pips |-> pips[ids[i]]]]

\* Lookup.item(): its charges without the zeros at the end; an item not
\* identified has no code and its other name.
ItemView(item) ==
  LET kept == {i \in DOMAIN item.charges : item.charges[i] # 0}
      last == IF kept = {} THEN 0 ELSE CHOOSE i \in kept : \A j \in kept : j <= i
  IN [code |-> IF item.identified \/ ~item.known THEN item.code ELSE None,
      name |-> IF item.known THEN <<item.identified>> ELSE None,
      charges |-> SubSeq(item.charges, 1, last)]

MemberName(npc) == IF npc.name # "" THEN <<npc.name>> ELSE Text(npc.cre[1].longName)

\* inventory(): what is worn, and the backpack's slots.
Worn == 1..21 \cup {38}
Inventory(npc) ==
  LET slots == npc.cre[1].slots
      views(S) == LET filled == SetToSortSeq({i \in DOMAIN slots \cap S : slots[i] # None}, LAMBDA a, b : a < b)
                  IN [k \in DOMAIN filled |-> [slot |-> filled[k], item |-> ItemView(slots[filled[k]][1])]]
  IN [name |-> MemberName(npc), equipped |-> views(Worn), backpack |-> views(1..SlotCount \ Worn)]

PartyMember(npc, protagonist) ==
  LET cre == npc.cre[1]
  IN [name |-> MemberName(npc), protagonist |-> protagonist,
      levels |-> SubSeq(cre.levels, 1, ClassCount(cre.class)),
      thief_skills |-> cre.class \in ThiefSkillClasses,
      proficiencies |-> Proficiencies(cre.effects),
      dead |-> cre.state \cap DeadStates # {}, flags |-> cre.state \ {DeadState},
      spells |-> SpellLines(cre)]

\* The quest a strref belongs to: the last one that names it, or 0.
QuestOf(strref) ==
  LET naming == {q \in DOMAIN Tables.quests : strref \in Tables.quests[q].entries}
  IN IF naming = {} THEN 0 ELSE CHOOSE q \in naming : \A r \in naming : r <= q
Bit(n, b) == (n \div b) % 2 = 1
IsQuestEntry(e) == (Bit(e.section, 1) \/ Bit(e.section, 2)) /\ ~Bit(e.section, 4)

\* quests(): the journal by quest, each strref once.
AddEntry(acc, e) ==
  LET q == QuestOf(e.strref)
      text == [strref |-> e.strref, chapter |-> e.chapter, day |-> e.time \div (JournalTicks * PerDay)]
      shown(entries) == \E i \in DOMAIN entries : entries[i].strref = e.strref
      at == IF \E i \in DOMAIN acc.found : acc.found[i].quest = q
            THEN CHOOSE i \in DOMAIN acc.found : acc.found[i].quest = q ELSE Len(acc.found) + 1
      old == IF at <= Len(acc.found) THEN acc.found[at]
             ELSE [quest |-> q, entries |-> <<>>, complete |-> FALSE, latest |-> 0]
      new == [quest |-> q,
              entries |-> IF shown(old.entries)
                          THEN [i \in DOMAIN old.entries |->
                                  IF old.entries[i].strref = e.strref THEN text ELSE old.entries[i]]
                          ELSE Append(old.entries, text),
              complete |-> old.complete \/ Bit(e.section, 2),
              latest |-> IF e.time > old.latest THEN e.time ELSE old.latest]
  IN IF q = 0 \/ ~IsQuestEntry(e)
     THEN IF shown(acc.other) THEN acc ELSE [acc EXCEPT !.other = Append(@, text)]
     ELSE [acc EXCEPT !.found = IF at <= Len(@) THEN [@ EXCEPT ![at] = new] ELSE Append(@, new)]

QuestsSection(journal) ==
  LET acc == FoldLeft(AddEntry, [found |-> <<>>, other |-> <<>>], journal)
      latestFirst == StableSort(acc.found, LAMBDA a, b : a.latest > b.latest)
  IN [open |-> SelectSeq(latestFirst, LAMBDA q : ~q.complete),
      completed |-> SelectSeq(latestFirst, LAMBDA q : q.complete),
      other |-> acc.other]

\* buildState(), of a save that was read.
BuildState(gam) ==
  LET present == SelectSeq([i \in DOMAIN gam.party |-> [npc |-> gam.party[i], record |-> i]],
                           LAMBDA m : m.npc.cre # None)
      members == StableSort(present, LAMBDA a, b : a.npc.order < b.npc.order)
      leading == gam.active + 1 \in DOMAIN gam.party /\ gam.party[gam.active + 1].area # ""
      former == SelectSeq(gam.others, LAMBDA npc : npc.cre # None /\ npc.cre[1].beenInParty
                                                   /\ npc.cre[1].death \in Tables.joinable)
  IN [chapter |-> gam.vars, day |-> gam.time \div PerDay, hour |-> (gam.time % PerDay) \div PerHour,
      area |-> IF leading THEN gam.party[gam.active + 1].area ELSE gam.area,
      party |-> [i \in DOMAIN members |-> PartyMember(members[i].npc, members[i].record = 1)],
      inventory |-> [i \in DOMAIN members |-> Inventory(members[i].npc)],
      quests |-> QuestsSection(gam.journal),
      former_party |-> [i \in DOMAIN former |-> former[i].cre[1].death]]

\* parse(): the state, or the error with the flavor read before it.
ParsedSave(read, flavor) ==
  IF FailedRead(read) THEN [error |-> read.error, flavor |-> flavor]
  ELSE [error |-> "", flavor |-> flavor, gam |-> read.value, state |-> BuildState(read.value),
        character |-> IF read.value.party = <<>> THEN "" ELSE read.value.party[1].name]
ParseSave(save) ==
  CASE ~save.signed -> [error |-> "not_a_save", flavor |-> ""]
    [] save.signed /\ save.len < HeaderSize -> [error |-> "damaged", flavor |-> ""]
    [] OTHER -> ParsedSave(ReadGam(save), DetectBg1(save))
=============================================================================
