------------------------------ MODULE Readers ------------------------------
(***************************************************************************)
(* The server's reading parts, one at a time, each given one input: the     *)
(* SavedVariables reader, the save reader, the gear comparison, the trim of *)
(* a tool's result, the split of a migration file, and an upload request.   *)
(* The first five are functions: one step gives the answer. The request is  *)
(* UploadRequest, with its own steps; a tool's result is Trims, and what is *)
(* told of a parsed file WowShown. The properties say what an answer may be *)
(* in terms of the input alone.                                             *)
(***************************************************************************)
EXTENDS UploadRequest, Trims, WowShown, Integers, SequencesExt, FiniteSetsExt

CONSTANTS MaxDepth, MaxValues, MaxBytes,  \* LuaReader's limits
          Limits, Tables,                 \* Bg1Save's
          Words                           \* MigrationFile's

Lua == INSTANCE LuaText
Bg1 == INSTANCE Bg1Save
Sql == INSTANCE MigrationFile

readersVars == <<subject, given, made, rvars>>

IdleRequest ==
  /\ body = [multipart |-> FALSE, parts |-> <<>>, cut |-> FALSE]
  /\ arrived = "closed" /\ next = 1 /\ stream = "none" /\ settled = FALSE /\ parts = ""
  /\ meta = FALSE /\ file = FALSE /\ checked = FALSE /\ tokens = 0 /\ stage = "none" /\ answer = "" /\ events = <<>>

ReadersInit ==
  /\ made = <<>>
  /\ \/ \E i \in Inputs : subject = i.subject /\ given \in i.given /\ IdleRequest
     \/ subject = "upload" /\ given = <<>> /\ RequestInit

Reads(part, value) == subject = part /\ Make(value) /\ UNCHANGED rvars

\* readSavedVariables(), of the file's first bytes or of the whole file.
LuaBytes == SubSeq(Lua!FileText(given.globals, given.style), 1, given.length)
ReadLua == Reads("lua", Lua!ReadSavedVariables(LuaBytes))
ReadSave == Reads("save", Bg1!ParseSave(given))
ShowGear == ShowInventory /\ UNCHANGED rvars
ReadWow == ShowState /\ UNCHANGED rvars
AnswerCall == CallTool /\ UNCHANGED rvars
SqlText == FlattenSeq([i \in DOMAIN given |-> given[i].before \o given[i].text \o <<";">>])
Strip == Reads("file", Sql!StripTransaction(SqlText))
ReadUpload == subject = "upload" /\ RequestNext /\ UNCHANGED <<subject, given, made>>

ReadersNext == ReadLua \/ ReadSave \/ ShowGear \/ ReadWow \/ AnswerCall \/ Strip \/ ReadUpload
ReadersSpec == ReadersInit /\ [][ReadersNext]_readersVars /\ RequestFairness

-----------------------------------------------------------------------------
(* Properties *)

\* A whole file that exceeds no limit gives each global the value the game gave
\* it, however it is written: the last write of a key wins and nil is no value, a
\* list's entries take the next index, and exactly the keys 1 to n make an array.
\* One that exceeds a limit is refused for a limit it exceeds. A file cut inside
\* a table, a string or a name is refused, never read as a smaller value.
LuaFaithful ==
  Made("lua") =>
    LET read == made[1]
        whole == given.length = Len(Lua!FileText(given.globals, given.style))
        exceeded == Lua!Exceeded(given.globals, given.style)
    IN /\ whole /\ exceeded = {} => read.why = "" /\ Range(read.out) = Lua!FileMeaning(given.globals)
       /\ whole /\ exceeded # {} => read.why \in exceeded
       /\ Lua!EndsInside(given.globals, given.style, given.length) => read.why # ""

Sum(list, Of(_)) == FoldLeft(LAMBDA n, x : n + Of(x), 0, list)

\* The memorization entries inside the spell list.
InfosInside(cre) == SelectSeq(SubSeq(cre.infos, 1, cre.infoList.n), LAMBDA i : i.first + i.n <= cre.spellList.n)
\* A character's spells: as those entries list them, no more than the list holds.
SpellsShown(cre, lines) ==
  LET infos == InfosInside(cre)
      of(l) == {p \in (DOMAIN infos) \X (1..cre.spellList.n) :
                  LET info == infos[p[1]]
                  IN /\ p[2] \in info.first + 1..info.first + info.n
                     /\ <<info.type, info.level + 1, cre.spells[p[2]].code>> = l.key}
  IN /\ Sum(lines, LAMBDA l : l.memorized) = Sum(infos, LAMBDA i : i.n)
     /\ Sum(lines, LAMBDA l : l.memorized) <= cre.spellList.n
     /\ \A i \in DOMAIN lines : /\ lines[i].memorized = Cardinality(of(lines[i]))
                                /\ lines[i].ready = Cardinality({p \in of(lines[i]) : cre.spells[p[2]].ready})
\* Its proficiencies: the last effect that sets one, and those after that add to it.
ProficienciesShown(cre, shown) ==
  LET n == cre.effectList.n
      effect(i) == cre.effects[i]
      mine(id) == {i \in 1..n : effect(i).opcode = Bg1!Proficiency /\ effect(i).id = id}
      counting(id) == {i \in mine(id) : \A j \in mine(id) : j > i => effect(j).add}
      pips(id) == FoldSet(LAMBDA i, sum : sum + effect(i).amount, 0, counting(id))
  IN /\ \A i \in DOMAIN shown : shown[i].pips = pips(shown[i].id)
     /\ \A i, j \in DOMAIN shown : i < j => shown[i].id < shown[j].id
     /\ {shown[i].id : i \in DOMAIN shown} = {id \in {effect(i).id : i \in 1..n} : pips(id) > 0}
\* A quest: each of its entries once, in the order they came, with its last
\* copy's chapter.
QuestShown(journal, quest) ==
  LET mine == {i \in DOMAIN journal : Bg1!QuestOf(journal[i].strref) = quest.quest /\ Bg1!IsQuestEntry(journal[i])}
      copies(s) == {i \in mine : journal[i].strref = s}
      shown == quest.entries
  IN /\ {shown[k].strref : k \in DOMAIN shown} = {journal[i].strref : i \in mine}
     /\ \A j, k \in DOMAIN shown : j < k => Min(copies(shown[j].strref)) < Min(copies(shown[k].strref))
     /\ \A k \in DOMAIN shown : shown[k].chapter = journal[Max(copies(shown[k].strref))].chapter
     /\ quest.complete = \E i \in mine : journal[i].section \in {2, 3}
     /\ quest.latest = Max({journal[i].time : i \in mine})
\* Every list a shown character was read from is inside its record, which is
\* inside the file.
ReadInside(save, npc) ==
  LET cre == npc.cre
      inside(list, size) == list.n = 0 \/ list.at + list.n * size <= npc.creLen
  IN npc.creLen = 0 \/ /\ npc.creAt + npc.creLen <= save.len
                       /\ inside(cre.infoList, 16) /\ inside(cre.spellList, 12) /\ inside(cre.itemList, 20)
                       /\ inside(cre.effectList, IF cre.format = 0 THEN 48 ELSE 264)

\* The characters of the party that have a record.
Characters == SelectSeq(SubSeq(given.party, 1, given.partyList.n), LAMBDA npc : npc.creLen > 0)
\* A save that is shown was read inside its bytes, and shows each character's
\* spells and proficiencies, the party in its order with the first record as
\* the protagonist, and the quests, the latest first, as its records have them.
\* A spell that two entries list is shown for both: see SpellsReadOnce.
SaveShown ==
  Made("save") /\ made[1].error = "" =>
    LET state == made[1].state
        npcs == Characters
        npcOf(m) == CHOOSE npc \in Range(npcs) : <<npc.name>> = m.name
        journal == SelectSeq(SubSeq(given.journal, 1, given.journalList.n), LAMBDA e : e.tlk)
        quests == state.quests.open \o state.quests.completed
        latestFirst(qs) == \A i, j \in DOMAIN qs : i < j => qs[i].latest >= qs[j].latest
    IN /\ \A i \in 1..given.partyList.n : ReadInside(given, given.party[i])
       /\ Len(state.party) = Len(npcs)
       /\ \A i \in DOMAIN state.party :
            LET m == state.party[i]
            IN /\ SpellsShown(npcOf(m).cre, m.spells) /\ ProficienciesShown(npcOf(m).cre, m.proficiencies)
               /\ m.protagonist = (npcOf(m) = given.party[1])
               /\ \A j \in i + 1..Len(state.party) : npcOf(m).order <= npcOf(state.party[j]).order
       /\ \A i \in DOMAIN quests : QuestShown(journal, quests[i])
       /\ latestFirst(state.quests.open) /\ latestFirst(state.quests.completed)
       /\ Sum(quests, LAMBDA q : Len(q.entries)) + Len(state.quests.other)
            = Cardinality({<<Bg1!QuestOf(journal[i].strref) # 0 /\ Bg1!IsQuestEntry(journal[i]), journal[i].strref>> :
                             i \in DOMAIN journal})

\* "Each spell is read at most once", and a record whose entries overlap is damaged
\* (gam.ts:356-360): a save that is shown has no spell in two entries of a character.
\* The code does not keep this: entries that share a spell pass while all of them
\* together list no more spells than there are.
SpellsReadOnce ==
  Made("save") /\ made[1].error = "" =>
    \A npc \in Range(Characters) :
      LET infos == InfosInside(npc.cre)
          spells(i) == infos[i].first + 1..infos[i].first + infos[i].n
      IN \A i, j \in DOMAIN infos : i # j => spells(i) \cap spells(j) = {}

\* A file runs inside the runner's transaction only when it holds no other
\* transaction statement, wherever quotes, dollar quotes or comments put a
\* semicolon or a "commit" in between; and what runs is the file without its
\* own begin and commit.
FilesStripped ==
  Made("file") =>
    LET n == Len(given)
        word(i) == given[i].text[1]
        opens == n > 0 /\ given[1].text = <<"begin">>
        closes == n > 1 /\ given[n].text = <<"commit">>
        kept(i) == ~(opens /\ i \in {1, n})
        text(i) == given[i].before \o (IF kept(i) THEN given[i].text \o <<";">> ELSE <<>>)
    IN /\ made[1].ok = (opens = closes /\ \A i \in 1..n : kept(i) => word(i) \notin Sql!TransactionControl)
       /\ made[1].ok => made[1].sql = FlattenSeq([i \in 1..n |-> text(i)])

\* Every request is answered, whatever its body and whenever its connection closes,
\* unless that was before the parts were read, when nobody is left to answer.
RequestAnswered == subject = "upload" ~> stage = "answered" \/ arrived = "gone"
=============================================================================
