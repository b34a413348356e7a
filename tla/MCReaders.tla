----------------------------- MODULE MCReaders -----------------------------
(* The inputs of Readers: small files, saves, bags, results and bodies.     *)
EXTENDS Readers, TLC

SeqsUpTo(S, n) == UNION {[1..k -> S] : k \in 0..n}
Given(part, families) == {[subject |-> part, given |-> S] : S \in families}

-----------------------------------------------------------------------------
(* SavedVariables: every table of up to two of these entries, in every style, *)
(* and each shorter file cut at every byte.                                 *)

Num(n) == Lua!Decimal(n, 0)
Tab(entries) == <<"tab", entries>>
EntryOf(form, key, value) == [form |-> form, key |-> key, value |-> value]
Next1(v) == EntryOf("list", Lua!Nil, v)
MCEntries == {
  Next1(Num(7)), Next1(Lua!Bool(TRUE)), Next1(Lua!Nil), Next1(Tab(<<Next1(Lua!Str(<<"a", "LF", "b">>))>>)),
  EntryOf("key", Num(1), Num(10)), EntryOf("key", Num(2), Tab(<<>>)), EntryOf("key", Lua!Str(<<"a">>), Lua!Nil),
  EntryOf("name", Lua!Str(<<"a">>), Tab(<<Next1(Tab(<<>>))>>))}
MCStyles == {
  [gap |-> <<>>, sep |-> ",", ends |-> FALSE, quote |-> "dquote"],
  [gap |-> <<"LF">>, sep |-> ";", ends |-> TRUE, quote |-> "squote"],
  [gap |-> <<"SP", "-", "-", "a", "LF">>, sep |-> ",", ends |-> TRUE, quote |-> "long"],
  [gap |-> <<"-", "-", "[", "[", "LF", "]", "]">>, sep |-> ",", ends |-> FALSE, quote |-> "dquote"]}
A == <<"a">>
B == <<"b">>
OneGlobal(n) == {<<<<A, Tab(t)>>>> : t \in SeqsUpTo(MCEntries, n)}
MoreGlobals == UNION {{<<<<A, Num(12)>>, <<B, Tab(t)>>>>, <<<<A, Tab(t)>>, <<A, Lua!Nil>>, <<B, Num(3)>>>>} :
                        t \in SeqsUpTo(MCEntries, 1)}
Length(globals, style) == Len(Lua!FileText(globals, style))
WholeFiles(globals) == {[globals |-> g, style |-> s, length |-> Length(g, s)] : g \in globals, s \in MCStyles}
CutShort(globals) ==
  {[globals |-> c[1], style |-> c[2], length |-> c[3]] :
     c \in {d \in globals \X {s \in MCStyles : Len(s.gap) <= 1} \X (0..MaxBytes) : d[3] <= Length(d[1], d[2])}}
MCFiles == {WholeFiles(OneGlobal(3)), WholeFiles(MoreGlobals), CutShort(OneGlobal(1)), CutShort(MoreGlobals)}

-----------------------------------------------------------------------------
(* Saves: one part of a small save varied at a time.                        *)

ListAt(at, n) == [at |-> at, n |-> n]
BaseCre == [len |-> 0, signed |-> TRUE, format |-> 1, infoList |-> ListAt(724, 0), infos |-> <<>>,
            spellList |-> ListAt(724, 0), spells |-> <<>>, itemList |-> ListAt(900, 1),
            items |-> <<[code |-> "sword", charges |-> <<0, 3, 0>>, identified |-> TRUE, known |-> TRUE]>>,
            slotsAt |-> 920, slots |-> [i \in 1..38 |-> IF i = 10 THEN 0 ELSE IF i = 22 THEN 5 ELSE 65535],
            effectList |-> ListAt(1000, 0), effects |-> <<>>, levels |-> <<3, 2, 0>>, class |-> 7, state |-> {6, 11},
            longName |-> 1, beenInParty |-> TRUE, death |-> "imoen"]
Npc(name, order, cre) == [name |-> name, order |-> order, area |-> "", creAt |-> 200, creLen |-> 2000, cre |-> cre]
BaseSave(party) ==
  [signed |-> TRUE, len |-> 9000, progress |-> 0, campaign |-> "", time |-> 9000, area |-> "ar2600", active |-> 0,
   partyList |-> ListAt(180, Len(party)), party |-> party, otherList |-> ListAt(5000, 1), others |-> <<Npc("", 0, BaseCre)>>,
   varList |-> ListAt(6000, 1), vars |-> <<[name |-> "chapter", value |-> 2]>>, journalList |-> ListAt(7000, 0), journal |-> <<>>]

Spells == {<<[code |-> "s1", ready |-> TRUE], [code |-> c, ready |-> FALSE]>> : c \in {"s1", "s2"}}
SpellCres ==
  {[BaseCre EXCEPT !.infoList = ListAt(724, Len(infos)), !.infos = infos, !.spellList = ListAt(at, n), !.spells = spells] :
     infos \in {[i \in DOMAIN s |-> [first |-> s[i][1], n |-> s[i][2], level |-> i % 2, type |-> 0]] :
                  s \in SeqsUpTo((0..1) \X (0..2), 3)},
     at \in {760, 1990}, n \in 1..2, spells \in Spells}
EffectOf(opcode, id, add, amount) == [opcode |-> opcode, id |-> id, add |-> add, amount |-> amount]
EffectCres ==
  {[BaseCre EXCEPT !.format = f, !.effectList = ListAt(1000, Len(e)), !.effects = e] :
     f \in {0, 1, 2},
     e \in SeqsUpTo({EffectOf(233, 89, FALSE, 2), EffectOf(233, 89, TRUE, 1), EffectOf(233, 89, TRUE, -2),
                     EffectOf(233, 90, FALSE, 1), EffectOf(12, 90, FALSE, 5)}, 4)}
JournalOf(strref, section, time, chapter) ==
  [strref |-> strref, section |-> section, time |-> time, chapter |-> chapter, tlk |-> TRUE]
Journals == SeqsUpTo({JournalOf(1, 1, 10, 1), JournalOf(1, 2, 5, 2), JournalOf(2, 1, 20, 3), JournalOf(3, 1, 10, 4),
                      JournalOf(3, 5, 30, 5), JournalOf(9, 1, 40, 6), [JournalOf(2, 3, 50, 7) EXCEPT !.tlk = FALSE]}, 4)
Parties == {<<Npc("p", o[1], BaseCre), [Npc("q", o[2], BaseCre) EXCEPT !.creAt = at, !.creLen = len], Npc("r", o[3], BaseCre)>> :
              o \in {<<0, 1, 2>>, <<2, 0, 1>>, <<1, 1, 0>>}, at \in {200, 8000}, len \in {0, 700, 1500, 2000}}
SpellSaves == {BaseSave(<<Npc("p", 0, cre)>>) : cre \in SpellCres}
MCSaves ==
  {SpellSaves, {BaseSave(<<Npc("p", 0, cre)>>) : cre \in EffectCres},
   {[BaseSave(<<Npc("p", 0, BaseCre)>>) EXCEPT !.journalList = ListAt(7000, Len(j)), !.journal = j] : j \in Journals},
   {BaseSave(p) : p \in Parties}}

MCLimits == [otherCharacters |-> 2, variables |-> 2, journalEntries |-> 3, spellLevels |-> 2, memorizedSpells |-> 2,
             items |-> 2, effects |-> 3]
\* Two quests that share the entry 2.
MCTables == [quests |-> <<[entries |-> {1, 2}], [entries |-> {2, 3}]>>, strings |-> {1, 2, 3}, joinable |-> {"imoen"}]

-----------------------------------------------------------------------------
(* Bags: what is worn, and up to two items in the bags.                     *)

Item(loc, level, min, stats, enchant) ==
  [id |-> <<loc, level, min, stats, enchant>>, slot |-> "", loc |-> loc, item_level |-> level, min_level |-> min, stats |-> stats,
   link |-> IF enchant = "none" THEN <<>> ELSE <<[whole |-> TRUE, enchant |-> 9, suffix |-> 0]>>,
   suffixText |-> <<>>,
   enchantText |-> CASE enchant = "armor" -> <<[form |-> "stat", name |-> "reinforced_armor", value |-> 8, long |-> FALSE, blank |-> FALSE]>>
                     [] enchant = "other" -> <<[form |-> "other", blank |-> FALSE]>>
                     [] OTHER -> <<>>]
WornIn(slot, item) == [item EXCEPT !.slot = slot]
Armor(n) == <<[armor |-> n]>>
Dps(n) == <<[dps |-> n]>>
NoStats == <<>>
MCWorn == {
  <<>>,
  <<WornIn("head", Item("head", 10, 1, Armor(5), "armor"))>>,
  <<WornIn("head", Item("head", 10, 1, NoStats, "unread")), WornIn("mainhand", Item("2hweapon", 12, 1, Dps(9), "none"))>>,
  <<WornIn("finger0", Item("finger", 20, 1, NoStats, "other")), WornIn("finger1", Item("finger", 10, 1, NoStats, "none"))>>,
  <<WornIn("finger1", Item("finger", 10, 1, NoStats, "none")), WornIn("mainhand", Item("weapon", 12, 1, Dps(9), "other")),
    WornIn("secondaryhand", Item("shield", 8, 1, Armor(30), "none"))>>}
MCBagItems == {
  Item("head", 11, 1, Armor(12), "none"), Item("head", 30, 20, Armor(40), "none"), Item("head", 12, 5, NoStats, "none"),
  Item("finger", 15, Wow!Null, NoStats, "none"), Item("finger", Wow!Null, 1, NoStats, "none"), Item("2hweapon", 14, 1, Dps(11), "none"),
  Item("weapon", 14, 1, Dps(10), "none"), Item("shield", 9, 1, Armor(20), "none"), Item("bag", 1, 1, NoStats, "none")}
MCBags == {{[inventory |-> [pending |-> p, equipped |-> w, items |-> i], level |-> l] :
              p \in 0..1, w \in MCWorn, i \in SeqsUpTo(MCBagItems, 2), l \in {Wow!Null, 10}}}

-----------------------------------------------------------------------------
(* Parsed files: the client's facts, the stamp, the path and the skills.    *)

Client(project, season, interface) == [project |-> project, season |-> season, interface |-> interface]
Db(client, schema, stamp) ==
  [kind |-> "table", schema |-> schema, clientGood |-> TRUE, client |-> client, restGood |-> TRUE, guid |-> "g", stamp |-> stamp]
Era == <<Client(2, Wow!Null, 11508)>>
Now == 1800000000
MCDbs ==
  {Db(<<Client(p, s, i)>>, 1, Now) : p \in {1, 2, 5, 7, 19}, s \in {Wow!Null, 0, 1, 2, 3, 11, 12},
                                     i \in {Wow!Null, 11508, 16001, 20505, 50501, 110002}}
  \cup {Db(c, s, t) : c \in {<<>>, Era}, s \in {Wow!Null, 1, 2}, t \in {Wow!Null, 5, Wow!CapturedAtMin, Now + 86400, Now + 86401}}
  \cup {[Db(Era, 1, Now) EXCEPT !.kind = k, !.clientGood = c, !.restGood = r] :
           k \in {"table", "list", "missing", "unreadable"}, c, r \in BOOLEAN}
Place(map, x, y) == [map |-> map, x |-> x, y |-> y]
Places == {Place(1, x, y) : x, y \in {100, 110, 140, 300}} \cup {Place(2, 100, 100), Place(1, Wow!Null, 100), Place(Wow!Null, 300, 300)}
Skill(category, rank, max, riding) == [category |-> category, rank |-> rank, max_rank |-> max, riding |-> riding]
SkillLines == {Skill("profession", 300, 300, FALSE), Skill("secondary", 150, 150, FALSE), Skill("secondary", 150, 150, TRUE),
           Skill("weapon", 5, 5, FALSE), Skill("profession", 3, 75, FALSE), Skill("profession", Wow!Null, 75, FALSE),
           Skill("secondary", 0, 0, FALSE)}
State(db, skills, flavor, path, flights) ==
  [db |-> db, now |-> Now, skills |-> skills, flavor |-> flavor, path |-> path, flights |-> flights]
BaseDb == Db(Era, 1, Now)
Paths == SeqsUpTo(Places, 2) \cup {<<a, b, a>> : a, b \in Places}
MCShown == {{State(db, <<>>, "classic_era", <<>>, <<>>) : db \in MCDbs},
            {State(BaseDb, s, f, <<>>, <<<<>>>>) : s \in SeqsUpTo(SkillLines, 3), f \in {"classic_era", "forever"}},
            {State(BaseDb, <<>>, "classic_era", p, <<<<"kalimdor">>>>) : p \in Paths}}

-----------------------------------------------------------------------------
(* Tool calls: results around every size at which one more part fits, and   *)
(* the arguments a call may come with.                                      *)

MCItems == {<<>>, <<60, 60>>, <<12, 200, 60, 90>>}
MCStates == {[base |-> 150, descriptions |-> d, items |-> i] : d \in {0, 100}, i \in MCItems}
MCSnapshots == {[base |-> 150, completed |-> c, other |-> o] : c \in {0, 100}, o \in MCItems}
Caps == {150 + 35 * k : k \in 0..25}
Args(kind, list, other, since, limit) == [kind |-> kind, list |-> list, other |-> other, since |-> since, limit |-> limit]
Asking(names) == Args("list", names, FALSE, TRUE, <<>>)
Found(list) == [rejects |-> FALSE, snapshots |-> list]
Call(tool, args, found, max) == [tool |-> tool, args |-> args, found |-> found, max |-> max]
MCTrims == {
  {Call("wow_get_state", Asking(<<"quests", "inventory">>), Found(<<s>>), m) : s \in MCStates, m \in Caps},
  {Call("wow_get_history", Asking(<<"inventory", "quests">>), Found(h), m) : h \in SeqsUpTo(MCStates, 3) \ {<<>>}, m \in Caps},
  {Call("bg1_get_state", Asking(<<"quests">>), Found(<<s>>), m) : s \in MCSnapshots, m \in Caps}}
MCArgs == {Args("absent", <<>>, FALSE, s, l) : s \in BOOLEAN, l \in {<<>>, <<0>>, <<1>>}}
          \cup {Args("list", n, o, TRUE, <<1>>) : o \in BOOLEAN,
                   n \in {<<>>, <<"quests">>, <<"inventory", "quests", "inventory">>, <<"quests", "nope">>}}
          \cup {Args("bad", <<>>, FALSE, TRUE, <<>>)}
BigState == [base |-> 150, descriptions |-> 100, items |-> <<60, 60>>]
BigSave == [base |-> 150, completed |-> 100, other |-> <<60, 60>>]
MCArguments == {
  {Call(tool, args, [rejects |-> r, snapshots |-> SubSeq(<<s, s>>, 1, n)], 500) :
     tool \in {"wow_get_state", "wow_get_history"}, args \in MCArgs, r \in BOOLEAN, s \in {BigState}, n \in 0..2},
  {Call("bg1_get_state", args, [rejects |-> r, snapshots |-> SubSeq(<<BigSave>>, 1, n)], 300) :
     args \in MCArgs, r \in BOOLEAN, n \in 0..1}}

-----------------------------------------------------------------------------
(* Migration files of up to two statements, or of three around one.         *)

Comments == {<<>>, <<"LF">>, <<"-", "-", "commit", ";", "LF">>, <<"/", "*", ";", "/", "*", "*", "/", ";", "*", "/">>}
BeginText == <<"begin">>
CommitText == <<"commit">>
Texts == {BeginText, CommitText, <<"rollback">>, <<"create", "SP", "t">>,
          <<"select", "SP", "squote", ";", "SP", "commit", ";", "squote">>,
          <<"select", "SP", "squote", "t", "squote", "squote", ";", "squote">>,
          <<"select", "SP", "E", "squote", "bslash", "squote", ";", "squote">>,
          <<"select", "SP", "squote", "bslash", "squote">>,
          <<"select", "SP", "dquote", ";", "dquote">>,
          <<"do", "SP", "$", "$", "begin", ";", "commit", ";", "$", "$">>,
          <<"do", "SP", "$", "t", "$", ";", "$", "$", ";", "$", "t", "$">>,
          <<"select", "SP", "t", "$", "$">>}
Statement(before, text) == [before |-> before, text |-> text]
Statements == {Statement(c, t) : c \in Comments, t \in Texts}
MCFilesSql == {SeqsUpTo(Statements, 2),
               {<<Statement(b, BeginText), s, Statement(c, CommitText)>> : b, c \in Comments, s \in Statements}}
MCWords == {"begin", "commit", "rollback", "create", "select", "do", "t", "E"}

-----------------------------------------------------------------------------
(* Bodies of up to three parts.                                             *)

PartOf(kind, named, big) == [kind |-> kind, named |-> named, big |-> big]
MCParts == {PartOf("field", TRUE, FALSE), PartOf("field", FALSE, FALSE), PartOf("field", TRUE, TRUE),
            PartOf("file", TRUE, FALSE), PartOf("file", TRUE, TRUE), PartOf("file", FALSE, FALSE), PartOf("skip", FALSE, FALSE)}
MCBodies == {[multipart |-> TRUE, parts |-> p, cut |-> c] : p \in SeqsUpTo(MCParts, 3), c \in BOOLEAN}
            \cup {[multipart |-> FALSE, parts |-> <<>>, cut |-> FALSE]}

MCInputs == Given("lua", MCFiles) \cup Given("save", MCSaves) \cup Given("gear", MCBags) \cup Given("state", MCShown)
            \cup Given("result", MCTrims \cup MCArguments) \cup Given("file", MCFilesSql)
\* The saves alone, of which each spell is to be read once.
MCSpellInputs == Given("save", {SpellSaves})
=============================================================================
