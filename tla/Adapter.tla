-------------------------------- MODULE Adapter --------------------------------
(***************************************************************************)
(* The install and update of one kit's adapter in each of its folders      *)
(* (bridge/internal/adapter): Updater.Sync after each fetch of the kits,   *)
(* ApplyStaged on a timer while an update waits for the game to exit, the  *)
(* swap of a folder by renames, and the menu's lines about it.             *)
(*                                                                         *)
(* mu runs the two one at a time; each hands its result to the menu after  *)
(* it let go of mu. The game, the player, the server's releases and a      *)
(* crash of the bridge come at any step. The bridge's lock keeps a second  *)
(* bridge of the user from running.                                        *)
(*                                                                         *)
(* The stage folder of an install is left out: each install makes a new    *)
(* one, and no step reads one that is left behind.                         *)
(***************************************************************************)
EXTENDS Integers, FiniteSets

CONSTANTS
  Places,     \* the adapter folders adapter.install names
  Versions,   \* the adapter versions
  FirstDisks, \* what may be at the places at first
  Budget      \* bounds on what the environment does

Nobody == "nobody"
Unreadable == 0
Missing == [kind |-> "missing", version |-> Unreadable]
Linked == [kind |-> "linked", version |-> Unreadable]
NotFolder == [kind |-> "other", version |-> Unreadable]
Folder(v) == [kind |-> "folder", version |-> v]
Entries == {Missing, Linked, NotFolder} \cup {Folder(v) : v \in Versions \cup {Unreadable}}
BudgetType == [releases : Nat, plays : Nat, crashes : Nat, faults : Nat, meddles : Nat]

ASSUME AdapterAssumption ==
  /\ Nobody \notin Places
  /\ Versions \subseteq Nat \ {0}
  /\ FirstDisks \subseteq [Places -> Entries]
  /\ Budget \in BudgetType

VARIABLES
  disk,    \* what is at each place
  old,     \* the versions of the folders renamed aside at each place
  game,    \* whether the game runs
  listed,  \* the version the server lists, or 0 while it does not list the kit
  staged,  \* Updater.staged: the version whose zip waits for the game to exit, or 0
  restart, \* Updater.restart
  sync,    \* where the sync that holds mu is
  results, \* of the poller and the timer: what a sync returned and the menu does not show yet
  menu,    \* the state the menu shows of each place
  kept,    \* history: the places that had a folder the player did not take away
  budget   \* what is left of Budget

memory == <<staged, restart, sync, results, menu>>
vars == <<disk, old, game, listed, memory, kept, budget>>

Callers == {"poller", "timer"}
Outcomes == {"none", "current", "installed", "restart", "waiting", "linked", "notfolder", "failed"}
NoOutcome == [p \in Places |-> "none"]
NoResult == {}
NoSync == [by |-> Nobody, at |-> "idle", latest |-> 0, running |-> FALSE, zip |-> FALSE, fresh |-> FALSE,
           place |-> Nobody, left |-> {}, aside |-> 0, out |-> NoOutcome]

Init ==
  /\ disk \in FirstDisks /\ old = [p \in Places |-> {}]
  /\ game = FALSE /\ listed \in Versions
  /\ staged = 0 /\ restart = {} /\ sync = NoSync
  /\ results = [c \in Callers |-> NoResult] /\ menu = NoOutcome
  /\ kept = {p \in Places : disk[p].kind = "folder"}
  /\ budget = Budget

Spend(what) == budget[what] > 0 /\ budget' = [budget EXCEPT ![what] = @ - 1]

-----------------------------------------------------------------------------
(* The start of a sync, with mu.                                           *)

(* process.Running: a list that cannot be read counts as running. *)
ReadsGame(running) == \/ running = game /\ UNCHANGED budget
                      \/ running = TRUE /\ ~game /\ Spend("faults")

Begins(by, latest, running) ==
  sync' = [NoSync EXCEPT !.by = by, !.at = "inspect", !.latest = latest, !.running = running,
                         !.zip = (staged = latest), !.left = Places]

(* A fetch lists the kit. *)
Sync ==
  /\ sync.by = Nobody /\ results["poller"] = NoResult /\ listed # 0
  /\ \E running \in BOOLEAN : ReadsGame(running) /\ Begins("poller", listed, running)
  /\ UNCHANGED <<disk, old, game, listed, staged, restart, results, menu, kept>>

(* A fetch does not list the kit: what is staged for it is dropped. *)
SyncWithout ==
  /\ sync.by = Nobody /\ results["poller"] = NoResult /\ listed = 0
  /\ staged' = 0 /\ results' = [results EXCEPT !["poller"] = {NoOutcome}]
  /\ UNCHANGED <<disk, old, game, listed, restart, sync, menu, kept, budget>>

(* The update staged is synced once the game no longer runs. *)
ApplyStaged ==
  /\ sync.by = Nobody /\ results["timer"] = NoResult /\ staged # 0 /\ ~game
  /\ \E running \in BOOLEAN : ReadsGame(running) /\ Begins("timer", staged, running)
  /\ UNCHANGED <<disk, old, game, listed, staged, restart, results, menu, kept>>

-----------------------------------------------------------------------------
(* One place after the other, in any order: syncFolder.                    *)

Done(p, outcome) ==
  [sync EXCEPT !.at = "inspect", !.place = Nobody, !.out = [@ EXCEPT ![p] = outcome], !.left = @ \ {p}, !.aside = 0]

(* A mutant of Tidied: the folders aside go, whatever is at the place. *)
TidiedAlways(p) == {}

(* tidy: the folders aside go while a folder is at the place. *)
Tidied(p) == IF disk[p].kind = "folder" THEN {} ELSE old[p]

(* A mutant of UpToDate: a folder whose version cannot be read is left as it is. *)
UpToDateIfUnreadable(p) == disk[p].version >= sync.latest \/ disk[p].version = Unreadable

UpToDate(p) == disk[p].version >= sync.latest

Current(p) ==
  /\ restart' = IF sync.running THEN restart ELSE restart \ {p}
  /\ sync' = Done(p, IF sync.running /\ p \in restart THEN "restart" ELSE "current")

Inspect ==
  /\ sync.at = "inspect"
  /\ \E p \in sync.left :
     \/ Spend("faults") /\ sync' = Done(p, "failed") /\ UNCHANGED <<old, restart>>
     \/ /\ old' = [old EXCEPT ![p] = Tidied(p)] /\ UNCHANGED budget
        /\ \/ disk[p] = Linked /\ sync' = Done(p, "linked") /\ UNCHANGED restart
           \/ disk[p] = NotFolder /\ sync' = Done(p, "notfolder") /\ UNCHANGED restart
           \/ disk[p].kind = "folder" /\ UpToDate(p) /\ Current(p)
           \/ /\ disk[p] = Missing \/ (disk[p].kind = "folder" /\ ~UpToDate(p))
              /\ sync' = [sync EXCEPT !.at = "zip", !.place = p, !.fresh = (disk[p] = Missing)] /\ UNCHANGED restart
  /\ UNCHANGED <<disk, game, listed, staged, results, menu, kept>>

(* The zip is at hand, or is downloaded: the server must still serve it. An *)
(* update waits for the game; a first install does not.                    *)
WithZip ==
  IF sync.running /\ ~sync.fresh
  THEN [Done(sync.place, "waiting") EXCEPT !.zip = TRUE]
  ELSE [sync EXCEPT !.at = "install", !.zip = TRUE]

Zip ==
  /\ sync.at = "zip"
  /\ \/ sync.zip /\ sync' = WithZip /\ UNCHANGED budget
     \/ ~sync.zip /\ listed = sync.latest /\ sync' = WithZip /\ UNCHANGED budget
     \/ ~sync.zip /\ listed # sync.latest /\ sync' = Done(sync.place, "failed") /\ UNCHANGED budget
     \/ ~sync.zip /\ Spend("faults") /\ sync' = Done(sync.place, "failed")
  /\ UNCHANGED <<disk, old, game, listed, staged, restart, results, menu, kept>>

-----------------------------------------------------------------------------
(* install: unpack, look again, rename the folder aside and the new one in. *)

Installed(p) ==
  IF sync.fresh /\ sync.running
  THEN sync' = Done(p, "restart") /\ restart' = restart \cup {p}
  ELSE sync' = Done(p, "installed") /\ UNCHANGED restart

InstallFails(p) == Spend("faults") /\ sync' = Done(p, "failed") /\ UNCHANGED <<disk, old, restart, kept>>

(* A mutant of Replaceable: a link at the place is taken for a folder. *)
AnyReplaceable(p) == disk[p].kind \in {"folder", "linked"}

Replaceable(p) == disk[p].kind = "folder"

Install ==
  /\ sync.at = "install"
  /\ LET p == sync.place IN
     \/ InstallFails(p)
     \/ /\ disk[p] = Missing
        /\ disk' = [disk EXCEPT ![p] = Folder(sync.latest)] /\ kept' = kept \cup {p}
        /\ Installed(p) /\ UNCHANGED <<old, budget>>
     \/ /\ Replaceable(p)
        /\ disk' = [disk EXCEPT ![p] = Missing] /\ old' = [old EXCEPT ![p] = @ \cup {disk[p].version}]
        /\ sync' = [sync EXCEPT !.at = "swap", !.aside = disk[p].version]
        /\ UNCHANGED <<restart, kept, budget>>
     \/ /\ disk[p] # Missing /\ ~Replaceable(p)
        /\ sync' = Done(p, "failed") /\ UNCHANGED <<disk, old, restart, kept, budget>>
  /\ UNCHANGED <<game, listed, staged, results, menu>>

(* The old folder is renamed back, or that fails too and it stays aside. *)
PutBack(p) ==
  \/ /\ disk[p] = Missing
     /\ disk' = [disk EXCEPT ![p] = Folder(sync.aside)] /\ old' = [old EXCEPT ![p] = @ \ {sync.aside}]
  \/ UNCHANGED <<disk, old>>

(* The second rename, and the removal of the old folder. *)
Swap ==
  /\ sync.at = "swap"
  /\ LET p == sync.place IN
     \/ /\ disk[p] = Missing
        /\ disk' = [disk EXCEPT ![p] = Folder(sync.latest)] /\ kept' = kept \cup {p}
        /\ \/ old' = [old EXCEPT ![p] = @ \ {sync.aside}] /\ UNCHANGED budget
           \/ UNCHANGED old /\ Spend("faults")
        /\ Installed(p)
     \/ /\ \/ Spend("faults")
           \/ disk[p] # Missing /\ UNCHANGED budget
        /\ PutBack(p)
        /\ sync' = Done(p, "failed") /\ UNCHANGED <<restart, kept>>
  /\ UNCHANGED <<game, listed, staged, results, menu>>

-----------------------------------------------------------------------------
(* The end of a sync, and the menu.                                        *)

Waits == \E p \in Places : sync.out[p] = "waiting"

StagedAfter == IF Waits THEN sync.latest ELSE 0

Finish ==
  /\ sync.by # Nobody /\ sync.left = {}
  /\ staged' = StagedAfter
  /\ results' = [results EXCEPT ![sync.by] = {sync.out}]
  /\ sync' = NoSync
  /\ UNCHANGED <<disk, old, game, listed, restart, menu, kept, budget>>

(* SetAdapters replaces the lines, MergeAdapters those of the result. One  *)
(* kit's result has all its places.                                        *)
Shown(out) == out

Show(c) ==
  /\ \E out \in results[c] : menu' = Shown(out)
  /\ results' = [results EXCEPT ![c] = NoResult]
  /\ UNCHANGED <<disk, old, game, listed, staged, restart, sync, kept, budget>>

-----------------------------------------------------------------------------
(* The environment.                                                        *)

(* The server lists another version, or the user disables the kit. *)
Release(v) ==
  /\ Spend("releases") /\ v # listed /\ listed' = v
  /\ UNCHANGED <<disk, old, game, memory, kept>>

(* The game starts or exits. *)
Play ==
  /\ Spend("plays") /\ game' = ~game
  /\ UNCHANGED <<disk, old, listed, memory, kept>>

(* The player removes the folder, or a developer puts a link there. *)
Meddle(p) ==
  /\ Spend("meddles")
  /\ \/ disk[p].kind = "folder" /\ disk' = [disk EXCEPT ![p] = Missing] /\ kept' = kept \ {p}
     \/ disk[p] = Missing /\ disk' = [disk EXCEPT ![p] = Linked] /\ UNCHANGED kept
  /\ UNCHANGED <<old, game, listed, memory>>

(* The bridge ends at any step and starts again. *)
Crash ==
  /\ Spend("crashes")
  /\ staged' = 0 /\ restart' = {} /\ sync' = NoSync
  /\ results' = [c \in Callers |-> NoResult] /\ menu' = NoOutcome
  /\ UNCHANGED <<disk, old, game, listed, kept>>

-----------------------------------------------------------------------------
SyncStep == Inspect \/ Zip \/ Install \/ Swap \/ Finish
Starts == Sync \/ SyncWithout
Environment == (\E v \in Versions \cup {0} : Release(v)) \/ Play \/ (\E p \in Places : Meddle(p)) \/ Crash
Next == SyncStep \/ Starts \/ ApplyStaged \/ (\E c \in Callers : Show(c)) \/ Environment

Spec == Init /\ [][Next]_vars

(* The poller fetches every interval and mu hands over to who waits for    *)
(* it; a sync's steps and a download end.                                  *)
FairSpec ==
  /\ Spec
  /\ WF_vars(SyncStep) /\ SF_vars(Starts) /\ SF_vars(ApplyStaged)
  /\ \A c \in Callers : WF_vars(Show(c))

-----------------------------------------------------------------------------
SyncType ==
  [by : Callers \cup {Nobody}, at : {"idle", "inspect", "zip", "install", "swap"}, latest : Versions \cup {0},
   running : BOOLEAN, zip : BOOLEAN, fresh : BOOLEAN, place : Places \cup {Nobody}, left : SUBSET Places, aside : Versions \cup {0},
   out : [Places -> Outcomes]]

(* The variables have their types, and a step between two places has one to work on. *)
TypeOK ==
  /\ disk \in [Places -> Entries] /\ old \in [Places -> SUBSET (Versions \cup {0})]
  /\ game \in BOOLEAN /\ listed \in Versions \cup {0} /\ staged \in Versions \cup {0}
  /\ restart \subseteq Places
  /\ sync \in SyncType /\ (sync.at = "idle") = (sync.by = Nobody)
  /\ sync.at \in {"zip", "install", "swap"} => sync.place \in sync.left
  /\ results \in [Callers -> SUBSET [Places -> Outcomes]]
  /\ menu \in [Places -> Outcomes] /\ kept \subseteq Places /\ budget \in BudgetType

(* "The old folder stays until the swap succeeds", through failed renames, *)
(* a crash at any step and the tidying of a later sync: a place that had a *)
(* folder has it, or has one aside.                                        *)
NeverLost == \A p \in kept : disk[p].kind = "folder" \/ old[p] # {}

(* "Never downgrades": a folder is renamed aside only for a newer version. *)
SwapsForNewer == sync.at = "swap" => sync.aside < sync.latest

(* No update costs the player an adapter folder, or a newer one.           *)
FolderSafe == NeverLost /\ SwapsForNewer

(* "An adapter folder that is itself a link is never replaced or removed", *)
(* not even one that is put there while its zip is downloaded.             *)
LinksLeftAlone == [][\A p \in Places : disk[p] \in {Linked, NotFolder} => disk'[p] = disk[p]]_vars

(* When the server goes on listing one version and the game stays closed,  *)
(* every folder becomes that version or a newer one.                       *)
Settled == <>[](~game /\ listed # 0)
Converges == Settled => <>[](\A p \in Places : disk[p].kind \in {"folder", "missing"} => disk[p].version >= listed)

(* Then the menu stops asking to close the game.                           *)
MenuSettles == Settled => <>[](\A p \in Places : menu[p] # "waiting")

(* The folders and the menu both come to rest.                             *)
Settles == Converges /\ MenuSettles
=============================================================================
