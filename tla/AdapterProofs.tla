----------------------------- MODULE AdapterProofs -----------------------------
(***************************************************************************)
(* Proofs about Adapter, for every set of places, of versions, of first    *)
(* disks and every bound.                                                  *)
(***************************************************************************)
EXTENDS Adapter, TLAPS

(* The place a sync is at still has no folder, or one that is older.       *)
Older ==
  sync.at \in {"zip", "install"} /\ disk[sync.place].kind = "folder" => disk[sync.place].version < sync.latest

IInv == TypeOK /\ NeverLost /\ Older /\ SwapsForNewer

-----------------------------------------------------------------------------
(* The entries of the disk, and the records of a sync.                     *)

LEMMA FolderTypes ==
  ASSUME NEW v \in Versions \cup {0}
  PROVE Folder(v) \in Entries /\ Folder(v).kind = "folder" /\ Folder(v).version = v /\ Folder(v) # Missing
BY DEF Entries, Folder, Unreadable, Missing

LEMMA EntryTypes ==
  /\ Missing \in Entries /\ Linked \in Entries /\ NotFolder \in Entries
  /\ Missing.kind = "missing" /\ Linked.kind = "linked" /\ NotFolder.kind = "other"
  /\ Linked # Missing /\ NotFolder # Missing
BY DEF Entries, Missing, Linked, NotFolder

LEMMA EntryVersions ==
  ASSUME NEW e \in Entries
  PROVE e.version \in Versions \cup {0}
<1>1. CASE e \in {Missing, Linked, NotFolder}
  BY <1>1 DEF Missing, Linked, NotFolder, Unreadable
<1>2. CASE e \in {Folder(v) : v \in Versions \cup {Unreadable}}
  BY <1>2, FolderTypes DEF Unreadable
<1>3. QED
  BY <1>1, <1>2 DEF Entries

LEMMA VersionsAreNumbers == Versions \cup {0} \subseteq Nat
BY AdapterAssumption

LEMMA Spends == ASSUME TypeOK, NEW what \in DOMAIN budget, Spend(what) PROVE budget' \in BudgetType
BY DEF TypeOK, Spend, BudgetType

LEMMA NoOutcomeType == NoOutcome \in [Places -> Outcomes]
BY DEF NoOutcome, Outcomes

LEMMA NoSyncType == NoSync \in SyncType /\ NoSync.at = "idle" /\ NoSync.by = Nobody
BY NoOutcomeType DEF NoSync, SyncType

LEMMA DoneType ==
  ASSUME TypeOK, NEW p \in Places, NEW outcome \in Outcomes
  PROVE /\ Done(p, outcome) \in SyncType
        /\ Done(p, outcome).at = "inspect" /\ Done(p, outcome).by = sync.by
<1>1. sync \in SyncType
  BY DEF TypeOK
<1>2. [sync.out EXCEPT ![p] = outcome] \in [Places -> Outcomes]
  BY <1>1 DEF SyncType
<1>3. QED
  BY <1>1, <1>2 DEF SyncType, Done

LEMMA BeginsType ==
  ASSUME TypeOK, NEW by \in Callers, NEW latest \in Versions \cup {0}, NEW running \in BOOLEAN, Begins(by, latest, running)
  PROVE sync' \in SyncType /\ sync'.at = "inspect" /\ sync'.by = by
<1>1. (staged = latest) \in BOOLEAN
  OBVIOUS
<1>2. QED
  BY <1>1, NoSyncType DEF SyncType, Begins, NoSync

-----------------------------------------------------------------------------
(* The starts of a sync.                                                   *)

LEMMA SyncStarts ==
  ASSUME IInv, NEW by \in Callers, NEW latest \in Versions \cup {0}, NEW running \in BOOLEAN,
         Begins(by, latest, running), UNCHANGED <<disk, old, game, listed, staged, restart, results, menu, kept>>,
         budget' \in BudgetType
  PROVE IInv'
<1>1. sync' \in SyncType /\ sync'.at = "inspect" /\ sync'.by = by
  BY BeginsType DEF IInv
<1>2. by # Nobody
  BY DEF Callers, Nobody
<1>3. TypeOK'
  BY <1>1, <1>2 DEF IInv, TypeOK
<1>4. NeverLost'
  BY DEF IInv, NeverLost
<1>5. Older' /\ SwapsForNewer'
  BY <1>1 DEF Older, SwapsForNewer
<1>6. QED
  BY <1>3, <1>4, <1>5 DEF IInv

LEMMA ReadsType == ASSUME TypeOK, NEW running \in BOOLEAN, ReadsGame(running) PROVE budget' \in BudgetType
<1>1. "faults" \in DOMAIN budget
  BY DEF TypeOK, BudgetType
<1>2. QED
  BY <1>1, Spends DEF ReadsGame, TypeOK

LEMMA SyncBegins == ASSUME IInv, Sync PROVE IInv'
<1>1. PICK running \in BOOLEAN : ReadsGame(running) /\ Begins("poller", listed, running)
  BY DEF Sync
<1>2. "poller" \in Callers /\ listed \in Versions \cup {0}
  BY DEF Callers, IInv, TypeOK
<1>3. budget' \in BudgetType
  BY <1>1, ReadsType DEF IInv
<1>4. QED
  BY <1>1, <1>2, <1>3, SyncStarts DEF Sync

LEMMA ApplyStagedStep == ASSUME IInv, ApplyStaged PROVE IInv'
<1>1. PICK running \in BOOLEAN : ReadsGame(running) /\ Begins("timer", staged, running)
  BY DEF ApplyStaged
<1>2. "timer" \in Callers /\ staged \in Versions \cup {0}
  BY DEF Callers, IInv, TypeOK
<1>3. budget' \in BudgetType
  BY <1>1, ReadsType DEF IInv
<1>4. QED
  BY <1>1, <1>2, <1>3, SyncStarts DEF ApplyStaged

LEMMA SyncWithoutStep == ASSUME IInv, SyncWithout PROVE IInv'
<1>1. results' \in [Callers -> SUBSET [Places -> Outcomes]]
  BY NoOutcomeType DEF IInv, TypeOK, SyncWithout
<1>2. TypeOK'
  BY <1>1 DEF IInv, TypeOK, SyncWithout
<1>3. NeverLost' /\ Older' /\ SwapsForNewer'
  BY DEF IInv, NeverLost, Older, SwapsForNewer, SyncWithout
<1>4. QED
  BY <1>2, <1>3 DEF IInv

-----------------------------------------------------------------------------
(* A step that is done with a place.                                       *)

LEMMA PlaceDone ==
  ASSUME IInv, NEW p \in Places, NEW outcome \in Outcomes, sync' = Done(p, outcome), sync.at # "idle",
         disk' \in [Places -> Entries], old' \in [Places -> SUBSET (Versions \cup {0})],
         restart' \subseteq Places, kept' \subseteq Places, budget' \in BudgetType, NeverLost',
         UNCHANGED <<game, listed, staged, results, menu>>
  PROVE IInv'
<1>1. sync' \in SyncType /\ sync'.at = "inspect" /\ sync'.by = sync.by
  BY DoneType DEF IInv
<1>2. sync.by # Nobody
  BY DEF IInv, TypeOK
<1>3. TypeOK'
  BY <1>1, <1>2 DEF IInv, TypeOK
<1>4. Older' /\ SwapsForNewer'
  BY <1>1 DEF Older, SwapsForNewer
<1>5. QED
  BY <1>3, <1>4 DEF IInv

LEMMA FaultType == ASSUME TypeOK, Spend("faults") PROVE budget' \in BudgetType
<1>1. "faults" \in DOMAIN budget
  BY DEF TypeOK, BudgetType
<1>2. QED
  BY <1>1, Spends

LEMMA InspectStep == ASSUME IInv, Inspect PROVE IInv'
<1>0. CASE \E p \in sync.left : Spend("faults") /\ sync' = Done(p, "failed") /\ UNCHANGED <<old, restart>>
  <2>1. PICK p \in sync.left : sync' = Done(p, "failed") /\ UNCHANGED <<old, restart>>
    BY <1>0
  <2>2. p \in Places /\ sync.at # "idle" /\ "failed" \in Outcomes
    BY DEF IInv, TypeOK, SyncType, Inspect, Outcomes
  <2>3. budget' \in BudgetType
    BY <1>0, FaultType DEF IInv
  <2>4. UNCHANGED <<disk, game, listed, staged, results, menu, kept>>
    BY DEF Inspect
  <2>5. NeverLost'
    BY <2>1, <2>4 DEF IInv, NeverLost
  <2>6. QED
    BY <2>1, <2>2, <2>3, <2>4, <2>5, PlaceDone DEF IInv, TypeOK
<1> SUFFICES ASSUME ~(\E p \in sync.left : Spend("faults") /\ sync' = Done(p, "failed") /\ UNCHANGED <<old, restart>>)
             PROVE  IInv'
  BY <1>0
<1>1. PICK p \in sync.left :
     /\ old' = [old EXCEPT ![p] = Tidied(p)] /\ UNCHANGED budget
     /\ \/ disk[p] = Linked /\ sync' = Done(p, "linked") /\ UNCHANGED restart
        \/ disk[p] = NotFolder /\ sync' = Done(p, "notfolder") /\ UNCHANGED restart
        \/ disk[p].kind = "folder" /\ UpToDate(p) /\ Current(p)
        \/ /\ disk[p] = Missing \/ (disk[p].kind = "folder" /\ ~UpToDate(p))
           /\ sync' = [sync EXCEPT !.at = "zip", !.place = p, !.fresh = (disk[p] = Missing)] /\ UNCHANGED restart
  BY DEF Inspect
<1>2. p \in Places /\ sync \in SyncType /\ sync.at = "inspect"
  BY DEF IInv, TypeOK, SyncType, Inspect
<1>3. UNCHANGED <<disk, game, listed, staged, results, menu, kept, budget>>
  BY <1>1 DEF Inspect
<1>4. old' \in [Places -> SUBSET (Versions \cup {0})]
  BY <1>1, <1>2 DEF IInv, TypeOK, Tidied
<1>5. NeverLost'
  <2> SUFFICES ASSUME NEW q \in kept' PROVE disk'[q].kind = "folder" \/ old'[q] # {}
    BY DEF NeverLost
  <2>1. q \in Places /\ (disk[q].kind = "folder" \/ old[q] # {})
    BY <1>3 DEF IInv, TypeOK, NeverLost
  <2>2. CASE q # p
    BY <1>1, <1>3, <2>1, <2>2 DEF IInv, TypeOK
  <2>3. CASE q = p
    BY <1>1, <1>2, <1>3, <2>1, <2>3 DEF IInv, TypeOK, Tidied
  <2>4. QED
    BY <2>2, <2>3
<1>6. {"linked", "notfolder", "current", "restart"} \subseteq Outcomes
  BY DEF Outcomes
<1>7. CASE disk[p] = Linked /\ sync' = Done(p, "linked") /\ UNCHANGED restart
  BY <1>2, <1>3, <1>4, <1>5, <1>6, <1>7, PlaceDone DEF IInv, TypeOK
<1>8. CASE disk[p] = NotFolder /\ sync' = Done(p, "notfolder") /\ UNCHANGED restart
  BY <1>2, <1>3, <1>4, <1>5, <1>6, <1>8, PlaceDone DEF IInv, TypeOK
<1>9. CASE disk[p].kind = "folder" /\ UpToDate(p) /\ Current(p)
  <2>1. PICK outcome \in Outcomes : sync' = Done(p, outcome)
    BY <1>6, <1>9 DEF Current
  <2>2. restart' \subseteq Places
    BY <1>9 DEF Current, IInv, TypeOK
  <2>3. QED
    BY <1>2, <1>3, <1>4, <1>5, <2>1, <2>2, PlaceDone DEF IInv, TypeOK
<1>10. CASE /\ disk[p] = Missing \/ (disk[p].kind = "folder" /\ ~UpToDate(p))
            /\ sync' = [sync EXCEPT !.at = "zip", !.place = p, !.fresh = (disk[p] = Missing)] /\ UNCHANGED restart
  <2>1. (disk[p] = Missing) \in BOOLEAN
    OBVIOUS
  <2>2. sync' \in SyncType /\ sync'.at = "zip" /\ sync'.place = p /\ sync'.left = sync.left /\ sync'.by = sync.by /\ sync'.latest = sync.latest
    BY <1>2, <1>10, <2>1 DEF SyncType
  <2>3. sync.by # Nobody
    BY <1>2 DEF IInv, TypeOK
  <2>4. TypeOK'
    BY <1>1, <1>3, <1>4, <1>10, <2>2, <2>3 DEF IInv, TypeOK
  <2>5. disk[p].version \in Nat /\ sync.latest \in Nat
    BY <1>2, EntryVersions, VersionsAreNumbers DEF IInv, TypeOK, SyncType
  <2>6. Older'
    BY <1>3, <1>10, <2>2, <2>5, EntryTypes DEF Older, UpToDate
  <2>7. SwapsForNewer'
    BY <2>2 DEF SwapsForNewer
  <2>8. QED
    BY <1>5, <2>4, <2>6, <2>7 DEF IInv
<1>11. QED
  BY <1>1, <1>7, <1>8, <1>9, <1>10

LEMMA ZipStep == ASSUME IInv, Zip PROVE IInv'
<1> DEFINE p == sync.place
<1>1. p \in Places /\ p \in sync.left /\ sync \in SyncType /\ sync.at = "zip" /\ sync.by # Nobody
  BY DEF IInv, TypeOK, SyncType, Zip
<1>2. UNCHANGED <<disk, old, game, listed, staged, restart, results, menu, kept>>
  BY DEF Zip
<1>3. budget' \in BudgetType
  BY FaultType DEF Zip, IInv, TypeOK
<1>4. NeverLost'
  BY <1>2 DEF IInv, NeverLost
<1>5. "failed" \in Outcomes /\ "waiting" \in Outcomes
  BY DEF Outcomes
<1>6. CASE sync' = Done(sync.place, "failed")
  BY <1>1, <1>2, <1>3, <1>4, <1>5, <1>6, PlaceDone DEF IInv, TypeOK
<1>7. CASE sync' = [Done(sync.place, "waiting") EXCEPT !.zip = TRUE]
  <2>1. Done(p, "waiting") \in SyncType /\ Done(p, "waiting").at = "inspect" /\ Done(p, "waiting").by = sync.by
    BY <1>1, <1>5, DoneType DEF IInv
  <2>2. sync' \in SyncType /\ sync'.at = "inspect" /\ sync'.by = sync.by
    BY <1>7, <2>1 DEF SyncType
  <2>3. TypeOK'
    BY <1>1, <1>2, <1>3, <2>2 DEF IInv, TypeOK
  <2>4. QED
    BY <1>4, <2>2, <2>3 DEF IInv, Older, SwapsForNewer
<1>8. CASE sync' = [sync EXCEPT !.at = "install", !.zip = TRUE]
  <2>1. /\ sync' \in SyncType /\ sync'.at = "install" /\ sync'.place = p /\ sync'.left = sync.left
        /\ sync'.by = sync.by /\ sync'.latest = sync.latest
    BY <1>1, <1>8 DEF SyncType
  <2>2. TypeOK'
    BY <1>1, <1>2, <1>3, <2>1 DEF IInv, TypeOK
  <2>3. Older' /\ SwapsForNewer'
    BY <1>1, <1>2, <2>1 DEF IInv, Older, SwapsForNewer
  <2>4. QED
    BY <1>4, <2>2, <2>3 DEF IInv
<1>9. QED
  BY <1>6, <1>7, <1>8 DEF Zip, WithZip

-----------------------------------------------------------------------------
(* The two renames. What is at a place changes; the other places keep what  *)
(* they have.                                                              *)

LEMMA NeverLostElsewhere ==
  ASSUME IInv, NEW p \in Places, kept' \subseteq kept \cup {p},
         \A q \in Places \ {p} : disk'[q] = disk[q] /\ old'[q] = old[q],
         p \in kept' => disk'[p].kind = "folder" \/ old'[p] # {}
  PROVE NeverLost'
BY DEF IInv, TypeOK, NeverLost

LEMMA DoneInstalled ==
  ASSUME IInv, NEW p \in Places, Installed(p)
  PROVE \E outcome \in Outcomes : sync' = Done(p, outcome) /\ restart' \subseteq Places
BY DEF IInv, TypeOK, Installed, Outcomes

LEMMA InstallStep == ASSUME IInv, Install PROVE IInv'
<1> DEFINE p == sync.place
<1>1. p \in Places /\ p \in sync.left /\ sync \in SyncType /\ sync.at = "install" /\ sync.by # Nobody /\ sync.latest \in Versions \cup {0}
  BY DEF IInv, TypeOK, SyncType, Install
<1>2. UNCHANGED <<game, listed, staged, results, menu>>
  BY DEF Install
<1>3. "failed" \in Outcomes
  BY DEF Outcomes
<1>4. disk \in [Places -> Entries] /\ old \in [Places -> SUBSET (Versions \cup {0})] /\ kept \subseteq Places
  BY DEF IInv, TypeOK
<1>5. CASE InstallFails(p)
  <2>1. budget' \in BudgetType
    BY <1>5, FaultType DEF InstallFails, IInv
  <2>2. NeverLost'
    BY <1>5 DEF IInv, NeverLost, InstallFails
  <2>3. QED
    BY <1>1, <1>2, <1>3, <1>5, <2>1, <2>2, PlaceDone DEF InstallFails, IInv, TypeOK
<1>6. CASE /\ disk[p] = Missing
           /\ disk' = [disk EXCEPT ![p] = Folder(sync.latest)] /\ kept' = kept \cup {p}
           /\ Installed(p) /\ UNCHANGED <<old, budget>>
  <2>1. Folder(sync.latest) \in Entries /\ Folder(sync.latest).kind = "folder"
    BY <1>1, FolderTypes
  <2>2. disk'[p] = Folder(sync.latest) /\ disk' \in [Places -> Entries]
    BY <1>1, <1>4, <1>6, <2>1
  <2>3. \A q \in Places \ {p} : disk'[q] = disk[q] /\ old'[q] = old[q]
    BY <1>1, <1>4, <1>6
  <2>4. kept' \subseteq Places /\ kept' \subseteq kept \cup {p}
    BY <1>1, <1>4, <1>6
  <2>5. NeverLost'
    BY <1>1, <2>1, <2>2, <2>3, <2>4, NeverLostElsewhere
  <2>6. PICK outcome \in Outcomes : sync' = Done(p, outcome) /\ restart' \subseteq Places
    BY <1>1, <1>6, DoneInstalled
  <2>7. old' \in [Places -> SUBSET (Versions \cup {0})] /\ budget' \in BudgetType
    BY <1>6 DEF IInv, TypeOK
  <2>8. QED
    BY <1>1, <1>2, <2>2, <2>4, <2>5, <2>6, <2>7, PlaceDone
<1>7. CASE /\ Replaceable(p)
           /\ disk' = [disk EXCEPT ![p] = Missing] /\ old' = [old EXCEPT ![p] = @ \cup {disk[p].version}]
           /\ sync' = [sync EXCEPT !.at = "swap", !.aside = disk[p].version]
           /\ UNCHANGED <<restart, kept, budget>>
  <2>1. disk[p].version \in Versions \cup {0}
    BY <1>1, <1>4, EntryVersions
  <2>2. disk' \in [Places -> Entries]
    BY <1>1, <1>4, <1>7, EntryTypes
  <2>3. old' \in [Places -> SUBSET (Versions \cup {0})] /\ old'[p] # {}
    BY <1>1, <1>4, <1>7, <2>1
  <2>4. \A q \in Places \ {p} : disk'[q] = disk[q] /\ old'[q] = old[q]
    BY <1>1, <1>4, <1>7
  <2>5. NeverLost'
    BY <1>1, <1>7, <2>3, <2>4, NeverLostElsewhere
  <2>6. /\ sync' \in SyncType /\ sync'.at = "swap" /\ sync'.place = p /\ sync'.left = sync.left
        /\ sync'.by = sync.by /\ sync'.latest = sync.latest /\ sync'.aside = disk[p].version
    BY <1>1, <1>7, <2>1 DEF SyncType
  <2>7. TypeOK'
    BY <1>1, <1>2, <1>7, <2>2, <2>3, <2>6 DEF IInv, TypeOK
  <2>8. SwapsForNewer' /\ Older'
    BY <1>1, <1>7, <2>6 DEF IInv, Older, SwapsForNewer, Replaceable
  <2>9. QED
    BY <2>5, <2>7, <2>8 DEF IInv
<1>8. CASE sync' = Done(p, "failed") /\ UNCHANGED <<disk, old, restart, kept, budget>>
  <2>1. NeverLost'
    BY <1>8 DEF IInv, NeverLost
  <2>2. QED
    BY <1>1, <1>2, <1>3, <1>8, <2>1, PlaceDone DEF IInv, TypeOK
<1>9. QED
  BY <1>5, <1>6, <1>7, <1>8 DEF Install

LEMMA SwapStep == ASSUME IInv, Swap PROVE IInv'
<1> DEFINE p == sync.place
<1>1. /\ p \in Places /\ sync \in SyncType /\ sync.at = "swap" /\ sync.by # Nobody
      /\ sync.latest \in Versions \cup {0} /\ sync.aside \in Versions \cup {0}
  BY DEF IInv, TypeOK, SyncType, Swap
<1>2. UNCHANGED <<game, listed, staged, results, menu>>
  BY DEF Swap
<1>3. "failed" \in Outcomes
  BY DEF Outcomes
<1>4. disk \in [Places -> Entries] /\ old \in [Places -> SUBSET (Versions \cup {0})] /\ kept \subseteq Places
  BY DEF IInv, TypeOK
<1>5. budget' \in BudgetType
  BY FaultType DEF Swap, IInv, TypeOK
<1>6. Folder(sync.latest) \in Entries /\ Folder(sync.latest).kind = "folder" /\ Folder(sync.aside) \in Entries /\ Folder(sync.aside).kind = "folder"
  BY <1>1, FolderTypes
<1>7. CASE /\ disk' = [disk EXCEPT ![p] = Folder(sync.latest)] /\ kept' = kept \cup {p}
           /\ old' = [old EXCEPT ![p] = @ \ {sync.aside}] \/ UNCHANGED old
           /\ Installed(p)
  <2>1. disk'[p] = Folder(sync.latest) /\ disk' \in [Places -> Entries]
    BY <1>1, <1>4, <1>6, <1>7
  <2>2. old' \in [Places -> SUBSET (Versions \cup {0})]
    BY <1>1, <1>4, <1>7
  <2>3. \A q \in Places \ {p} : disk'[q] = disk[q] /\ old'[q] = old[q]
    BY <1>1, <1>4, <1>7
  <2>4. kept' \subseteq Places /\ kept' \subseteq kept \cup {p}
    BY <1>1, <1>4, <1>7
  <2>5. NeverLost'
    BY <1>1, <1>6, <2>1, <2>3, <2>4, NeverLostElsewhere
  <2>6. PICK outcome \in Outcomes : sync' = Done(p, outcome) /\ restart' \subseteq Places
    BY <1>1, <1>7, DoneInstalled
  <2>7. QED
    BY <1>1, <1>2, <1>5, <2>1, <2>2, <2>4, <2>5, <2>6, PlaceDone
<1>8. CASE PutBack(p) /\ sync' = Done(p, "failed") /\ UNCHANGED <<restart, kept>>
  <2>1. CASE UNCHANGED <<disk, old>>
    <3>1. NeverLost'
      BY <1>8, <2>1 DEF IInv, NeverLost
    <3>2. QED
      BY <1>1, <1>2, <1>3, <1>4, <1>5, <1>8, <2>1, <3>1, PlaceDone DEF IInv, TypeOK
  <2>2. CASE disk' = [disk EXCEPT ![p] = Folder(sync.aside)] /\ old' = [old EXCEPT ![p] = @ \ {sync.aside}]
    <3>1. disk'[p] = Folder(sync.aside) /\ disk' \in [Places -> Entries]
      BY <1>1, <1>4, <1>6, <2>2
    <3>2. old' \in [Places -> SUBSET (Versions \cup {0})]
      BY <1>1, <1>4, <2>2
    <3>3. \A q \in Places \ {p} : disk'[q] = disk[q] /\ old'[q] = old[q]
      BY <1>1, <1>4, <2>2
    <3>4. NeverLost'
      BY <1>1, <1>6, <1>8, <3>1, <3>3, NeverLostElsewhere
    <3>5. restart' \subseteq Places /\ kept' \subseteq Places
      BY <1>8 DEF IInv, TypeOK
    <3>6. QED
      BY <1>1, <1>2, <1>3, <1>5, <1>8, <3>1, <3>2, <3>4, <3>5, PlaceDone
  <2>3. QED
    BY <1>8, <2>1, <2>2 DEF PutBack
<1>9. QED
  BY <1>7, <1>8 DEF Swap

-----------------------------------------------------------------------------
(* The end of a sync, the menu and the environment.                        *)

LEMMA FinishStep == ASSUME IInv, Finish PROVE IInv'
<1>1. sync.by \in Callers /\ sync.out \in [Places -> Outcomes] /\ sync.latest \in Versions \cup {0}
  BY DEF IInv, TypeOK, SyncType, Finish
<1>2. staged' \in Versions \cup {0}
  BY <1>1 DEF Finish, StagedAfter
<1>3. results' \in [Callers -> SUBSET [Places -> Outcomes]]
  BY <1>1 DEF Finish, IInv, TypeOK
<1>4. sync' = NoSync
  BY DEF Finish
<1>5. TypeOK'
  BY <1>2, <1>3, <1>4, NoSyncType DEF Finish, IInv, TypeOK
<1>6. NeverLost' /\ Older' /\ SwapsForNewer'
  BY <1>4, NoSyncType DEF Finish, IInv, NeverLost, Older, SwapsForNewer
<1>7. QED
  BY <1>5, <1>6 DEF IInv

LEMMA ShowStep == ASSUME IInv, NEW c \in Callers, Show(c) PROVE IInv'
<1>1. menu' \in [Places -> Outcomes]
  BY DEF Show, Shown, IInv, TypeOK
<1>2. results' \in [Callers -> SUBSET [Places -> Outcomes]]
  BY DEF Show, NoResult, IInv, TypeOK
<1>3. TypeOK'
  BY <1>1, <1>2 DEF Show, IInv, TypeOK
<1>4. NeverLost' /\ Older' /\ SwapsForNewer'
  BY DEF Show, IInv, NeverLost, Older, SwapsForNewer
<1>5. QED
  BY <1>3, <1>4 DEF IInv

LEMMA ReleaseStep == ASSUME IInv, NEW v \in Versions \cup {0}, Release(v) PROVE IInv'
<1>1. budget' \in BudgetType
  BY Spends DEF Release, IInv, TypeOK, BudgetType
<1>2. TypeOK'
  BY <1>1 DEF Release, memory, IInv, TypeOK
<1>3. NeverLost' /\ Older' /\ SwapsForNewer'
  BY DEF Release, memory, IInv, NeverLost, Older, SwapsForNewer
<1>4. QED
  BY <1>2, <1>3 DEF IInv

LEMMA PlayStep == ASSUME IInv, Play PROVE IInv'
<1>1. budget' \in BudgetType
  BY Spends DEF Play, IInv, TypeOK, BudgetType
<1>2. TypeOK'
  BY <1>1 DEF Play, memory, IInv, TypeOK
<1>3. NeverLost' /\ Older' /\ SwapsForNewer'
  BY DEF Play, memory, IInv, NeverLost, Older, SwapsForNewer
<1>4. QED
  BY <1>2, <1>3 DEF IInv

LEMMA MeddleStep == ASSUME IInv, NEW p \in Places, Meddle(p) PROVE IInv'
<1>1. budget' \in BudgetType
  BY Spends DEF Meddle, IInv, TypeOK, BudgetType
<1>2. disk \in [Places -> Entries]
  BY DEF IInv, TypeOK
<1>3. PICK e \in {Missing, Linked} : disk' = [disk EXCEPT ![p] = e]
  BY DEF Meddle
<1>4. e \in Entries /\ e.kind # "folder"
  BY EntryTypes
<1>5. disk' \in [Places -> Entries] /\ disk'[p] = e
  BY <1>2, <1>3, <1>4
<1>6. \A q \in Places \ {p} : disk'[q] = disk[q] /\ old'[q] = old[q]
  BY <1>2, <1>3 DEF Meddle, IInv, TypeOK
<1>7. kept' \subseteq kept
  BY DEF Meddle
<1>8. TypeOK'
  BY <1>1, <1>5, <1>7 DEF Meddle, memory, IInv, TypeOK
<1>9. p \in kept' => old'[p] # {}
  BY EntryTypes DEF Meddle, IInv, NeverLost
<1>10. NeverLost'
  BY <1>6, <1>7, <1>9, NeverLostElsewhere
<1>11. SwapsForNewer'
  BY DEF Meddle, memory, IInv, SwapsForNewer
<1>12. Older'
  <2> SUFFICES ASSUME sync.at \in {"zip", "install"}, disk'[sync.place].kind = "folder"
               PROVE disk'[sync.place].version < sync.latest
    BY DEF Older, Meddle, memory
  <2>1. sync.place \in Places /\ sync.place # p
    BY <1>4, <1>5 DEF IInv, TypeOK, SyncType
  <2>2. QED
    BY <1>6, <2>1 DEF IInv, Older
<1>13. QED
  BY <1>8, <1>10, <1>11, <1>12 DEF IInv

LEMMA CrashStep == ASSUME IInv, Crash PROVE IInv'
<1>1. budget' \in BudgetType
  BY Spends DEF Crash, IInv, TypeOK, BudgetType
<1>2. results' \in [Callers -> SUBSET [Places -> Outcomes]] /\ menu' \in [Places -> Outcomes]
  BY NoOutcomeType DEF Crash, NoResult
<1>3. sync' = NoSync
  BY DEF Crash
<1>4. TypeOK'
  BY <1>1, <1>2, <1>3, NoSyncType DEF Crash, IInv, TypeOK
<1>5. NeverLost' /\ Older' /\ SwapsForNewer'
  BY <1>3, NoSyncType DEF Crash, IInv, NeverLost, Older, SwapsForNewer
<1>6. QED
  BY <1>4, <1>5 DEF IInv

-----------------------------------------------------------------------------
(* The invariant.                                                          *)

LEMMA InitIInv == Init => IInv
<1> SUFFICES ASSUME Init PROVE IInv
  OBVIOUS
<1>1. disk \in [Places -> Entries] /\ budget \in BudgetType
  BY AdapterAssumption DEF Init
<1>2. results \in [Callers -> SUBSET [Places -> Outcomes]]
  BY DEF Init, NoResult
<1>3. TypeOK
  BY <1>1, <1>2, NoSyncType, NoOutcomeType DEF Init, TypeOK
<1>4. NeverLost /\ Older /\ SwapsForNewer
  BY NoSyncType DEF Init, NeverLost, Older, SwapsForNewer
<1>5. QED
  BY <1>3, <1>4 DEF IInv

LEMMA NextIInv == IInv /\ [Next]_vars => IInv'
<1> SUFFICES ASSUME IInv, [Next]_vars PROVE IInv'
  OBVIOUS
<1>1. CASE SyncStep
  BY <1>1, InspectStep, ZipStep, InstallStep, SwapStep, FinishStep DEF SyncStep
<1>2. CASE Starts
  BY <1>2, SyncBegins, SyncWithoutStep DEF Starts
<1>3. CASE ApplyStaged
  BY <1>3, ApplyStagedStep
<1>4. CASE \E c \in Callers : Show(c)
  BY <1>4, ShowStep
<1>5. CASE Environment
  BY <1>5, ReleaseStep, PlayStep, MeddleStep, CrashStep DEF Environment
<1>6. CASE UNCHANGED vars
  BY <1>6 DEF vars, memory, IInv, TypeOK, NeverLost, Older, SwapsForNewer
<1>7. QED
  BY <1>1, <1>2, <1>3, <1>4, <1>5, <1>6 DEF Next

LEMMA Invariant == Spec => []IInv
BY InitIInv, NextIInv, PTL DEF Spec

-----------------------------------------------------------------------------
(* The variables keep their types, and a sync between two steps of a place *)
(* still has that place to do.                                             *)
THEOREM TypeCorrect == Spec => []TypeOK
<1>1. IInv => TypeOK
  BY DEF IInv
<1>2. QED
  BY <1>1, Invariant, PTL

(* A folder the player did not take away is at its place or aside, through *)
(* every crash and every failed rename.                                    *)
THEOREM FolderKept == Spec => []NeverLost
<1>1. IInv => NeverLost
  BY DEF IInv
<1>2. QED
  BY <1>1, Invariant, PTL

(* A folder is renamed aside only for a newer version.                     *)
THEOREM NewerOnly == Spec => []SwapsForNewer
<1>1. IInv => SwapsForNewer
  BY DEF IInv
<1>2. QED
  BY <1>1, Invariant, PTL

(* The swap by renames: no update costs the player a folder, or a newer    *)
(* version of it.                                                          *)
THEOREM FoldersSafe == Spec => []FolderSafe
<1>1. IInv => FolderSafe
  BY DEF IInv, FolderSafe
<1>2. QED
  BY <1>1, Invariant, PTL

LEMMA LinkStep ==
  IInv /\ [Next]_vars => [\A p \in Places : disk[p] \in {Linked, NotFolder} => disk'[p] = disk[p]]_vars
<1> SUFFICES ASSUME IInv, Next, NEW p \in Places, disk[p] \in {Linked, NotFolder} PROVE disk'[p] = disk[p]
  OBVIOUS
<1>1. disk \in [Places -> Entries] /\ disk[p] # Missing /\ disk[p].kind # "folder"
  BY EntryTypes DEF IInv, TypeOK
<1>2. CASE Install
  BY <1>1, <1>2 DEF Install, InstallFails, Replaceable
<1>3. CASE Swap
  BY <1>1, <1>3 DEF Swap, PutBack
<1>4. CASE \E q \in Places : Meddle(q)
  BY <1>1, <1>4 DEF Meddle
<1>5. CASE Inspect \/ Zip \/ Finish \/ Starts \/ ApplyStaged \/ (\E c \in Callers : Show(c))
  BY <1>5 DEF Inspect, Zip, Finish, Starts, Sync, SyncWithout, ApplyStaged, Show
<1>6. CASE (\E v \in Versions \cup {0} : Release(v)) \/ Play \/ Crash
  BY <1>6 DEF Release, Play, Crash
<1>7. QED
  BY <1>2, <1>3, <1>4, <1>5, <1>6 DEF Next, SyncStep, Environment

(* A link or a file at a place is never replaced or removed.               *)
THEOREM LinksSafe == Spec => LinksLeftAlone
BY Invariant, LinkStep, PTL DEF Spec, LinksLeftAlone
=============================================================================
