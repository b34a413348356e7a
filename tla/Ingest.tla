-------------------------------- MODULE Ingest --------------------------------
(***************************************************************************)
(* The transactions that share a user's rows on the platform: uploads      *)
(* (platform/src/ingest.ts), the device limit they claim slots of, the     *)
(* revocation of a device (devices.ts), "Delete my data" and "Delete       *)
(* account" (account.ts), retention (retention.ts) and the re-parse command *)
(* (reparse-uploads.ts).                                                   *)
(*                                                                         *)
(* Postgres runs them at its default level, read committed: a statement    *)
(* sees what is committed, and locks on rows are kept to the end of the    *)
(* transaction. A transaction here is a sequence of its locking steps; what *)
(* it writes appears when it commits. Where transactions wait for one      *)
(* another in a circle, Postgres aborts one of them.                       *)
(*                                                                         *)
(* One user, and one source instance per device: instances of one device   *)
(* share its lock.                                                         *)
(***************************************************************************)
EXTENDS Integers, FiniteSets, Sequences

CONSTANTS
  Requests,  \* the requests the server handles at once
  Devices,   \* devices.id
  Approved,  \* the devices approved before the start
  Contents,  \* the bytes a bridge may upload, by their sha256
  Limits,    \* DeviceLimits: the slots of each tier
  Budget     \* bounds on how often each thing happens

Tiers == {"free", "paid"}
BudgetType == [uploads : Nat, deletes : Nat, changes : Nat, batches : Nat, reparses : Nat]

ASSUME IngestAssumption ==
  /\ Devices \subseteq Nat /\ Approved \subseteq Devices /\ IsFiniteSet(Devices)
  /\ Limits \in [Tiers -> Nat \ {0}]
  /\ Requests \cap {"delete", "reparse", "retention", "statement"} = {} /\ "none" \notin Contents
  /\ Budget \in BudgetType

VARIABLES
  tier,      \* users.tier, or "gone"
  state,     \* of each device's row: "none", "live", "ended" (its grant is gone), "revoked"
  stamp,     \* devices.first_stored_at, or 0 for null
  uploads,   \* the rows of uploads
  snapshots, \* the ids of the uploads that have a row in snapshots
  nextId,    \* the sequence of uploads.id
  clock,     \* the time of the latest begin of an upload's transaction
  locks,     \* the row locks held
  req,       \* where each request is
  del,       \* where "Delete my data" or "Delete account" is, and the devices approved meanwhile
  rep,       \* where the re-parse of an upload is
  ret,       \* where a batch of the retention is
  lastRow,   \* history: the bytes of each device's latest row, while no row of it was deleted since
  most,      \* history: the most slots a tier gave the user
  budget     \* what is left of Budget

rows == <<tier, state, stamp, uploads, snapshots>>
history == <<lastRow, most>>
vars == <<rows, nextId, clock, locks, req, del, rep, ret, history, budget>>

NoBytes == "none"
NoReq == [at |-> "idle", dev |-> 0, sha |-> NoBytes, claimed |-> FALSE, stamp |-> 0, id |-> 0, parsed |-> FALSE]
NoDel == [at |-> "idle", account |-> FALSE, left |-> {}, snaps |-> {}, ups |-> {}, again |-> FALSE, late |-> {}]
NoRep == [at |-> "idle", id |-> 0, parsed |-> FALSE]
NoRet == [at |-> "idle", ids |-> {}]

(* The user may have stored from some devices before, whose rows expired.  *)
Init ==
  /\ tier = "free"
  /\ state = [d \in Devices |-> IF d \in Approved THEN "live" ELSE "none"]
  /\ \E holders \in SUBSET Approved :
       /\ Cardinality(holders) <= Limits["free"]
       /\ stamp = [d \in Devices |-> IF d \in holders THEN 1 ELSE 0]
  /\ uploads = {} /\ snapshots = {} /\ nextId = 1 /\ clock = 1 /\ locks = {}
  /\ req = [p \in Requests |-> NoReq] /\ del = NoDel /\ rep = NoRep /\ ret = NoRet
  /\ lastRow = [d \in Devices |-> NoBytes] /\ most = Limits["free"]
  /\ budget = Budget

Spend(what) == budget[what] > 0 /\ budget' = [budget EXCEPT ![what] = @ - 1]

Ids == {u.id : u \in uploads}
Upload(id) == CHOOSE u \in uploads : u.id = id
RowsOf(d) == {u \in uploads : u.dev = d}
Existing == {d \in Devices : state[d] # "none"}

-----------------------------------------------------------------------------
(* Row locks. for update and a delete take "update", for no key update and *)
(* an update of other columns "nokey", and the check of a foreign key      *)
(* "keyshare".                                                             *)

UserRow == <<"user", 0>>
DeviceRow(d) == <<"device", d>>
UploadRow(id) == <<"upload", id>>
SnapshotRow(id) == <<"snapshot", id>>
Lock(row, mode) == [row |-> row, mode |-> mode]

Conflict(m, n) == "update" \in {m, n} \/ (m = "nokey" /\ n = "nokey")
Blocks(q, p, wanted) ==
  q # p /\ \E l \in locks : l.by = q /\ l.lock.row = wanted.row /\ Conflict(l.lock.mode, wanted.mode)

(* A mutant of DeviceLock: the device is read without a lock. *)
NoDeviceLock(p) == {}

DeviceLock(p) == {Lock(DeviceRow(req[p].dev), "update")}

(* A mutant of ClaimLock: a device without a slot does not lock its user. *)
NoClaimLock(p) == {}

ClaimLock(p) == IF req[p].claimed THEN {} ELSE {Lock(UserRow, "nokey")}

(* A mutant of DeleteLock: the delete does not lock the user. *)
NoDeleteLock == {}

DeleteLock == {Lock(UserRow, "update")}

(* What the next statement of each transaction has to lock.                *)
NeedsOfRequest(p) ==
  CASE req[p].at = "begun" -> DeviceLock(p)
    [] req[p].at = "device" -> ClaimLock(p)
    [] req[p].at = "checked" -> {Lock(UserRow, "keyshare")}
    [] OTHER -> {}

First(S) == CHOOSE d \in S : \A e \in S : d <= e
NeedsOfDelete ==
  CASE del.at = "devices" -> IF del.left = {} THEN {} ELSE {Lock(DeviceRow(First(del.left)), "nokey")}
    [] del.at = "user" -> DeleteLock
    [] del.at = "snapshots" -> {Lock(SnapshotRow(id), "update") : id \in snapshots}
    [] del.at = "uploads" -> {Lock(UploadRow(id), "update") : id \in Ids}
    [] del.at = "account" -> {Lock(DeviceRow(d), "update") : d \in Existing}
    [] OTHER -> {}

NeedsOfReparse ==
  CASE rep.at = "begun" -> {Lock(UploadRow(rep.id), "update")}
    [] rep.at = "locked" /\ rep.id \in snapshots -> {Lock(SnapshotRow(rep.id), IF rep.parsed THEN "nokey" ELSE "update")}
    [] rep.at = "locked" /\ rep.parsed /\ rep.id \notin snapshots -> {Lock(UserRow, "keyshare")}
    [] OTHER -> {}

NeedsOfRetention ==
  IF ret.at = "locked" THEN {Lock(SnapshotRow(id), "update") : id \in ret.ids \cap snapshots} ELSE {}

Processes == Requests \cup {"delete", "reparse", "retention"}
Needs(p) ==
  CASE p = "delete" -> NeedsOfDelete
    [] p = "reparse" -> NeedsOfReparse
    [] p = "retention" -> NeedsOfRetention
    [] OTHER -> NeedsOfRequest(p)

WaitsFor(p, q) == \E wanted \in Needs(p) : Blocks(q, p, wanted)
Free(p) == \A q \in Processes : ~WaitsFor(p, q)
Take(p) == Free(p) /\ locks' = locks \cup {[by |-> p, lock |-> l] : l \in Needs(p)}

Release(p) == locks' = {l \in locks : l.by # p}

(* A statement of one transaction that locks, writes and commits at once.  *)
Unlocked(lock) == \A q \in Processes : ~Blocks(q, "statement", lock)

(* Each waits for one of the others.                                       *)
Waiting == {p \in Processes : ~Free(p)}
Circle(P) == P # {} /\ \A p \in P : \E q \in P : WaitsFor(p, q)

-----------------------------------------------------------------------------
(* An upload, from its request to its commit.                              *)

(* liveDeviceSql, and the device's place in the device limit: the user's   *)
(* other live devices that hold a slot ahead of it.                        *)
Claimed(d) == stamp[d] # 0
Holders == {d \in Devices : state[d] = "live" /\ Claimed(d)}
Ahead(d) ==
  {h \in Holders \ {d} : Claimed(d) => stamp[h] < stamp[d] \/ (stamp[h] = stamp[d] /\ h < d)}
OverLimit(d) == tier # "gone" /\ Cardinality(Ahead(d)) >= Limits[tier]

Ends(p) == req' = [req EXCEPT ![p] = NoReq] /\ Release(p)

(* requireToken, findDevice and the first check of the device limit; what  *)
(* they refuse changes nothing.                                            *)
Find(p) ==
  /\ req[p].at = "idle" /\ Spend("uploads")
  /\ \E d \in Devices, sha \in Contents :
       /\ state[d] = "live" /\ ~OverLimit(d)
       /\ req' = [req EXCEPT ![p] = [NoReq EXCEPT !.at = "found", !.dev = d, !.sha = sha, !.claimed = Claimed(d)]]
  /\ UNCHANGED <<rows, nextId, clock, locks, del, rep, ret, history>>

(* store: begin, which sets the transaction's now().                       *)
Begin(p) ==
  /\ req[p].at = "found"
  /\ clock' = clock + 1
  /\ req' = [req EXCEPT ![p] = [@ EXCEPT !.at = "begun", !.stamp = clock + 1]]
  /\ UNCHANGED <<rows, nextId, locks, del, rep, ret, history, budget>>

(* The device, if it is not revoked by then. *)
LockDevice(p) ==
  /\ req[p].at = "begun"
  /\ \/ /\ state[req[p].dev] \in {"live", "ended"}
        /\ Take(p)
        /\ req' = [req EXCEPT ![p] = [@ EXCEPT !.at = "device"]]
     \/ state[req[p].dev] \notin {"live", "ended"} /\ Free(p) /\ Ends(p)
  /\ UNCHANGED <<rows, nextId, clock, del, rep, ret, history, budget>>

LockUser(p) ==
  /\ req[p].at = "device"
  /\ Take(p)
  /\ req' = [req EXCEPT ![p] = [@ EXCEPT !.at = "user"]]
  /\ UNCHANGED <<rows, nextId, clock, del, rep, ret, history, budget>>

(* The device limit again, under the locks, and the bytes of the last row. *)
Newest(d) == CHOOSE u \in RowsOf(d) : \A v \in RowsOf(d) : v.id <= u.id
Duplicate(d, sha) == RowsOf(d) # {} /\ Newest(d).sha = sha
Check(p) ==
  /\ req[p].at = "user"
  /\ \/ OverLimit(req[p].dev) /\ Ends(p)
     \/ ~OverLimit(req[p].dev) /\ Duplicate(req[p].dev, req[p].sha) /\ Ends(p)
     \/ /\ ~OverLimit(req[p].dev) /\ ~Duplicate(req[p].dev, req[p].sha)
        /\ req' = [req EXCEPT ![p] = [@ EXCEPT !.at = "checked"]] /\ UNCHANGED locks
  /\ UNCHANGED <<rows, nextId, clock, del, rep, ret, history, budget>>

(* The kit's interpreter parses the bytes or not; the row refers to the    *)
(* user and the device.                                                    *)
Insert(p) ==
  /\ req[p].at = "checked"
  /\ Take(p)
  /\ \E parsed \in BOOLEAN :
       req' = [req EXCEPT ![p] = [@ EXCEPT !.at = "inserted", !.id = nextId, !.parsed = parsed]]
  /\ nextId' = nextId + 1
  /\ UNCHANGED <<rows, clock, del, rep, ret, history, budget>>

(* writeSnapshot and touchDevice, for a row with a snapshot, and commit.   *)
Commit(p) ==
  LET r == req[p] IN
  /\ r.at = "inserted"
  /\ uploads' = uploads \cup {[id |-> r.id, dev |-> r.dev, sha |-> r.sha, parsed |-> r.parsed]}
  /\ snapshots' = IF r.parsed THEN snapshots \cup {r.id} ELSE snapshots
  /\ stamp' = IF r.parsed /\ ~Claimed(r.dev) THEN [stamp EXCEPT ![r.dev] = r.stamp] ELSE stamp
  /\ lastRow' = [lastRow EXCEPT ![r.dev] = r.sha]
  /\ Ends(p)
  /\ UNCHANGED <<tier, state, nextId, clock, del, rep, ret, most, budget>>

-----------------------------------------------------------------------------
(* The device's row: created on approval, revoked, or its grant expires or *)
(* is revoked at the OAuth server.                                         *)

CreateDevice(d) ==
  /\ state[d] = "none" /\ stamp[d] = 0 /\ tier # "gone"
  /\ Unlocked(Lock(UserRow, "keyshare"))
  /\ state' = [state EXCEPT ![d] = "live"]
  /\ del' = IF del.at = "idle" THEN del ELSE [del EXCEPT !.late = @ \cup {d}]
  /\ UNCHANGED <<tier, stamp, uploads, snapshots, nextId, clock, locks, req, rep, ret, history, budget>>

RevokeDevice(d) ==
  /\ Spend("changes") /\ state[d] \in {"live", "ended"}
  /\ Unlocked(Lock(DeviceRow(d), "nokey"))
  /\ state' = [state EXCEPT ![d] = "revoked"]
  /\ UNCHANGED <<tier, stamp, uploads, snapshots, nextId, clock, locks, req, del, rep, ret, history>>

EndGrant(d) ==
  /\ Spend("changes") /\ state[d] = "live"
  /\ state' = [state EXCEPT ![d] = "ended"]
  /\ UNCHANGED <<tier, stamp, uploads, snapshots, nextId, clock, locks, req, del, rep, ret, history>>

(* An operator sets users.tier. *)
ChangeTier(t) ==
  /\ Spend("changes") /\ tier \notin {t, "gone"}
  /\ Unlocked(Lock(UserRow, "nokey"))
  /\ tier' = t /\ most' = IF Limits[t] > most THEN Limits[t] ELSE most
  /\ UNCHANGED <<state, stamp, uploads, snapshots, nextId, clock, locks, req, del, rep, ret, lastRow>>

-----------------------------------------------------------------------------
(* "Delete my data" and "Delete account".                                  *)

(* A mutant of Scanned: the account's delete does not lock the devices. *)
NoneScanned == {}

Scanned == Existing

DeleteStarts(account) ==
  del' = [NoDel EXCEPT !.at = IF account THEN "devices" ELSE "user", !.account = account,
                       !.left = IF account THEN Scanned ELSE {}]

Delete(account) ==
  /\ del.at = "idle" /\ tier # "gone" /\ Spend("deletes")
  /\ DeleteStarts(account)
  /\ UNCHANGED <<rows, nextId, clock, locks, req, rep, ret, history>>

(* The devices one at a time, by id; then the user.                        *)
DeleteLocks ==
  /\ \/ del.at = "devices" /\ del.left # {} /\ del' = [del EXCEPT !.left = @ \ {First(@)}]
     \/ del.at = "devices" /\ del.left = {} /\ del' = [del EXCEPT !.at = "user"]
     \/ del.at = "user" /\ del' = [del EXCEPT !.at = "snapshots"]
  /\ Take("delete")
  /\ UNCHANGED <<rows, nextId, clock, req, rep, ret, history, budget>>

(* Each statement deletes the rows it finds committed.                     *)
DeleteRows ==
  /\ \/ del.at = "snapshots" /\ del' = [del EXCEPT !.at = "uploads", !.snaps = snapshots]
     \/ del.at = "uploads" /\ del' = [del EXCEPT !.at = IF del.account THEN "account" ELSE "commit", !.ups = Ids]
     \/ del.at = "account" /\ del' = [del EXCEPT !.at = "commit"]
  /\ Take("delete")
  /\ UNCHANGED <<rows, nextId, clock, req, rep, ret, history, budget>>

(* The snapshots of the deleted uploads go with them, by the cascade.      *)
Remove(ids, snaps) ==
  /\ uploads' = {u \in uploads : u.id \notin ids}
  /\ snapshots' = snapshots \ (snaps \cup ids)
  /\ lastRow' = [d \in Devices |-> IF \E u \in RowsOf(d) : u.id \in ids THEN NoBytes ELSE lastRow[d]]

DeleteCommits ==
  /\ del.at = "commit"
  /\ Remove(del.ups, del.snaps)
  /\ \/ del.account /\ tier' = "gone" /\ state' = [d \in Devices |-> "none"]
     \/ ~del.account /\ UNCHANGED <<tier, state>>
  /\ del' = NoDel /\ Release("delete")
  /\ UNCHANGED <<stamp, nextId, clock, req, rep, ret, most, budget>>

-----------------------------------------------------------------------------
(* Retention: a batch is one statement. It skips what is locked, takes any *)
(* of a free user's uploads (those that expired), and deletes them with    *)
(* their snapshots.                                                        *)

RetentionPicks ==
  /\ ret.at = "idle" /\ tier = "free" /\ Spend("batches")
  /\ Unlocked(Lock(UserRow, "keyshare"))
  /\ \E ids \in SUBSET {id \in Ids : Unlocked(Lock(UploadRow(id), "update"))} :
       /\ ids # {}
       /\ ret' = [at |-> "locked", ids |-> ids]
       /\ locks' = locks \cup {[by |-> "retention", lock |-> Lock(UserRow, "keyshare")]}
                         \cup {[by |-> "retention", lock |-> Lock(UploadRow(id), "update")] : id \in ids}
  /\ UNCHANGED <<rows, nextId, clock, req, del, rep, history>>

RetentionDeletes ==
  /\ ret.at = "locked" /\ Free("retention")
  /\ Remove(ret.ids, ret.ids)
  /\ ret' = NoRet /\ Release("retention")
  /\ UNCHANGED <<tier, state, stamp, nextId, clock, req, del, rep, most, budget>>

-----------------------------------------------------------------------------
(* The re-parse command: one upload, with whatever its interpreter makes   *)
(* of it now. A regression is left alone, or its snapshot is deleted.      *)

Reparse(id) ==
  /\ rep.at = "idle" /\ Spend("reparses")
  /\ rep' = [NoRep EXCEPT !.at = "begun", !.id = id]
  /\ UNCHANGED <<rows, nextId, clock, locks, req, del, ret, history>>

ReparseEnds == rep' = NoRep /\ Release("reparse")

ReparseLocks ==
  /\ rep.at = "begun"
  /\ \/ rep.id \in Ids /\ Take("reparse")
        /\ \E parsed \in BOOLEAN : rep' = [rep EXCEPT !.at = "locked", !.parsed = parsed]
     \/ Free("reparse") /\ ReparseEnds
  /\ UNCHANGED <<rows, nextId, clock, req, del, ret, history, budget>>

ReparseWrites ==
  /\ rep.at = "locked"
  /\ Take("reparse")
  /\ rep' = [rep EXCEPT !.at = "commit"]
  /\ UNCHANGED <<rows, nextId, clock, req, del, ret, history, budget>>

Reparsed(id, parsed) == IF parsed THEN snapshots \cup {id} ELSE snapshots \ {id}

ReparseCommits ==
  /\ rep.at = "commit"
  /\ uploads' = (uploads \ {Upload(rep.id)}) \cup {[Upload(rep.id) EXCEPT !.parsed = rep.parsed]}
  /\ snapshots' = Reparsed(rep.id, rep.parsed)
  /\ ReparseEnds
  /\ UNCHANGED <<tier, state, stamp, nextId, clock, req, del, ret, history, budget>>

-----------------------------------------------------------------------------
(* Postgres finds a circle and aborts one of it. A delete is run once more. *)
DeleteAborted ==
  /\ \/ ~del.again /\ del' = [NoDel EXCEPT !.at = IF del.account THEN "devices" ELSE "user",
                                           !.account = del.account, !.again = TRUE,
                                           !.left = IF del.account THEN Scanned ELSE {}]
     \/ del.again /\ del' = NoDel
  /\ UNCHANGED <<req, rep, ret>>

Abort(p) ==
  /\ ~Free(p)
  /\ \E P \in SUBSET Waiting : p \in P /\ Circle(P)
  /\ Release(p)
  /\ \/ p \in Requests /\ req' = [req EXCEPT ![p] = NoReq] /\ UNCHANGED <<del, rep, ret>>
     \/ p = "delete" /\ DeleteAborted
     \/ p = "reparse" /\ rep' = NoRep /\ UNCHANGED <<req, del, ret>>
  /\ UNCHANGED <<rows, nextId, clock, history, budget>>

-----------------------------------------------------------------------------
RequestStep(p) == Find(p) \/ Begin(p) \/ LockDevice(p) \/ LockUser(p) \/ Check(p) \/ Insert(p) \/ Commit(p)
DeviceStep(d) == CreateDevice(d) \/ RevokeDevice(d) \/ EndGrant(d)
DeleteStep == (\E account \in BOOLEAN : Delete(account)) \/ DeleteLocks \/ DeleteRows \/ DeleteCommits
RetentionStep == RetentionPicks \/ RetentionDeletes
ReparseStep == (\E id \in Ids : Reparse(id)) \/ ReparseLocks \/ ReparseWrites \/ ReparseCommits

Next ==
  \/ \E p \in Requests : RequestStep(p)
  \/ \E d \in Devices : DeviceStep(d)
  \/ \E t \in Tiers : ChangeTier(t)
  \/ DeleteStep \/ RetentionStep \/ ReparseStep
  \/ \E p \in Processes : Abort(p)

Spec == Init /\ [][Next]_vars

-----------------------------------------------------------------------------
ReqType ==
  [at : {"idle", "found", "begun", "device", "user", "checked", "inserted"}, dev : Devices \cup {0},
   sha : Contents \cup {NoBytes}, claimed : BOOLEAN, stamp : Nat, id : Nat, parsed : BOOLEAN]
Modes == {"update", "nokey", "keyshare"}

InTransaction(p) ==
  CASE p = "delete" -> del.at # "idle"
    [] p = "reparse" -> rep.at # "idle"
    [] p = "retention" -> ret.at # "idle"
    [] OTHER -> req[p].at \notin {"idle", "found"}

DelType ==
  [at : {"idle", "devices", "user", "snapshots", "uploads", "account", "commit"}, account : BOOLEAN,
   left : SUBSET Devices, snaps : SUBSET Nat, ups : SUBSET Nat, again : BOOLEAN, late : SUBSET Devices]
RepType == [at : {"idle", "begun", "locked", "commit"}, id : Nat, parsed : BOOLEAN]
RetType == [at : {"idle", "locked"}, ids : SUBSET Nat]
RowType == [id : Nat, dev : Devices, sha : Contents, parsed : BOOLEAN]

RowsTypeOK ==
  /\ tier \in Tiers \cup {"gone"}
  /\ state \in [Devices -> {"none", "live", "ended", "revoked"}]
  /\ stamp \in [Devices -> Nat]
  /\ uploads \subseteq RowType
  /\ snapshots \subseteq Nat
  /\ nextId \in Nat /\ clock \in Nat
  /\ lastRow \in [Devices -> Contents \cup {NoBytes}] /\ most \in Nat
PlacesTypeOK ==
  req \in [Requests -> ReqType] /\ del \in DelType /\ rep \in RepType /\ ret \in RetType
LocksTypeOK == \A l \in locks : l.by \in Processes /\ l.lock.mode \in Modes /\ InTransaction(l.by)

(* The variables have their types, and a row is locked only by a transaction that is open. *)
TypeOK == RowsTypeOK /\ PlacesTypeOK /\ LocksTypeOK /\ budget \in BudgetType

(* "Two devices cannot claim the last slot at once": the live devices with *)
(* a slot are never more than the user's tiers have allowed.               *)
SlotLimit == Cardinality(Holders) <= most

(* A row has a snapshot exactly when it parsed, whichever of ingest, the   *)
(* re-parse, the retention and the deletes wrote last.                     *)
SnapshotOfParsed == snapshots = {u.id : u \in {v \in uploads : v.parsed}}

(* "An upload in flight waits instead of deadlocking": no transactions     *)
(* wait for one another in a circle but those of the re-parse, which the   *)
(* same comment (account.ts:31-37) excepts. The code does not keep this.   *)
UploadsWait == \A P \in SUBSET (Waiting \ {"reparse"}) : ~Circle(P)

(* One circle breaks it, and no other: a delete of the account, at the     *)
(* devices by now, and an upload of a device that was approved after the   *)
(* delete locked the ones there were.                                      *)
OnlyLateCircles ==
  \A P \in SUBSET (Waiting \ {"reparse"}) : Circle(P) =>
    /\ "delete" \in P /\ del.at = "account"
    /\ \E p \in P \cap Requests : req[p].dev \in del.late

(* "Two of the same bytes cannot both pass the dedup check": a new row's   *)
(* bytes differ from the ones of the device's row before it.               *)
NoRepeatedRow == [][\A u \in uploads' : u.id \notin Ids => lastRow[u.dev] # u.sha]_vars

(* However their transactions meet, the operations on the user's rows take *)
(* effect as the single steps of UserRows: an upload is stored by a device *)
(* that is not revoked, that has a slot or finds one of today's tier free, *)
(* as its newest row and not with the bytes of the row before, and         *)
(* whatever removes or re-parses an upload does so with its snapshot.      *)
Promised == INSTANCE UserRows WITH last <- lastRow, claimed <- {d \in Devices : Claimed(d)}
RowsSpec == Promised!Spec

(* A device stores nothing from the commit of its revocation on, though    *)
(* its request was let in before.                                          *)
NothingAfterRevoke == [][\A u \in uploads' : u.id \notin Ids => state[u.dev] \notin {"revoked", "none"}]_vars

(* "Nothing the user writes meanwhile escapes the delete": when it         *)
(* commits, no upload and no snapshot of the user is left.                 *)
DeleteComplete == [][del.at = "commit" /\ del' = NoDel => uploads' = {} /\ snapshots' = {}]_vars

(* "Two instances take different rows, and neither waits nor fails": a     *)
(* batch of the retention waits for nobody once it has picked its rows.    *)
RetentionNeverWaits == Free("retention")

(* The user's rows agree with each other after every commit, whichever     *)
(* transactions ran beside it.                                             *)
RowsConsistent == SlotLimit /\ SnapshotOfParsed

(* Of uploads, revocations, approvals, retention and deletes none ever     *)
(* wait in a circle, save a delete of the account and an upload of a       *)
(* device approved during it; and the retention's batch never waits.       *)
LocksOrdered == OnlyLateCircles /\ RetentionNeverWaits

(* What the user took back stays gone: a revoked device stores nothing, a  *)
(* delete leaves nothing.                                                  *)
RemovedForGood == NothingAfterRevoke /\ DeleteComplete
=============================================================================
