----------------------------- MODULE IngestProofs -----------------------------
(* Proofs about the transactions on a user's rows, for every number of requests, *)
(* devices and contents, every limit and every bound. The base is what the locks *)
(* say: a row locked by one transaction is not locked by another in a mode that  *)
(* conflicts, and each transaction holds the locks its place asks for. At the    *)
(* end, an upload's request before its transaction, from UploadRequest.          *)
EXTENDS Ingest, UploadRequest, FiniteSetTheorems, TLAPS

Holds(p, lock) == [by |-> p, lock |-> lock] \in locks

Compatible ==
  \A l, k \in locks : l.by # k.by /\ l.lock.row = k.lock.row => ~Conflict(l.lock.mode, k.lock.mode)

\* What a request holds at its place.
InUse == {"device", "user", "checked", "inserted"}
RequestFits(p, r) ==
  /\ r.at # "idle" => r.dev \in Devices /\ r.sha \in Contents
  /\ r.at \in InUse => Holds(p, Lock(DeviceRow(r.dev), "update"))
  /\ r.at \in InUse \ {"device"} /\ ~r.claimed => Holds(p, Lock(UserRow, "nokey"))
  /\ r.at = "inserted" => Holds(p, Lock(UserRow, "keyshare"))

\* What a delete holds: the user from its lock on, the rows it deletes, and, at
\* its commit, the devices of the account.
DeleteFits ==
  /\ del.at \in {"snapshots", "uploads", "account", "commit"} => Holds("delete", Lock(UserRow, "update"))
  /\ del.at = "commit" /\ del.account => \A d \in Existing : Holds("delete", Lock(DeviceRow(d), "update"))
  /\ del.at \in {"account", "commit"} => \A id \in del.ups : Holds("delete", Lock(UploadRow(id), "update"))

ReparseFits == rep.at \in {"locked", "commit"} => Holds("reparse", Lock(UploadRow(rep.id), "update"))

RetentionFits ==
  ret.at = "locked" =>
    /\ Holds("retention", Lock(UserRow, "keyshare"))
    /\ \A id \in ret.ids : Holds("retention", Lock(UploadRow(id), "update"))

\* Who may lock a row of snapshots.
SnapshotsFit ==
  \A l \in locks : l.lock.row[1] = "snapshot" =>
    \/ l.by = "delete" /\ del.at \in {"uploads", "account", "commit"}
    \/ l.by = "reparse" /\ rep.at = "commit" /\ l.lock.row = SnapshotRow(rep.id)

\* An upload under the re-parse's lock stays.
ReparsedStays == rep.at \in {"locked", "commit"} => rep.id \in Ids

LockInv ==
  /\ TypeOK /\ Compatible /\ ReparsedStays
  /\ \A p \in Requests : RequestFits(p, req[p])
  /\ DeleteFits /\ ReparseFits /\ RetentionFits /\ SnapshotsFit

-----------------------------------------------------------------------------
(* Rows, modes and processes.                                                    *)

LEMMA Modal ==
  /\ \A m, n \in Modes : Conflict(m, n) <=> Conflict(n, m)
  /\ \A m \in Modes : Conflict("update", m) /\ Conflict(m, "update")
  /\ Conflict("nokey", "nokey")
  /\ {"update", "nokey", "keyshare"} \subseteq Modes
BY DEF Conflict, Modes

LEMMA NamesDiffer ==
  /\ \A p \in Requests : p \notin {"delete", "reparse", "retention", "statement"}
  /\ \A p \in Processes : p # "statement"
  /\ Requests \subseteq Processes /\ {"delete", "reparse", "retention"} \subseteq Processes
BY IngestAssumption DEF Processes

LEMMA RowsDiffer ==
  /\ \A d, e : DeviceRow(d) = DeviceRow(e) => d = e
  /\ \A d, e : UploadRow(d) = UploadRow(e) => d = e
  /\ \A d, e : SnapshotRow(d) = SnapshotRow(e) => d = e
  /\ UserRow[1] = "user" /\ \A d : DeviceRow(d)[1] = "device" /\ UploadRow(d)[1] = "upload" /\ SnapshotRow(d)[1] = "snapshot"
BY DEF DeviceRow, UploadRow, SnapshotRow, UserRow

LEMMA LockParts == \A row, mode : Lock(row, mode).row = row /\ Lock(row, mode).mode = mode
BY DEF Lock

LEMMA NeedsOf ==
  /\ \A p \in Requests : Needs(p) = NeedsOfRequest(p)
  /\ Needs("delete") = NeedsOfDelete /\ Needs("reparse") = NeedsOfReparse /\ Needs("retention") = NeedsOfRetention
BY NamesDiffer DEF Needs

LEMMA NeedsModes == ASSUME NEW p \in Processes, NEW w \in Needs(p) PROVE w.mode \in Modes
<1>1. CASE p \in Requests
  BY <1>1, NeedsOf, LockParts, Modal DEF NeedsOfRequest, DeviceLock, ClaimLock
<1>2. CASE p = "delete"
  BY <1>2, NeedsOf, LockParts, Modal DEF NeedsOfDelete, DeleteLock
<1>3. CASE p = "reparse"
  BY <1>3, NeedsOf, LockParts, Modal DEF NeedsOfReparse
<1>4. CASE p = "retention"
  BY <1>4, NeedsOf, LockParts, Modal DEF NeedsOfRetention
<1> QED
  BY <1>1, <1>2, <1>3, <1>4 DEF Processes

\* Two transactions do not hold locks that conflict.
LEMMA Exclusion ==
  ASSUME LockInv, NEW p \in Processes, NEW q \in Processes, NEW row, NEW m \in Modes, NEW n \in Modes,
         Holds(p, Lock(row, m)), Holds(q, Lock(row, n)), Conflict(m, n)
  PROVE  p = q
BY LockParts DEF LockInv, Compatible, Holds

\* Nor does a single statement pass a lock that conflicts with it.
LEMMA StatementWaits ==
  ASSUME NEW q \in Processes, NEW row, NEW m \in Modes, NEW n \in Modes,
         Holds(q, Lock(row, m)), Unlocked(Lock(row, n))
  PROVE  ~Conflict(m, n)
<1>1. q # "statement" /\ ~Blocks(q, "statement", Lock(row, n))
  BY NamesDiffer DEF Unlocked
<1> DEFINE l == [by |-> q, lock |-> Lock(row, m)]
<1>2. l \in locks /\ l.by = q /\ l.lock = Lock(row, m)
  BY DEF Holds
<1> HIDE DEF l
<1> QED
  BY <1>1, <1>2, LockParts DEF Blocks

-----------------------------------------------------------------------------
(* A step of a process leaves the locks of the others and conflicts with none.   *)

Turn(p) ==
  /\ \A l \in locks : l.by # p => l \in locks'
  /\ \A l \in locks' : l \in locks \/ l.by = p
  /\ Compatible'

LEMMA StillTurn == ASSUME Compatible, UNCHANGED locks PROVE \A p : Turn(p)
BY DEF Turn, Compatible

LEMMA ReleaseTurn ==
  ASSUME Compatible, NEW p, Release(p)
  PROVE  Turn(p) /\ (\A l \in locks' : l.by # p) /\ locks' \subseteq locks
BY DEF Turn, Compatible, Release

LEMMA TakeTurn ==
  ASSUME LocksTypeOK, Compatible, NEW p \in Processes, Take(p)
  PROVE  /\ Turn(p) /\ locks \subseteq locks'
         /\ \A w \in Needs(p) : Holds(p, w)'
         /\ \A l \in locks' : l \in locks \/ (l.by = p /\ l.lock \in Needs(p))
<1>1. locks' = locks \cup {[by |-> p, lock |-> l] : l \in Needs(p)} /\ Free(p)
  BY DEF Take
<1>2. locks \subseteq locks' /\ \A w \in Needs(p) : [by |-> p, lock |-> w] \in locks'
  BY <1>1
<1>3. \A l \in locks' : l \in locks \/ (l.by = p /\ l.lock \in Needs(p))
  BY <1>1
<1>4. \A k \in locks, w \in Needs(p) : k.by # p /\ k.lock.row = w.row => ~Conflict(k.lock.mode, w.mode)
  BY <1>1 DEF Free, WaitsFor, Blocks, LocksTypeOK
<1>5. Compatible'
  <2> SUFFICES ASSUME NEW l \in locks', NEW k \in locks', l.by # k.by, l.lock.row = k.lock.row
               PROVE  ~Conflict(l.lock.mode, k.lock.mode)
    BY DEF Compatible
  <2>1. CASE l \in locks /\ k \in locks
    BY <2>1 DEF Compatible
  <2>2. CASE k \in locks /\ l.by = p /\ l.lock \in Needs(p)
    BY <1>4, <2>2, NeedsModes, Modal DEF LocksTypeOK
  <2>3. CASE l \in locks /\ k.by = p /\ k.lock \in Needs(p)
    BY <1>4, <2>3
  <2> QED
    BY <1>3, <2>1, <2>2, <2>3
<1> QED
  BY <1>2, <1>3, <1>5 DEF Turn, Holds

LEMMA OthersHold ==
  ASSUME NEW p, Turn(p)
  PROVE  \A q, lock : q # p /\ Holds(q, lock) => Holds(q, lock)'
BY DEF Turn, Holds

-----------------------------------------------------------------------------
(* The locks of each kind of process, step by step.                              *)

Typed == RowsTypeOK /\ budget \in BudgetType /\ ReparsedStays

LEMMA NoneHeld ==
  ASSUME LockInv, NEW p \in Processes, ~InTransaction(p)
  PROVE  \A l \in locks : l.by # p
BY DEF LockInv, TypeOK, LocksTypeOK

LEMMA RequestKeeps ==
  ASSUME LockInv, NEW p \in Requests, Turn(p), Typed',
         req' \in [Requests -> ReqType], \A q \in Requests : q # p => req'[q] = req[q],
         RequestFits(p, req[p])', UNCHANGED <<del, rep, ret, state>>,
         \A l \in locks' : l.by = p => l.lock.mode \in Modes /\ req'[p].at \notin {"idle", "found"},
         \A l \in locks' : l \in locks \/ l.lock.row[1] # "snapshot"
  PROVE  LockInv'
<1>1. LocksTypeOK /\ PlacesTypeOK /\ Compatible' /\ p \in Processes /\ p \notin {"delete", "reparse", "retention"}
  BY NamesDiffer DEF LockInv, TypeOK, Turn
<1>2. LocksTypeOK'
  <2> SUFFICES ASSUME NEW l \in locks' PROVE l.by \in Processes /\ l.lock.mode \in Modes /\ InTransaction(l.by)'
    BY DEF LocksTypeOK
  <2>1. CASE l.by = p
    BY <1>1, <2>1 DEF InTransaction
  <2>2. CASE l.by # p
    <3>1. l \in locks /\ l.by \in Processes /\ l.lock.mode \in Modes /\ InTransaction(l.by)
      BY <1>1, <2>2 DEF Turn, LocksTypeOK
    <3> QED
      BY <2>2, <3>1 DEF InTransaction, Processes
  <2> QED
    BY <2>1, <2>2
<1>3. \A q \in Requests : RequestFits(q, req[q])'
  <2> SUFFICES ASSUME NEW q \in Requests, q # p PROVE RequestFits(q, req[q])'
    OBVIOUS
  <2>1. RequestFits(q, req[q]) /\ req'[q] = req[q]
    BY DEF LockInv
  <2> QED
    BY <2>1, OthersHold DEF RequestFits
<1>4. DeleteFits' /\ ReparseFits' /\ RetentionFits'
  BY <1>1, OthersHold DEF LockInv, DeleteFits, ReparseFits, RetentionFits, Existing
<1>5. SnapshotsFit'
  <2> SUFFICES ASSUME NEW l \in locks', l.lock.row[1] = "snapshot"
               PROVE  \/ l.by = "delete" /\ del.at \in {"uploads", "account", "commit"}
                      \/ l.by = "reparse" /\ rep.at = "commit" /\ l.lock.row = SnapshotRow(rep.id)
    BY DEF SnapshotsFit
  <2> QED
    BY DEF LockInv, SnapshotsFit
<1> QED
  BY <1>1, <1>2, <1>3, <1>4, <1>5 DEF LockInv, TypeOK, Typed, PlacesTypeOK

LEMMA EndsKeeps ==
  ASSUME LockInv, NEW p \in Requests, Ends(p), Typed', UNCHANGED <<del, rep, ret, state>>
  PROVE  LockInv'
<1>1. Turn(p) /\ (\A l \in locks' : l.by # p) /\ locks' \subseteq locks
  BY ReleaseTurn DEF LockInv, Ends
<1>2. req \in [Requests -> ReqType] /\ req' = [req EXCEPT ![p] = NoReq]
  BY DEF LockInv, TypeOK, PlacesTypeOK, Ends
<1>3. NoReq \in ReqType /\ NoReq.at = "idle"
  BY DEF NoReq, ReqType
<1>4. req' \in [Requests -> ReqType] /\ req'[p].at = "idle" /\ \A q \in Requests : q # p => req'[q] = req[q]
  BY <1>2, <1>3
<1>5. RequestFits(p, req[p])'
  BY <1>4 DEF RequestFits, InUse
<1> QED
  BY <1>1, <1>4, <1>5, RequestKeeps

\* A statement that locks what it needs and goes on.
LEMMA TakesKeep ==
  ASSUME LockInv, NEW p \in Requests, Typed', UNCHANGED <<del, rep, ret, state>>, Take(p),
         req' \in [Requests -> ReqType], \A q \in Requests : q # p => req'[q] = req[q],
         RequestFits(p, req[p])', req'[p].at \notin {"idle", "found"},
         req[p].at \notin {"idle", "found"}
  PROVE  LockInv'
<1>1. Compatible /\ LocksTypeOK /\ p \in Processes
  BY NamesDiffer DEF LockInv, TypeOK
<1>2. Turn(p) /\ \A l \in locks' : l \in locks \/ (l.by = p /\ l.lock \in Needs(p))
  BY <1>1, TakeTurn
<1>3. \A w \in Needs(p) : w.mode \in Modes /\ w.row[1] # "snapshot"
  <2>1. \A w \in Needs(p) : w.row[1] # "snapshot"
    BY NeedsOf, LockParts, RowsDiffer DEF NeedsOfRequest, DeviceLock, ClaimLock
  <2> QED
    BY <1>1, <2>1, NeedsModes
<1>4. \A l \in locks' : l.by = p => l.lock.mode \in Modes /\ req'[p].at \notin {"idle", "found"}
  BY <1>1, <1>2, <1>3 DEF LocksTypeOK
<1>5. \A l \in locks' : l \in locks \/ l.lock.row[1] # "snapshot"
  BY <1>2, <1>3
<1> QED
  BY <1>2, <1>4, <1>5, RequestKeeps

LEMMA StepsKeep ==
  ASSUME LockInv, NEW p \in Requests, Typed', UNCHANGED <<del, rep, ret, state>>,
         Find(p) \/ Begin(p) \/ LockDevice(p) \/ LockUser(p) \/ Check(p) \/ Insert(p) \/ Commit(p)
  PROVE  LockInv'
<1>1. req \in [Requests -> ReqType] /\ req[p] \in ReqType /\ RequestFits(p, req[p]) /\ Compatible /\ LocksTypeOK
      /\ p \in Processes /\ p \notin {"delete", "reparse", "retention"}
  BY NamesDiffer DEF LockInv, TypeOK, PlacesTypeOK
<1>2. req[p].at \in {"idle", "found"} => \A l \in locks : l.by # p
  BY <1>1, NoneHeld DEF InTransaction
<1>3. CASE Find(p)
  <2>1. PICK d \in Devices, sha \in Contents :
          req' = [req EXCEPT ![p] = [NoReq EXCEPT !.at = "found", !.dev = d, !.sha = sha, !.claimed = Claimed(d)]]
    BY <1>3 DEF Find
  <2> DEFINE r == [NoReq EXCEPT !.at = "found", !.dev = d, !.sha = sha, !.claimed = Claimed(d)]
  <2>2. r \in ReqType /\ r.at = "found" /\ r.dev = d /\ r.sha = sha
    BY DEF NoReq, ReqType, Claimed
  <2>3. req' = [req EXCEPT ![p] = r]
    BY <2>1
  <2> HIDE DEF r
  <2>4. req' \in [Requests -> ReqType] /\ req'[p] = r /\ \A q \in Requests : q # p => req'[q] = req[q]
    BY <1>1, <2>2, <2>3
  <2>5. RequestFits(p, req[p])'
    BY <2>2, <2>4 DEF RequestFits, InUse
  <2>6. locks' = locks /\ \A l \in locks : l.by # p
    BY <1>2, <1>3 DEF Find
  <2> QED
    BY <1>1, <2>4, <2>5, <2>6, StillTurn, RequestKeeps
<1>4. CASE Begin(p)
  <2> DEFINE r == [req[p] EXCEPT !.at = "begun", !.stamp = clock + 1]
  <2>1. clock + 1 \in Nat /\ req[p].at = "found"
    BY <1>4 DEF LockInv, TypeOK, RowsTypeOK, Begin
  <2>2. r \in ReqType /\ r.at = "begun" /\ r.dev = req[p].dev /\ r.sha = req[p].sha
    BY <1>1, <2>1 DEF ReqType
  <2>3. req' = [req EXCEPT ![p] = r]
    BY <1>4 DEF Begin
  <2> HIDE DEF r
  <2>4. req' \in [Requests -> ReqType] /\ req'[p] = r /\ \A q \in Requests : q # p => req'[q] = req[q]
    BY <1>1, <2>2, <2>3
  <2>5. RequestFits(p, req[p])'
    BY <1>1, <2>1, <2>2, <2>4 DEF RequestFits, InUse
  <2>6. locks' = locks /\ \A l \in locks : l.by # p
    BY <1>2, <1>4 DEF Begin
  <2> QED
    BY <1>1, <2>4, <2>5, <2>6, StillTurn, RequestKeeps
<1>5. ASSUME NEW at \in {"device", "user", "checked"}, req' = [req EXCEPT ![p] = [@ EXCEPT !.at = at]]
      PROVE  /\ req' \in [Requests -> ReqType] /\ \A q \in Requests : q # p => req'[q] = req[q]
             /\ req'[p] = [req[p] EXCEPT !.at = at] /\ req'[p].at = at /\ req'[p].dev = req[p].dev
             /\ req'[p].sha = req[p].sha /\ req'[p].claimed = req[p].claimed
  <2> DEFINE r == [req[p] EXCEPT !.at = at]
  <2>1. r \in ReqType /\ r.at = at /\ r.dev = req[p].dev /\ r.sha = req[p].sha /\ r.claimed = req[p].claimed
    BY <1>1 DEF ReqType
  <2>2. req' = [req EXCEPT ![p] = r]
    BY <1>5
  <2>3. req'[p] = [req[p] EXCEPT !.at = at]
    BY <1>1, <2>2
  <2> HIDE DEF r
  <2>4. req'[p] = r /\ req' \in [Requests -> ReqType] /\ \A q \in Requests : q # p => req'[q] = req[q]
    BY <1>1, <2>1, <2>2
  <2> QED
    BY <2>1, <2>3, <2>4
<1>6. ASSUME Take(p) PROVE (\A q, lock : Holds(q, lock) => Holds(q, lock)') /\ \A w \in Needs(p) : Holds(p, w)'
  BY <1>1, <1>6, TakeTurn DEF Holds
<1>7. CASE LockDevice(p)
  <2>1. CASE Ends(p)
    BY <2>1, EndsKeeps
  <2>2. CASE Take(p) /\ req' = [req EXCEPT ![p] = [@ EXCEPT !.at = "device"]]
    <3>1. req[p].at = "begun"
      BY <1>7 DEF LockDevice
    <3>2. Holds(p, Lock(DeviceRow(req[p].dev), "update"))'
      BY <1>6, <2>2, <3>1, NeedsOf DEF NeedsOfRequest, DeviceLock, Holds
    <3>3. RequestFits(p, req[p])'
      BY <1>1, <1>5, <2>2, <3>1, <3>2 DEF RequestFits, InUse, Holds
    <3> QED
      BY <1>5, <2>2, <3>1, <3>3, TakesKeep
  <2> QED
    BY <1>7, <2>1, <2>2 DEF LockDevice
<1>8. CASE LockUser(p)
  <2>1. req[p].at = "device" /\ Take(p) /\ req' = [req EXCEPT ![p] = [@ EXCEPT !.at = "user"]]
    BY <1>8 DEF LockUser
  <2>2. ~req[p].claimed => Holds(p, Lock(UserRow, "nokey"))'
    BY <1>6, <2>1, NeedsOf DEF NeedsOfRequest, ClaimLock, Holds
  <2>3. Holds(p, Lock(DeviceRow(req[p].dev), "update"))'
    BY <1>1, <1>6, <2>1 DEF RequestFits, InUse, Holds
  <2>4. RequestFits(p, req[p])'
    BY <1>1, <1>5, <2>1, <2>2, <2>3 DEF RequestFits, InUse, Holds
  <2> QED
    BY <1>5, <2>1, <2>4, TakesKeep
<1>9. CASE Check(p)
  <2>1. CASE Ends(p)
    BY <2>1, EndsKeeps
  <2>2. CASE locks' = locks /\ req' = [req EXCEPT ![p] = [@ EXCEPT !.at = "checked"]]
    <3>1. req[p].at = "user"
      BY <1>9 DEF Check
    <3>2. RequestFits(p, req[p])'
      BY <1>1, <1>5, <2>2, <3>1 DEF RequestFits, InUse, Holds
    <3>3. \A l \in locks' : l.by = p => l.lock.mode \in Modes /\ req'[p].at \notin {"idle", "found"}
      BY <1>1, <1>5, <2>2 DEF LocksTypeOK
    <3> QED
      BY <1>1, <1>5, <2>2, <3>2, <3>3, StillTurn, RequestKeeps
  <2> QED
    BY <1>9, <2>1, <2>2 DEF Check
<1>10. CASE Insert(p)
  <2>1. PICK parsed \in BOOLEAN :
          req' = [req EXCEPT ![p] = [@ EXCEPT !.at = "inserted", !.id = nextId, !.parsed = parsed]]
    BY <1>10 DEF Insert
  <2>2. req[p].at = "checked" /\ Take(p) /\ nextId \in Nat
    BY <1>10 DEF Insert, LockInv, TypeOK, RowsTypeOK
  <2> DEFINE r == [req[p] EXCEPT !.at = "inserted", !.id = nextId, !.parsed = parsed]
  <2>3. r \in ReqType /\ r.at = "inserted" /\ r.dev = req[p].dev /\ r.sha = req[p].sha /\ r.claimed = req[p].claimed
    BY <1>1, <2>2 DEF ReqType
  <2>4. req' = [req EXCEPT ![p] = r]
    BY <2>1
  <2> HIDE DEF r
  <2>5. req' \in [Requests -> ReqType] /\ req'[p] = r /\ \A q \in Requests : q # p => req'[q] = req[q]
    BY <1>1, <2>3, <2>4
  <2>6. Holds(p, Lock(UserRow, "keyshare"))'
    BY <1>6, <2>2, NeedsOf DEF NeedsOfRequest, Holds
  <2>7. RequestFits(p, req[p])'
    BY <1>1, <1>6, <2>2, <2>3, <2>5, <2>6 DEF RequestFits, InUse, Holds
  <2> QED
    BY <2>2, <2>3, <2>5, <2>7, TakesKeep
<1>11. CASE Commit(p)
  BY <1>11, EndsKeeps DEF Commit
<1> QED
  BY <1>3, <1>4, <1>7, <1>8, <1>9, <1>10, <1>11

\* The steps that hold no lock over their end.
LEMMA QuietKeeps ==
  ASSUME LockInv, Typed', UNCHANGED <<locks, req, rep, ret>>, del' \in DelType,
         del'.at = del.at, del'.account = del.account, del'.ups = del.ups,
         Existing' \subseteq Existing \/ del.at # "commit"
  PROVE  LockInv'
<1>1. Compatible' /\ PlacesTypeOK' /\ (\A p \in Requests : RequestFits(p, req[p])')
  BY DEF LockInv, TypeOK, Compatible, PlacesTypeOK, RequestFits, Holds
<1>2. LocksTypeOK'
  BY DEF LockInv, TypeOK, LocksTypeOK, InTransaction
<1>3. ReparseFits' /\ RetentionFits' /\ SnapshotsFit'
  BY DEF LockInv, ReparseFits, RetentionFits, SnapshotsFit, Holds
<1>4. DeleteFits'
  BY DEF LockInv, DeleteFits, Holds
<1> QED
  BY <1>1, <1>2, <1>3, <1>4 DEF LockInv, TypeOK, Typed

\* A transaction that passes the lock of the user is not beside a delete that holds it.
LEMMA DeleteAlone ==
  ASSUME LockInv, NEW m \in Modes, Unlocked(Lock(UserRow, m))
  PROVE  del.at \notin {"snapshots", "uploads", "account", "commit"}
<1> SUFFICES ASSUME del.at \in {"snapshots", "uploads", "account", "commit"} PROVE FALSE
  OBVIOUS
<1>1. Holds("delete", Lock(UserRow, "update"))
  BY DEF LockInv, DeleteFits
<1> QED
  BY <1>1, StatementWaits, Modal, NamesDiffer

LEMMA DevicesKeep ==
  ASSUME LockInv, Typed', NEW d \in Devices, DeviceStep(d)
  PROVE  LockInv'
<1>1. del \in DelType
  BY DEF LockInv, TypeOK, PlacesTypeOK
<1>2. CASE CreateDevice(d)
  <2>1. del.at # "commit"
    BY <1>2, DeleteAlone, Modal DEF CreateDevice
  <2>2. UNCHANGED <<locks, req, rep, ret>>
    BY <1>2 DEF CreateDevice
  <2>3. del' = del \/ del' = [del EXCEPT !.late = @ \cup {d}]
    BY <1>2 DEF CreateDevice
  <2>4. del' \in DelType /\ del'.at = del.at /\ del'.account = del.account /\ del'.ups = del.ups
    BY <1>1, <2>3 DEF DelType
  <2> QED
    BY <2>1, <2>2, <2>4, QuietKeeps
<1>3. CASE RevokeDevice(d) \/ EndGrant(d)
  <2>1. UNCHANGED <<locks, req, rep, ret, del>> /\ Existing' \subseteq Existing
    BY <1>3 DEF RevokeDevice, EndGrant, Existing, LockInv, TypeOK, RowsTypeOK
  <2> QED
    BY <1>1, <2>1, QuietKeeps
<1> QED
  BY <1>2, <1>3 DEF DeviceStep

LEMMA TierKeeps ==
  ASSUME LockInv, Typed', NEW t \in Tiers, ChangeTier(t)
  PROVE  LockInv'
<1>1. UNCHANGED <<locks, req, rep, ret, del>> /\ Existing' = Existing /\ del \in DelType
  BY DEF ChangeTier, Existing, LockInv, TypeOK, PlacesTypeOK
<1> QED
  BY <1>1, QuietKeeps

\* A step of the delete.
LEMMA DeletingKeeps ==
  ASSUME LockInv, Typed', Turn("delete"), UNCHANGED <<req, rep, ret>>, del' \in DelType, DeleteFits',
         \A l \in locks' : l.by = "delete" =>
           /\ l.lock.mode \in Modes /\ del'.at # "idle"
           /\ l.lock.row[1] = "snapshot" => del'.at \in {"uploads", "account", "commit"}
  PROVE  LockInv'
<1>1. LocksTypeOK /\ PlacesTypeOK /\ Compatible' /\ "delete" \in Processes
  BY NamesDiffer DEF LockInv, TypeOK, Turn
<1>2. LocksTypeOK'
  <2> SUFFICES ASSUME NEW l \in locks' PROVE l.by \in Processes /\ l.lock.mode \in Modes /\ InTransaction(l.by)'
    BY DEF LocksTypeOK
  <2>1. CASE l.by = "delete"
    BY <1>1, <2>1 DEF InTransaction
  <2>2. CASE l.by # "delete"
    <3>1. l \in locks /\ l.by \in Processes /\ l.lock.mode \in Modes /\ InTransaction(l.by)
      BY <1>1, <2>2 DEF Turn, LocksTypeOK
    <3> QED
      BY <2>2, <3>1 DEF InTransaction
  <2> QED
    BY <2>1, <2>2
<1>3. \A q \in Requests : RequestFits(q, req[q])'
  <2> SUFFICES ASSUME NEW q \in Requests PROVE RequestFits(q, req[q])'
    OBVIOUS
  <2>1. RequestFits(q, req[q]) /\ req' = req /\ q # "delete"
    BY NamesDiffer DEF LockInv
  <2> QED
    BY <2>1, OthersHold DEF RequestFits
<1>4. ReparseFits' /\ RetentionFits'
  BY <1>1, OthersHold DEF LockInv, ReparseFits, RetentionFits
<1>5. SnapshotsFit'
  <2> SUFFICES ASSUME NEW l \in locks', l.lock.row[1] = "snapshot", l.by # "delete"
               PROVE  l.by = "reparse" /\ rep.at = "commit" /\ l.lock.row = SnapshotRow(rep.id)
    BY DEF SnapshotsFit
  <2> QED
    BY DEF LockInv, SnapshotsFit, Turn
<1> QED
  BY <1>1, <1>2, <1>3, <1>4, <1>5 DEF LockInv, TypeOK, Typed, PlacesTypeOK

\* The delete takes what it needs.
LEMMA DeleteTakes ==
  ASSUME LockInv, Typed', Take("delete"), UNCHANGED <<req, rep, ret>>, del' \in DelType, DeleteFits',
         del.at # "idle", del'.at # "idle",
         del'.at \in {"uploads", "account", "commit"} \/ del.at \in {"devices", "user"}
  PROVE  LockInv'
<1>1. Compatible /\ LocksTypeOK /\ "delete" \in Processes
  BY NamesDiffer DEF LockInv, TypeOK
<1>2. Turn("delete") /\ \A l \in locks' : l \in locks \/ (l.by = "delete" /\ l.lock \in Needs("delete"))
  BY <1>1, TakeTurn
<1>3. ASSUME NEW l \in locks', l.by = "delete"
      PROVE  /\ l.lock.mode \in Modes
             /\ l.lock.row[1] = "snapshot" => del'.at \in {"uploads", "account", "commit"}
  <2>1. CASE l \in locks
    BY <1>1, <1>3, <2>1 DEF LockInv, SnapshotsFit, LocksTypeOK
  <2>2. CASE l.lock \in Needs("delete")
    <3>1. l.lock.mode \in Modes
      BY <1>1, <2>2, NeedsModes
    <3>2. del.at \in {"devices", "user"} => l.lock.row[1] # "snapshot"
      BY <2>2, NeedsOf, LockParts, RowsDiffer DEF NeedsOfDelete, DeleteLock
    <3> QED
      BY <3>1, <3>2
  <2> QED
    BY <1>2, <1>3, <2>1, <2>2
<1> QED
  BY <1>2, <1>3, DeletingKeeps

LEMMA DeleteEnds ==
  ASSUME LockInv, Typed', Release("delete"), UNCHANGED <<req, rep, ret>>, del' \in DelType,
         del'.at \in {"idle", "devices", "user"}
  PROVE  LockInv'
<1>1. Turn("delete") /\ \A l \in locks' : l.by # "delete"
  BY ReleaseTurn DEF LockInv
<1>2. DeleteFits'
  BY DEF DeleteFits
<1> QED
  BY <1>1, <1>2, DeletingKeeps

LEMMA DeletesKeep ==
  ASSUME LockInv, Typed', DeleteStep
  PROVE  LockInv'
<1>1. del \in DelType /\ LocksTypeOK /\ Compatible /\ DeleteFits /\ "delete" \in Processes /\ Typed
  BY NamesDiffer DEF LockInv, TypeOK, PlacesTypeOK, Typed
<1>2. UNCHANGED <<req, rep, ret>>
  BY DEF DeleteStep, Delete, DeleteLocks, DeleteRows, DeleteCommits
<1>3. ASSUME NEW account \in BOOLEAN, Delete(account) PROVE LockInv'
  <2>1. locks' = locks /\ \A l \in locks : l.by # "delete"
    BY <1>1, <1>3, NoneHeld DEF Delete, InTransaction
  <2>2. del' \in DelType /\ del'.at \in {"devices", "user"}
    BY <1>3 DEF Delete, DeleteStarts, NoDel, DelType, Scanned, Existing
  <2>3. DeleteFits'
    BY <2>2 DEF DeleteFits
  <2> QED
    BY <1>1, <1>2, <2>1, <2>2, <2>3, StillTurn, DeletingKeeps
<1>4. ASSUME Take("delete") PROVE (\A q, lock : Holds(q, lock) => Holds(q, lock)') /\ \A w \in Needs("delete") : Holds("delete", w)'
  BY <1>1, <1>4, TakeTurn DEF Holds
<1>5. CASE DeleteLocks
  <2>1. Take("delete") /\ del.at \in {"devices", "user"}
    BY <1>5 DEF DeleteLocks
  <2>2. del' \in DelType /\ del'.at \in {"devices", "user", "snapshots"} /\ (del'.at = "snapshots" => del.at = "user")
    BY <1>1, <1>5 DEF DeleteLocks, DelType
  <2>3. del.at = "user" => Holds("delete", Lock(UserRow, "update"))'
    BY <1>4, <2>1, NeedsOf DEF NeedsOfDelete, DeleteLock, Holds
  <2>4. DeleteFits'
    BY <2>2, <2>3 DEF DeleteFits, Holds
  <2> QED
    BY <1>2, <2>1, <2>2, <2>4, DeleteTakes
<1>6. CASE DeleteRows
  <2>1. Take("delete") /\ del.at \in {"snapshots", "uploads", "account"} /\ UNCHANGED rows
    BY <1>6 DEF DeleteRows
  <2>2. del' \in DelType /\ del'.at \in {"uploads", "account", "commit"}
    <3>1. Ids \subseteq Nat /\ snapshots \subseteq Nat
      BY <1>1 DEF Typed, RowsTypeOK, Ids, RowType
    <3>2. \/ del' = [del EXCEPT !.at = "uploads", !.snaps = snapshots]
          \/ del' = [del EXCEPT !.at = IF del.account THEN "account" ELSE "commit", !.ups = Ids]
          \/ del' = [del EXCEPT !.at = "commit"]
      BY <1>6 DEF DeleteRows
    <3> QED
      BY <1>1, <3>1, <3>2 DEF DelType
  <2>3. Holds("delete", Lock(UserRow, "update"))'
    BY <1>1, <1>4, <2>1 DEF DeleteFits
  <2>4. CASE del.at = "snapshots"
    BY <1>1, <1>2, <1>6, <2>1, <2>2, <2>3, <2>4, DeleteTakes DEF DeleteRows, DeleteFits, DelType, Holds
  <2>5. CASE del.at = "uploads"
    <3>1. del'.ups = Ids /\ del'.account = del.account /\ del'.at = IF del.account THEN "account" ELSE "commit"
      BY <1>1, <1>6, <2>5 DEF DeleteRows, DelType
    <3>2. \A id \in Ids : Holds("delete", Lock(UploadRow(id), "update"))'
      BY <1>4, <2>1, <2>5, NeedsOf DEF NeedsOfDelete, Holds
    <3>3. DeleteFits'
      BY <2>2, <2>3, <3>1, <3>2 DEF DeleteFits, Holds
    <3> QED
      BY <1>2, <2>1, <2>2, <3>3, DeleteTakes
  <2>6. CASE del.at = "account"
    <3>1. del'.ups = del.ups /\ del'.at = "commit"
      BY <1>1, <1>6, <2>6 DEF DeleteRows, DelType
    <3>2. \A id \in del.ups : Holds("delete", Lock(UploadRow(id), "update"))'
      BY <1>1, <1>4, <2>1, <2>6 DEF DeleteFits, Holds
    <3>3. \A d \in Existing : Holds("delete", Lock(DeviceRow(d), "update"))'
      BY <1>4, <2>1, <2>6, NeedsOf DEF NeedsOfDelete, Holds
    <3>4. Existing' = Existing
      BY <2>1 DEF Existing, rows
    <3>5. DeleteFits'
      BY <2>2, <2>3, <3>1, <3>2, <3>3, <3>4 DEF DeleteFits, Holds
    <3> QED
      BY <1>2, <2>1, <2>2, <3>5, DeleteTakes
  <2> QED
    BY <2>1, <2>4, <2>5, <2>6
<1>7. CASE DeleteCommits
  BY <1>2, <1>7, DeleteEnds DEF DeleteCommits, NoDel, DelType
<1> QED
  BY <1>3, <1>5, <1>6, <1>7 DEF DeleteStep

\* A step of the re-parse or of the retention.
LEMMA SideKeeps ==
  ASSUME LockInv, Typed', NEW p \in {"reparse", "retention"}, Turn(p), UNCHANGED <<req, del, state>>,
         rep' \in RepType, ret' \in RetType, p = "reparse" => ret' = ret, p = "retention" => rep' = rep,
         ReparseFits', RetentionFits',
         \A l \in locks' : l.by = p =>
           /\ l.lock.mode \in Modes
           /\ p = "reparse" => rep'.at # "idle"
           /\ p = "retention" => ret'.at # "idle"
           /\ l.lock.row[1] = "snapshot" => p = "reparse" /\ rep'.at = "commit" /\ l.lock.row = SnapshotRow(rep'.id)
  PROVE  LockInv'
<1>1. LocksTypeOK /\ PlacesTypeOK /\ Compatible' /\ p \in Processes
  BY NamesDiffer DEF LockInv, TypeOK, Turn
<1>2. LocksTypeOK'
  <2> SUFFICES ASSUME NEW l \in locks' PROVE l.by \in Processes /\ l.lock.mode \in Modes /\ InTransaction(l.by)'
    BY DEF LocksTypeOK
  <2>1. CASE l.by = p
    BY <1>1, <2>1 DEF InTransaction
  <2>2. CASE l.by # p
    <3>1. l \in locks /\ l.by \in Processes /\ l.lock.mode \in Modes /\ InTransaction(l.by)
      BY <1>1, <2>2 DEF Turn, LocksTypeOK
    <3> QED
      BY <2>2, <3>1, NamesDiffer DEF InTransaction
  <2> QED
    BY <2>1, <2>2
<1>3. \A q \in Requests : RequestFits(q, req[q])'
  <2> SUFFICES ASSUME NEW q \in Requests PROVE RequestFits(q, req[q])'
    OBVIOUS
  <2>1. RequestFits(q, req[q]) /\ req' = req /\ q # p
    BY NamesDiffer DEF LockInv
  <2> QED
    BY <2>1, OthersHold DEF RequestFits
<1>4. DeleteFits'
  BY <1>1, OthersHold DEF LockInv, DeleteFits, Existing
<1>5. SnapshotsFit'
  <2> SUFFICES ASSUME NEW l \in locks', l.lock.row[1] = "snapshot", l.by # p
               PROVE  \/ l.by = "delete" /\ del.at \in {"uploads", "account", "commit"}
                      \/ l.by = "reparse" /\ rep'.at = "commit" /\ l.lock.row = SnapshotRow(rep'.id)
    BY DEF SnapshotsFit
  <2> QED
    BY DEF LockInv, SnapshotsFit, Turn
<1> QED
  BY <1>1, <1>2, <1>3, <1>4, <1>5 DEF LockInv, TypeOK, Typed, PlacesTypeOK

LEMMA RetentionKeeps ==
  ASSUME LockInv, Typed', RetentionStep
  PROVE  LockInv'
<1>1. rep \in RepType /\ ret \in RetType /\ Compatible /\ LocksTypeOK /\ ReparseFits /\ Typed
  BY DEF LockInv, TypeOK, PlacesTypeOK, Typed
<1>2. UNCHANGED <<req, del, rep, state>>
  BY DEF RetentionStep, RetentionPicks, RetentionDeletes, rows
<1>3. CASE RetentionPicks
  <2>1. PICK ids \in SUBSET {id \in Ids : Unlocked(Lock(UploadRow(id), "update"))} :
          /\ ret' = [at |-> "locked", ids |-> ids]
          /\ locks' = locks \cup {[by |-> "retention", lock |-> Lock(UserRow, "keyshare")]}
                            \cup {[by |-> "retention", lock |-> Lock(UploadRow(id), "update")] : id \in ids}
    BY <1>3 DEF RetentionPicks
  <2> DEFINE wanted == {Lock(UserRow, "keyshare")} \cup {Lock(UploadRow(id), "update") : id \in ids}
  <2>2. /\ \A l \in locks' : l \in locks \/ (l.by = "retention" /\ l.lock \in wanted)
        /\ locks \subseteq locks'
        /\ \A w \in wanted : Holds("retention", w)'
    BY <2>1 DEF Holds
  <2>3. \A w \in wanted : Unlocked(w) /\ w.mode \in Modes /\ w.row[1] # "snapshot"
    <3>1. Unlocked(Lock(UserRow, "keyshare"))
      BY <1>3 DEF RetentionPicks
    <3>2. \A id \in ids : Unlocked(Lock(UploadRow(id), "update"))
      OBVIOUS
    <3> QED
      BY <3>1, <3>2, LockParts, RowsDiffer, Modal
  <2>4. ids \subseteq Nat
    BY <1>1 DEF Typed, RowsTypeOK, Ids, RowType
  <2> HIDE DEF wanted
  <2>5. \A k \in locks, w \in wanted : k.by \in Processes /\ k.lock.row = w.row => ~Conflict(k.lock.mode, w.mode)
    BY <2>3, NamesDiffer DEF Unlocked, Blocks
  <2>6. Turn("retention")
    <3> SUFFICES ASSUME NEW l \in locks', NEW k \in locks', l.by # k.by, l.lock.row = k.lock.row
                 PROVE  ~Conflict(l.lock.mode, k.lock.mode)
      BY <2>2 DEF Turn, Compatible
    <3>1. CASE l \in locks /\ k \in locks
      BY <1>1, <3>1 DEF Compatible
    <3>2. CASE k \in locks /\ l.by = "retention" /\ l.lock \in wanted
      BY <1>1, <2>3, <2>5, <3>2, Modal DEF LocksTypeOK
    <3>3. CASE l \in locks /\ k.by = "retention" /\ k.lock \in wanted
      BY <1>1, <2>5, <3>3 DEF LocksTypeOK
    <3> QED
      BY <2>2, <3>1, <3>2, <3>3
  <2>7. ret' \in RetType /\ ret'.at = "locked" /\ ret'.ids = ids
    BY <2>1, <2>4 DEF RetType
  <2>8. RetentionFits'
    BY <2>2, <2>7 DEF RetentionFits, Holds, wanted
  <2>9. ReparseFits'
    BY <1>1, <1>2, <2>2 DEF ReparseFits, Holds
  <2>10. \A l \in locks : l.by # "retention"
    <3>1. ret.at = "idle"
      BY <1>3 DEF RetentionPicks
    <3> QED
      BY <3>1, NoneHeld, NamesDiffer DEF InTransaction
  <2> QED
    BY <1>1, <1>2, <2>2, <2>3, <2>6, <2>7, <2>8, <2>9, <2>10, SideKeeps
<1>4. CASE RetentionDeletes
  <2>1. Turn("retention") /\ (\A l \in locks' : l.by # "retention")
    BY <1>1, <1>4, ReleaseTurn DEF RetentionDeletes
  <2>2. ret' \in RetType /\ RetentionFits'
    BY <1>4 DEF RetentionDeletes, NoRet, RetType, RetentionFits
  <2>3. ReparseFits'
    BY <1>1, <1>2, <2>1, OthersHold DEF ReparseFits
  <2> QED
    BY <1>1, <1>2, <2>1, <2>2, <2>3, SideKeeps
<1> QED
  BY <1>3, <1>4 DEF RetentionStep

LEMMA ReparseEndKeeps ==
  ASSUME LockInv, Typed', ReparseEnds, UNCHANGED <<req, del, ret, state>>
  PROVE  LockInv'
<1>1. Turn("reparse") /\ (\A l \in locks' : l.by # "reparse")
  BY ReleaseTurn DEF LockInv, ReparseEnds
<1>2. rep' \in RepType /\ ReparseFits'
  BY DEF ReparseEnds, NoRep, RepType, ReparseFits
<1>3. RetentionFits' /\ ret' \in RetType
  BY <1>1, OthersHold DEF LockInv, TypeOK, PlacesTypeOK, RetentionFits
<1> QED
  BY <1>1, <1>2, <1>3, SideKeeps

LEMMA ReparseKeeps ==
  ASSUME LockInv, Typed', ReparseStep
  PROVE  LockInv'
<1>1. rep \in RepType /\ ret \in RetType /\ Compatible /\ LocksTypeOK /\ ReparseFits /\ RetentionFits
      /\ Typed /\ "reparse" \in Processes
  BY NamesDiffer DEF LockInv, TypeOK, PlacesTypeOK, Typed
<1>2. UNCHANGED <<req, del, ret, state>>
  BY DEF ReparseStep, Reparse, ReparseLocks, ReparseWrites, ReparseCommits, rows
<1>3. ASSUME NEW id \in Ids, Reparse(id) PROVE LockInv'
  <2>1. locks' = locks /\ \A l \in locks : l.by # "reparse"
    <3>1. rep.at = "idle" /\ locks' = locks
      BY <1>3 DEF Reparse
    <3> QED
      BY <1>1, <3>1, NoneHeld DEF InTransaction
  <2>2. rep' \in RepType /\ rep'.at = "begun"
    BY <1>1, <1>3 DEF Reparse, NoRep, RepType, Ids, Typed, RowsTypeOK, RowType
  <2>3. ReparseFits' /\ RetentionFits'
    BY <1>1, <1>2, <2>1, <2>2 DEF ReparseFits, RetentionFits, Holds
  <2> QED
    BY <1>1, <1>2, <2>1, <2>2, <2>3, StillTurn, SideKeeps
<1>4. ASSUME Take("reparse"), rep.at \in {"begun", "locked"}, rep' \in RepType, rep'.at \in {"locked", "commit"},
             rep.at = "locked" => rep'.at = "commit", rep'.id = rep.id
      PROVE  LockInv'
  <2>1. /\ Turn("reparse") /\ locks \subseteq locks' /\ \A w \in Needs("reparse") : Holds("reparse", w)'
        /\ \A l \in locks' : l \in locks \/ (l.by = "reparse" /\ l.lock \in Needs("reparse"))
    BY <1>1, <1>4, TakeTurn
  <2>2. Holds("reparse", Lock(UploadRow(rep.id), "update"))'
    BY <1>1, <1>4, <2>1, NeedsOf DEF NeedsOfReparse, ReparseFits, Holds
  <2>3. ReparseFits' /\ RetentionFits'
    BY <1>1, <1>2, <1>4, <2>1, <2>2 DEF ReparseFits, RetentionFits, Holds
  <2>4. \A w \in Needs("reparse") : w.mode \in Modes
                                    /\ (w.row[1] = "snapshot" => rep.at = "locked" /\ w.row = SnapshotRow(rep.id))
    <3>1. \A w \in Needs("reparse") : w.row[1] = "snapshot" => rep.at = "locked" /\ w.row = SnapshotRow(rep.id)
      BY NeedsOf, LockParts, RowsDiffer DEF NeedsOfReparse
    <3> QED
      BY <1>1, <3>1, NeedsModes
  <2>5. ASSUME NEW l \in locks', l.by = "reparse"
        PROVE  /\ l.lock.mode \in Modes
               /\ l.lock.row[1] = "snapshot" => rep'.at = "commit" /\ l.lock.row = SnapshotRow(rep'.id)
    <3>1. CASE l \in locks
      BY <1>1, <1>4, <2>5, <3>1 DEF LockInv, SnapshotsFit, LocksTypeOK
    <3>2. CASE l.lock \in Needs("reparse")
      BY <1>4, <2>4, <3>2
    <3> QED
      BY <2>1, <2>5, <3>1, <3>2
  <2> QED
    BY <1>1, <1>2, <1>4, <2>1, <2>3, <2>5, SideKeeps
<1>5. CASE ReparseLocks
  <2>1. CASE ReparseEnds
    BY <1>2, <2>1, ReparseEndKeeps
  <2>2. ASSUME NEW parsed \in BOOLEAN, Take("reparse"), rep' = [rep EXCEPT !.at = "locked", !.parsed = parsed]
        PROVE  LockInv'
    BY <1>1, <1>4, <1>5, <2>2 DEF ReparseLocks, RepType
  <2> QED
    BY <1>5, <2>1, <2>2 DEF ReparseLocks
<1>6. CASE ReparseWrites
  BY <1>1, <1>4, <1>6 DEF ReparseWrites, RepType
<1>7. CASE ReparseCommits
  BY <1>2, <1>7, ReparseEndKeeps DEF ReparseCommits
<1> QED
  BY <1>3, <1>5, <1>6, <1>7 DEF ReparseStep

LEMMA AbortKeeps ==
  ASSUME LockInv, Typed', NEW p \in Processes, Abort(p)
  PROVE  LockInv'
<1>1. UNCHANGED state
  BY DEF Abort, rows
<1>2. CASE p \in Requests
  BY <1>1, <1>2, NamesDiffer, EndsKeeps DEF Abort, Ends
<1>3. CASE p = "delete"
  <2>1. del \in DelType /\ Release("delete") /\ DeleteAborted
    BY <1>3, NamesDiffer DEF LockInv, TypeOK, PlacesTypeOK, Abort
  <2>2. del' \in DelType /\ del'.at \in {"idle", "devices", "user"}
    <3>1. Scanned \in SUBSET Devices /\ NoDel \in DelType /\ NoDel.at = "idle"
      BY DEF Scanned, Existing, NoDel, DelType
    <3>2. CASE del' = NoDel
      BY <3>1, <3>2
    <3>3. CASE del' = [NoDel EXCEPT !.at = IF del.account THEN "devices" ELSE "user", !.account = del.account,
                                    !.again = TRUE, !.left = IF del.account THEN Scanned ELSE {}]
      BY <2>1, <3>1, <3>3 DEF DelType
    <3> QED
      BY <2>1, <3>2, <3>3 DEF DeleteAborted
  <2> QED
    BY <2>1, <2>2, DeleteEnds DEF DeleteAborted
<1>4. CASE p = "reparse"
  BY <1>1, <1>4, NamesDiffer, ReparseEndKeeps DEF Abort, ReparseEnds
<1>5. CASE p = "retention"
  BY <1>5, NamesDiffer DEF Abort
<1> QED
  BY <1>2, <1>3, <1>4, <1>5 DEF Processes

-----------------------------------------------------------------------------
(* The rows.                                                                     *)

LEMMA SpendType ==
  ASSUME budget \in BudgetType, NEW what \in {"uploads", "deletes", "changes", "batches", "reparses"}, Spend(what)
  PROVE  budget' \in BudgetType
BY DEF BudgetType, Spend

LEMMA BudgetTyped == ASSUME budget \in BudgetType, Next PROVE budget' \in BudgetType
<1>1. \/ \E what \in {"uploads", "deletes", "changes", "batches", "reparses"} : Spend(what)
      \/ UNCHANGED budget
  <2>1. ASSUME NEW p \in Requests, RequestStep(p) PROVE Spend("uploads") \/ UNCHANGED budget
    BY <2>1 DEF RequestStep, Find, Begin, LockDevice, LockUser, Check, Insert, Commit
  <2>2. ASSUME NEW d \in Devices, DeviceStep(d) PROVE Spend("changes") \/ UNCHANGED budget
    BY <2>2 DEF DeviceStep, CreateDevice, RevokeDevice, EndGrant
  <2>3. ASSUME NEW t \in Tiers, ChangeTier(t) PROVE Spend("changes")
    BY <2>3 DEF ChangeTier
  <2>4. ASSUME DeleteStep PROVE Spend("deletes") \/ UNCHANGED budget
    BY <2>4 DEF DeleteStep, Delete, DeleteLocks, DeleteRows, DeleteCommits
  <2>5. ASSUME RetentionStep PROVE Spend("batches") \/ UNCHANGED budget
    BY <2>5 DEF RetentionStep, RetentionPicks, RetentionDeletes
  <2>6. ASSUME ReparseStep PROVE Spend("reparses") \/ UNCHANGED budget
    BY <2>6 DEF ReparseStep, Reparse, ReparseLocks, ReparseWrites, ReparseCommits
  <2>7. ASSUME NEW p \in Processes, Abort(p) PROVE UNCHANGED budget
    BY <2>7 DEF Abort
  <2> QED
    BY <2>1, <2>2, <2>3, <2>4, <2>5, <2>6, <2>7 DEF Next
<1> QED
  BY <1>1, SpendType

\* What a delete or the retention removes leaves rows.
LEMMA RemoveTyped ==
  ASSUME RowsTypeOK, NEW ids, NEW snaps, Remove(ids, snaps)
  PROVE  /\ uploads' \subseteq RowType /\ snapshots' \subseteq Nat /\ lastRow' \in [Devices -> Contents \cup {NoBytes}]
         /\ Ids' = Ids \ ids
BY DEF RowsTypeOK, Remove, Ids

LEMMA UploadOf == ASSUME NEW id \in Ids PROVE Upload(id) \in uploads /\ Upload(id).id = id
BY DEF Ids, Upload

LEMMA RowsTyped == ASSUME LockInv, Next PROVE RowsTypeOK'
<1>1. RowsTypeOK /\ PlacesTypeOK /\ ReparsedStays /\ \A p \in Requests : req[p] \in ReqType /\ RequestFits(p, req[p])
  BY DEF LockInv, TypeOK, PlacesTypeOK
<1>2. ASSUME UNCHANGED <<rows, nextId, clock, history>> PROVE RowsTypeOK'
  BY <1>1, <1>2 DEF RowsTypeOK, rows, history
<1>3. ASSUME NEW p \in Requests, RequestStep(p) PROVE RowsTypeOK'
  <2>1. CASE Begin(p) \/ Insert(p)
    <3>1. clock' \in Nat /\ nextId' \in Nat /\ UNCHANGED <<rows, history>>
      <4>1. nextId \in Nat /\ clock \in Nat
        BY <1>1 DEF RowsTypeOK
      <4>2. CASE Begin(p)
        BY <4>1, <4>2 DEF Begin
      <4>3. CASE Insert(p)
        BY <4>1, <4>3 DEF Insert
      <4> QED
        BY <2>1, <4>2, <4>3
    <3> QED
      BY <1>1, <3>1 DEF RowsTypeOK, rows, history
  <2>2. CASE Commit(p)
    <3>1. req[p].at = "inserted" /\ req[p].dev \in Devices /\ req[p].sha \in Contents /\ req[p].id \in Nat
          /\ req[p].parsed \in BOOLEAN /\ req[p].stamp \in Nat
      BY <1>1, <2>2 DEF Commit, RequestFits, ReqType
    <3>2. uploads' \subseteq RowType /\ snapshots' \subseteq Nat
      <4> DEFINE u == [id |-> req[p].id, dev |-> req[p].dev, sha |-> req[p].sha, parsed |-> req[p].parsed]
      <4>1. u \in RowType /\ uploads' = uploads \cup {u}
        BY <2>2, <3>1 DEF Commit, RowType
      <4>2. snapshots' = snapshots \cup {req[p].id} \/ snapshots' = snapshots
        BY <2>2 DEF Commit
      <4> HIDE DEF u
      <4> QED
        BY <1>1, <3>1, <4>1, <4>2 DEF RowsTypeOK
    <3>3. stamp' \in [Devices -> Nat] /\ lastRow' \in [Devices -> Contents \cup {NoBytes}]
      BY <1>1, <2>2, <3>1 DEF Commit, RowsTypeOK
    <3> QED
      BY <1>1, <2>2, <3>2, <3>3 DEF Commit, RowsTypeOK
  <2>3. CASE Find(p) \/ LockDevice(p) \/ LockUser(p) \/ Check(p)
    BY <1>2, <2>3 DEF Find, LockDevice, LockUser, Check
  <2> QED
    BY <1>3, <2>1, <2>2, <2>3 DEF RequestStep
<1>4. ASSUME NEW d \in Devices, DeviceStep(d) PROVE RowsTypeOK'
  BY <1>1, <1>4 DEF RowsTypeOK, history, DeviceStep, CreateDevice, RevokeDevice, EndGrant
<1>5. ASSUME NEW t \in Tiers, ChangeTier(t) PROVE RowsTypeOK'
  BY <1>1, <1>5, IngestAssumption DEF RowsTypeOK, ChangeTier
<1>6. ASSUME DeleteStep PROVE RowsTypeOK'
  <2>1. CASE DeleteCommits
    <3>1. uploads' \subseteq RowType /\ snapshots' \subseteq Nat /\ lastRow' \in [Devices -> Contents \cup {NoBytes}]
      BY <1>1, <2>1, RemoveTyped DEF DeleteCommits
    <3> QED
      BY <1>1, <2>1, <3>1 DEF RowsTypeOK, DeleteCommits
  <2>2. CASE (\E account \in BOOLEAN : Delete(account)) \/ DeleteLocks \/ DeleteRows
    BY <1>2, <2>2 DEF Delete, DeleteLocks, DeleteRows
  <2> QED
    BY <1>6, <2>1, <2>2 DEF DeleteStep
<1>7. ASSUME RetentionStep PROVE RowsTypeOK'
  <2>1. CASE RetentionDeletes
    <3>1. uploads' \subseteq RowType /\ snapshots' \subseteq Nat /\ lastRow' \in [Devices -> Contents \cup {NoBytes}]
      BY <1>1, <2>1, RemoveTyped DEF RetentionDeletes
    <3> QED
      BY <1>1, <2>1, <3>1 DEF RowsTypeOK, RetentionDeletes
  <2>2. CASE RetentionPicks
    BY <1>2, <2>2 DEF RetentionPicks
  <2> QED
    BY <1>7, <2>1, <2>2 DEF RetentionStep
<1>8. ASSUME ReparseStep PROVE RowsTypeOK'
  <2>1. CASE ReparseCommits
    <3>1. rep.id \in Ids /\ rep.parsed \in BOOLEAN /\ rep.id \in Nat
      BY <1>1, <2>1 DEF ReparseCommits, ReparsedStays, PlacesTypeOK, RepType
    <3>2. Upload(rep.id) \in RowType
      BY <1>1, <3>1, UploadOf DEF RowsTypeOK
    <3>3. uploads' \subseteq RowType /\ snapshots' \subseteq Nat
      BY <1>1, <2>1, <3>1, <3>2 DEF ReparseCommits, RowsTypeOK, Reparsed, RowType
    <3> QED
      BY <1>1, <2>1, <3>3 DEF ReparseCommits, RowsTypeOK, history
  <2>2. CASE (\E id \in Ids : Reparse(id)) \/ ReparseLocks \/ ReparseWrites
    BY <1>2, <2>2 DEF Reparse, ReparseLocks, ReparseWrites
  <2> QED
    BY <1>8, <2>1, <2>2 DEF ReparseStep
<1>9. ASSUME NEW p \in Processes, Abort(p) PROVE RowsTypeOK'
  BY <1>2, <1>9 DEF Abort
<1> QED
  BY <1>3, <1>4, <1>5, <1>6, <1>7, <1>8, <1>9 DEF Next

\* Neither the delete nor the retention removes an upload that a re-parse has locked.
LEMMA LockedStays ==
  ASSUME LockInv, rep.at \in {"locked", "commit"}
  PROVE  /\ ret.at = "locked" => rep.id \notin ret.ids
         /\ del.at \in {"account", "commit"} => rep.id \notin del.ups
<1>1. Holds("reparse", Lock(UploadRow(rep.id), "update"))
  BY DEF LockInv, ReparseFits
<1>2. "delete" # "reparse" /\ "retention" # "reparse" /\ {"reparse", "delete", "retention"} \subseteq Processes
  BY NamesDiffer
<1>3. ASSUME ret.at = "locked", rep.id \in ret.ids PROVE FALSE
  <2>1. Holds("retention", Lock(UploadRow(rep.id), "update"))
    BY <1>3 DEF LockInv, RetentionFits
  <2> QED
    BY <1>1, <1>2, <2>1, Exclusion, Modal
<1>4. ASSUME del.at \in {"account", "commit"}, rep.id \in del.ups PROVE FALSE
  <2>1. Holds("delete", Lock(UploadRow(rep.id), "update"))
    BY <1>4 DEF LockInv, DeleteFits
  <2> QED
    BY <1>1, <1>2, <2>1, Exclusion, Modal
<1> QED
  BY <1>3, <1>4

LEMMA ReparsedNext == ASSUME LockInv, Next PROVE ReparsedStays'
<1>1. RowsTypeOK /\ rep \in RepType /\ ReparsedStays
  BY DEF LockInv, TypeOK, PlacesTypeOK
<1>2. ASSUME UNCHANGED uploads, rep' = rep PROVE ReparsedStays'
  BY <1>1, <1>2 DEF ReparsedStays, Ids
<1>3. ASSUME rep'.at \notin {"locked", "commit"} PROVE ReparsedStays'
  BY <1>3 DEF ReparsedStays
<1>4. ASSUME NEW p \in Requests, RequestStep(p) PROVE ReparsedStays'
  <2>1. CASE Commit(p)
    BY <1>1, <2>1 DEF Commit, ReparsedStays, Ids
  <2>2. CASE Find(p) \/ Begin(p) \/ LockDevice(p) \/ LockUser(p) \/ Check(p) \/ Insert(p)
    BY <1>2, <2>2 DEF Find, Begin, LockDevice, LockUser, Check, Insert, rows
  <2> QED
    BY <1>4, <2>1, <2>2 DEF RequestStep
<1>5. ASSUME NEW d \in Devices, DeviceStep(d) PROVE ReparsedStays'
  BY <1>2, <1>5 DEF DeviceStep, CreateDevice, RevokeDevice, EndGrant
<1>6. ASSUME NEW t \in Tiers, ChangeTier(t) PROVE ReparsedStays'
  BY <1>2, <1>6 DEF ChangeTier
<1>7. ASSUME DeleteStep PROVE ReparsedStays'
  <2>1. CASE DeleteCommits
    <3>1. Ids' = Ids \ del.ups /\ rep' = rep /\ del.at = "commit"
      BY <1>1, <2>1, RemoveTyped DEF DeleteCommits
    <3> QED
      BY <1>1, <3>1, LockedStays DEF ReparsedStays
  <2>2. CASE (\E account \in BOOLEAN : Delete(account)) \/ DeleteLocks \/ DeleteRows
    BY <1>2, <2>2 DEF Delete, DeleteLocks, DeleteRows, rows
  <2> QED
    BY <1>7, <2>1, <2>2 DEF DeleteStep
<1>8. ASSUME RetentionStep PROVE ReparsedStays'
  <2>1. CASE RetentionDeletes
    <3>1. Ids' = Ids \ ret.ids /\ rep' = rep /\ ret.at = "locked"
      BY <1>1, <2>1, RemoveTyped DEF RetentionDeletes
    <3> QED
      BY <1>1, <3>1, LockedStays DEF ReparsedStays
  <2>2. CASE RetentionPicks
    BY <1>2, <2>2 DEF RetentionPicks, rows
  <2> QED
    BY <1>8, <2>1, <2>2 DEF RetentionStep
<1>9. ASSUME ReparseStep PROVE ReparsedStays'
  <2>1. CASE (\E id \in Ids : Reparse(id)) \/ ReparseCommits
    <3>1. ASSUME NEW id \in Ids, Reparse(id) PROVE rep'.at = "begun"
      BY <3>1 DEF Reparse, NoRep
    <3>2. ReparseCommits => rep'.at = "idle"
      BY DEF ReparseCommits, ReparseEnds, NoRep
    <3>3. rep'.at \notin {"locked", "commit"}
      BY <2>1, <3>1, <3>2
    <3> QED
      BY <1>3, <3>3
  <2>2. CASE ReparseLocks
    <3>1. CASE ReparseEnds
      <4>1. rep'.at = "idle"
        BY <3>1 DEF ReparseEnds, NoRep
      <4> QED
        BY <1>3, <4>1
    <3>2. ASSUME NEW parsed \in BOOLEAN, rep.id \in Ids, rep' = [rep EXCEPT !.at = "locked", !.parsed = parsed]
          PROVE  ReparsedStays'
      <4>1. rep'.id = rep.id /\ Ids' = Ids
        BY <1>1, <2>2, <3>2 DEF ReparseLocks, RepType, rows, Ids
      <4> QED
        BY <3>2, <4>1 DEF ReparsedStays
    <3> QED
      BY <2>2, <3>1, <3>2 DEF ReparseLocks
  <2>3. CASE ReparseWrites
    BY <1>1, <2>3 DEF ReparseWrites, ReparsedStays, RepType, rows, Ids
  <2> QED
    BY <1>9, <2>1, <2>2, <2>3 DEF ReparseStep
<1>10. ASSUME NEW p \in Processes, Abort(p) PROVE ReparsedStays'
  BY <1>2, <1>3, <1>10 DEF Abort, rows, NoRep, DeleteAborted
<1> QED
  BY <1>4, <1>5, <1>6, <1>7, <1>8, <1>9, <1>10 DEF Next

LEMMA InitLocks == ASSUME Init PROVE LockInv
<1>1. RowsTypeOK
  BY IngestAssumption DEF Init, RowsTypeOK, Tiers
<1>2. PlacesTypeOK
  BY DEF Init, PlacesTypeOK, NoReq, NoDel, NoRep, NoRet, ReqType, DelType, RepType, RetType
<1>3. LocksTypeOK /\ budget \in BudgetType /\ Compatible /\ SnapshotsFit
  BY IngestAssumption DEF Init, LocksTypeOK, Compatible, SnapshotsFit
<1>4. ReparsedStays /\ DeleteFits /\ ReparseFits /\ RetentionFits
  BY DEF Init, NoDel, NoRep, NoRet, ReparsedStays, DeleteFits, ReparseFits, RetentionFits
<1>5. \A p \in Requests : RequestFits(p, req[p])
  BY DEF Init, NoReq, RequestFits, InUse
<1> QED
  BY <1>1, <1>2, <1>3, <1>4, <1>5 DEF LockInv, TypeOK

LEMMA NextLocks == ASSUME LockInv, [Next]_vars PROVE LockInv'
<1>1. CASE Next
  <2>1. Typed'
    BY <1>1, RowsTyped, BudgetTyped, ReparsedNext DEF Typed, LockInv, TypeOK
  <2>2. ASSUME NEW p \in Requests, RequestStep(p) PROVE LockInv'
    BY <2>1, <2>2, StepsKeep DEF RequestStep, Find, Begin, LockDevice, LockUser, Check, Insert, Commit, rows
  <2> QED
    BY <1>1, <2>1, <2>2, DevicesKeep, TierKeeps, DeletesKeep, RetentionKeeps, ReparseKeeps, AbortKeeps DEF Next
<1>2. CASE UNCHANGED vars
  <2>1. Typed' /\ del \in DelType
    BY <1>2 DEF Typed, LockInv, TypeOK, RowsTypeOK, PlacesTypeOK, ReparsedStays, Ids, vars, rows, history
  <2>2. UNCHANGED <<locks, req, rep, ret, del>> /\ Existing' = Existing
    BY <1>2 DEF vars, rows, Existing
  <2> QED
    BY <2>1, <2>2, QuietKeeps
<1> QED
  BY <1>1, <1>2

\* The variables keep their types, and every lock is held by a transaction that is open.
THEOREM TypeCorrect == Spec => []TypeOK
<1>1. LockInv => TypeOK
  BY DEF LockInv
<1> QED
  BY <1>1, InitLocks, NextLocks, PTL DEF Spec

-----------------------------------------------------------------------------
(* A batch of the retention waits for nobody: a row of snapshots is locked only  *)
(* by the delete, which has the user, or by the re-parse, which has the upload.  *)

LEMMA RetentionFreeInv == LockInv => RetentionNeverWaits
<1> SUFFICES ASSUME LockInv, NEW q \in Processes, WaitsFor("retention", q) PROVE FALSE
  BY DEF RetentionNeverWaits, Free
<1>1. PICK w \in Needs("retention") : Blocks(q, "retention", w)
  BY DEF WaitsFor
<1>2. ret.at = "locked" /\ w \in {Lock(SnapshotRow(i), "update") : i \in ret.ids \cap snapshots}
  BY <1>1, NeedsOf DEF NeedsOfRetention
<1>3. PICK id \in ret.ids : w = Lock(SnapshotRow(id), "update")
  BY <1>2
<1>4. PICK l \in locks : l.by = q /\ l.lock.row = SnapshotRow(id)
  BY <1>1, <1>3, LockParts DEF Blocks
<1>5. l.lock.row[1] = "snapshot"
  BY <1>4, RowsDiffer
<1>6. CASE q = "delete" /\ del.at \in {"uploads", "account", "commit"}
  <2>1. Holds("delete", Lock(UserRow, "update")) /\ Holds("retention", Lock(UserRow, "keyshare"))
    BY <1>2, <1>6 DEF LockInv, DeleteFits, RetentionFits
  <2> QED
    BY <2>1, Exclusion, Modal, NamesDiffer
<1>7. CASE rep.at = "commit" /\ l.lock.row = SnapshotRow(rep.id)
  BY <1>2, <1>4, <1>7, LockedStays, RowsDiffer
<1> QED
  BY <1>4, <1>5, <1>6, <1>7 DEF LockInv, SnapshotsFit

\* A batch never waits once it has picked its rows, whatever runs beside it.
THEOREM RetentionFree == Spec => []RetentionNeverWaits
BY InitLocks, NextLocks, RetentionFreeInv, PTL DEF Spec

-----------------------------------------------------------------------------
(* A device whose lock an upload has is not revoked or deleted meanwhile, and a  *)
(* place in the limit is free as long as the upload that found it is under way.  *)

InUseStays == \A p \in Requests : req[p].at \in InUse => state[req[p].dev] \in {"live", "ended"}

Choosing == {"checked", "inserted"}

SlotFree(p) ==
  /\ req[p].at \notin {"idle", "found"} => req[p].stamp > 0
  /\ req[p].at # "idle" /\ req[p].claimed => Claimed(req[p].dev)
  /\ req[p].at \in Choosing /\ ~Claimed(req[p].dev) => Cardinality(Holders \ {req[p].dev}) < most

SlotInv ==
  /\ SlotLimit
  /\ tier = "gone" => \A d \in Devices : state[d] = "none"
  /\ tier # "gone" => Limits[tier] <= most
  /\ \A p \in Requests : SlotFree(p)

LEMMA HoldersFinite == IsFiniteSet(Holders) /\ \A S : IsFiniteSet(Holders \ S) /\ Cardinality(Holders \ S) \in Nat
<1>1. IsFiniteSet(Holders)
  BY IngestAssumption, FS_Subset DEF Holders
<1>2. ASSUME NEW S PROVE IsFiniteSet(Holders \ S) /\ Cardinality(Holders \ S) \in Nat
  BY <1>1, FS_Subset, FS_CardinalityType
<1> QED
  BY <1>1, <1>2

\* Two of the steps that a request's place may take: it stays, or it leaves InUse.
RequestStill(p) == req'[p] = req[p] \/ req'[p].at \in {"idle", "found", "begun"}

LEMMA UseNext == ASSUME LockInv, InUseStays, Next PROVE InUseStays'
<1>1. req \in [Requests -> ReqType] /\ state \in [Devices -> {"none", "live", "ended", "revoked"}]
      /\ \A p \in Requests : req[p] \in ReqType /\ (req[p].at # "idle" => req[p].dev \in Devices)
  BY DEF LockInv, TypeOK, PlacesTypeOK, RowsTypeOK, RequestFits
<1>2. ASSUME NEW p \in Requests, req[p].at \in InUse
      PROVE  req[p].dev \in Devices /\ Holds(p, Lock(DeviceRow(req[p].dev), "update"))
             /\ state[req[p].dev] \in {"live", "ended"}
  BY <1>2 DEF LockInv, RequestFits, InUse, InUseStays
<1>3. ASSUME UNCHANGED state, \A p \in Requests : RequestStill(p) PROVE InUseStays'
  BY <1>3 DEF InUseStays, RequestStill, InUse
<1>4. ASSUME UNCHANGED req, \A d \in Devices : state'[d] = state[d] \/ state'[d] \in {"live", "ended"} PROVE InUseStays'
  BY <1>2, <1>4 DEF InUseStays
<1>5. ASSUME NEW p \in Requests, Ends(p) PROVE \A q \in Requests : RequestStill(q)
  BY <1>1, <1>5 DEF Ends, NoReq, RequestStill
<1>6. ASSUME NEW p \in Requests, RequestStep(p) PROVE InUseStays'
  <2>1. UNCHANGED state
    BY <1>6 DEF RequestStep, Find, Begin, LockDevice, LockUser, Check, Insert, Commit, rows
  <2>2. CASE Ends(p)
    BY <1>3, <1>5, <2>1, <2>2
  <2>3. CASE Find(p) \/ Begin(p)
    <3>1. \A q \in Requests : RequestStill(q)
      <4>1. CASE Find(p)
        <5>1. PICK d \in Devices, sha \in Contents :
                req' = [req EXCEPT ![p] = [NoReq EXCEPT !.at = "found", !.dev = d, !.sha = sha, !.claimed = Claimed(d)]]
          BY <4>1 DEF Find
        <5>2. req'[p].at = "found" /\ \A q \in Requests : q # p => req'[q] = req[q]
          BY <1>1, <5>1 DEF NoReq
        <5> QED
          BY <5>2 DEF RequestStill
      <4>2. CASE Begin(p)
        <5>1. req' = [req EXCEPT ![p] = [req[p] EXCEPT !.at = "begun", !.stamp = clock + 1]]
          BY <4>2 DEF Begin
        <5>2. req'[p].at = "begun" /\ \A q \in Requests : q # p => req'[q] = req[q]
          BY <1>1, <5>1 DEF ReqType
        <5> QED
          BY <5>2 DEF RequestStill
      <4> QED
        BY <2>3, <4>1, <4>2
    <3> QED
      BY <1>3, <2>1, <3>1
  <2>4. ASSUME NEW r \in ReqType, req' = [req EXCEPT ![p] = r], r.dev = req[p].dev, state[req[p].dev] \in {"live", "ended"}
        PROVE  InUseStays'
    BY <1>1, <2>1, <2>4 DEF InUseStays
  <2>5. CASE LockDevice(p)
    BY <1>1, <2>2, <2>4, <2>5 DEF LockDevice, ReqType
  <2>6. CASE LockUser(p) \/ Check(p) \/ Insert(p)
    <3>1. req[p].at \in InUse
      BY <2>6 DEF LockUser, Check, Insert, InUse
    <3>2. CASE LockUser(p) \/ Check(p)
      BY <1>1, <1>2, <2>2, <2>4, <3>1, <3>2 DEF LockUser, Check, ReqType
    <3>3. CASE Insert(p)
      <4>1. PICK parsed \in BOOLEAN :
              req' = [req EXCEPT ![p] = [@ EXCEPT !.at = "inserted", !.id = nextId, !.parsed = parsed]]
        BY <3>3 DEF Insert
      <4>2. nextId \in Nat
        BY DEF LockInv, TypeOK, RowsTypeOK
      <4> QED
        BY <1>1, <1>2, <2>4, <3>1, <4>1, <4>2 DEF ReqType
    <3> QED
      BY <2>6, <3>2, <3>3
  <2>7. CASE Commit(p)
    BY <2>2, <2>7 DEF Commit
  <2> QED
    BY <1>6, <2>3, <2>5, <2>6, <2>7 DEF RequestStep
<1>7. ASSUME NEW d \in Devices, DeviceStep(d) PROVE InUseStays'
  <2>1. CASE CreateDevice(d) \/ EndGrant(d)
    BY <1>1, <1>4, <2>1 DEF CreateDevice, EndGrant
  <2>2. CASE RevokeDevice(d)
    <3>1. UNCHANGED req /\ state' = [state EXCEPT ![d] = "revoked"] /\ Unlocked(Lock(DeviceRow(d), "nokey"))
      BY <2>2 DEF RevokeDevice
    <3>2. ASSUME NEW p \in Requests, req[p].at \in InUse PROVE req[p].dev # d
      BY <1>2, <3>1, <3>2, StatementWaits, Modal, NamesDiffer
    <3> QED
      BY <1>1, <1>2, <3>1, <3>2 DEF InUseStays
  <2> QED
    BY <1>7, <2>1, <2>2 DEF DeviceStep
<1>8. ASSUME NEW t \in Tiers, ChangeTier(t) PROVE InUseStays'
  BY <1>4, <1>8 DEF ChangeTier
<1>9. ASSUME DeleteStep PROVE InUseStays'
  <2>1. CASE DeleteCommits /\ del.account
    <3>1. UNCHANGED req /\ del.at = "commit"
      BY <2>1 DEF DeleteCommits
    <3>2. ASSUME NEW p \in Requests, req[p].at \in InUse PROVE FALSE
      <4>1. req[p].dev \in Existing
        BY <1>2, <3>2 DEF Existing
      <4>2. Holds("delete", Lock(DeviceRow(req[p].dev), "update"))
        BY <2>1, <3>1, <4>1 DEF LockInv, DeleteFits
      <4> QED
        BY <1>2, <3>2, <4>2, Exclusion, Modal, NamesDiffer
    <3> QED
      BY <3>1, <3>2 DEF InUseStays
  <2>2. CASE DeleteCommits /\ ~del.account
    BY <1>4, <2>2 DEF DeleteCommits
  <2>3. CASE (\E account \in BOOLEAN : Delete(account)) \/ DeleteLocks \/ DeleteRows
    BY <1>4, <2>3 DEF Delete, DeleteLocks, DeleteRows, rows
  <2> QED
    BY <1>9, <2>1, <2>2, <2>3 DEF DeleteStep
<1>10. ASSUME RetentionStep \/ ReparseStep PROVE InUseStays'
  BY <1>4, <1>10 DEF RetentionStep, RetentionPicks, RetentionDeletes, ReparseStep, Reparse, ReparseLocks, ReparseWrites, ReparseCommits, rows
<1>11. ASSUME NEW p \in Processes, Abort(p) PROVE InUseStays'
  <2>1. UNCHANGED state /\ (req' = req \/ (p \in Requests /\ Ends(p)))
    BY <1>11 DEF Abort, rows, Ends, DeleteAborted
  <2> QED
    BY <1>3, <1>4, <1>5, <2>1
<1> QED
  BY <1>6, <1>7, <1>8, <1>9, <1>10, <1>11 DEF Next

\* No holder is added, no place in the limit is lost and no claim is undone.
Calm ==
  /\ Holders' \subseteq Holders
  /\ most' \in Nat /\ most' >= most
  /\ \A d \in Devices : Claimed(d) => Claimed(d)'

LEMMA FewerHolders ==
  ASSUME Holders' \subseteq Holders
  PROVE  /\ Cardinality(Holders)' \in Nat /\ Cardinality(Holders)' <= Cardinality(Holders)
         /\ \A d : /\ Cardinality(Holders \ {d})' \in Nat
                   /\ Cardinality(Holders \ {d})' <= Cardinality(Holders \ {d})
<1>1. IsFiniteSet(Holders)
  BY HoldersFinite
<1>2. Cardinality(Holders)' \in Nat /\ Cardinality(Holders)' <= Cardinality(Holders)
  BY <1>1, FS_Subset, FS_CardinalityType
<1>3. ASSUME NEW d PROVE Cardinality(Holders' \ {d}) \in Nat /\ Cardinality(Holders' \ {d}) <= Cardinality(Holders \ {d})
  <2>1. IsFiniteSet(Holders \ {d}) /\ Holders' \ {d} \subseteq Holders \ {d}
    BY HoldersFinite
  <2> QED
    BY <2>1, FS_Subset, FS_CardinalityType
<1> QED
  BY <1>2, <1>3

LEMMA CalmLimit == ASSUME SlotLimit, most \in Nat, Calm PROVE SlotLimit'
<1>1. Cardinality(Holders)' \in Nat /\ Cardinality(Holders)' <= Cardinality(Holders) /\ Cardinality(Holders) \in Nat
  BY FewerHolders, HoldersFinite, FS_CardinalityType DEF Calm
<1> QED
  BY <1>1 DEF SlotLimit, Calm

LEMMA CalmFree ==
  ASSUME LockInv, Calm, NEW p \in Requests, SlotFree(p), req'[p] = req[p]
  PROVE  SlotFree(p)'
<1>1. most \in Nat /\ (req[p].at # "idle" => req[p].dev \in Devices)
  BY DEF LockInv, TypeOK, RowsTypeOK, RequestFits
<1>2. req'[p].at \notin {"idle", "found"} => req'[p].stamp > 0
  BY DEF SlotFree
<1>3. req'[p].at # "idle" /\ req'[p].claimed => Claimed(req[p].dev)'
  BY <1>1 DEF SlotFree, Calm
<1>4. ASSUME req[p].at \in Choosing, ~(Claimed(req[p].dev)') PROVE Cardinality(Holders \ {req[p].dev})' < most'
  <2>1. ~Claimed(req[p].dev)
    BY <1>1, <1>4 DEF Calm, Choosing
  <2>2. Cardinality(Holders \ {req[p].dev}) < most
    BY <1>4, <2>1 DEF SlotFree
  <2>3. Cardinality(Holders \ {req[p].dev}) \in Nat /\ most' \in Nat /\ most' >= most
    BY HoldersFinite DEF Calm
  <2>4. Cardinality(Holders \ {req[p].dev})' \in Nat
        /\ Cardinality(Holders \ {req[p].dev})' <= Cardinality(Holders \ {req[p].dev})
    BY FewerHolders DEF Calm
  <2> QED
    BY <1>1, <2>2, <2>3, <2>4
<1>5. (Cardinality(Holders \ {req[p].dev}) < most)' <=> Cardinality(Holders' \ {req'[p].dev}) < most'
  OBVIOUS
<1> QED
  BY <1>2, <1>3, <1>4, <1>5 DEF SlotFree

LEMMA StillCalm == ASSUME LockInv, UNCHANGED <<state, stamp, most>> PROVE Calm
BY DEF Calm, Holders, Claimed, LockInv, TypeOK, RowsTypeOK

\* A request that only moves on, before it chooses or after it found its place.
LEMMA SlotMoves ==
  ASSUME LockInv, NEW p \in Requests, SlotFree(p), UNCHANGED <<state, stamp, most>>,
         NEW r \in ReqType, req'[p] = r, r.dev = req[p].dev, r.stamp = req[p].stamp, r.claimed = req[p].claimed,
         req[p].at \notin {"idle", "found"}, r.at \in Choosing => req[p].at \in Choosing
  PROVE  SlotFree(p)'
<1>1. Holders' = Holders /\ \A d : Claimed(d)' <=> Claimed(d)
  BY DEF Holders, Claimed
<1> QED
  BY <1>1 DEF SlotFree

\* The check under the locks finds fewer holders than places.
LEMMA ChosenFree ==
  ASSUME LockInv, InUseStays, SlotInv, NEW p \in Requests, Check(p), ~OverLimit(req[p].dev)
  PROVE  ~Claimed(req[p].dev) => Cardinality(Holders \ {req[p].dev}) < most
<1> SUFFICES ASSUME ~Claimed(req[p].dev) PROVE Cardinality(Holders \ {req[p].dev}) < most
  OBVIOUS
<1>1. req[p].at = "user" /\ req[p].dev \in Devices /\ most \in Nat /\ tier \in Tiers \cup {"gone"}
  BY DEF Check, LockInv, RequestFits, TypeOK, RowsTypeOK
<1>2. tier # "gone" /\ tier \in Tiers
  BY <1>1 DEF InUseStays, InUse, SlotInv
<1>3. Ahead(req[p].dev) = Holders \ {req[p].dev}
  BY DEF Ahead
<1>4. Limits[tier] \in Nat /\ Limits[tier] <= most
  BY <1>2, IngestAssumption DEF SlotInv
<1>5. Cardinality(Holders \ {req[p].dev}) \in Nat
  BY HoldersFinite
<1>6. ~(Cardinality(Holders \ {req[p].dev}) >= Limits[tier])
  BY <1>2, <1>3 DEF OverLimit
<1> QED
  BY <1>1, <1>4, <1>5, <1>6

\* Two uploads that have no slot do not choose at once: both would hold their user.
LEMMA ChoosesAlone ==
  ASSUME LockInv, SlotInv, NEW p \in Requests, NEW q \in Requests, req[p].at \in Choosing, req[q].at \in Choosing,
         ~Claimed(req[p].dev), ~Claimed(req[q].dev)
  PROVE  p = q
<1>1. ASSUME NEW o \in Requests, req[o].at \in Choosing, ~Claimed(req[o].dev)
      PROVE  o \in Processes /\ Holds(o, Lock(UserRow, "nokey"))
  <2>1. ~req[o].claimed
    BY <1>1 DEF SlotInv, SlotFree, Choosing
  <2> QED
    BY <1>1, <2>1, NamesDiffer DEF LockInv, RequestFits, InUse, Choosing
<1> QED
  BY <1>1, Exclusion, Modal

LEMMA CommitSlots ==
  ASSUME LockInv, SlotInv, NEW p \in Requests, Commit(p)
  PROVE  SlotInv'
<1>1. req \in [Requests -> ReqType] /\ req[p] \in ReqType /\ req[p].at = "inserted" /\ req[p].dev \in Devices
      /\ stamp \in [Devices -> Nat] /\ most \in Nat /\ UNCHANGED <<state, most, tier>>
  BY DEF LockInv, TypeOK, PlacesTypeOK, RowsTypeOK, RequestFits, Commit
<1>2. req'[p].at = "idle" /\ \A q \in Requests : q # p => req'[q] = req[q]
  BY <1>1 DEF Commit, Ends, NoReq
<1>3. SlotFree(p)'
  BY <1>2 DEF SlotFree, Choosing
<1>4. CASE UNCHANGED stamp
  <2>1. Calm
    BY <1>1, <1>4, StillCalm
  <2>2. \A q \in Requests : SlotFree(q)'
    BY <1>2, <1>3, <2>1, CalmFree DEF SlotInv
  <2> QED
    BY <1>1, <2>1, <2>2, CalmLimit DEF SlotInv
<1>5. CASE ~Claimed(req[p].dev) /\ stamp' = [stamp EXCEPT ![req[p].dev] = req[p].stamp]
  <2> DEFINE d == req[p].dev
  <2>1. req[p].stamp > 0 /\ req[p].stamp \in Nat /\ Cardinality(Holders \ {d}) < most
    BY <1>1, <1>5 DEF SlotInv, SlotFree, Choosing, ReqType
  <2>2. \A e \in Devices : Claimed(e)' <=> Claimed(e) \/ e = d
    BY <1>1, <1>5, <2>1 DEF Claimed
  <2>3. Holders' \subseteq (Holders \ {d}) \cup {d} /\ Holders' \ {d} = Holders \ {d}
    BY <1>1, <2>2 DEF Holders
  <2>4. SlotLimit'
    <3>1. IsFiniteSet(Holders \ {d}) /\ Cardinality(Holders \ {d}) \in Nat /\ d \notin Holders \ {d}
      BY HoldersFinite
    <3>2. IsFiniteSet((Holders \ {d}) \cup {d}) /\ Cardinality((Holders \ {d}) \cup {d}) = Cardinality(Holders \ {d}) + 1
      BY <3>1, FS_AddElement
    <3>3. IsFiniteSet(Holders') /\ Cardinality(Holders') <= Cardinality((Holders \ {d}) \cup {d})
      BY <2>3, <3>2, FS_Subset
    <3>4. Cardinality(Holders') \in Nat
      BY <3>3, FS_CardinalityType
    <3>5. Cardinality(Holders') <= most'
      <4> DEFINE c == Cardinality(Holders') e == Cardinality(Holders \ {d})
      <4>1. c \in Nat /\ e \in Nat /\ c <= e + 1 /\ e < most /\ most' = most /\ most \in Nat
        BY <1>1, <2>1, <3>1, <3>2, <3>3, <3>4
      <4> HIDE DEF c, e
      <4>2. c <= most'
        BY <4>1
      <4> QED
        BY <4>2 DEF c
    <3> QED
      BY <3>5 DEF SlotLimit
  <2>5. ASSUME NEW q \in Requests, q # p PROVE SlotFree(q)'
    <3>1. SlotFree(q) /\ req'[q] = req[q] /\ (req[q].at # "idle" => req[q].dev \in Devices)
      BY <1>2, <2>5 DEF SlotInv, LockInv, RequestFits
    <3>2. req[q].at # "idle" /\ req[q].claimed => Claimed(req[q].dev)'
      BY <2>2, <3>1 DEF SlotFree
    <3>3. req[q].at \in Choosing => Claimed(req[q].dev)'
      BY <1>1, <1>5, <2>2, <2>5, <3>1, ChoosesAlone DEF Choosing
    <3> QED
      BY <3>1, <3>2, <3>3 DEF SlotFree
  <2> QED
    BY <1>1, <1>3, <2>4, <2>5 DEF SlotInv
<1> QED
  BY <1>4, <1>5 DEF Commit

LEMMA RequestSlots ==
  ASSUME LockInv, InUseStays, SlotInv, NEW p \in Requests, RequestStep(p)
  PROVE  SlotInv'
<1>1. req \in [Requests -> ReqType] /\ req[p] \in ReqType /\ most \in Nat /\ SlotFree(p) /\ nextId \in Nat /\ clock \in Nat
  BY DEF LockInv, TypeOK, PlacesTypeOK, RowsTypeOK, SlotInv
<1>2. ASSUME UNCHANGED <<state, stamp, most, tier>>, \A q \in Requests : q # p => req'[q] = req[q], SlotFree(p)'
      PROVE  SlotInv'
  <2>1. Calm
    BY <1>2, StillCalm
  <2>2. \A q \in Requests : SlotFree(q)'
    BY <1>2, <2>1, CalmFree DEF SlotInv
  <2> QED
    BY <1>1, <1>2, <2>1, <2>2, CalmLimit DEF SlotInv
<1>3. ASSUME Ends(p) PROVE SlotFree(p)' /\ \A q \in Requests : q # p => req'[q] = req[q]
  <2>1. req'[p].at = "idle" /\ \A q \in Requests : q # p => req'[q] = req[q]
    BY <1>1, <1>3 DEF Ends, NoReq
  <2> QED
    BY <2>1 DEF SlotFree, Choosing
<1>4. CASE Find(p)
  <2>1. PICK d \in Devices, sha \in Contents :
          req' = [req EXCEPT ![p] = [NoReq EXCEPT !.at = "found", !.dev = d, !.sha = sha, !.claimed = Claimed(d)]]
    BY <1>4 DEF Find
  <2>2. req'[p].at = "found" /\ req'[p].dev = d /\ req'[p].claimed = Claimed(d) /\ \A q \in Requests : q # p => req'[q] = req[q]
    BY <1>1, <2>1 DEF NoReq
  <2>3. UNCHANGED <<state, stamp, most, tier>>
    BY <1>4 DEF Find, rows, history
  <2>4. Claimed(d)' <=> Claimed(d)
    BY <2>3 DEF Claimed
  <2>5. SlotFree(p)'
    BY <2>2, <2>4 DEF SlotFree, Choosing
  <2> QED
    BY <1>2, <2>2, <2>3, <2>5
<1>5. CASE Begin(p)
  <2>1. req' = [req EXCEPT ![p] = [req[p] EXCEPT !.at = "begun", !.stamp = clock + 1]] /\ req[p].at = "found"
        /\ UNCHANGED <<state, stamp, most, tier>>
    BY <1>5 DEF Begin, rows, history
  <2>2. req'[p].at = "begun" /\ req'[p].dev = req[p].dev /\ req'[p].claimed = req[p].claimed /\ req'[p].stamp = clock + 1
        /\ \A q \in Requests : q # p => req'[q] = req[q]
    BY <1>1, <2>1 DEF ReqType
  <2>3. Claimed(req[p].dev)' <=> Claimed(req[p].dev)
    BY <2>1 DEF Claimed
  <2>4. SlotFree(p)'
    BY <1>1, <2>1, <2>2, <2>3 DEF SlotFree, Choosing
  <2> QED
    BY <1>2, <2>1, <2>2, <2>4
<1>6. ASSUME NEW r \in ReqType, req' = [req EXCEPT ![p] = r], r.dev = req[p].dev, r.stamp = req[p].stamp,
             r.claimed = req[p].claimed, req[p].at \notin {"idle", "found"}, r.at \in Choosing => req[p].at \in Choosing,
             UNCHANGED <<state, stamp, most, tier>>
      PROVE  SlotInv'
  <2>1. req'[p] = r /\ \A q \in Requests : q # p => req'[q] = req[q]
    BY <1>1, <1>6
  <2>2. SlotFree(p)'
    BY <1>1, <1>6, <2>1, SlotMoves
  <2> QED
    BY <1>2, <1>6, <2>1, <2>2
<1>7. CASE LockDevice(p) \/ LockUser(p)
  <2>1. UNCHANGED <<state, stamp, most, tier>> /\ req[p].at \notin {"idle", "found"}
    BY <1>7 DEF LockDevice, LockUser, rows, history
  <2>2. CASE Ends(p)
    BY <1>2, <1>3, <2>1, <2>2
  <2>3. ASSUME NEW at \in {"device", "user"}, req' = [req EXCEPT ![p] = [@ EXCEPT !.at = at]] PROVE SlotInv'
    <3> DEFINE r == [req[p] EXCEPT !.at = at]
    <3>1. r \in ReqType /\ r.at = at /\ r.dev = req[p].dev /\ r.stamp = req[p].stamp /\ r.claimed = req[p].claimed
          /\ at \notin Choosing
      BY <1>1 DEF ReqType, Choosing
    <3>2. req' = [req EXCEPT ![p] = r]
      BY <2>3
    <3> HIDE DEF r
    <3> QED
      BY <1>6, <2>1, <3>1, <3>2
  <2> QED
    BY <1>7, <2>2, <2>3 DEF LockDevice, LockUser
<1>8. CASE Check(p)
  <2>1. UNCHANGED <<state, stamp, most, tier>>
    BY <1>8 DEF Check, rows, history
  <2>2. CASE Ends(p)
    BY <1>2, <1>3, <2>1, <2>2
  <2>3. CASE ~OverLimit(req[p].dev) /\ req' = [req EXCEPT ![p] = [@ EXCEPT !.at = "checked"]]
    <3>1. ~Claimed(req[p].dev) => Cardinality(Holders \ {req[p].dev}) < most
      BY <1>8, <2>3, ChosenFree
    <3>2. req'[p].at = "checked" /\ req'[p].dev = req[p].dev /\ req'[p].stamp = req[p].stamp
          /\ req'[p].claimed = req[p].claimed /\ \A q \in Requests : q # p => req'[q] = req[q]
      BY <1>1, <2>3 DEF ReqType
    <3>3. Holders' = Holders /\ (Claimed(req[p].dev)' <=> Claimed(req[p].dev)) /\ req[p].at = "user"
      BY <1>8, <2>1, <3>2 DEF Holders, Claimed, Check
    <3>4. SlotFree(p)'
      BY <1>1, <2>1, <3>1, <3>2, <3>3 DEF SlotFree, Choosing
    <3> QED
      BY <1>2, <2>1, <3>2, <3>4
  <2> QED
    BY <1>8, <2>2, <2>3 DEF Check
<1>9. CASE Insert(p)
  <2>1. PICK parsed \in BOOLEAN :
          req' = [req EXCEPT ![p] = [@ EXCEPT !.at = "inserted", !.id = nextId, !.parsed = parsed]]
    BY <1>9 DEF Insert
  <2>2. UNCHANGED <<state, stamp, most, tier>> /\ req[p].at = "checked"
    BY <1>9 DEF Insert, rows, history
  <2> DEFINE r == [req[p] EXCEPT !.at = "inserted", !.id = nextId, !.parsed = parsed]
  <2>3. r \in ReqType /\ r.dev = req[p].dev /\ r.stamp = req[p].stamp /\ r.claimed = req[p].claimed
    BY <1>1 DEF ReqType
  <2>4. req' = [req EXCEPT ![p] = r] /\ req[p].at \in Choosing
    BY <2>1, <2>2 DEF Choosing
  <2> HIDE DEF r
  <2> QED
    BY <1>6, <2>2, <2>3, <2>4
<1> QED
  BY <1>4, <1>5, <1>7, <1>8, <1>9, CommitSlots DEF RequestStep

LEMMA SlotNext == ASSUME LockInv, InUseStays, SlotInv, Next PROVE SlotInv'
<1>1. req \in [Requests -> ReqType] /\ state \in [Devices -> {"none", "live", "ended", "revoked"}]
      /\ stamp \in [Devices -> Nat] /\ most \in Nat /\ tier \in Tiers \cup {"gone"}
  BY DEF LockInv, TypeOK, PlacesTypeOK, RowsTypeOK
\* A step of another transaction, which leaves the requests or ends one.
<1>2. ASSUME Calm, \A q \in Requests : req'[q] = req[q] \/ req'[q].at = "idle",
             tier' = "gone" => \A d \in Devices : state'[d] = "none", tier' # "gone" => Limits[tier'] <= most'
      PROVE  SlotInv'
  <2>1. \A q \in Requests : req'[q].at = "idle" => SlotFree(q)'
    BY DEF SlotFree, Choosing
  <2>2. \A q \in Requests : SlotFree(q)'
    BY <1>2, <2>1, CalmFree DEF SlotInv
  <2> QED
    BY <1>1, <1>2, <2>2, CalmLimit DEF SlotInv
<1>3. ASSUME UNCHANGED <<state, stamp, most, tier>>, \A q \in Requests : req'[q] = req[q] \/ req'[q].at = "idle"
      PROVE  SlotInv'
  BY <1>2, <1>3, StillCalm DEF SlotInv
<1>4. ASSUME NEW d \in Devices, DeviceStep(d) PROVE SlotInv'
  <2>1. UNCHANGED <<req, stamp, most, tier>> /\ tier # "gone"
    BY <1>1, <1>4 DEF DeviceStep, CreateDevice, RevokeDevice, EndGrant, SlotInv, history
  <2>2. \A e \in Devices : state'[e] = "live" /\ Claimed(e) => state[e] = "live"
    BY <1>1, <1>4 DEF DeviceStep, CreateDevice, RevokeDevice, EndGrant, Claimed
  <2>3. \A e \in Devices : Claimed(e)' <=> Claimed(e)
    BY <2>1 DEF Claimed
  <2>4. Calm
    BY <1>1, <2>1, <2>2, <2>3 DEF Calm, Holders
  <2> QED
    BY <1>2, <2>1, <2>4 DEF SlotInv
<1>5. ASSUME NEW t \in Tiers, ChangeTier(t) PROVE SlotInv'
  <2>1. UNCHANGED <<req, stamp, state>> /\ tier' = t /\ t # "gone" /\ Limits[t] \in Nat
    BY <1>5, IngestAssumption DEF ChangeTier, Tiers
  <2>2. most' = IF Limits[t] > most THEN Limits[t] ELSE most
    BY <1>5 DEF ChangeTier
  <2>3. most' \in Nat /\ most' >= most /\ Limits[t] <= most'
    BY <1>1, <2>1, <2>2
  <2>4. Calm
    BY <2>1, <2>3 DEF Calm, Holders, Claimed
  <2> QED
    BY <1>2, <2>1, <2>3, <2>4
<1>6. ASSUME DeleteStep PROVE SlotInv'
  <2>1. UNCHANGED <<req, stamp, most>>
    BY <1>6 DEF DeleteStep, Delete, DeleteLocks, DeleteRows, DeleteCommits, rows, history
  <2>2. CASE DeleteCommits /\ del.account
    <3>1. tier' = "gone" /\ state' = [d \in Devices |-> "none"]
      BY <2>2 DEF DeleteCommits
    <3>2. Calm
      BY <1>1, <2>1, <3>1 DEF Calm, Holders, Claimed
    <3> QED
      BY <1>2, <2>1, <3>1, <3>2
  <2>3. CASE DeleteCommits /\ ~del.account
    BY <1>3, <2>1, <2>3 DEF DeleteCommits
  <2>4. CASE (\E account \in BOOLEAN : Delete(account)) \/ DeleteLocks \/ DeleteRows
    BY <1>3, <2>1, <2>4 DEF Delete, DeleteLocks, DeleteRows, rows
  <2> QED
    BY <1>6, <2>2, <2>3, <2>4 DEF DeleteStep
<1>7. ASSUME RetentionStep \/ ReparseStep PROVE SlotInv'
  <2>1. UNCHANGED <<req, state, stamp, most, tier>>
    BY <1>7 DEF RetentionStep, RetentionPicks, RetentionDeletes, ReparseStep, Reparse, ReparseLocks, ReparseWrites,
                ReparseCommits, rows, history
  <2> QED
    BY <1>3, <2>1
<1>8. ASSUME NEW p \in Processes, Abort(p) PROVE SlotInv'
  <2>1. UNCHANGED <<state, stamp, most, tier>> /\ (req' = req \/ (p \in Requests /\ req' = [req EXCEPT ![p] = NoReq]))
    BY <1>8 DEF Abort, rows, history, DeleteAborted
  <2>2. \A q \in Requests : req'[q] = req[q] \/ req'[q].at = "idle"
    BY <1>1, <2>1 DEF NoReq
  <2> QED
    BY <1>3, <2>1, <2>2
<1> QED
  BY <1>4, <1>5, <1>6, <1>7, <1>8, RequestSlots DEF Next

-----------------------------------------------------------------------------
(* The rows: an upload that is being stored has the newest id of its device, and *)
(* the history of each device's latest bytes is its newest row's.                *)

IdsOnce == \A u, v \in uploads : u.id = v.id => u = v

IdsAssigned ==
  /\ \A u \in uploads : u.id < nextId
  /\ \A p \in Requests : req[p].at = "inserted" =>
       /\ req[p].id < nextId /\ req[p].id \notin Ids
       /\ \A u \in RowsOf(req[p].dev) : u.id < req[p].id
  /\ \A p, q \in Requests : req[p].at = "inserted" /\ req[q].at = "inserted" /\ p # q => req[p].id # req[q].id

IsLatest(d) ==
  lastRow[d] # NoBytes => \E u \in RowsOf(d) : u.sha = lastRow[d] /\ \A v \in RowsOf(d) : v.id <= u.id

Fresh(p) == req[p].at \in Choosing => lastRow[req[p].dev] # req[p].sha

\* What the delete found is all there is, once it has found it.
DeleteSeesAll == del.at \in {"account", "commit"} => Ids \subseteq del.ups

RowInv ==
  /\ IdsOnce /\ IdsAssigned /\ SnapshotOfParsed /\ DeleteSeesAll
  /\ \A d \in Devices : IsLatest(d)
  /\ \A p \in Requests : Fresh(p)

LEMMA DevicesApart ==
  ASSUME LockInv, NEW p \in Requests, NEW q \in Requests, p # q, req[p].at \in InUse, req[q].at \in InUse
  PROVE  req[p].dev # req[q].dev
<1>1. Holds(p, Lock(DeviceRow(req[p].dev), "update")) /\ Holds(q, Lock(DeviceRow(req[q].dev), "update"))
  BY DEF LockInv, RequestFits
<1>2. p \in Processes /\ q \in Processes
  BY NamesDiffer
<1> QED
  BY <1>1, <1>2, Exclusion, Modal

\* A delete that has the user waits for no row to be stored, and no retention.
LEMMA DeleteShuts ==
  ASSUME LockInv, del.at \in {"snapshots", "uploads", "account", "commit"}
  PROVE  (\A p \in Requests : req[p].at # "inserted") /\ ret.at # "locked"
<1>1. Holds("delete", Lock(UserRow, "update"))
  BY DEF LockInv, DeleteFits
<1>2. ASSUME NEW p \in Requests, req[p].at = "inserted" PROVE FALSE
  <2>1. Holds(p, Lock(UserRow, "keyshare"))
    BY <1>2 DEF LockInv, RequestFits
  <2> QED
    BY <1>1, <2>1, Exclusion, Modal, NamesDiffer
<1>3. ASSUME ret.at = "locked" PROVE FALSE
  <2>1. Holds("retention", Lock(UserRow, "keyshare"))
    BY <1>3 DEF LockInv, RetentionFits
  <2> QED
    BY <1>1, <2>1, Exclusion, Modal, NamesDiffer
<1> QED
  BY <1>2, <1>3

LEMMA RowsQuiet ==
  ASSUME RowInv, UNCHANGED <<uploads, snapshots, lastRow, nextId>>, DeleteSeesAll',
         \A q \in Requests : req'[q] = req[q] \/ req'[q].at \notin Choosing
  PROVE  RowInv'
<1>1. IdsOnce' /\ SnapshotOfParsed' /\ \A d \in Devices : IsLatest(d)'
  BY DEF RowInv, IdsOnce, SnapshotOfParsed, IsLatest, RowsOf
<1>2. IdsAssigned'
  <2>1. \A u \in uploads' : u.id < nextId'
    BY DEF RowInv, IdsAssigned
  <2>2. \A p \in Requests : req'[p].at = "inserted" => req'[p] = req[p]
    BY DEF Choosing
  <2>3. \A p \in Requests : req'[p].at = "inserted" =>
          req'[p].id < nextId' /\ req'[p].id \notin Ids' /\ \A u \in RowsOf(req[p].dev)' : u.id < req'[p].id
    BY <2>2 DEF RowInv, IdsAssigned, Ids, RowsOf
  <2>4. \A p, q \in Requests : req'[p].at = "inserted" /\ req'[q].at = "inserted" /\ p # q => req'[p].id # req'[q].id
    BY <2>2 DEF RowInv, IdsAssigned
  <2> QED
    BY <2>1, <2>3, <2>4 DEF IdsAssigned
<1>3. \A p \in Requests : Fresh(p)'
  BY DEF RowInv, Fresh
<1> QED
  BY <1>1, <1>2, <1>3 DEF RowInv

LEMMA InsertRows ==
  ASSUME LockInv, RowInv, NEW p \in Requests, Insert(p)
  PROVE  RowInv'
<1>1. req \in [Requests -> ReqType] /\ req[p] \in ReqType /\ nextId \in Nat /\ uploads \subseteq RowType
      /\ \A q \in Requests : req[q].id \in Nat
  BY DEF LockInv, TypeOK, PlacesTypeOK, RowsTypeOK, ReqType
<1>2. PICK parsed \in BOOLEAN :
        req' = [req EXCEPT ![p] = [@ EXCEPT !.at = "inserted", !.id = nextId, !.parsed = parsed]]
  BY DEF Insert
<1>3. UNCHANGED <<uploads, snapshots, lastRow, del>> /\ nextId' = nextId + 1 /\ req[p].at = "checked"
  BY DEF Insert, rows, history
<1>4. req'[p].at = "inserted" /\ req'[p].id = nextId /\ req'[p].dev = req[p].dev /\ req'[p].sha = req[p].sha
      /\ \A q \in Requests : q # p => req'[q] = req[q]
  BY <1>1, <1>2 DEF ReqType
<1>5. IdsOnce' /\ SnapshotOfParsed' /\ DeleteSeesAll' /\ \A d \in Devices : IsLatest(d)'
  BY <1>3 DEF RowInv, IdsOnce, SnapshotOfParsed, IsLatest, RowsOf, DeleteSeesAll, Ids
<1>6. \A u \in uploads : u.id \in Nat /\ u.id < nextId
  BY <1>1 DEF RowType, RowInv, IdsAssigned
<1>7. \A u \in uploads' : u.id < nextId'
  BY <1>1, <1>3, <1>6
<1>8. Ids' = Ids /\ \A d : RowsOf(d)' = RowsOf(d)
  BY <1>3 DEF Ids, RowsOf
<1>9. ASSUME NEW q \in Requests, req'[q].at = "inserted"
      PROVE  req'[q].id < nextId' /\ req'[q].id \notin Ids' /\ \A u \in RowsOf(req[q].dev) : u.id < req'[q].id
  <2>1. CASE q = p
    BY <1>1, <1>3, <1>4, <1>6, <1>8, <2>1 DEF Ids, RowsOf
  <2>2. CASE q # p
    <3>1. req'[q] = req[q] /\ req[q].id < nextId /\ req[q].id \notin Ids /\ \A u \in RowsOf(req[q].dev) : u.id < req[q].id
      BY <1>4, <1>9, <2>2 DEF RowInv, IdsAssigned
    <3>2. req[q].id < nextId'
      BY <1>1, <1>3, <3>1
    <3> QED
      BY <1>8, <3>1, <3>2
  <2> QED
    BY <2>1, <2>2
<1>10. ASSUME NEW q \in Requests, NEW o \in Requests, req'[q].at = "inserted", req'[o].at = "inserted", q # o
       PROVE  req'[q].id # req'[o].id
  <2>1. \A x \in Requests : req[x].at = "inserted" => req[x].id < nextId
    BY DEF RowInv, IdsAssigned
  <2>2. CASE q # p /\ o # p
    BY <1>4, <1>10, <2>2 DEF RowInv, IdsAssigned
  <2>3. CASE q = p \/ o = p
    BY <1>1, <1>4, <1>10, <2>1, <2>3
  <2> QED
    BY <2>2, <2>3
<1>11. IdsAssigned'
  <2>1. \A q \in Requests : req'[q].dev = req[q].dev
    BY <1>4
  <2> QED
    BY <1>7, <1>8, <1>9, <1>10, <2>1 DEF IdsAssigned
<1>12. ASSUME NEW q \in Requests PROVE Fresh(q)'
  BY <1>3, <1>4 DEF RowInv, Fresh, Choosing
<1> QED
  BY <1>5, <1>11, <1>12 DEF RowInv

\* What the dedup check finds new is not the bytes of the device's latest row.
LEMMA CheckFresh ==
  ASSUME LockInv, RowInv, NEW p \in Requests, req[p].at = "user", ~Duplicate(req[p].dev, req[p].sha)
  PROVE  lastRow[req[p].dev] # req[p].sha
<1> DEFINE d == req[p].dev
<1> SUFFICES ASSUME lastRow[d] = req[p].sha PROVE FALSE
  OBVIOUS
<1>1. d \in Devices /\ req[p].sha \in Contents
  BY DEF LockInv, RequestFits
<1>2. lastRow[d] # NoBytes
  BY <1>1, IngestAssumption DEF NoBytes
<1>3. PICK u \in RowsOf(d) : u.sha = lastRow[d] /\ \A v \in RowsOf(d) : v.id <= u.id
  BY <1>1, <1>2 DEF RowInv, IsLatest
<1>4. Newest(d) \in RowsOf(d) /\ \A v \in RowsOf(d) : v.id <= Newest(d).id
  BY <1>3 DEF Newest
<1>5. u \in uploads /\ Newest(d) \in uploads /\ u.id \in Nat /\ Newest(d).id \in Nat
  BY <1>3, <1>4 DEF RowsOf, LockInv, TypeOK, RowsTypeOK, RowType
<1>6. u.id = Newest(d).id
  <2>1. u.id <= Newest(d).id /\ Newest(d).id <= u.id
    BY <1>3, <1>4
  <2> QED
    BY <1>5, <2>1
<1>7. u = Newest(d)
  BY <1>5, <1>6 DEF RowInv, IdsOnce
<1> QED
  BY <1>3, <1>7 DEF Duplicate

LEMMA CommitRows ==
  ASSUME LockInv, RowInv, NEW p \in Requests, Commit(p)
  PROVE  RowInv'
<1> DEFINE d == req[p].dev
           row == [id |-> req[p].id, dev |-> d, sha |-> req[p].sha, parsed |-> req[p].parsed]
<1>1. req \in [Requests -> ReqType] /\ lastRow \in [Devices -> Contents \cup {NoBytes}] /\ uploads \subseteq RowType
      /\ snapshots \subseteq Nat /\ nextId \in Nat /\ req[p].at = "inserted" /\ d \in Devices
      /\ \A q \in Requests : req[q] \in ReqType /\ req[q].id \in Nat
  BY DEF LockInv, TypeOK, PlacesTypeOK, RowsTypeOK, ReqType, RequestFits, Commit
<1>2. /\ uploads' = uploads \cup {row} /\ lastRow' = [lastRow EXCEPT ![d] = req[p].sha]
      /\ snapshots' = IF req[p].parsed THEN snapshots \cup {req[p].id} ELSE snapshots
      /\ UNCHANGED <<nextId, del>> /\ req' = [req EXCEPT ![p] = NoReq]
  BY DEF Commit, Ends
<1>3. req'[p].at = "idle" /\ \A q \in Requests : q # p => req'[q] = req[q]
  BY <1>1, <1>2 DEF NoReq
<1>4. row.id = req[p].id /\ row.dev = d /\ row.sha = req[p].sha /\ row.parsed = req[p].parsed /\ row.id \in Nat
  BY <1>1
<1>5. req[p].id < nextId /\ req[p].id \notin Ids /\ \A u \in RowsOf(d) : u.id < req[p].id
  BY <1>1 DEF RowInv, IdsAssigned
<1> HIDE DEF row
<1>6. IdsOnce'
  BY <1>2, <1>4, <1>5 DEF RowInv, IdsOnce, Ids
<1>7. SnapshotOfParsed'
  BY <1>2, <1>4 DEF RowInv, SnapshotOfParsed
<1>8. DeleteSeesAll'
  BY <1>1, <1>2, DeleteShuts DEF DeleteSeesAll
<1>9. \A e : {u \in uploads' : u.dev = e} = IF e = d THEN {u \in uploads : u.dev = e} \cup {row} ELSE {u \in uploads : u.dev = e}
  BY <1>2, <1>4
<1>10. ASSUME NEW q \in Requests, req[q].at \in InUse, q # p PROVE req[q].dev # d
  BY <1>1, <1>10, DevicesApart DEF InUse
<1>11. IdsAssigned'
  <2>1. \A u \in uploads' : u.id < nextId'
    BY <1>2, <1>4, <1>5 DEF RowInv, IdsAssigned
  <2>2. Ids' = Ids \cup {req[p].id}
    BY <1>2, <1>4 DEF Ids
  <2>3. ASSUME NEW q \in Requests, req'[q].at = "inserted"
        PROVE  req'[q].id < nextId' /\ req'[q].id \notin Ids' /\ \A u \in RowsOf(req[q].dev)' : u.id < req'[q].id
    <3>1. q # p /\ req'[q] = req[q] /\ req[q].at = "inserted"
      BY <1>3, <2>3
    <3>2. req[q].id < nextId /\ req[q].id \notin Ids /\ req[q].id # req[p].id /\ \A u \in RowsOf(req[q].dev) : u.id < req[q].id
      BY <1>1, <3>1 DEF RowInv, IdsAssigned
    <3>3. RowsOf(req[q].dev)' = RowsOf(req[q].dev)
      BY <1>9, <1>10, <3>1 DEF RowsOf, InUse
    <3> QED
      BY <1>2, <2>2, <3>1, <3>2, <3>3
  <2>4. \A q, o \in Requests : req'[q].at = "inserted" /\ req'[o].at = "inserted" /\ q # o => req'[q].id # req'[o].id
    BY <1>3 DEF RowInv, IdsAssigned
  <2> QED
    BY <2>1, <2>3, <2>4 DEF IdsAssigned
<1>12. ASSUME NEW e \in Devices PROVE IsLatest(e)'
  <2>1. CASE e = d
    <3>1. row \in RowsOf(e)' /\ lastRow'[e] = row.sha
      BY <1>1, <1>2, <1>4, <2>1 DEF RowsOf
    <3>2. \A v \in RowsOf(e)' : v.id <= row.id
      <4>1. \A v \in uploads : v.dev = d => v.id < row.id /\ v.id \in Nat
        BY <1>1, <1>4, <1>5 DEF RowsOf, RowType
      <4>2. \A v \in RowsOf(e)' : v = row \/ (v \in uploads /\ v.dev = d)
        BY <1>2, <2>1 DEF RowsOf
      <4> QED
        BY <1>4, <4>1, <4>2
    <3> QED
      BY <3>1, <3>2 DEF IsLatest
  <2>2. CASE e # d
    BY <1>1, <1>2, <1>9, <2>2 DEF RowInv, IsLatest, RowsOf
  <2> QED
    BY <2>1, <2>2
<1>13. ASSUME NEW q \in Requests PROVE Fresh(q)'
  <2>1. CASE q = p
    BY <1>3, <2>1 DEF Fresh, Choosing
  <2>2. CASE q # p /\ req[q].at \in Choosing
    <3>1. req'[q] = req[q] /\ req[q].dev # d /\ req[q].dev \in Devices
      BY <1>3, <1>10, <2>2 DEF Choosing, InUse, LockInv, RequestFits
    <3> QED
      BY <1>1, <1>2, <2>2, <3>1 DEF RowInv, Fresh
  <2>3. CASE q # p /\ req[q].at \notin Choosing
    BY <1>3, <2>3 DEF Fresh
  <2> QED
    BY <2>1, <2>2, <2>3
<1> QED
  BY <1>6, <1>7, <1>8, <1>11, <1>12, <1>13 DEF RowInv

LEMMA RemoveRows ==
  ASSUME LockInv, RowInv, NEW ids, NEW snaps, Remove(ids, snaps), UNCHANGED <<req, nextId>>, DeleteSeesAll',
         snaps \subseteq ids \/ Ids \subseteq ids
  PROVE  RowInv'
<1>1. uploads \subseteq RowType /\ lastRow \in [Devices -> Contents \cup {NoBytes}]
      /\ \A q \in Requests : req[q].at # "idle" => req[q].dev \in Devices /\ req[q].sha \in Contents
  BY DEF LockInv, TypeOK, RowsTypeOK, RequestFits
<1>2. uploads' = {u \in uploads : u.id \notin ids} /\ snapshots' = snapshots \ (snaps \cup ids)
      /\ lastRow' = [d \in Devices |-> IF \E u \in RowsOf(d) : u.id \in ids THEN NoBytes ELSE lastRow[d]]
  BY DEF Remove
<1>3. uploads' \subseteq uploads /\ Ids' \subseteq Ids /\ \A e : RowsOf(e)' \subseteq RowsOf(e)
  BY <1>2 DEF Ids, RowsOf
<1>4. IdsOnce'
  BY <1>3 DEF RowInv, IdsOnce
<1>5. IdsAssigned'
  <2>1. \A u \in uploads' : u.id < nextId'
    BY <1>3 DEF RowInv, IdsAssigned
  <2>2. \A q \in Requests : req[q].at = "inserted" =>
          req[q].id < nextId' /\ req[q].id \notin Ids' /\ \A u \in RowsOf(req[q].dev)' : u.id < req[q].id
    BY <1>3 DEF RowInv, IdsAssigned
  <2> QED
    BY <2>1, <2>2 DEF IdsAssigned, RowInv
<1>6. SnapshotOfParsed'
  <2>1. snapshots = {u.id : u \in {v \in uploads : v.parsed}}
    BY DEF RowInv, SnapshotOfParsed
  <2>2. CASE snaps \subseteq ids
    BY <1>2, <2>1, <2>2 DEF SnapshotOfParsed
  <2>3. CASE Ids \subseteq ids
    <3>1. uploads' = {} /\ snapshots' = {}
      BY <1>2, <2>1, <2>3 DEF Ids
    <3> QED
      BY <3>1 DEF SnapshotOfParsed
  <2> QED
    BY <2>2, <2>3
<1>7. ASSUME NEW d \in Devices PROVE IsLatest(d)'
  <2>1. CASE \E u \in RowsOf(d) : u.id \in ids
    BY <1>2, <2>1 DEF IsLatest
  <2>2. CASE \A u \in RowsOf(d) : u.id \notin ids
    <3>1. RowsOf(d)' = RowsOf(d) /\ lastRow'[d] = lastRow[d]
      BY <1>2, <2>2 DEF RowsOf
    <3> QED
      BY <3>1 DEF RowInv, IsLatest
  <2> QED
    BY <2>1, <2>2
<1>8. ASSUME NEW q \in Requests PROVE Fresh(q)'
  <2>1. CASE req[q].at \in Choosing
    <3>1. req[q].dev \in Devices /\ req[q].sha \in Contents /\ lastRow[req[q].dev] # req[q].sha
      BY <1>1, <2>1 DEF RowInv, Fresh, Choosing
    <3>2. lastRow'[req[q].dev] \in {NoBytes, lastRow[req[q].dev]}
      BY <1>2, <3>1
    <3> QED
      BY <3>1, <3>2, IngestAssumption DEF Fresh, NoBytes
  <2>2. CASE req[q].at \notin Choosing
    BY <2>2 DEF Fresh
  <2> QED
    BY <2>1, <2>2
<1> QED
  BY <1>4, <1>5, <1>6, <1>7, <1>8 DEF RowInv

LEMMA ReparseRows ==
  ASSUME LockInv, RowInv, ReparseCommits
  PROVE  RowInv'
<1> DEFINE old == Upload(rep.id)
           new == [old EXCEPT !.parsed = rep.parsed]
<1>1. uploads \subseteq RowType /\ rep.id \in Ids /\ rep.parsed \in BOOLEAN
  BY DEF LockInv, TypeOK, RowsTypeOK, PlacesTypeOK, RepType, ReparsedStays, ReparseCommits
<1>2. old \in uploads /\ old.id = rep.id /\ old \in RowType
  BY <1>1, UploadOf
<1>3. new.id = old.id /\ new.dev = old.dev /\ new.sha = old.sha /\ new.parsed = rep.parsed
  BY <1>2 DEF RowType
<1>4. uploads' = (uploads \ {old}) \cup {new} /\ snapshots' = Reparsed(rep.id, rep.parsed)
      /\ UNCHANGED <<req, del, lastRow, nextId>>
  BY DEF ReparseCommits, history
<1> HIDE DEF old, new
<1>5. \A u \in uploads : u.id = old.id => u = old
  BY <1>2 DEF RowInv, IdsOnce
\* Every row of the one side has its like, but for parsed, on the other.
<1>6. \A u \in uploads' : \E v \in uploads : u.id = v.id /\ u.dev = v.dev /\ u.sha = v.sha
  BY <1>2, <1>3, <1>4
<1>7. \A u \in uploads : \E v \in uploads' : u.id = v.id /\ u.dev = v.dev /\ u.sha = v.sha
  BY <1>2, <1>3, <1>4
<1>8. Ids' = Ids
  BY <1>6, <1>7 DEF Ids
<1>9. IdsOnce' /\ DeleteSeesAll'
  <2>1. IdsOnce'
    BY <1>2, <1>3, <1>4, <1>5 DEF RowInv, IdsOnce
  <2> QED
    BY <1>4, <1>8, <2>1 DEF RowInv, DeleteSeesAll
<1>10. IdsAssigned'
  <2>1. \A u \in uploads' : u.id < nextId'
    BY <1>4, <1>6 DEF RowInv, IdsAssigned
  <2>2. \A q \in Requests : req[q].at = "inserted" => \A u \in RowsOf(req[q].dev)' : u.id < req[q].id
    BY <1>4, <1>6 DEF RowInv, IdsAssigned, RowsOf
  <2> QED
    BY <1>4, <1>8, <2>1, <2>2 DEF IdsAssigned, RowInv
<1>11. SnapshotOfParsed'
  <2>1. snapshots = {u.id : u \in {v \in uploads : v.parsed}}
    BY DEF RowInv, SnapshotOfParsed
  <2>2. {u.id : u \in {v \in uploads' : v.parsed}} = {u.id : u \in {v \in uploads \ {old} : v.parsed}}
                                                      \cup (IF rep.parsed THEN {rep.id} ELSE {})
    BY <1>2, <1>3, <1>4
  <2>3. {u.id : u \in {v \in uploads \ {old} : v.parsed}} = snapshots \ {rep.id}
    BY <1>2, <1>5, <2>1
  <2> QED
    BY <1>1, <1>4, <2>2, <2>3 DEF SnapshotOfParsed, Reparsed
<1>12. ASSUME NEW d \in Devices PROVE IsLatest(d)'
  <2> SUFFICES ASSUME lastRow'[d] # NoBytes
               PROVE  \E u \in RowsOf(d)' : u.sha = lastRow'[d] /\ \A v \in RowsOf(d)' : v.id <= u.id
    BY DEF IsLatest
  <2>1. PICK u \in RowsOf(d) : u.sha = lastRow[d] /\ \A v \in RowsOf(d) : v.id <= u.id
    BY <1>4 DEF RowInv, IsLatest
  <2>2. u \in uploads /\ u.dev = d
    BY <2>1 DEF RowsOf
  <2>3. PICK w \in uploads' : w.id = u.id /\ w.dev = u.dev /\ w.sha = u.sha
    BY <1>7, <2>2
  <2>4. w \in RowsOf(d)' /\ w.sha = lastRow'[d]
    BY <1>4, <2>1, <2>2, <2>3 DEF RowsOf
  <2>5. \A v \in RowsOf(d)' : v.id <= w.id
    BY <1>6, <2>1, <2>3 DEF RowsOf
  <2> QED
    BY <2>4, <2>5
<1>13. \A q \in Requests : Fresh(q)'
  BY <1>4 DEF RowInv, Fresh
<1> QED
  BY <1>9, <1>10, <1>11, <1>12, <1>13 DEF RowInv

LEMMA RequestRows == ASSUME LockInv, RowInv, NEW p \in Requests, RequestStep(p) PROVE RowInv'
<1>1. req \in [Requests -> ReqType] /\ req[p] \in ReqType
  BY DEF LockInv, TypeOK, PlacesTypeOK
<1>2. ASSUME UNCHANGED <<uploads, snapshots, lastRow, nextId, del>>,
             \A q \in Requests : req'[q] = req[q] \/ req'[q].at \notin Choosing
      PROVE  RowInv'
  <2>1. DeleteSeesAll'
    BY <1>2 DEF RowInv, DeleteSeesAll, Ids
  <2> QED
    BY <1>2, <2>1, RowsQuiet
<1>3. ASSUME Ends(p) PROVE \A q \in Requests : req'[q] = req[q] \/ req'[q].at \notin Choosing
  BY <1>1, <1>3 DEF Ends, NoReq, Choosing
<1>4. CASE Find(p) \/ Begin(p)
  <2>1. UNCHANGED <<uploads, snapshots, lastRow, nextId, del>>
    BY <1>4 DEF Find, Begin, rows, history
  <2>2. CASE Find(p)
    <3>1. PICK d \in Devices, sha \in Contents :
            req' = [req EXCEPT ![p] = [NoReq EXCEPT !.at = "found", !.dev = d, !.sha = sha, !.claimed = Claimed(d)]]
      BY <2>2 DEF Find
    <3>2. \A q \in Requests : req'[q] = req[q] \/ req'[q].at \notin Choosing
      BY <1>1, <3>1 DEF NoReq, Choosing
    <3> QED
      BY <1>2, <2>1, <3>2
  <2>3. CASE Begin(p)
    <3>1. req' = [req EXCEPT ![p] = [req[p] EXCEPT !.at = "begun", !.stamp = clock + 1]]
      BY <2>3 DEF Begin
    <3>2. \A q \in Requests : req'[q] = req[q] \/ req'[q].at \notin Choosing
      BY <1>1, <3>1 DEF ReqType, Choosing
    <3> QED
      BY <1>2, <2>1, <3>2
  <2> QED
    BY <1>4, <2>2, <2>3
<1>5. CASE LockDevice(p) \/ LockUser(p)
  <2>1. UNCHANGED <<uploads, snapshots, lastRow, nextId, del>>
    BY <1>5 DEF LockDevice, LockUser, rows, history
  <2>2. CASE Ends(p)
    BY <1>2, <1>3, <2>1, <2>2
  <2>3. ASSUME NEW at \in {"device", "user"}, req' = [req EXCEPT ![p] = [@ EXCEPT !.at = at]] PROVE RowInv'
    <3>1. \A q \in Requests : req'[q] = req[q] \/ req'[q].at \notin Choosing
      BY <1>1, <2>3 DEF ReqType, Choosing
    <3> QED
      BY <1>2, <2>1, <3>1
  <2> QED
    BY <1>5, <2>2, <2>3 DEF LockDevice, LockUser
<1>6. CASE Check(p)
  <2>1. UNCHANGED <<uploads, snapshots, lastRow, nextId, del>> /\ req[p].at = "user"
    BY <1>6 DEF Check, rows, history
  <2>2. CASE Ends(p)
    BY <1>2, <1>3, <2>1, <2>2
  <2>3. CASE ~Duplicate(req[p].dev, req[p].sha) /\ req' = [req EXCEPT ![p] = [@ EXCEPT !.at = "checked"]]
    <3>1. req'[p].at = "checked" /\ req'[p].dev = req[p].dev /\ req'[p].sha = req[p].sha
          /\ \A q \in Requests : q # p => req'[q] = req[q]
      BY <1>1, <2>3 DEF ReqType
    <3>2. lastRow[req[p].dev] # req[p].sha
      BY <2>1, <2>3, CheckFresh
    <3>3. \A q \in Requests : Fresh(q)'
      BY <2>1, <3>1, <3>2 DEF RowInv, Fresh
    <3>4. \A q \in Requests : req'[q].at = "inserted" => req'[q] = req[q]
      BY <3>1
    <3>5. IdsAssigned'
      BY <2>1, <3>4 DEF RowInv, IdsAssigned, Ids, RowsOf
    <3>6. IdsOnce' /\ SnapshotOfParsed' /\ DeleteSeesAll' /\ \A d \in Devices : IsLatest(d)'
      BY <2>1 DEF RowInv, IdsOnce, SnapshotOfParsed, DeleteSeesAll, IsLatest, RowsOf, Ids
    <3> QED
      BY <3>3, <3>5, <3>6 DEF RowInv
  <2> QED
    BY <1>6, <2>2, <2>3 DEF Check
<1> QED
  BY <1>4, <1>5, <1>6, InsertRows, CommitRows DEF RequestStep

LEMMA RowNext == ASSUME LockInv, RowInv, Next PROVE RowInv'
<1>1. req \in [Requests -> ReqType] /\ del \in DelType
  BY DEF LockInv, TypeOK, PlacesTypeOK
<1>2. ASSUME UNCHANGED <<uploads, snapshots, lastRow, nextId>>,
             \A q \in Requests : req'[q] = req[q] \/ req'[q].at \notin Choosing,
             del'.at \in {"account", "commit"} => del.at \in {"account", "commit"} /\ del'.ups = del.ups
      PROVE  RowInv'
  <2>1. DeleteSeesAll'
    BY <1>2 DEF RowInv, DeleteSeesAll, Ids
  <2> QED
    BY <1>2, <2>1, RowsQuiet
<1>3. ASSUME NEW d \in Devices, DeviceStep(d) PROVE RowInv'
  <2>1. UNCHANGED <<uploads, snapshots, lastRow, nextId, req>>
    BY <1>3 DEF DeviceStep, CreateDevice, RevokeDevice, EndGrant, history
  <2>2. del'.at = del.at /\ del'.ups = del.ups
    BY <1>1, <1>3 DEF DeviceStep, CreateDevice, RevokeDevice, EndGrant, DelType
  <2> QED
    BY <1>2, <2>1, <2>2
<1>4. ASSUME NEW t \in Tiers, ChangeTier(t) PROVE RowInv'
  BY <1>2, <1>4 DEF ChangeTier
<1>5. ASSUME DeleteStep PROVE RowInv'
  <2>1. CASE (\E account \in BOOLEAN : Delete(account)) \/ DeleteLocks
    <3>1. UNCHANGED <<uploads, snapshots, lastRow, nextId, req>>
      BY <2>1 DEF Delete, DeleteLocks, rows, history
    <3>2. del'.at \notin {"account", "commit"}
      BY <1>1, <2>1 DEF Delete, DeleteStarts, DeleteLocks, NoDel, DelType
    <3> QED
      BY <1>2, <3>1, <3>2
  <2>2. CASE DeleteRows
    <3>1. UNCHANGED <<uploads, snapshots, lastRow, nextId, req>>
      BY <2>2 DEF DeleteRows, rows, history
    <3>2. CASE del.at = "snapshots" /\ del' = [del EXCEPT !.at = "uploads", !.snaps = snapshots]
      <4>1. del'.at = "uploads"
        BY <1>1, <3>2 DEF DelType
      <4> QED
        BY <1>2, <3>1, <4>1
    <3>3. CASE del' = [del EXCEPT !.at = IF del.account THEN "account" ELSE "commit", !.ups = Ids]
      <4>1. del'.ups = Ids
        BY <1>1, <3>3 DEF DelType
      <4>2. DeleteSeesAll'
        BY <3>1, <4>1 DEF DeleteSeesAll, Ids
      <4> QED
        BY <3>1, <4>2, RowsQuiet
    <3>4. CASE del.at = "account" /\ del' = [del EXCEPT !.at = "commit"]
      <4>1. del'.ups = del.ups
        BY <1>1, <3>4 DEF DelType
      <4> QED
        BY <1>2, <3>1, <3>4, <4>1
    <3> QED
      BY <2>2, <3>2, <3>3, <3>4 DEF DeleteRows
  <2>3. CASE DeleteCommits
    <3>1. del.at = "commit" /\ Remove(del.ups, del.snaps) /\ del' = NoDel /\ UNCHANGED <<req, nextId>>
      BY <2>3 DEF DeleteCommits
    <3>2. DeleteSeesAll'
      BY <3>1 DEF DeleteSeesAll, NoDel
    <3>3. Ids \subseteq del.ups
      BY <3>1 DEF RowInv, DeleteSeesAll
    <3> QED
      BY <3>1, <3>2, <3>3, RemoveRows
  <2> QED
    BY <1>5, <2>1, <2>2, <2>3 DEF DeleteStep
<1>6. ASSUME RetentionStep PROVE RowInv'
  <2>1. CASE RetentionPicks
    BY <1>2, <2>1 DEF RetentionPicks, rows, history
  <2>2. CASE RetentionDeletes
    <3>1. Remove(ret.ids, ret.ids) /\ UNCHANGED <<req, nextId, del>> /\ ret.at = "locked"
      BY <2>2 DEF RetentionDeletes
    <3>2. DeleteSeesAll'
      BY <3>1, DeleteShuts DEF DeleteSeesAll
    <3> QED
      BY <3>1, <3>2, RemoveRows
  <2> QED
    BY <1>6, <2>1, <2>2 DEF RetentionStep
<1>7. ASSUME ReparseStep PROVE RowInv'
  <2>1. CASE (\E id \in Ids : Reparse(id)) \/ ReparseLocks \/ ReparseWrites
    BY <1>2, <2>1 DEF Reparse, ReparseLocks, ReparseWrites, rows, history
  <2> QED
    BY <1>7, <2>1, ReparseRows DEF ReparseStep
<1>8. ASSUME NEW p \in Processes, Abort(p) PROVE RowInv'
  <2>1. UNCHANGED <<uploads, snapshots, lastRow, nextId>> /\ (req' = req \/ (p \in Requests /\ req' = [req EXCEPT ![p] = NoReq]))
    BY <1>8 DEF Abort, rows, history, DeleteAborted
  <2>2. \A q \in Requests : req'[q] = req[q] \/ req'[q].at \notin Choosing
    BY <1>1, <2>1 DEF NoReq, Choosing
  <2>3. del' = del \/ del'.at \in {"idle", "devices", "user"}
    <3>1. del' = del \/ DeleteAborted
      BY <1>8 DEF Abort
    <3>2. ASSUME NEW at \in {"devices", "user"}, NEW left, del' = [NoDel EXCEPT !.at = at, !.account = del.account, !.again = TRUE, !.left = left]
          PROVE  del'.at = at
      BY <3>2 DEF NoDel
    <3>3. NoDel.at = "idle"
      BY DEF NoDel
    <3> QED
      BY <3>1, <3>2, <3>3 DEF DeleteAborted
  <2> QED
    BY <1>2, <2>1, <2>2, <2>3
<1> QED
  BY <1>3, <1>4, <1>5, <1>6, <1>7, <1>8, RequestRows DEF Next

-----------------------------------------------------------------------------
(* What follows for the user's rows.                                             *)

IngestInv == LockInv /\ InUseStays /\ SlotInv /\ RowInv

LEMMA InitIngest == ASSUME Init PROVE IngestInv
<1>1. InUseStays /\ \A p \in Requests : SlotFree(p) /\ Fresh(p)
  BY DEF Init, NoReq, InUseStays, InUse, SlotFree, Fresh, Choosing
<1>2. SlotLimit
  <2>1. PICK holders \in SUBSET Approved :
          /\ Cardinality(holders) <= Limits["free"]
          /\ stamp = [d \in Devices |-> IF d \in holders THEN 1 ELSE 0]
    BY DEF Init
  <2>2. holders \subseteq Devices /\ Holders \subseteq holders /\ IsFiniteSet(holders)
    BY <2>1, IngestAssumption, FS_Subset DEF Holders, Claimed
  <2>3. Cardinality(Holders) <= Cardinality(holders) /\ Cardinality(Holders) \in Nat /\ Cardinality(holders) \in Nat
    BY <2>2, HoldersFinite, FS_Subset, FS_CardinalityType
  <2>4. Limits["free"] \in Nat /\ most = Limits["free"]
    BY IngestAssumption DEF Init, Tiers
  <2> QED
    BY <2>1, <2>3, <2>4 DEF SlotLimit
<1>3. SlotInv
  <2>1. Limits["free"] \in Nat /\ tier = "free" /\ most = Limits["free"]
    BY IngestAssumption DEF Init, Tiers
  <2> QED
    BY <1>1, <1>2, <2>1 DEF SlotInv
<1>4. RowInv
  <2>1. IdsOnce /\ IdsAssigned /\ SnapshotOfParsed /\ DeleteSeesAll
    BY DEF Init, NoReq, NoDel, IdsOnce, IdsAssigned, SnapshotOfParsed, DeleteSeesAll
  <2>2. \A d \in Devices : IsLatest(d)
    BY DEF Init, IsLatest
  <2> QED
    BY <1>1, <2>1, <2>2 DEF RowInv
<1> QED
  BY <1>1, <1>3, <1>4, InitLocks DEF IngestInv

LEMMA NextIngest == ASSUME IngestInv, [Next]_vars PROVE IngestInv'
<1>1. CASE Next
  BY <1>1, NextLocks, UseNext, SlotNext, RowNext DEF IngestInv
<1>2. CASE UNCHANGED vars
  <2>1. LockInv'
    BY NextLocks DEF IngestInv
  <2>2. InUseStays' /\ SlotInv'
    BY <1>2 DEF IngestInv, InUseStays, SlotInv, SlotLimit, SlotFree, Holders, Claimed, vars, rows, history
  <2>3. RowInv'
    BY <1>2 DEF IngestInv, RowInv, IdsOnce, IdsAssigned, SnapshotOfParsed, DeleteSeesAll, IsLatest, Fresh, RowsOf, Ids,
                vars, rows, history
  <2> QED
    BY <2>1, <2>2, <2>3 DEF IngestInv
<1> QED
  BY <1>1, <1>2

\* The user's live devices hold no more slots than a tier gave them, and a row has a
\* snapshot exactly when it parsed, whatever ran beside the transaction that wrote it.
THEOREM RowsAgree == Spec => []RowsConsistent
<1>1. IngestInv => RowsConsistent
  BY DEF IngestInv, SlotInv, RowInv, RowsConsistent
<1> QED
  BY <1>1, InitIngest, NextIngest, PTL DEF Spec

\* Only the commit of an upload adds an upload.
LEMMA NewRow ==
  ASSUME LockInv, Next, NEW u \in uploads', u.id \notin Ids
  PROVE  \E p \in Requests : req[p].at = "inserted" /\ u.dev = req[p].dev /\ u.sha = req[p].sha
<1>1. ASSUME uploads' \subseteq uploads PROVE FALSE
  BY <1>1 DEF Ids
<1>2. ASSUME NEW p \in Requests, RequestStep(p), ~Commit(p) PROVE FALSE
  BY <1>1, <1>2 DEF RequestStep, Find, Begin, LockDevice, LockUser, Check, Insert, rows
<1>3. ASSUME NEW p \in Requests, Commit(p) PROVE req[p].at = "inserted" /\ u.dev = req[p].dev /\ u.sha = req[p].sha
  BY <1>3 DEF Commit, Ids
<1>4. ASSUME NEW d \in Devices, DeviceStep(d) PROVE FALSE
  BY <1>1, <1>4 DEF DeviceStep, CreateDevice, RevokeDevice, EndGrant
<1>5. ASSUME NEW t \in Tiers, ChangeTier(t) PROVE FALSE
  BY <1>1, <1>5 DEF ChangeTier
<1>6. ASSUME DeleteStep \/ RetentionStep PROVE FALSE
  BY <1>1, <1>6 DEF DeleteStep, Delete, DeleteLocks, DeleteRows, DeleteCommits, RetentionStep, RetentionPicks,
                    RetentionDeletes, Remove, rows
<1>7. ASSUME ReparseStep PROVE FALSE
  <2>1. CASE ReparseCommits
    <3>1. rep.id \in Ids /\ uploads \subseteq RowType
      BY <2>1 DEF ReparseCommits, LockInv, ReparsedStays, TypeOK, RowsTypeOK
    <3>2. Upload(rep.id) \in RowType /\ Upload(rep.id).id = rep.id
      BY <3>1, UploadOf
    <3>3. \A v \in uploads' : v.id \in Ids
      BY <2>1, <3>1, <3>2 DEF ReparseCommits, RowType, Ids
    <3> QED
      BY <3>3
  <2>2. CASE (\E id \in Ids : Reparse(id)) \/ ReparseLocks \/ ReparseWrites
    BY <1>1, <2>2 DEF Reparse, ReparseLocks, ReparseWrites, rows
  <2> QED
    BY <1>7, <2>1, <2>2 DEF ReparseStep
<1>8. ASSUME NEW p \in Processes, Abort(p) PROVE FALSE
  BY <1>1, <1>8 DEF Abort, rows
<1> QED
  BY <1>2, <1>3, <1>4, <1>5, <1>6, <1>7, <1>8 DEF Next

\* A new row never repeats the bytes of its device's latest row.
THEOREM NoRowTwice == Spec => NoRepeatedRow
<1>1. ASSUME IngestInv, [Next]_vars PROVE [\A u \in uploads' : u.id \notin Ids => lastRow[u.dev] # u.sha]_vars
  <2>1. ASSUME Next, NEW u \in uploads', u.id \notin Ids PROVE lastRow[u.dev] # u.sha
    <3>1. PICK p \in Requests : req[p].at = "inserted" /\ u.dev = req[p].dev /\ u.sha = req[p].sha
      BY <1>1, <2>1, NewRow DEF IngestInv
    <3> QED
      BY <1>1, <3>1 DEF IngestInv, RowInv, Fresh, Choosing
  <2> QED
    BY <1>1, <2>1
<1> QED
  BY <1>1, InitIngest, NextIngest, PTL DEF Spec, NoRepeatedRow

\* A delete that ends at its commit has committed: nothing is left to abort it for.
LEMMA DeleteDone ==
  ASSUME IngestInv, Next, del.at = "commit", del' = NoDel
  PROVE  DeleteCommits
<1>1. "delete" \in Processes /\ del # NoDel /\ NeedsOfDelete = {} /\ del \in DelType
  BY NamesDiffer DEF NoDel, NeedsOfDelete, IngestInv, LockInv, TypeOK, PlacesTypeOK
<1>2. Free("delete")
  BY <1>1, NeedsOf DEF Free, WaitsFor
<1>3. ASSUME NEW p \in Processes, Abort(p) PROVE FALSE
  <2>1. p # "delete"
    BY <1>2, <1>3 DEF Abort
  <2> QED
    BY <1>1, <1>3, <2>1 DEF Abort
<1>4. ASSUME NEW p \in Requests, RequestStep(p) PROVE FALSE
  BY <1>1, <1>4 DEF RequestStep, Find, Begin, LockDevice, LockUser, Check, Insert, Commit
<1>5. ASSUME NEW d \in Devices, DeviceStep(d) PROVE FALSE
  <2>1. CASE CreateDevice(d)
    <3>1. del'.at = "commit"
      BY <1>1, <2>1 DEF CreateDevice, DelType
    <3> QED
      BY <3>1 DEF NoDel
  <2>2. CASE RevokeDevice(d) \/ EndGrant(d)
    BY <1>1, <2>2 DEF RevokeDevice, EndGrant
  <2> QED
    BY <1>5, <2>1, <2>2 DEF DeviceStep
<1>6. ASSUME NEW t \in Tiers, ChangeTier(t) PROVE FALSE
  BY <1>1, <1>6 DEF ChangeTier
<1>7. ASSUME RetentionStep \/ ReparseStep PROVE FALSE
  BY <1>1, <1>7 DEF RetentionStep, RetentionPicks, RetentionDeletes, ReparseStep, Reparse, ReparseLocks,
                    ReparseWrites, ReparseCommits
<1>8. ASSUME DeleteStep PROVE DeleteCommits
  BY <1>8 DEF DeleteStep, Delete, DeleteLocks, DeleteRows
<1> QED
  BY <1>3, <1>4, <1>5, <1>6, <1>7, <1>8 DEF Next

\* A revoked device stores nothing, however far its request had come; and no row of
\* the user outlives a delete of the data or of the account.
THEOREM StaysGone == Spec => RemovedForGood
<1>1. ASSUME IngestInv, [Next]_vars PROVE [\A u \in uploads' : u.id \notin Ids => state[u.dev] \notin {"revoked", "none"}]_vars
  <2>1. ASSUME Next, NEW u \in uploads', u.id \notin Ids PROVE state[u.dev] \notin {"revoked", "none"}
    <3>1. PICK p \in Requests : req[p].at = "inserted" /\ u.dev = req[p].dev /\ u.sha = req[p].sha
      BY <1>1, <2>1, NewRow DEF IngestInv
    <3> QED
      BY <1>1, <3>1 DEF IngestInv, InUseStays, InUse
  <2> QED
    BY <1>1, <2>1
<1>2. ASSUME IngestInv, [Next]_vars PROVE [del.at = "commit" /\ del' = NoDel => uploads' = {} /\ snapshots' = {}]_vars
  <2>1. ASSUME Next, del.at = "commit", del' = NoDel PROVE uploads' = {} /\ snapshots' = {}
    <3>1. Remove(del.ups, del.snaps) /\ Ids \subseteq del.ups /\ snapshots \subseteq Ids
      BY <1>2, <2>1, DeleteDone DEF DeleteCommits, IngestInv, RowInv, DeleteSeesAll, SnapshotOfParsed, Ids
    <3> QED
      BY <3>1 DEF Remove, Ids
  <2> QED
    BY <1>2, <2>1
<1> QED
  BY <1>1, <1>2, InitIngest, NextIngest, PTL DEF Spec, RemovedForGood, NothingAfterRevoke, DeleteComplete

-----------------------------------------------------------------------------
(* The transactions implement UserRows. What an upload read of the device limit   *)
(* under its locks is still so at its commit: until then nobody changes the tier, *)
(* deletes the account or takes a slot.                                           *)

PlaceFree(p) ==
  req[p].at \in Choosing /\ ~Claimed(req[p].dev) =>
    tier # "gone" /\ Cardinality(Holders \ {req[p].dev}) < Limits[tier]
PlaceInv == \A p \in Requests : PlaceFree(p)

LEMMA PlaceStays ==
  ASSUME LockInv, NEW p \in Requests, PlaceFree(p), Holders' \subseteq Holders, UNCHANGED tier,
         \A d \in Devices : Claimed(d) => Claimed(d)',
         req'[p].at \in Choosing => req[p].at \in Choosing /\ req'[p].dev = req[p].dev
  PROVE  PlaceFree(p)'
<1> SUFFICES ASSUME req'[p].at \in Choosing, NEW d, d = req'[p].dev, ~(stamp'[d] # 0)
             PROVE  tier # "gone" /\ Cardinality(Holders' \ {d}) < Limits[tier]
  BY DEF PlaceFree, Claimed
<1>1. req[p].at \in Choosing /\ req[p].dev = d /\ d \in Devices /\ tier \in Tiers \cup {"gone"}
  BY DEF LockInv, RequestFits, Choosing, TypeOK, RowsTypeOK
<1>2. tier # "gone" /\ Cardinality(Holders \ {d}) < Limits[tier]
  BY <1>1 DEF PlaceFree, Claimed
<1>3. Limits[tier] \in Nat /\ Cardinality(Holders \ {d}) \in Nat
  BY <1>1, <1>2, HoldersFinite, IngestAssumption
<1>4. Cardinality(Holders' \ {d}) \in Nat /\ Cardinality(Holders' \ {d}) <= Cardinality(Holders \ {d})
  BY FewerHolders
<1> QED
  BY <1>2, <1>3, <1>4

\* An upload that chooses its place holds its user, unless it came with a slot.
LEMMA ChoosingHolds ==
  ASSUME IngestInv, NEW p \in Requests, req[p].at \in Choosing, ~Claimed(req[p].dev)
  PROVE  p \in Processes /\ Holds(p, Lock(UserRow, "nokey"))
<1>1. ~req[p].claimed
  BY DEF IngestInv, SlotInv, SlotFree, Choosing
<1> QED
  BY <1>1, NamesDiffer DEF IngestInv, LockInv, RequestFits, InUse, Choosing

LEMMA PlaceNext == ASSUME IngestInv, PlaceInv, Next PROVE PlaceInv'
<1>1. req \in [Requests -> ReqType] /\ state \in [Devices -> {"none", "live", "ended", "revoked"}]
      /\ stamp \in [Devices -> Nat] /\ tier \in Tiers \cup {"gone"} /\ LockInv
  BY DEF IngestInv, LockInv, TypeOK, PlacesTypeOK, RowsTypeOK
<1>2. ASSUME Holders' \subseteq Holders, UNCHANGED <<tier, stamp>>, NEW p \in Requests,
             req'[p].at \in Choosing => req[p].at \in Choosing /\ req'[p].dev = req[p].dev
      PROVE  PlaceFree(p)'
  BY <1>1, <1>2, PlaceStays DEF PlaceInv, Claimed
<1>3. ASSUME UNCHANGED <<state, tier, stamp>>, NEW p \in Requests,
             req'[p].at \in Choosing => req[p].at \in Choosing /\ req'[p].dev = req[p].dev
      PROVE  PlaceFree(p)'
  BY <1>2, <1>3 DEF Holders, Claimed
<1>4. ASSUME NEW p \in Requests, RequestStep(p) PROVE PlaceInv'
  <2>1. CASE Find(p) \/ Begin(p) \/ LockDevice(p) \/ LockUser(p) \/ Insert(p) \/ (Check(p) /\ Ends(p))
    <3>1. UNCHANGED <<state, tier, stamp>>
      BY <2>1 DEF Find, Begin, LockDevice, LockUser, Insert, Check, rows
    <3>2. \A q \in Requests : req'[q].at \in Choosing => req[q].at \in Choosing /\ req'[q].dev = req[q].dev
      <4>1. CASE Find(p)
        <5>1. PICK d \in Devices, sha \in Contents :
                req' = [req EXCEPT ![p] = [NoReq EXCEPT !.at = "found", !.dev = d, !.sha = sha, !.claimed = Claimed(d)]]
          BY <4>1 DEF Find
        <5> QED
          BY <1>1, <5>1 DEF NoReq, Choosing
      <4>2. CASE Begin(p)
        BY <1>1, <4>2 DEF Begin, ReqType, Choosing
      <4>3. CASE Ends(p)
        BY <1>1, <4>3 DEF Ends, NoReq, Choosing
      <4>4. ASSUME NEW at \in {"device", "user"}, req' = [req EXCEPT ![p] = [@ EXCEPT !.at = at]]
            PROVE  \A q \in Requests : req'[q].at \in Choosing => req[q].at \in Choosing /\ req'[q].dev = req[q].dev
        BY <1>1, <4>4 DEF ReqType, Choosing
      <4>5. CASE Insert(p)
        <5>1. PICK parsed \in BOOLEAN :
                req' = [req EXCEPT ![p] = [@ EXCEPT !.at = "inserted", !.id = nextId, !.parsed = parsed]]
          BY <4>5 DEF Insert
        <5>2. req[p].at = "checked"
          BY <4>5 DEF Insert
        <5> QED
          BY <1>1, <5>1, <5>2 DEF ReqType, Choosing
      <4> QED
        BY <2>1, <4>1, <4>2, <4>3, <4>4, <4>5 DEF LockDevice, LockUser
    <3> QED
      BY <1>3, <3>1, <3>2 DEF PlaceInv
  <2>2. CASE Check(p) /\ ~OverLimit(req[p].dev) /\ req' = [req EXCEPT ![p] = [@ EXCEPT !.at = "checked"]]
    <3>1. UNCHANGED <<state, tier, stamp>> /\ req[p].at = "user" /\ req[p].dev \in Devices
      BY <1>1, <2>2 DEF Check, rows, LockInv, RequestFits
    <3>2. req'[p].dev = req[p].dev /\ \A q \in Requests : q # p => req'[q] = req[q]
      BY <1>1, <2>2 DEF ReqType
    <3>3. tier # "gone" /\ tier \in Tiers
      BY <1>1, <3>1 DEF IngestInv, InUseStays, InUse, SlotInv
    <3>4. ASSUME ~Claimed(req[p].dev) PROVE Cardinality(Holders \ {req[p].dev}) < Limits[tier]
      <4>1. Ahead(req[p].dev) = Holders \ {req[p].dev}
        BY <3>4 DEF Ahead
      <4>2. Limits[tier] \in Nat /\ Cardinality(Holders \ {req[p].dev}) \in Nat
        BY <3>3, HoldersFinite, IngestAssumption
      <4>3. ~(Cardinality(Holders \ {req[p].dev}) >= Limits[tier])
        BY <2>2, <3>3, <4>1 DEF OverLimit
      <4> QED
        BY <4>2, <4>3
    <3>5. Holders' = Holders /\ (Claimed(req[p].dev)' <=> Claimed(req[p].dev))
      BY <3>1, <3>2 DEF Holders, Claimed
    <3>6. PlaceFree(p)'
      BY <3>1, <3>2, <3>3, <3>4, <3>5 DEF PlaceFree
    <3>7. \A q \in Requests : q # p => PlaceFree(q)'
      BY <1>3, <3>1, <3>2
    <3> QED
      BY <3>6, <3>7 DEF PlaceInv
  <2>3. CASE Commit(p)
    <3>1. req'[p].at = "idle" /\ \A q \in Requests : q # p => req'[q] = req[q]
      BY <1>1, <2>3 DEF Commit, Ends, NoReq
    <3>2. PlaceFree(p)'
      BY <3>1 DEF PlaceFree, Choosing
    <3>3. UNCHANGED <<state, tier>> /\ req[p].at = "inserted" /\ req[p].dev \in Devices
      BY <1>1, <2>3 DEF Commit, LockInv, RequestFits
    <3>4. ASSUME NEW q \in Requests, q # p PROVE PlaceFree(q)'
      <4>1. CASE UNCHANGED stamp
        BY <1>3, <3>1, <3>3, <3>4, <4>1
      <4>2. CASE ~Claimed(req[p].dev) /\ stamp' = [stamp EXCEPT ![req[p].dev] = req[p].stamp]
        <5>1. req[p].stamp > 0
          BY <3>3 DEF IngestInv, SlotInv, SlotFree
        <5>2. \A d \in Devices : Claimed(d) => Claimed(d)'
          BY <1>1, <3>3, <4>2, <5>1 DEF Claimed
        <5>3. req[q].at \in Choosing => Claimed(req[q].dev) /\ req[q].dev \in Devices
          BY <1>1, <3>3, <3>4, <4>2, ChoosesAlone DEF IngestInv, LockInv, RequestFits, Choosing
        <5> QED
          BY <3>1, <3>4, <5>2, <5>3 DEF PlaceFree
      <4> QED
        BY <2>3, <4>1, <4>2 DEF Commit
    <3> QED
      BY <3>2, <3>4 DEF PlaceInv
  <2> QED
    BY <1>4, <2>1, <2>2, <2>3 DEF RequestStep, Check
<1>5. ASSUME NEW d \in Devices, DeviceStep(d) PROVE PlaceInv'
  <2>1. UNCHANGED <<req, stamp, tier>>
    BY <1>5 DEF DeviceStep, CreateDevice, RevokeDevice, EndGrant
  <2>2. \A e \in Devices : state'[e] = "live" /\ Claimed(e) => state[e] = "live"
    BY <1>1, <1>5 DEF DeviceStep, CreateDevice, RevokeDevice, EndGrant, Claimed
  <2>3. Holders' \subseteq Holders
    BY <2>1, <2>2 DEF Holders, Claimed
  <2> QED
    BY <1>2, <2>1, <2>3 DEF PlaceInv
\* A tier changes, and an account goes, only while no upload has chosen.
<1>6. ASSUME UNCHANGED <<req, stamp>>, \A p \in Requests : ~Holds(p, Lock(UserRow, "nokey")) PROVE PlaceInv'
  <2>1. \A p \in Requests : req[p].at \in Choosing => Claimed(req[p].dev)
    BY <1>6, ChoosingHolds
  <2> QED
    BY <1>6, <2>1 DEF PlaceInv, PlaceFree, Claimed
<1>7. ASSUME NEW t \in Tiers, ChangeTier(t) PROVE PlaceInv'
  <2>1. UNCHANGED <<req, stamp>> /\ Unlocked(Lock(UserRow, "nokey"))
    BY <1>7 DEF ChangeTier
  <2>2. \A p \in Requests : ~Holds(p, Lock(UserRow, "nokey"))
    BY <2>1, StatementWaits, Modal, NamesDiffer
  <2> QED
    BY <1>6, <2>1, <2>2
<1>8. ASSUME DeleteStep PROVE PlaceInv'
  <2>1. CASE DeleteCommits /\ del.account
    <3>1. UNCHANGED <<req, stamp>> /\ Holds("delete", Lock(UserRow, "update"))
      BY <1>1, <2>1 DEF DeleteCommits, LockInv, DeleteFits
    <3>2. \A p \in Requests : ~Holds(p, Lock(UserRow, "nokey"))
      BY <1>1, <3>1, Exclusion, Modal, NamesDiffer
    <3> QED
      BY <1>6, <3>1, <3>2
  <2>2. CASE ~(DeleteCommits /\ del.account)
    <3>1. UNCHANGED <<req, state, tier, stamp>>
      BY <1>8, <2>2 DEF DeleteStep, Delete, DeleteLocks, DeleteRows, DeleteCommits, rows
    <3> QED
      BY <1>3, <3>1 DEF PlaceInv
  <2> QED
    BY <2>1, <2>2
<1>9. ASSUME RetentionStep \/ ReparseStep PROVE PlaceInv'
  <2>1. UNCHANGED <<req, state, tier, stamp>>
    BY <1>9 DEF RetentionStep, RetentionPicks, RetentionDeletes, ReparseStep, Reparse, ReparseLocks, ReparseWrites,
                ReparseCommits, rows
  <2> QED
    BY <1>3, <2>1 DEF PlaceInv
<1>10. ASSUME NEW p \in Processes, Abort(p) PROVE PlaceInv'
  <2>1. UNCHANGED <<state, tier, stamp>> /\ (req' = req \/ (p \in Requests /\ req' = [req EXCEPT ![p] = NoReq]))
    BY <1>10 DEF Abort, rows, DeleteAborted
  <2>2. \A q \in Requests : req'[q].at \in Choosing => req[q].at \in Choosing /\ req'[q].dev = req[q].dev
    BY <1>1, <2>1 DEF NoReq, Choosing
  <2> QED
    BY <1>3, <2>1, <2>2 DEF PlaceInv
<1> QED
  BY <1>4, <1>5, <1>7, <1>8, <1>9, <1>10 DEF Next

\* What a step of a transaction shows of itself when it does not commit: nothing.
Claims == {d \in Devices : Claimed(d)}
LEMMA SameCardinality == \A S : Promised!Cardinality(S) = Cardinality(S)
BY DEF Promised!Cardinality, Cardinality

LEMMA ClaimedDevices == Promised!Holders = Holders
BY DEF Promised!Holders, Holders

LEMMA NothingShown ==
  ASSUME UNCHANGED <<tier, state, stamp, uploads, snapshots, lastRow>>
  PROVE  UNCHANGED Promised!vars
BY DEF Promised!vars, Claimed

\* After a commit the snapshots are those of the uploads that parsed.
LEMMA SnapshotsKept == ASSUME IngestInv' PROVE Promised!Keep(uploads')
BY DEF IngestInv, RowInv, SnapshotOfParsed, Promised!Keep

LEMMA CommitStores ==
  ASSUME IngestInv, PlaceInv, IngestInv', NEW p \in Requests, Commit(p)
  PROVE  Promised!Store
<1> DEFINE d == req[p].dev
           row == [id |-> req[p].id, dev |-> d, sha |-> req[p].sha, parsed |-> req[p].parsed]
<1>1. /\ req[p].at = "inserted" /\ d \in Devices /\ uploads' = uploads \cup {row} /\ UNCHANGED <<tier, state>>
      /\ lastRow' = [lastRow EXCEPT ![d] = req[p].sha]
      /\ stamp' = IF req[p].parsed /\ ~Claimed(d) THEN [stamp EXCEPT ![d] = req[p].stamp] ELSE stamp
  BY DEF Commit, IngestInv, LockInv, RequestFits
<1>2. row.id = req[p].id /\ row.dev = d /\ row.sha = req[p].sha /\ row.parsed = req[p].parsed
  OBVIOUS
<1> HIDE DEF row
<1>3. state[d] \in {"live", "ended"} /\ lastRow[d] # row.sha
  BY <1>1, <1>2 DEF IngestInv, InUseStays, InUse, RowInv, Fresh, Choosing
<1>4. row.id \notin {u.id : u \in uploads} /\ \A v \in {u \in uploads : u.dev = d} : v.id < row.id
  BY <1>1, <1>2 DEF IngestInv, RowInv, IdsAssigned, Ids, RowsOf
<1>5. row \in uploads' \ uploads
  BY <1>1, <1>4
<1>6. d \in Claims \/ (tier # "gone" /\ Cardinality(Holders \ {d}) < Limits[tier])
  BY <1>1 DEF PlaceInv, PlaceFree, Choosing, Claims
<1>7. Claims' = IF row.parsed THEN Claims \cup {d} ELSE Claims
  <2>1. req[p].stamp > 0 /\ stamp \in [Devices -> Nat]
    BY <1>1 DEF IngestInv, SlotInv, SlotFree, LockInv, TypeOK, RowsTypeOK
  <2>2. \A e \in Devices : Claimed(e)' <=> Claimed(e) \/ (e = d /\ row.parsed)
    BY <1>1, <1>2, <2>1 DEF Claimed
  <2> QED
    BY <1>1, <2>2 DEF Claims
<1>8. Promised!Keep(uploads \cup {row})
  BY <1>1, SnapshotsKept
<1>9. row.dev \in Claims \/ Promised!HasPlace(row.dev)
  <2>1. Promised!HasPlace(d) <=> tier # "gone" /\ Cardinality(Holders \ {d}) < Limits[tier]
    BY ClaimedDevices, SameCardinality, Zenon DEF Promised!HasPlace
  <2> QED
    BY <1>2, <1>6, <2>1, Zenon
<1>10. row.id \notin Promised!Ids /\ \A v \in Promised!RowsOf(row.dev) : v.id < row.id
  BY <1>2, <1>4 DEF Promised!Ids, Promised!RowsOf
<1> QED
  BY <1>1, <1>2, <1>3, <1>5, <1>7, <1>8, <1>9, <1>10 DEF Promised!Store, Claims

LEMMA RemoveRemoves ==
  ASSUME IngestInv, IngestInv', NEW ids, NEW snaps, Remove(ids, snaps)
  PROVE  LET gone == {u \in uploads : u.id \in ids}
         IN  Promised!Keep(uploads \ gone) /\ Promised!Forget(gone)
<1> DEFINE gone == {u \in uploads : u.id \in ids}
<1>1. uploads' = uploads \ gone
  BY DEF Remove
<1>2. \A d : (\E u \in RowsOf(d) : u.id \in ids) <=> (\E u \in gone : u.dev = d)
  BY DEF RowsOf
<1>3. Promised!Forget(gone)
  BY <1>2 DEF Remove, Promised!Forget
<1>4. Promised!Keep(uploads \ gone)
  BY <1>1, SnapshotsKept
<1> QED
  BY <1>3, <1>4

LEMMA ReparseReparses ==
  ASSUME IngestInv, IngestInv', ReparseCommits
  PROVE  Promised!Reparse
<1>1. rep.id \in Ids /\ rep.parsed \in BOOLEAN
  BY DEF ReparseCommits, IngestInv, LockInv, ReparsedStays, TypeOK, PlacesTypeOK, RepType
<1>2. PICK u \in uploads : uploads' = (uploads \ {u}) \cup {[u EXCEPT !.parsed = rep.parsed]}
  BY <1>1, UploadOf DEF ReparseCommits
<1>3. Promised!Keep((uploads \ {u}) \cup {[u EXCEPT !.parsed = rep.parsed]})
  BY <1>2, SnapshotsKept
<1>4. UNCHANGED <<tier, state, stamp, lastRow>>
  BY DEF ReparseCommits, history
<1> QED
  BY <1>1, <1>2, <1>3, <1>4 DEF Promised!Reparse, Claimed

LEMMA DeleteDeletes ==
  ASSUME IngestInv, IngestInv', DeleteCommits
  PROVE  Promised!DeleteData \/ Promised!DeleteAccount
<1>1. Remove(del.ups, del.snaps) /\ Ids \subseteq del.ups /\ UNCHANGED stamp
  BY DEF DeleteCommits, IngestInv, RowInv, DeleteSeesAll
<1>2. {u \in uploads : u.id \in del.ups} = uploads /\ uploads \ uploads = {}
  BY <1>1 DEF Ids
<1>3. Promised!Keep(uploads \ uploads) /\ Promised!Forget(uploads)
  BY <1>1, <1>2, RemoveRemoves
<1>4. CASE UNCHANGED <<tier, state>>
  BY <1>1, <1>3, <1>4 DEF Promised!DeleteData, Promised!Remove, Claimed
<1>5. CASE tier' = "gone" /\ state' = [d \in Devices |-> "none"]
  BY <1>1, <1>2, <1>3, <1>5 DEF Promised!DeleteAccount, Claimed
<1> QED
  BY <1>4, <1>5 DEF DeleteCommits

LEMMA RetentionExpires ==
  ASSUME IngestInv, IngestInv', RetentionDeletes
  PROVE  [Promised!Expire]_(Promised!vars)
<1> DEFINE gone == {u \in uploads : u.id \in ret.ids}
<1>1. Remove(ret.ids, ret.ids) /\ UNCHANGED <<tier, state, stamp>>
  BY DEF RetentionDeletes
<1>2. Promised!Keep(uploads \ gone) /\ Promised!Forget(gone)
  BY <1>1, RemoveRemoves
<1>3. Promised!Remove(gone)
  BY <1>1, <1>2 DEF Promised!Remove, Claimed
<1>4. CASE gone # {}
  <2>1. gone \in SUBSET uploads
    OBVIOUS
  <2> HIDE DEF gone
  <2> QED
    BY <1>3, <1>4, <2>1 DEF Promised!Expire
<1>5. CASE gone = {}
  <2>1. uploads' = uploads /\ snapshots' = snapshots
    BY <1>2, <1>5 DEF Promised!Keep, IngestInv, RowInv, SnapshotOfParsed
  <2>2. lastRow' = lastRow
    BY <1>2, <1>5 DEF Promised!Forget, IngestInv, LockInv, TypeOK, RowsTypeOK
  <2> QED
    BY <1>1, <2>1, <2>2, NothingShown
<1> QED
  BY <1>4, <1>5

\* Every step of a transaction is a step of UserRows or shows nothing.
LEMMA StepsPromised ==
  ASSUME IngestInv, PlaceInv, IngestInv', Next
  PROVE  [Promised!Next]_(Promised!vars)
<1>1. ASSUME UNCHANGED <<tier, state, stamp, uploads, snapshots, lastRow>> PROVE [Promised!Next]_(Promised!vars)
  BY <1>1, NothingShown
<1>2. ASSUME NEW p \in Requests, RequestStep(p) PROVE [Promised!Next]_(Promised!vars)
  <2>1. CASE Commit(p)
    BY <2>1, CommitStores DEF Promised!Next
  <2>2. CASE ~Commit(p)
    BY <1>1, <1>2, <2>2 DEF RequestStep, Find, Begin, LockDevice, LockUser, Check, Insert, rows, history
  <2> QED
    BY <2>1, <2>2
<1>3. ASSUME NEW d \in Devices, DeviceStep(d) PROVE [Promised!Next]_(Promised!vars)
  <2>1. UNCHANGED <<tier, stamp, uploads, snapshots, lastRow>>
    BY <1>3 DEF DeviceStep, CreateDevice, RevokeDevice, EndGrant, history
  <2>2. CASE CreateDevice(d)
    <3>1. Promised!Approve(d)
      BY <2>1, <2>2 DEF CreateDevice, Promised!Approve, Claimed
    <3> QED
      BY <3>1 DEF Promised!Next
  <2>3. CASE RevokeDevice(d)
    <3>1. Promised!Revoke(d)
      BY <2>1, <2>3 DEF RevokeDevice, Promised!Revoke, Claimed
    <3> QED
      BY <3>1 DEF Promised!Next
  <2>4. CASE EndGrant(d)
    <3>1. Promised!EndGrant(d)
      BY <2>1, <2>4 DEF EndGrant, Promised!EndGrant, Claimed
    <3> QED
      BY <3>1 DEF Promised!Next
  <2> QED
    BY <1>3, <2>2, <2>3, <2>4 DEF DeviceStep
<1>4. ASSUME NEW t \in Tiers, ChangeTier(t) PROVE [Promised!Next]_(Promised!vars)
  <2>1. Promised!ChangeTier
    BY <1>4, IngestAssumption DEF ChangeTier, Promised!ChangeTier, Claimed
  <2> QED
    BY <2>1 DEF Promised!Next
<1>5. ASSUME DeleteStep PROVE [Promised!Next]_(Promised!vars)
  <2>1. CASE DeleteCommits
    BY <2>1, DeleteDeletes DEF Promised!Next
  <2>2. CASE ~DeleteCommits
    BY <1>1, <1>5, <2>2 DEF DeleteStep, Delete, DeleteLocks, DeleteRows, rows, history
  <2> QED
    BY <2>1, <2>2
<1>6. ASSUME RetentionStep PROVE [Promised!Next]_(Promised!vars)
  <2>1. CASE RetentionDeletes
    BY <2>1, RetentionExpires DEF Promised!Next
  <2>2. CASE RetentionPicks
    BY <1>1, <2>2 DEF RetentionPicks, rows, history
  <2> QED
    BY <1>6, <2>1, <2>2 DEF RetentionStep
<1>7. ASSUME ReparseStep PROVE [Promised!Next]_(Promised!vars)
  <2>1. CASE ReparseCommits
    BY <2>1, ReparseReparses DEF Promised!Next
  <2>2. CASE ~ReparseCommits
    BY <1>1, <1>7, <2>2 DEF ReparseStep, Reparse, ReparseLocks, ReparseWrites, rows, history
  <2> QED
    BY <2>1, <2>2
<1>8. ASSUME NEW p \in Processes, Abort(p) PROVE [Promised!Next]_(Promised!vars)
  BY <1>1, <1>8 DEF Abort, rows, history
<1> QED
  BY <1>2, <1>3, <1>4, <1>5, <1>6, <1>7, <1>8 DEF Next

\* However the transactions of a user meet, wait and are aborted, what they do to the
\* rows is a sequence of the single steps of UserRows.
THEOREM RowsAreAtomic == Spec => RowsSpec
<1>1. Init => Promised!Init /\ PlaceInv
  <2> SUFFICES ASSUME Init PROVE Promised!Init /\ PlaceInv
    OBVIOUS
  <2>1. PlaceInv
    BY DEF Init, NoReq, PlaceInv, PlaceFree, Choosing
  <2>2. PICK holders \in SUBSET Approved :
          /\ Cardinality(holders) <= Limits["free"]
          /\ stamp = [d \in Devices |-> IF d \in holders THEN 1 ELSE 0]
    BY DEF Init
  <2>3. holders \subseteq Devices /\ \A d \in Devices : Claimed(d) <=> d \in holders
    BY <2>2, IngestAssumption DEF Claimed
  <2>4. {d \in Devices : Claimed(d)} = holders
    BY <2>3
  <2>5. {d \in Devices : Claimed(d)} \subseteq Approved /\ Cardinality({d \in Devices : Claimed(d)}) <= Limits["free"]
    BY <2>2, <2>4, Zenon
  <2>6. Promised!Init
    BY <2>5, SameCardinality, Zenon DEF Init, Promised!Init
  <2> QED
    BY <2>1, <2>6
<1>2. IngestInv /\ PlaceInv /\ [Next]_vars => PlaceInv'
  <2>1. ASSUME PlaceInv, UNCHANGED vars PROVE PlaceInv'
    BY <2>1 DEF PlaceInv, PlaceFree, Holders, Claimed, vars, rows
  <2> QED
    BY <2>1, PlaceNext
<1>3. IngestInv /\ PlaceInv /\ IngestInv' /\ [Next]_vars => [Promised!Next]_(Promised!vars)
  <2>1. ASSUME UNCHANGED vars PROVE UNCHANGED Promised!vars
    BY <2>1, NothingShown DEF vars, rows, history
  <2> QED
    BY <2>1, StepsPromised
<1> QED
  BY <1>1, <1>2, <1>3, InitIngest, NextIngest, PTL DEF Spec, RowsSpec, Promised!Spec

-----------------------------------------------------------------------------
(* The order of the locks. A request locks its device, then its user; a delete of  *)
(* the account the devices it found, then the user, then the rows.                 *)

RequestHolds(p, lock) ==
  \/ req[p].at \in InUse /\ lock = Lock(DeviceRow(req[p].dev), "update")
  \/ req[p].at \in InUse \ {"device"} /\ lock = Lock(UserRow, "nokey")
  \/ req[p].at = "inserted" /\ lock = Lock(UserRow, "keyshare")

\* Nobody holds more than its place asked for so far.
OnlyNeeded ==
  \A l \in locks :
    /\ l.by \in Requests => RequestHolds(l.by, l.lock)
    /\ l.by = "delete" /\ l.lock.row = UserRow => del.at \in {"snapshots", "uploads", "account", "commit"}

\* A delete of the account has each device, but the ones it has left and the late ones.
ScanHeld ==
  /\ del.at \in {"devices", "account"} => del.account
  /\ del.at # "idle" /\ del.account =>
       /\ del.at = "devices" \/ del.left = {}
       /\ \A d \in Existing : d \in del.left \cup del.late \/ Holds("delete", Lock(DeviceRow(d), "nokey"))

OrderInv == OnlyNeeded /\ ScanHeld

\* A step that takes or releases locks of "p" only.
Mine(p) == \A l : l.by # p => (l \in locks' <=> l \in locks)

LEMMA MineOf ==
  /\ UNCHANGED locks => \A p : Mine(p)
  /\ \A p : Release(p) => Mine(p) /\ \A l \in locks' : l.by # p
  /\ \A p : Take(p) => Mine(p) /\ locks \subseteq locks' /\ (\A w \in Needs(p) : Holds(p, w)')
                       /\ \A l \in locks' : l \in locks \/ (l.by = p /\ l.lock \in Needs(p))
<1>1. ASSUME NEW p, Take(p)
      PROVE  Mine(p) /\ locks \subseteq locks' /\ (\A w \in Needs(p) : Holds(p, w)')
             /\ \A l \in locks' : l \in locks \/ (l.by = p /\ l.lock \in Needs(p))
  <2> DEFINE taken == {[by |-> p, lock |-> l] : l \in Needs(p)}
  <2>1. locks' = locks \cup taken
    BY <1>1 DEF Take
  <2>2. \A l \in taken : l.by = p /\ l.lock \in Needs(p)
    OBVIOUS
  <2>3. \A w \in Needs(p) : [by |-> p, lock |-> w] \in taken
    OBVIOUS
  <2> HIDE DEF taken
  <2> QED
    BY <2>1, <2>2, <2>3 DEF Mine, Holds
<1>2. ASSUME NEW p, Release(p) PROVE Mine(p) /\ \A l \in locks' : l.by # p
  BY <1>2 DEF Release, Mine
<1> QED
  BY <1>1, <1>2 DEF Mine

LEMMA RequestOrder ==
  ASSUME OrderInv, NEW p \in Requests, Mine(p), UNCHANGED <<del, state>>,
         \A q \in Requests : q # p => req'[q] = req[q], \A l \in locks' : l.by = p => RequestHolds(p, l.lock)'
  PROVE  OrderInv'
<1>1. p # "delete"
  BY NamesDiffer
<1>2. ASSUME NEW l \in locks', l.by \in Requests PROVE RequestHolds(l.by, l.lock)'
  <2>1. CASE l.by # p
    <3>1. RequestHolds(l.by, l.lock) /\ req'[l.by] = req[l.by]
      BY <1>2, <2>1 DEF Mine, OrderInv, OnlyNeeded
    <3> QED
      BY <3>1 DEF RequestHolds
  <2> QED
    BY <2>1
<1>3. OnlyNeeded'
  BY <1>1, <1>2 DEF Mine, OrderInv, OnlyNeeded
<1>4. \A lock : Holds("delete", lock) => Holds("delete", lock)'
  BY <1>1 DEF Mine, Holds
<1>5. ScanHeld'
  BY <1>4 DEF OrderInv, ScanHeld, Existing
<1> QED
  BY <1>3, <1>5 DEF OrderInv

LEMMA SideOrder ==
  ASSUME OrderInv, NEW p, p \notin Requests \cup {"delete"}, Mine(p), UNCHANGED <<req, del>>, Existing' \subseteq Existing
  PROVE  OrderInv'
<1>1. ASSUME NEW l \in locks', l.by \in Requests PROVE RequestHolds(l.by, l.lock)'
  <2>1. RequestHolds(l.by, l.lock)
    BY <1>1 DEF Mine, OrderInv, OnlyNeeded
  <2> QED
    BY <2>1 DEF RequestHolds
<1>2. OnlyNeeded'
  BY <1>1 DEF Mine, OrderInv, OnlyNeeded
<1>3. \A lock : Holds("delete", lock) => Holds("delete", lock)'
  BY DEF Mine, Holds
<1>4. ScanHeld'
  BY <1>3 DEF OrderInv, ScanHeld
<1> QED
  BY <1>2, <1>4 DEF OrderInv

LEMMA DeleteOrder ==
  ASSUME OrderInv, Mine("delete"), UNCHANGED req, ScanHeld',
         \A l \in locks' : l.by = "delete" /\ l.lock.row = UserRow => del'.at \in {"snapshots", "uploads", "account", "commit"}
  PROVE  OrderInv'
<1>1. ASSUME NEW l \in locks', l.by \in Requests PROVE RequestHolds(l.by, l.lock)'
  <2>1. RequestHolds(l.by, l.lock)
    BY <1>1, NamesDiffer DEF Mine, OrderInv, OnlyNeeded
  <2> QED
    BY <2>1 DEF RequestHolds
<1> QED
  BY <1>1 DEF OrderInv, OnlyNeeded

LEMMA RequestsOrder == ASSUME LockInv, OrderInv, NEW p \in Requests, RequestStep(p) PROVE OrderInv'
<1>1. req \in [Requests -> ReqType] /\ req[p] \in ReqType /\ p \in Processes /\ p \notin {"delete", "reparse", "retention"}
      /\ LocksTypeOK
  BY NamesDiffer DEF LockInv, TypeOK, PlacesTypeOK
<1>2. UNCHANGED <<del, state>>
  BY DEF RequestStep, Find, Begin, LockDevice, LockUser, Check, Insert, Commit, rows
<1>3. CASE Ends(p)
  <2>1. Mine(p) /\ (\A l \in locks' : l.by # p) /\ \A q \in Requests : q # p => req'[q] = req[q]
    BY <1>1, <1>3, MineOf DEF Ends
  <2> QED
    BY <1>2, <2>1, RequestOrder
<1>4. CASE Find(p) \/ Begin(p)
  <2>1. UNCHANGED locks /\ \A l \in locks : l.by # p
    <3>1. UNCHANGED locks /\ ~InTransaction(p)
      BY <1>1, <1>4 DEF Find, Begin, InTransaction
    <3> QED
      BY <1>1, <3>1, NoneHeld
  <2>2. \A q \in Requests : q # p => req'[q] = req[q]
    BY <1>1, <1>4 DEF Find, Begin
  <2> QED
    BY <1>2, <2>1, <2>2, MineOf, RequestOrder
\* What it held fits its next place, and so does what it takes.
<1>5. ASSUME NEW r \in ReqType, req' = [req EXCEPT ![p] = r], r.dev = req[p].dev,
             req[p].at \in InUse => r.at \in InUse, req[p].at \in InUse \ {"device"} => r.at \in InUse \ {"device"},
             req[p].at = "inserted" => r.at = "inserted", UNCHANGED locks \/ Take(p),
             UNCHANGED locks \/ \A w \in Needs(p) : RequestHolds(p, w)'
      PROVE  OrderInv'
  <2>1. req'[p] = r /\ \A q \in Requests : q # p => req'[q] = req[q]
    BY <1>1, <1>5
  <2>2. Mine(p) /\ \A l \in locks' : l.by = p => l \in locks \/ l.lock \in Needs(p)
    BY <1>5, MineOf
  <2>3. ASSUME NEW l \in locks', l.by = p PROVE RequestHolds(p, l.lock)'
    <3>1. CASE l \in locks
      <4>1. RequestHolds(p, l.lock)
        BY <2>3, <3>1 DEF OrderInv, OnlyNeeded
      <4> QED
        BY <1>5, <2>1, <4>1 DEF RequestHolds
    <3>2. CASE l \notin locks
      BY <1>5, <2>2, <2>3, <3>2
    <3> QED
      BY <3>1, <3>2
  <2> QED
    BY <1>2, <2>1, <2>2, <2>3, RequestOrder
<1>6. ASSUME NEW at \in {"device", "user", "checked"}
      PROVE  LET r == [req[p] EXCEPT !.at = at] IN r \in ReqType /\ r.at = at /\ r.dev = req[p].dev
  BY <1>1 DEF ReqType
<1>7. CASE LockDevice(p) /\ ~Ends(p)
  <2> DEFINE r == [req[p] EXCEPT !.at = "device"]
  <2>1. req[p].at = "begun" /\ Take(p) /\ req' = [req EXCEPT ![p] = r]
    BY <1>7 DEF LockDevice
  <2>2. r \in ReqType /\ r.at = "device" /\ r.dev = req[p].dev
    BY <1>6
  <2> HIDE DEF r
  <2>3. req'[p] = r
    BY <1>1, <2>1
  <2>4. \A w \in Needs(p) : RequestHolds(p, w)'
    BY <2>1, <2>2, <2>3, NeedsOf DEF NeedsOfRequest, DeviceLock, RequestHolds, InUse
  <2> QED
    BY <1>5, <2>1, <2>2, <2>4 DEF InUse
<1>8. CASE LockUser(p)
  <2> DEFINE r == [req[p] EXCEPT !.at = "user"]
  <2>1. req[p].at = "device" /\ Take(p) /\ req' = [req EXCEPT ![p] = r]
    BY <1>8 DEF LockUser
  <2>2. r \in ReqType /\ r.at = "user" /\ r.dev = req[p].dev
    BY <1>6
  <2> HIDE DEF r
  <2>3. req'[p] = r
    BY <1>1, <2>1
  <2>4. \A w \in Needs(p) : RequestHolds(p, w)'
    BY <2>1, <2>2, <2>3, NeedsOf DEF NeedsOfRequest, ClaimLock, RequestHolds, InUse
  <2> QED
    BY <1>5, <2>1, <2>2, <2>4 DEF InUse
<1>9. CASE Check(p) /\ ~Ends(p)
  <2> DEFINE r == [req[p] EXCEPT !.at = "checked"]
  <2>1. req[p].at = "user" /\ UNCHANGED locks /\ req' = [req EXCEPT ![p] = r]
    BY <1>9 DEF Check
  <2>2. r \in ReqType /\ r.at = "checked" /\ r.dev = req[p].dev
    BY <1>6
  <2> HIDE DEF r
  <2> QED
    BY <1>5, <2>1, <2>2 DEF InUse
<1>10. CASE Insert(p)
  <2>1. PICK parsed \in BOOLEAN : req' = [req EXCEPT ![p] = [@ EXCEPT !.at = "inserted", !.id = nextId, !.parsed = parsed]]
    BY <1>10 DEF Insert
  <2> DEFINE r == [req[p] EXCEPT !.at = "inserted", !.id = nextId, !.parsed = parsed]
  <2>2. req[p].at = "checked" /\ Take(p) /\ req' = [req EXCEPT ![p] = r] /\ nextId \in Nat
    BY <1>10, <2>1 DEF Insert, LockInv, TypeOK, RowsTypeOK
  <2>3. r \in ReqType /\ r.at = "inserted" /\ r.dev = req[p].dev
    BY <1>1, <2>2 DEF ReqType
  <2> HIDE DEF r
  <2>4. req'[p] = r
    BY <1>1, <2>2
  <2>5. \A w \in Needs(p) : RequestHolds(p, w)'
    BY <2>2, <2>3, <2>4, NeedsOf DEF NeedsOfRequest, RequestHolds
  <2> QED
    BY <1>5, <2>2, <2>3, <2>5 DEF InUse
<1> QED
  BY <1>3, <1>4, <1>7, <1>8, <1>9, <1>10 DEF RequestStep, Commit

LEMMA DeletesOrder == ASSUME LockInv, OrderInv, DeleteStep PROVE OrderInv'
<1>1. del \in DelType /\ "delete" \in Processes /\ Existing \subseteq Devices
  BY NamesDiffer DEF LockInv, TypeOK, PlacesTypeOK, Existing
<1>2. UNCHANGED req
  BY DEF DeleteStep, Delete, DeleteLocks, DeleteRows, DeleteCommits
<1> DEFINE Late == {"snapshots", "uploads", "account", "commit"}
<1>3. CASE \E account \in BOOLEAN : Delete(account)
  <2>1. PICK account \in BOOLEAN : Delete(account)
    BY <1>3
  <2>2. UNCHANGED <<state, locks>> /\ del.at = "idle" /\ DeleteStarts(account)
    BY <2>1 DEF Delete, rows
  <2>3. \A l \in locks' : l.by # "delete"
    BY <1>1, <2>2, NoneHeld DEF InTransaction
  <2>4. ScanHeld'
    <3>1. del'.at = (IF account THEN "devices" ELSE "user") /\ del'.account = account /\ del'.left = IF account THEN Existing ELSE {}
      BY <2>2 DEF DeleteStarts, NoDel, Scanned
    <3>2. Existing' = Existing
      BY <2>2 DEF Existing
    <3> QED
      BY <3>1, <3>2 DEF ScanHeld
  <2> QED
    BY <1>2, <2>2, <2>3, <2>4, MineOf, DeleteOrder
<1>4. ASSUME Take("delete"), UNCHANGED state, del.at # "idle", del'.account = del.account, del'.late = del.late,
             del.at # "devices" => del'.left = del.left /\ del'.at # "devices",
             del.at = "devices" => del'.at = "devices" \/ (del.left = {} /\ del'.left = {}),
             \A d \in del.left : d \in del'.left \/ Lock(DeviceRow(d), "nokey") \in Needs("delete"),
             del.at \in {"user"} \cup Late => del'.at \in Late,
             del'.at = del.at \/ del'.at \notin {"devices", "account"} \/ del.account
      PROVE  OrderInv'
  <2>1. /\ Mine("delete") /\ locks \subseteq locks' /\ (\A w \in Needs("delete") : Holds("delete", w)')
        /\ \A l \in locks' : l \in locks \/ (l.by = "delete" /\ l.lock \in Needs("delete"))
    BY <1>4, MineOf
  <2>2. ASSUME NEW l \in locks', l.by = "delete", l.lock.row = UserRow PROVE del'.at \in Late
    <3>1. CASE l \in locks
      BY <1>4, <2>2, <3>1 DEF OrderInv, OnlyNeeded
    <3>2. CASE l.lock \in Needs("delete")
      <4>1. del.at = "user"
        <5>1. UserRow[1] = "user" /\ (\A d : DeviceRow(d) # UserRow /\ UploadRow(d) # UserRow /\ SnapshotRow(d) # UserRow)
          BY DEF UserRow, DeviceRow, UploadRow, SnapshotRow
        <5> QED
          BY <2>2, <3>2, <5>1, NeedsOf, LockParts DEF NeedsOfDelete
      <4> QED
        BY <1>4, <4>1
    <3> QED
      BY <2>1, <2>2, <3>1, <3>2
  <2>3. ScanHeld'
    <3> SUFFICES ASSUME del.account
                 PROVE  /\ del'.at = "devices" \/ del'.left = {}
                        /\ \A d \in Existing' : d \in del'.left \cup del'.late \/ Holds("delete", Lock(DeviceRow(d), "nokey"))'
      BY <1>4 DEF OrderInv, ScanHeld
    <3>1. del'.at = "devices" \/ del'.left = {}
      BY <1>4 DEF OrderInv, ScanHeld
    <3>2. ASSUME NEW d \in Existing'
          PROVE  d \in del'.left \cup del'.late \/ Holds("delete", Lock(DeviceRow(d), "nokey"))'
      <4>1. d \in Existing
        BY <1>4 DEF Existing
      <4>2. d \in del.left \cup del.late \/ Holds("delete", Lock(DeviceRow(d), "nokey"))
        BY <1>4, <4>1 DEF OrderInv, ScanHeld
      <4>3. Holds("delete", Lock(DeviceRow(d), "nokey")) => Holds("delete", Lock(DeviceRow(d), "nokey"))'
        BY <2>1 DEF Holds
      <4> QED
        BY <1>4, <2>1, <4>2, <4>3
    <3> QED
      BY <3>1, <3>2
  <2> QED
    BY <1>2, <2>1, <2>2, <2>3, DeleteOrder
<1>5. CASE DeleteLocks
  <2>1. Take("delete") /\ UNCHANGED state
    BY <1>5 DEF DeleteLocks, rows
  <2>2. CASE del.at = "devices" /\ del.left # {} /\ del' = [del EXCEPT !.left = @ \ {First(@)}]
    <3>1. del'.at = "devices" /\ del'.account = del.account /\ del'.late = del.late /\ del'.left = del.left \ {First(del.left)}
      BY <1>1, <2>2 DEF DelType
    <3>2. Lock(DeviceRow(First(del.left)), "nokey") \in Needs("delete")
      BY <2>2, NeedsOf DEF NeedsOfDelete
    <3>3. \A d \in del.left : d \in del'.left \/ Lock(DeviceRow(d), "nokey") \in Needs("delete")
      BY <3>1, <3>2
    <3> QED
      BY <1>4, <2>1, <2>2, <3>1, <3>3
  <2>3. CASE del.at = "devices" /\ del.left = {} /\ del' = [del EXCEPT !.at = "user"]
    <3>1. del'.at = "user" /\ del'.account = del.account /\ del'.late = del.late /\ del'.left = {}
      BY <1>1, <2>3 DEF DelType
    <3> QED
      BY <1>4, <2>1, <2>3, <3>1
  <2>4. CASE del.at = "user" /\ del' = [del EXCEPT !.at = "snapshots"]
    <3>1. del'.at = "snapshots" /\ del'.account = del.account /\ del'.late = del.late /\ del'.left = del.left
      BY <1>1, <2>4 DEF DelType
    <3> QED
      BY <1>4, <2>1, <2>4, <3>1
  <2> QED
    BY <1>5, <2>2, <2>3, <2>4 DEF DeleteLocks
<1>6. CASE DeleteRows
  <2>1. Take("delete") /\ UNCHANGED state /\ del.at \in {"snapshots", "uploads", "account"}
    BY <1>6 DEF DeleteRows, rows
  <2>2. /\ del'.at \in {"uploads", "account", "commit"} /\ del'.account = del.account /\ del'.late = del.late /\ del'.left = del.left
        /\ del'.at = "account" => del.account
    <3>1. CASE del' = [del EXCEPT !.at = "uploads", !.snaps = snapshots]
      BY <1>1, <3>1 DEF DelType
    <3>2. CASE del' = [del EXCEPT !.at = IF del.account THEN "account" ELSE "commit", !.ups = Ids]
      <4>1. del'.at = IF del.account THEN "account" ELSE "commit"
        BY <1>1, <3>2 DEF DelType
      <4> QED
        BY <1>1, <3>2, <4>1 DEF DelType
    <3>3. CASE del' = [del EXCEPT !.at = "commit"]
      BY <1>1, <3>3 DEF DelType
    <3> QED
      BY <1>6, <3>1, <3>2, <3>3 DEF DeleteRows
  <2> QED
    BY <1>4, <2>1, <2>2
<1>7. CASE DeleteCommits
  <2>1. Mine("delete") /\ (\A l \in locks' : l.by # "delete") /\ del' = NoDel
    BY <1>7, MineOf DEF DeleteCommits
  <2>2. ScanHeld'
    BY <2>1 DEF ScanHeld, NoDel
  <2> QED
    BY <1>2, <2>1, <2>2, DeleteOrder
<1> QED
  BY <1>3, <1>5, <1>6, <1>7 DEF DeleteStep

LEMMA OrderNext == ASSUME LockInv, OrderInv, Next PROVE OrderInv'
<1>1. del \in DelType /\ state \in [Devices -> {"none", "live", "ended", "revoked"}]
  BY DEF LockInv, TypeOK, PlacesTypeOK, RowsTypeOK
<1>2. ASSUME UNCHANGED <<req, del, locks>>, Existing' \subseteq Existing PROVE OrderInv'
  BY <1>2, MineOf, NamesDiffer, SideOrder
<1>3. ASSUME NEW d \in Devices, DeviceStep(d) PROVE OrderInv'
  <2>1. CASE RevokeDevice(d) \/ EndGrant(d)
    <3>1. UNCHANGED <<req, del, locks>> /\ Existing' \subseteq Existing
      BY <1>1, <2>1 DEF RevokeDevice, EndGrant, Existing
    <3> QED
      BY <1>2, <3>1
  <2>2. CASE CreateDevice(d)
    <3>1. UNCHANGED <<req, locks>> /\ Existing' \subseteq Existing \cup {d}
      BY <1>1, <2>2 DEF CreateDevice, Existing
    <3>2. /\ del'.at = del.at /\ del'.account = del.account /\ del'.left = del.left
          /\ del'.late = IF del.at = "idle" THEN del.late ELSE del.late \cup {d}
      BY <1>1, <2>2 DEF CreateDevice, DelType
    <3>3. OnlyNeeded'
      BY <3>1, <3>2 DEF OrderInv, OnlyNeeded, RequestHolds
    <3>4. ScanHeld'
      BY <3>1, <3>2 DEF OrderInv, ScanHeld, Holds
    <3> QED
      BY <3>3, <3>4 DEF OrderInv
  <2> QED
    BY <1>3, <2>1, <2>2 DEF DeviceStep
<1>4. ASSUME NEW t \in Tiers, ChangeTier(t) PROVE OrderInv'
  BY <1>2, <1>4 DEF ChangeTier, Existing
<1>5. ASSUME RetentionStep PROVE OrderInv'
  <2>1. UNCHANGED <<req, del>> /\ Existing' = Existing
    BY <1>5 DEF RetentionStep, RetentionPicks, RetentionDeletes, Existing, rows
  <2>2. Mine("retention")
    <3>1. CASE RetentionDeletes
      BY <3>1, MineOf DEF RetentionDeletes
    <3>2. CASE RetentionPicks
      BY <3>2 DEF RetentionPicks, Mine
    <3> QED
      BY <1>5, <3>1, <3>2 DEF RetentionStep
  <2> QED
    BY <2>1, <2>2, NamesDiffer, SideOrder
<1>6. ASSUME ReparseStep PROVE OrderInv'
  <2>1. UNCHANGED <<req, del>> /\ Existing' = Existing
    BY <1>6 DEF ReparseStep, Reparse, ReparseLocks, ReparseWrites, ReparseCommits, Existing, rows
  <2>2. Mine("reparse")
    BY <1>6, MineOf DEF ReparseStep, Reparse, ReparseLocks, ReparseWrites, ReparseCommits, ReparseEnds
  <2> QED
    BY <2>1, <2>2, NamesDiffer, SideOrder
<1>7. ASSUME NEW p \in Processes, Abort(p) PROVE OrderInv'
  <2>1. Release(p) /\ UNCHANGED state
    BY <1>7 DEF Abort, rows
  <2>2. Mine(p) /\ \A l \in locks' : l.by # p
    BY <2>1, MineOf
  <2>3. CASE p \in Requests /\ req' = [req EXCEPT ![p] = NoReq] /\ del' = del
    <3>1. \A q \in Requests : q # p => req'[q] = req[q]
      BY <2>3 DEF LockInv, TypeOK, PlacesTypeOK
    <3> QED
      BY <2>1, <2>2, <2>3, <3>1, RequestOrder
  <2>4. CASE p = "delete" /\ DeleteAborted
    <3>1. UNCHANGED req
      BY <2>4 DEF DeleteAborted
    <3>2. CASE del' = NoDel
      <4>1. ScanHeld'
        BY <3>2 DEF ScanHeld, NoDel
      <4> QED
        BY <2>2, <2>4, <3>1, <4>1, DeleteOrder
    <3>3. CASE del' = [NoDel EXCEPT !.at = IF del.account THEN "devices" ELSE "user", !.account = del.account,
                                    !.again = TRUE, !.left = IF del.account THEN Scanned ELSE {}]
      <4>1. del'.at = (IF del.account THEN "devices" ELSE "user") /\ del'.account = del.account
            /\ del'.left = IF del.account THEN Existing ELSE {}
        BY <3>3 DEF NoDel, Scanned
      <4>2. Existing' = Existing
        BY <2>1 DEF Existing
      <4>3. ScanHeld'
        BY <4>1, <4>2 DEF ScanHeld
      <4> QED
        BY <2>2, <2>4, <3>1, <4>3, DeleteOrder
    <3> QED
      BY <2>4, <3>2, <3>3 DEF DeleteAborted
  <2>5. CASE p = "reparse" /\ UNCHANGED <<req, del>>
    <3>1. Existing' = Existing
      BY <2>1 DEF Existing
    <3> QED
      BY <2>2, <2>5, <3>1, NamesDiffer, SideOrder
  <2> QED
    BY <1>7, <2>3, <2>4, <2>5 DEF Abort
<1> QED
  BY <1>3, <1>4, <1>5, <1>6, <1>7, RequestsOrder, DeletesOrder DEF Next

\* For whom a request waits that is not the re-parse or the retention.
LEMMA RequestWaits ==
  ASSUME LockInv, OrderInv, NEW p \in Requests, NEW q \in Requests \cup {"delete"}, WaitsFor(p, q)
  PROVE  \/ req[p].at = "begun" /\ (q = "delete" \/ req[q].at \in InUse)
         \/ req[p].at = "device" /\ q \in Requests /\ req[q].at \in InUse \ {"device"}
         \/ req[p].at \in {"device", "checked"} /\ q = "delete" /\ del.at \in {"snapshots", "uploads", "account", "commit"}
<1>1. PICK w \in NeedsOfRequest(p) : Blocks(q, p, w)
  BY NeedsOf DEF WaitsFor
<1>2. PICK l \in locks : l.by = q /\ l.lock.row = w.row /\ Conflict(l.lock.mode, w.mode)
  BY <1>1 DEF Blocks
<1>3. q \in Requests => RequestHolds(q, l.lock)
  BY <1>2 DEF OrderInv, OnlyNeeded
<1>4. \A d : DeviceRow(d) # UserRow
  BY DEF DeviceRow, UserRow
<1>5. CASE req[p].at = "begun"
  <2>1. w.row = DeviceRow(req[p].dev)
    BY <1>1, <1>5, LockParts DEF NeedsOfRequest, DeviceLock
  <2>2. q \in Requests => req[q].at \in InUse
    BY <1>3 DEF RequestHolds, InUse
  <2> QED
    BY <1>5, <2>2
<1>6. CASE req[p].at = "device"
  <2>1. w.row = UserRow
    BY <1>1, <1>6, LockParts DEF NeedsOfRequest, ClaimLock
  <2>2. q \in Requests => req[q].at \in InUse \ {"device"}
    BY <1>2, <1>3, <1>4, <2>1, LockParts DEF RequestHolds, InUse
  <2>3. q = "delete" => del.at \in {"snapshots", "uploads", "account", "commit"}
    BY <1>2, <2>1 DEF OrderInv, OnlyNeeded
  <2> QED
    BY <1>6, <2>2, <2>3
<1>7. CASE req[p].at = "checked"
  <2>1. w = Lock(UserRow, "keyshare")
    BY <1>1, <1>7 DEF NeedsOfRequest
  <2>2. l.lock.row = UserRow /\ Conflict(l.lock.mode, "keyshare")
    BY <1>2, <2>1, LockParts
  <2>3. q \notin Requests
    <3>1. ~Conflict("nokey", "keyshare") /\ ~Conflict("keyshare", "keyshare")
      BY DEF Conflict
    <3> QED
      BY <1>3, <1>4, <2>2, <3>1, LockParts DEF RequestHolds
  <2>4. q = "delete" => del.at \in {"snapshots", "uploads", "account", "commit"}
    BY <1>2, <2>2 DEF OrderInv, OnlyNeeded
  <2> QED
    BY <1>7, <2>3, <2>4
<1> QED
  BY <1>1, <1>5, <1>6, <1>7 DEF NeedsOfRequest

\* For which request a delete waits.
LEMMA DeleteWaits ==
  ASSUME LockInv, OrderInv, NEW q \in Requests, WaitsFor("delete", q)
  PROVE  \/ del.at = "devices" /\ req[q].at \in InUse
         \/ del.at = "user" /\ req[q].at \in InUse
         \/ del.at = "account" /\ req[q].dev \in del.late
<1>1. PICK w \in NeedsOfDelete : Blocks(q, "delete", w)
  BY NeedsOf DEF WaitsFor
<1>2. PICK l \in locks : l.by = q /\ l.lock.row = w.row /\ Conflict(l.lock.mode, w.mode)
  BY <1>1 DEF Blocks
<1>3. RequestHolds(q, l.lock)
  BY <1>2 DEF OrderInv, OnlyNeeded
<1>4. req[q].at \in InUse
  BY <1>3 DEF RequestHolds, InUse
<1>5. l.lock.row \in {UserRow, DeviceRow(req[q].dev)}
  BY <1>3, LockParts DEF RequestHolds
<1>6. CASE del.at = "snapshots"
  BY <1>1, <1>2, <1>5, <1>6, LockParts, RowsDiffer DEF NeedsOfDelete
<1>7. CASE del.at = "uploads"
  BY <1>1, <1>2, <1>5, <1>7, LockParts, RowsDiffer DEF NeedsOfDelete
<1>8. CASE del.at = "account"
  <2>1. PICK d \in Existing : w = Lock(DeviceRow(d), "update")
    BY <1>1, <1>8 DEF NeedsOfDelete
  <2>2. d = req[q].dev /\ l.lock = Lock(DeviceRow(d), "update")
    <3>1. l.lock.row = DeviceRow(d) /\ DeviceRow(d) # UserRow
      BY <1>2, <2>1, LockParts DEF DeviceRow, UserRow
    <3>2. d = req[q].dev
      BY <1>5, <3>1, RowsDiffer
    <3> QED
      BY <1>3, <3>1, <3>2, LockParts DEF RequestHolds
  <2>3. ~Holds("delete", Lock(DeviceRow(d), "nokey"))
    <3>1. Holds(q, Lock(DeviceRow(d), "update"))
      BY <1>4, <2>2 DEF LockInv, RequestFits
    <3> QED
      BY <3>1, Exclusion, Modal, NamesDiffer
  <2>4. d \in del.left \cup del.late /\ del.left = {}
    BY <1>8, <2>3 DEF OrderInv, ScanHeld
  <2> QED
    BY <1>8, <2>2, <2>4
<1> QED
  BY <1>1, <1>4, <1>6, <1>7, <1>8 DEF NeedsOfDelete

\* A circle without the re-parse is a delete of the account that waits for a request
\* of a device it did not find: requests wait on from their device to their user, and
\* from there for the delete only.
LEMMA NoCircle == LockInv /\ OrderInv => OnlyLateCircles
<1> SUFFICES ASSUME LockInv, OrderInv, NEW P \in SUBSET (Waiting \ {"reparse"}), Circle(P)
             PROVE  /\ "delete" \in P /\ del.at = "account"
                    /\ \E p \in P \cap Requests : req[p].dev \in del.late
  BY DEF OnlyLateCircles
<1> DEFINE HasUser == "delete" \in P /\ del.at \in {"snapshots", "uploads", "account", "commit"}
<1>1. P \subseteq Requests \cup {"delete"}
  <2>1. "retention" \notin Waiting
    BY RetentionFreeInv DEF RetentionNeverWaits, Waiting
  <2> QED
    BY <2>1 DEF Waiting, Processes
<1>2. ASSUME NEW p \in P, p \in Requests
      PROVE  \E q \in P : /\ q \in Requests \cup {"delete"}
                          /\ \/ req[p].at = "begun" /\ (q = "delete" \/ req[q].at \in InUse)
                             \/ req[p].at = "device" /\ q \in Requests /\ req[q].at \in InUse \ {"device"}
                             \/ req[p].at \in {"device", "checked"} /\ HasUser
  <2>1. PICK q \in P : WaitsFor(p, q)
    BY DEF Circle
  <2>2. q \in Requests \cup {"delete"}
    BY <1>1
  <2> QED
    BY <1>2, <2>1, <2>2, RequestWaits
<1> HIDE DEF HasUser
<1>3. ASSUME NEW p \in P, p \in Requests, req[p].at \in InUse \ {"device"} PROVE HasUser
  BY <1>2, <1>3 DEF InUse
<1>4. ASSUME NEW p \in P, p \in Requests, req[p].at \in InUse PROVE HasUser
  <2>1. CASE req[p].at = "device"
    BY <1>2, <1>3, <1>4, <2>1
  <2> QED
    BY <1>3, <1>4, <2>1
<1>5. "delete" \in P
  <2>1. PICK p \in P : TRUE
    BY DEF Circle
  <2>2. CASE p \in Requests
    <3>1. \E q \in P : q = "delete" \/ (q \in Requests /\ req[q].at \in InUse) \/ HasUser
      BY <1>2, <2>2
    <3> QED
      BY <1>4, <3>1 DEF HasUser
  <2> QED
    BY <1>1, <2>1, <2>2
<1>6. PICK q \in P : WaitsFor("delete", q)
  BY <1>5 DEF Circle
<1>7. q \in Requests
  BY <1>1, <1>6 DEF WaitsFor, Blocks
<1>8. del.at \notin {"devices", "user"} \/ req[q].at \notin InUse
  BY <1>4, <1>7 DEF HasUser
<1> QED
  BY <1>5, <1>6, <1>7, <1>8, DeleteWaits

\* Without the re-parse, the only circle of waits is of a delete of the account at its
\* devices and an upload of a device approved after the delete locked the others; and a
\* batch of the retention never waits.
THEOREM LocksInOrder == Spec => []LocksOrdered
<1>1. Init => OrderInv
  BY DEF Init, NoDel, OrderInv, OnlyNeeded, ScanHeld
<1>2. LockInv /\ OrderInv /\ [Next]_vars => OrderInv'
  <2>1. ASSUME LockInv, OrderInv, UNCHANGED vars PROVE OrderInv'
    BY <2>1 DEF OrderInv, OnlyNeeded, RequestHolds, ScanHeld, Existing, Holds, vars, rows
  <2> QED
    BY <2>1, OrderNext
<1>3. LockInv /\ OrderInv => LocksOrdered
  BY NoCircle, RetentionFreeInv DEF LocksOrdered
<1> QED
  BY <1>1, <1>2, <1>3, InitLocks, NextLocks, PTL DEF Spec

\* What account.ts says of uploads and deletes, that they wait and do not deadlock, is so
\* for every delete during which no device is approved.
THEOREM UploadsWaitUnlessLate == Spec => [](del.late = {} => UploadsWait)
<1>1. LocksOrdered /\ del.late = {} => UploadsWait
  BY DEF LocksOrdered, OnlyLateCircles, UploadsWait
<1> QED
  BY <1>1, LocksInOrder, PTL

-----------------------------------------------------------------------------
(* An upload request before its transaction: what readParts holds while it has   *)
(* no outcome, and what a good outcome says of the body.                         *)

Kept == {"stored", "duplicate", "parse_error", "unsupported_flavor"}
Unrecordable == Unrecorded \cup {"unauthorized"}
PartsRefused == {"bad_request", "too_large", "rate_limited", "device_limit"}

RequestType ==
  /\ body \in Bodies /\ next \in 1..Len(body.parts) + 2
  /\ stream \in {"none", "ignored", "open", "limit", "ended"}
  /\ settled \in BOOLEAN /\ meta \in BOOLEAN /\ file \in BOOLEAN /\ checked \in BOOLEAN
  /\ parts \in {"", "read"} \cup PartsRefused /\ (settled <=> parts # "")
  /\ tokens \in {0, 1} /\ stage \in {"device", "parts", "store", "answered"}

\* Before the parser starts nothing is read.
Unread == stage = "device" => ~settled /\ stream # "open"

\* A token is of the first field, a meta of a token.
Past(kind) == \E i \in DOMAIN body.parts : i < next /\ body.parts[i].kind = kind
TokenOfField ==
  /\ ~Past("field") => tokens = 0
  /\ meta => tokens = 1 /\ Past("field")
  /\ stream = "open" => Past("file")

\* Without an outcome, in a body that ends, every part the parser went past is
\* named, the only one of its kind and, a field or a file that is whole, not big.
NoFault ==
  ~settled =>
    /\ Started => body.multipart
    /\ next <= Len(body.parts) + 1
    /\ ~body.cut =>
         /\ \A i \in 1..next - 1 :
              /\ body.parts[i].kind \in {"field", "file"} => body.parts[i].named
              /\ body.parts[i].kind = "field" => ~body.parts[i].big
              /\ \A j \in 1..next - 1 :
                   body.parts[i].kind = body.parts[j].kind /\ body.parts[i].kind # "skip" => i = j
         /\ file => \E i \in 1..next - 1 : body.parts[i].kind = "file" /\ ~body.parts[i].big

\* A body of exactly the two parts, besides one that is skipped.
WholeBody ==
  LET of(kind) == {i \in DOMAIN body.parts : body.parts[i].kind = kind}
  IN /\ body.multipart /\ ~body.cut /\ Len(body.parts) < MaxParts
     /\ \A kind \in {"field", "file"} :
          \E i \in of(kind) : of(kind) = {i} /\ body.parts[i].named /\ ~body.parts[i].big
ReadWhole ==
  parts = "read" => WholeBody /\ arrived = "complete" /\ tokens = 1 /\ next = Len(body.parts) + 1

\* The answer, its event and the outcome it is of.
Answering ==
  /\ stage # "answered" => answer = "" /\ events = <<>>
  /\ stage = "store" \/ answer \in Kept => parts = "read"
  /\ stage = "answered" /\ answer \in Unrecordable => events = <<>>
  /\ stage = "answered" /\ answer \notin Unrecordable =>
       \E m \in BOOLEAN : events = <<[status |-> answer, meta |-> m]>>

RequestInv == RequestType /\ Unread /\ TokenOfField /\ NoFault /\ ReadWhole /\ Answering

LEMMA PartsAre ==
  ASSUME RequestType
  PROVE  /\ body.parts \in Seq(Part) /\ Len(body.parts) \in 0..3 /\ DOMAIN body.parts = 1..Len(body.parts)
         /\ body.multipart \in BOOLEAN /\ body.cut \in BOOLEAN /\ next \in Nat \ {0}
         /\ \A i \in 1..Len(body.parts) : /\ body.parts[i].kind \in {"field", "file", "skip"}
                                          /\ body.parts[i].named \in BOOLEAN /\ body.parts[i].big \in BOOLEAN
<1> DEFINE P == body.parts
<1>1. P \in Seq(Part) /\ Len(P) <= 3 /\ body.multipart \in BOOLEAN /\ body.cut \in BOOLEAN
  BY BodiesAssumption DEF RequestType
<1>2. next \in 1..Len(P) + 2
  BY DEF RequestType
<1> HIDE DEF P
<1>3. Len(P) \in 0..3 /\ DOMAIN P = 1..Len(P) /\ \A i \in 1..Len(P) : P[i] \in Part
  <2>1. Len(P) \in Nat /\ DOMAIN P = 1..Len(P) /\ \A i \in 1..Len(P) : P[i] \in Part
    BY <1>1
  <2> QED BY <1>1, <2>1
<1>4. \A i \in 1..Len(P) : P[i].kind \in {"field", "file", "skip"} /\ P[i].named \in BOOLEAN /\ P[i].big \in BOOLEAN
  BY <1>3 DEF Part
<1>5. next \in Nat \ {0}
  BY <1>2, <1>3
<1> QED BY <1>1, <1>3, <1>4, <1>5 DEF P

\* The first file is the one the parser went past, when no two were.
LEMMA OpenFileIs ==
  ASSUME RequestType, NEW i \in DOMAIN body.parts, i < next, body.parts[i].kind = "file",
         \A j \in DOMAIN body.parts : j < next /\ body.parts[j].kind = "file" => i = j
  PROVE  OpenFile = i
<1> DEFINE FirstFile(k) == body.parts[k].kind = "file" /\ \A j \in 1..k - 1 : body.parts[j].kind # "file"
<1>1. DOMAIN body.parts = 1..Len(body.parts) /\ Len(body.parts) \in Nat /\ next \in Nat
  BY PartsAre
<1>2. FirstFile(i)
  BY <1>1
<1>3. \A k \in DOMAIN body.parts : FirstFile(k) => k = i
  BY <1>1
<1> HIDE DEF FirstFile
<1>4. OpenFile = CHOOSE k \in DOMAIN body.parts : FirstFile(k)
  BY DEF OpenFile, FirstFile
<1> QED BY <1>2, <1>3, <1>4

LEMMA RequestStarts == RequestInit => RequestInv
<1> SUFFICES ASSUME RequestInit PROVE RequestInv
  OBVIOUS
<1> DEFINE P == body.parts
<1>1. P \in Seq(Part) /\ body \in Bodies /\ next = 1
  BY BodiesAssumption DEF RequestInit
<1> HIDE DEF P
<1>2. Len(P) \in Nat
  BY <1>1
<1>3. RequestType /\ Unread /\ NoFault /\ ReadWhole
  <2>1. next \in 1..Len(P) + 2 /\ next <= Len(P) + 1 /\ 1..next - 1 = {}
    BY <1>1, <1>2
  <2>2. RequestType
    BY <1>1, <2>1 DEF RequestInit, RequestType, PartsRefused, P
  <2> QED BY <2>1, <2>2 DEF RequestInit, Unread, NoFault, ReadWhole, Started, P
<1>4. TokenOfField /\ Answering
  BY DEF RequestInit, TokenOfField, Answering, Kept
<1> QED BY <1>3, <1>4 DEF RequestInv

\* A first outcome that is a refusal.
LEMMA FailingRefuses ==
  ASSUME RequestType, NEW r \in PartsRefused, Failing(r)
  PROVE  /\ settled' = TRUE /\ parts' \in {"read"} \cup PartsRefused
         /\ parts' = "read" => parts = "read"
         /\ settled => parts' = parts
BY DEF RequestType, PartsRefused, Failing

\* The handler's own steps: what readParts holds is left alone, but for the start.
LEMMA ReadingStays ==
  ASSUME RequestInv, UNCHANGED reading, stage \in {"parts", "store"}, stage' \in {"store", "answered"},
         answer' \in Kept \/ stage' = "store" => parts = "read",
         Answering'
  PROVE  RequestInv'
<1> USE DEF RequestInv, reading
<1>1. RequestType' /\ Unread'
  BY DEF RequestType, Unread
<1>2. TokenOfField'
  BY DEF TokenOfField, Past
<1>3. ReadWhole'
  BY DEF ReadWhole, WholeBody
<1>4. NoFault'
  <2>1. Started
    BY DEF Answering, Started
  <2> QED BY <2>1 DEF NoFault
<1> QED BY <1>1, <1>2, <1>3, <1>4

LEMMA FindDeviceKeeps == ASSUME RequestInv, FindDevice PROVE RequestInv'
<1> USE DEF RequestInv, FindDevice
<1>0. body.multipart \in BOOLEAN
  BY PartsAre
<1>1. RequestType'
  <2>1. CASE RefuseDevice /\ UNCHANGED <<settled, parts>>
    BY <2>1 DEF RequestType, RefuseDevice
  <2>2. CASE stage' = "parts" /\ settled' = ~body.multipart /\ parts' = IF body.multipart THEN "" ELSE "bad_request"
    BY <1>0, <2>2 DEF RequestType, PartsRefused
  <2> QED BY <2>1, <2>2
<1>2. Unread' /\ ReadWhole'
  BY DEF Unread, ReadWhole, RefuseDevice, RequestType
<1>3. TokenOfField'
  BY DEF TokenOfField, Past
<1>4. Answering'
  BY DEF Answering, RefuseDevice, RequestType, Unread, Unrecordable, Kept
<1>5. NoFault'
  <2>1. body.multipart \in BOOLEAN
    BY PartsAre
  <2> QED BY <2>1 DEF NoFault, Started, RefuseDevice, Unread
<1> QED BY <1>1, <1>2, <1>3, <1>4, <1>5

\* The parser's steps that leave an outcome: no other place of the handler, and
\* what was read stays.
LEMMA OutcomeKeeps ==
  ASSUME RequestInv, UNCHANGED <<body, stage, answer, events>>, stage # "device",
         settled' = TRUE, parts' \in {"read"} \cup PartsRefused, parts' = "read" <=> parts = "read",
         parts = "read" => UNCHANGED <<next, tokens, arrived>>,
         next' \in 1..Len(body.parts) + 2, stream' \in {"none", "ignored", "open", "limit", "ended"},
         meta' \in BOOLEAN, file' \in BOOLEAN, checked' \in BOOLEAN, tokens' \in {0, 1},
         TokenOfField'
  PROVE  RequestInv'
<1> USE DEF RequestInv
<1>1. RequestType'
  BY DEF RequestType, PartsRefused
<1>2. Unread' /\ NoFault'
  BY DEF Unread, NoFault
<1>3. ReadWhole'
  BY DEF ReadWhole, WholeBody
<1>4. Answering'
  BY DEF Answering
<1> QED BY <1>1, <1>2, <1>3, <1>4

\* The same without an outcome.
LEMMA NoOutcomeKeeps ==
  ASSUME RequestInv, UNCHANGED <<body, stage, answer, events, settled, parts>>, ~settled, stage # "device",
         next' \in 1..Len(body.parts) + 2, stream' \in {"none", "ignored", "open", "limit", "ended"},
         meta' \in BOOLEAN, file' \in BOOLEAN, checked' \in BOOLEAN, tokens' \in {0, 1},
         TokenOfField', NoFault'
  PROVE  RequestInv'
<1> USE DEF RequestInv
<1>1. RequestType' /\ Unread'
  BY DEF RequestType, Unread, PartsRefused
<1>2. ReadWhole'
  BY DEF ReadWhole, RequestType
<1>3. Answering'
  BY DEF Answering
<1> QED BY <1>1, <1>2, <1>3

\* What the parser is at.
LEMMA AtPart ==
  ASSUME RequestInv, Parsing
  PROVE  /\ next \in 1..Len(body.parts) /\ Len(body.parts) \in 0..3 /\ DOMAIN body.parts = 1..Len(body.parts)
         /\ Started /\ stage # "device" /\ parts # "read"
         /\ Current = body.parts[next] /\ Current.kind \in {"field", "file", "skip"}
         /\ Current.named \in BOOLEAN /\ Current.big \in BOOLEAN
         /\ \A kind : Before(kind) <=> Past(kind)
<1>1. /\ next \in 1..Len(body.parts) /\ Len(body.parts) \in 0..3 /\ DOMAIN body.parts = 1..Len(body.parts)
      /\ Started /\ stage # "device"
      /\ Current = body.parts[next] /\ Current.kind \in {"field", "file", "skip"}
      /\ Current.named \in BOOLEAN /\ Current.big \in BOOLEAN
  BY PartsAre DEF RequestInv, Parsing, Current, Started
<1>2. parts # "read"
  BY <1>1 DEF RequestInv, ReadWhole
<1>3. \A i : i \in 1..next - 1 <=> i \in DOMAIN body.parts /\ i < next
  BY <1>1
<1>4. \A kind : Before(kind) <=> Past(kind)
  BY <1>3 DEF Before, Past
<1> QED BY <1>1, <1>2, <1>4

\* Going past a part.
LEMMA PastGrows ==
  ASSUME RequestInv, Parsing, body' = body, next' = next + 1
  PROVE  \A kind : Past(kind)' <=> Past(kind) \/ Current.kind = kind
<1>1. \A i \in DOMAIN body.parts : i < next + 1 <=> i < next \/ i = next
  BY AtPart
<1> QED BY <1>1, AtPart DEF Past

\* NoFault goes on past a part that is the first of its kind, or one skipped.
LEMMA NoFaultGoesOn ==
  ASSUME RequestInv, Parsing, ~settled, UNCHANGED <<body, stage, answer, file>>, next' = next + 1,
         body.cut \/ Current.kind = "skip"
           \/ /\ ~Past(Current.kind) /\ Current.named
              /\ Current.kind = "field" => ~Current.big
  PROVE  NoFault'
<1>1. body.multipart /\ next' <= Len(body.parts) + 1
  BY AtPart DEF RequestInv, NoFault
<1>2. CASE body.cut
  BY <1>1, <1>2 DEF NoFault
<1>3. CASE ~body.cut
  <2>1. \A i : i \in 1..next' - 1 <=> i \in 1..next - 1 \/ i = next
    BY AtPart
  <2>2. \A i \in 1..next - 1 : i \in DOMAIN body.parts /\ i < next
    BY AtPart
  <2>3. Current.kind # "skip" => \A i \in 1..next - 1 : body.parts[i].kind # Current.kind
    BY <1>3, <2>2 DEF Past
  <2>4. Current.kind # "skip" => Current.named /\ (Current.kind = "field" => ~Current.big)
    BY <1>3
  <2>5. Current = body.parts[next]
    BY AtPart
  <2> QED BY <1>1, <1>3, <2>1, <2>3, <2>4, <2>5 DEF NoFault, RequestInv
<1> QED BY <1>2, <1>3, PartsAre DEF RequestInv

LEMMA FieldKeeps == ASSUME RequestInv, Field PROVE RequestInv'
<1>0. /\ Parsing /\ Current.kind = "field" /\ ~CutHere
      /\ next' = next + 1 /\ UNCHANGED <<body, arrived, stream, file, stage, answer, events>>
      /\ IF Before("field") \/ ~Current.named THEN Failing("bad_request") /\ UNCHANGED <<meta, checked, tokens>>
         ELSE IF Current.big THEN Failing("too_large") /\ UNCHANGED <<meta, checked, tokens>>
         ELSE \E outcome \in MetaOutcomes : ReadMeta(outcome)
  BY DEF Field, handler
<1>1. RequestType /\ TokenOfField /\ next' \in 1..Len(body.parts) + 2
  BY <1>0, AtPart DEF RequestInv
<1>2. Past("field")' /\ (Past("file")' <=> Past("file"))
  BY <1>0, PastGrows
<1>3. CASE \E r \in PartsRefused : Failing(r) /\ UNCHANGED <<meta, checked, tokens>>
  <2>1. TokenOfField'
    BY <1>0, <1>1, <1>2, <1>3 DEF TokenOfField
  <2> QED BY <1>0, <1>1, <1>3, <2>1, AtPart, FailingRefuses, OutcomeKeeps DEF RequestType
<1>4. CASE /\ ~Past("field") /\ Current.named /\ ~Current.big
           /\ \E outcome \in MetaOutcomes : ReadMeta(outcome)
  <2> PICK outcome \in MetaOutcomes : ReadMeta(outcome)
    BY <1>4
  <2>1. tokens = 0 /\ meta = FALSE
    BY <1>1, <1>4 DEF TokenOfField, RequestType
  <2>2. /\ tokens' \in {0, 1} /\ checked' \in BOOLEAN /\ meta' \in BOOLEAN
        /\ meta' => tokens' = 1
    <3>1. checked' \in BOOLEAN
      BY DEF ReadMeta
    <3>2. tokens' = IF outcome \in {"checked", "device_limit"} THEN 1 ELSE 0
      BY <2>1 DEF ReadMeta
    <3>3. meta' \in BOOLEAN /\ (meta' => outcome = "checked")
      BY <2>1 DEF ReadMeta
    <3> QED BY <3>1, <3>2, <3>3
  <2>3. TokenOfField'
    BY <1>0, <1>1, <1>2, <2>2 DEF TokenOfField
  <2>4. CASE outcome = "checked" /\ ~settled
    BY <1>0, <1>1, <1>4, <2>2, <2>3, <2>4, AtPart, NoFaultGoesOn, NoOutcomeKeeps DEF ReadMeta, RequestType
  <2>5. CASE outcome = "checked" /\ settled
    BY <1>0, <1>1, <2>2, <2>3, <2>5, AtPart, OutcomeKeeps DEF ReadMeta, RequestType
  <2>6. CASE outcome # "checked"
    <3>1. outcome \in PartsRefused /\ Failing(outcome)
      BY <2>6 DEF ReadMeta, MetaOutcomes, PartsRefused
    <3> QED BY <1>0, <1>1, <2>2, <2>3, <3>1, AtPart, FailingRefuses, OutcomeKeeps DEF RequestType
  <2> QED BY <2>4, <2>5, <2>6, <1>1 DEF RequestType
<1> QED BY <1>0, <1>3, <1>4, AtPart DEF PartsRefused

LEMMA FileKeeps == ASSUME RequestInv, File PROVE RequestInv'
<1>0. /\ Parsing /\ Current.kind = "file" /\ next' = next + 1
      /\ UNCHANGED <<body, arrived, meta, file, checked, tokens, stage, answer, events>>
      /\ IF Before("file") THEN Failing("bad_request") /\ UNCHANGED stream
         ELSE IF ~Current.named THEN Failing("bad_request") /\ stream' = "ignored"
         ELSE UNCHANGED <<settled, parts>>
              /\ stream' = IF settled THEN "ignored" ELSE IF CutHere /\ ~Current.big THEN "none" ELSE "open"
  BY DEF File, handler
<1>1. /\ RequestType /\ TokenOfField /\ next' \in 1..Len(body.parts) + 2
      /\ stream' \in {"none", "ignored", "open", "limit", "ended"}
  <2>1. RequestType /\ TokenOfField /\ next' \in 1..Len(body.parts) + 2
    BY <1>0, AtPart DEF RequestInv
  <2>2. stream' \in {stream, "none", "ignored", "open"}
    BY <1>0
  <2> QED BY <2>1, <2>2 DEF RequestType
<1>2. Past("file")' /\ (Past("field")' <=> Past("field"))
  BY <1>0, PastGrows
<1>3. TokenOfField'
  BY <1>0, <1>1, <1>2 DEF TokenOfField
<1>4. CASE Failing("bad_request")
  BY <1>0, <1>1, <1>3, <1>4, AtPart, FailingRefuses, OutcomeKeeps DEF RequestType, PartsRefused
<1>5. CASE ~Past("file") /\ Current.named /\ UNCHANGED <<settled, parts>>
  <2>1. CASE settled
    BY <1>0, <1>1, <1>3, <1>5, <2>1, AtPart, OutcomeKeeps DEF RequestType
  <2>2. CASE ~settled
    BY <1>0, <1>1, <1>3, <1>5, <2>2, AtPart, NoFaultGoesOn, NoOutcomeKeeps DEF RequestType
  <2> QED BY <2>1, <2>2
<1> QED BY <1>0, <1>4, <1>5, AtPart

LEMMA SkipKeeps == ASSUME RequestInv, Skip PROVE RequestInv'
<1>0. /\ Parsing /\ (Current.kind = "skip" \/ (Current.kind = "field" /\ CutHere)) /\ next' = next + 1
      /\ UNCHANGED <<body, arrived, stream, settled, parts, meta, file, checked, tokens, stage, answer, events>>
  <2>1. Parsing /\ (Current.kind = "skip" \/ (Current.kind = "field" /\ CutHere)) /\ next' = next + 1
    BY DEF Skip
  <2>2. UNCHANGED <<body, arrived, stream, settled, parts, meta, file, checked, tokens, stage, answer, events>>
    BY DEF Skip, handler
  <2> QED BY <2>1, <2>2
<1>1. RequestType /\ TokenOfField /\ next' \in 1..Len(body.parts) + 2
  BY <1>0, AtPart DEF RequestInv
<1>2. TokenOfField'
  BY <1>0, <1>1, PastGrows DEF TokenOfField
<1>3. CASE settled
  BY <1>0, <1>1, <1>2, <1>3, AtPart, OutcomeKeeps DEF RequestType
<1>4. CASE ~settled
  <2>1. body.cut \/ Current.kind = "skip"
    BY <1>0 DEF CutHere
  <2> QED BY <1>0, <1>1, <1>2, <1>4, <2>1, AtPart, NoFaultGoesOn, NoOutcomeKeeps DEF RequestType
<1> QED BY <1>3, <1>4

\* The steps below go past no part.
LEMMA PastStays ==
  ASSUME UNCHANGED <<body, next>>
  PROVE  \A kind : Past(kind)' <=> Past(kind)
BY DEF Past

LEMMA FileLimitKeeps == ASSUME RequestInv, FileLimit PROVE RequestInv'
<1>0. /\ stream = "open" /\ stream' = "limit" /\ Failing("too_large")
      /\ UNCHANGED <<body, arrived, next, meta, file, checked, tokens, stage, answer, events>>
  BY DEF FileLimit, OverSize, handler
<1>1. RequestType /\ TokenOfField /\ Unread
  BY DEF RequestInv
<1>2. TokenOfField'
  BY <1>0, <1>1, PastStays DEF TokenOfField
<1> QED BY <1>0, <1>1, <1>2, FailingRefuses, OutcomeKeeps DEF RequestType, PartsRefused, Unread

LEMMA FileEndKeeps == ASSUME RequestInv, FileEnd PROVE RequestInv'
<1>0. /\ stream = "open" /\ ~body.parts[OpenFile].big /\ stream' = "ended" /\ file' = TRUE
      /\ UNCHANGED <<body, arrived, next, settled, parts, meta, checked, tokens, stage, answer, events>>
  BY DEF FileEnd, OverSize, handler
<1>1. RequestType /\ TokenOfField /\ Unread /\ NoFault
  BY DEF RequestInv
<1>2. TokenOfField'
  BY <1>0, <1>1, PastStays DEF TokenOfField
<1>3. CASE settled
  BY <1>0, <1>1, <1>2, <1>3, OutcomeKeeps DEF RequestType, Unread
<1>4. CASE ~settled
  <2>1. ~body.cut => \E i \in 1..next - 1 : body.parts[i].kind = "file" /\ ~body.parts[i].big
    <3> SUFFICES ASSUME ~body.cut
                 PROVE  \E i \in 1..next - 1 : body.parts[i].kind = "file" /\ ~body.parts[i].big
      OBVIOUS
    <3>1. PICK i \in DOMAIN body.parts : i < next /\ body.parts[i].kind = "file"
      BY <1>0, <1>1 DEF TokenOfField, Past
    <3>2. \A j \in DOMAIN body.parts : j < next <=> j \in 1..next - 1
      BY <1>1, PartsAre
    <3>3. \A j \in DOMAIN body.parts : j < next /\ body.parts[j].kind = "file" => i = j
      BY <1>1, <1>4, <3>1, <3>2 DEF NoFault
    <3>4. OpenFile = i
      BY <1>1, <3>1, <3>3, OpenFileIs
    <3> QED BY <1>0, <3>1, <3>2, <3>4
  <2>2. NoFault'
    BY <1>0, <1>1, <2>1 DEF NoFault, Started
  <2> QED BY <1>0, <1>1, <1>2, <1>4, <2>2, NoOutcomeKeeps DEF RequestType, Unread
<1> QED BY <1>3, <1>4

LEMMA PartsLimitKeeps == ASSUME RequestInv, PartsLimit PROVE RequestInv'
<1>0. /\ Started /\ next = MaxParts + 1 /\ Len(body.parts) = MaxParts /\ next' = next + 1 /\ Failing("bad_request")
      /\ UNCHANGED <<body, arrived, stream, meta, file, checked, tokens, stage, answer, events>>
  BY DEF PartsLimit, handler
<1>1. RequestType /\ TokenOfField /\ next' \in 1..Len(body.parts) + 2 /\ stage # "device"
  BY <1>0 DEF RequestInv, Started, MaxParts
<1>2. TokenOfField'
  <2>1. \A i \in DOMAIN body.parts : i < next <=> i < next + 1
    BY <1>0, <1>1, PartsAre DEF MaxParts
  <2>2. \A kind : Past(kind)' <=> Past(kind)
    BY <1>0, <2>1 DEF Past
  <2> QED BY <1>0, <1>1, <2>2 DEF TokenOfField
<1>3. parts # "read"
  BY <1>0 DEF RequestInv, ReadWhole, WholeBody, MaxParts
<1> QED BY <1>0, <1>1, <1>2, <1>3, FailingRefuses, OutcomeKeeps DEF RequestType, PartsRefused

LEMMA CloseKeeps == ASSUME RequestInv, Close PROVE RequestInv'
<1>0. /\ AtEnd /\ arrived = "complete" /\ ~settled /\ settled' = TRUE
      /\ parts' = IF body.cut \/ ~meta \/ ~file THEN "bad_request" ELSE "read"
      /\ UNCHANGED <<body, arrived, next, stream, meta, file, checked, tokens, stage, answer, events>>
  BY DEF Close, handler
<1>1. RequestType /\ TokenOfField /\ Unread /\ NoFault /\ parts # "read" /\ Started /\ stage # "device"
  BY <1>0 DEF RequestInv, AtEnd, Started, RequestType
<1>2. TokenOfField'
  BY <1>0, <1>1, PastStays DEF TokenOfField
<1>3. CASE parts' = "bad_request"
  BY <1>0, <1>1, <1>2, <1>3, OutcomeKeeps DEF RequestType, PartsRefused
<1>4. CASE parts' = "read" /\ ~body.cut /\ meta /\ file
  <2>1. Len(body.parts) < MaxParts /\ next = Len(body.parts) + 1
    <3> DEFINE n == Len(body.parts)
    <3>1. next = n + (IF n = 3 THEN 2 ELSE 1) /\ next <= n + 1
      BY <1>0, <1>1 DEF AtEnd, NoFault, MaxParts
    <3>2. n \in 0..3
      BY <1>1, PartsAre
    <3> HIDE DEF n
    <3>3. n # 3
      BY <3>1, <3>2
    <3>4. n < 3 /\ next = n + 1
      BY <3>1, <3>2, <3>3
    <3> QED BY <3>4 DEF MaxParts, n
  <2>2. \A i : i \in DOMAIN body.parts <=> i \in 1..next - 1
    BY <1>1, <2>1, PartsAre
  <2>3. body.multipart /\ tokens = 1
    BY <1>0, <1>1, <1>4 DEF NoFault, TokenOfField
  <2>4. PICK f \in DOMAIN body.parts : body.parts[f].kind = "field"
    BY <1>1, <1>4 DEF TokenOfField, Past
  <2>5. PICK g \in DOMAIN body.parts : body.parts[g].kind = "file" /\ ~body.parts[g].big
    BY <1>0, <1>1, <1>4, <2>2 DEF NoFault
  <2>6. /\ body.parts[f].named /\ ~body.parts[f].big /\ body.parts[g].named
        /\ \A j \in DOMAIN body.parts : /\ body.parts[j].kind = "field" => j = f
                                        /\ body.parts[j].kind = "file" => j = g
    BY <1>0, <1>1, <1>4, <2>2, <2>4, <2>5 DEF NoFault
  <2>7. WholeBody
    <3> DEFINE of(kind) == {i \in DOMAIN body.parts : body.parts[i].kind = kind}
    <3>1. of("field") = {f} /\ of("file") = {g}
      BY <2>4, <2>5, <2>6
    <3>2. \A kind \in {"field", "file"} :
            \E i \in of(kind) : of(kind) = {i} /\ body.parts[i].named /\ ~body.parts[i].big
      BY <2>5, <2>6, <3>1
    <3> QED BY <1>4, <2>1, <2>3, <3>2 DEF WholeBody
  <2>8. RequestType' /\ Unread' /\ NoFault'
    BY <1>0, <1>1, <1>4 DEF RequestType, Unread, NoFault
  <2>9. ReadWhole' /\ Answering'
    BY <1>0, <1>1, <1>4, <2>1, <2>3, <2>7 DEF ReadWhole, WholeBody, Answering, RequestInv
  <2> QED BY <1>2, <2>8, <2>9 DEF RequestInv
<1> QED BY <1>0, <1>1, <1>3, <1>4 DEF RequestType

\* The body's arrival alone.
LEMMA ArrivalKeeps ==
  ASSUME RequestInv, arrived = "sending",
         UNCHANGED <<body, next, stream, settled, parts, meta, file, checked, tokens, stage, answer, events>>
  PROVE  RequestInv'
<1>1. parts # "read"
  BY DEF RequestInv, ReadWhole
<1>2. RequestType' /\ Unread' /\ ReadWhole' /\ Answering'
  BY <1>1 DEF RequestInv, RequestType, Unread, ReadWhole, Answering
<1>3. NoFault'
  BY DEF RequestInv, NoFault, Started
<1>4. TokenOfField'
  BY PastStays DEF RequestInv, TokenOfField
<1> QED BY <1>2, <1>3, <1>4 DEF RequestInv

LEMMA RequestCloseKeeps == ASSUME RequestInv, RequestClose PROVE RequestInv'
<1>0. /\ arrived = "sending" /\ Started /\ Failing("bad_request")
      /\ UNCHANGED <<body, next, stream, meta, file, checked, tokens, stage, answer, events>>
  BY DEF RequestClose, handler
<1>1. RequestType /\ TokenOfField /\ parts # "read" /\ stage # "device"
  BY <1>0 DEF RequestInv, ReadWhole, Started
<1>2. TokenOfField'
  BY <1>0, <1>1, PastStays DEF TokenOfField
<1> QED BY <1>0, <1>1, <1>2, FailingRefuses, OutcomeKeeps DEF RequestType, PartsRefused

\* The handler's answers.
LEMMA FinishAnswers ==
  ASSUME RequestInv, NEW s, Finish(s), stage # "answered", s # "unauthorized",
         s \in Kept => parts = "read", UNCHANGED parts
  PROVE  Answering' /\ stage' = "answered" /\ answer' = s
<1>1. events = <<>> /\ checked \in BOOLEAN
  BY DEF RequestInv, Answering, RequestType
<1>2. stage' = "answered" /\ answer' = s
  BY DEF Finish
<1>3. CASE s \in Unrecorded
  BY <1>1, <1>2, <1>3 DEF Finish, Answering, Unrecordable, Kept, Unrecorded
<1>4. CASE s \notin Unrecorded
  <2>1. events' = <<[status |-> s, meta |-> checked]>>
    BY <1>1, <1>4 DEF Finish, Record
  <2>2. answer' \in Kept => parts' = "read"
    BY <1>2
  <2> QED BY <1>1, <1>2, <1>4, <2>1, <2>2 DEF Answering, Unrecordable
<1> QED BY <1>3, <1>4

LEMMA RefusedDeviceAnswers ==
  ASSUME RequestInv, RefuseDevice, stage # "answered", UNCHANGED parts
  PROVE  Answering' /\ stage' = "answered" /\ answer' = "unauthorized"
BY DEF RequestInv, RefuseDevice, Answering, Unrecordable, Kept

LEMMA RefusedPartsKeeps == ASSUME RequestInv, RefusedParts PROVE RequestInv'
<1>1. stage = "parts" /\ settled /\ parts # "read" /\ Finish(parts) /\ UNCHANGED reading
  BY DEF RefusedParts
<1>2. parts \in PartsRefused /\ UNCHANGED parts
  BY <1>1 DEF RequestInv, RequestType, reading
<1>3. Answering' /\ stage' = "answered" /\ answer' = parts
  BY <1>1, <1>2, FinishAnswers DEF PartsRefused, Kept
<1> QED BY <1>1, <1>2, <1>3, ReadingStays DEF PartsRefused, Kept

LEMMA DecompressKeeps == ASSUME RequestInv, Decompress PROVE RequestInv'
<1>1. stage = "parts" /\ parts = "read" /\ UNCHANGED reading /\ UNCHANGED parts
  BY DEF Decompress, reading
<1>2. CASE Finish("too_large") \/ Finish("bad_request")
  BY <1>1, <1>2, FinishAnswers, ReadingStays
<1>3. CASE stage' = "store" /\ UNCHANGED <<answer, events>>
  <2>1. Answering'
    BY <1>1, <1>3 DEF RequestInv, Answering
  <2> QED BY <1>1, <1>3, <2>1, ReadingStays
<1> QED BY <1>2, <1>3 DEF Decompress

LEMMA StoreKeeps == ASSUME RequestInv, Store PROVE RequestInv'
<1>1. stage = "store" /\ parts = "read" /\ UNCHANGED reading /\ UNCHANGED parts
  BY DEF Store, reading, RequestInv, Answering
<1>2. CASE RefuseDevice
  BY <1>1, <1>2, RefusedDeviceAnswers, ReadingStays
<1>3. CASE \E s : s # "unauthorized" /\ Finish(s)
  BY <1>1, <1>3, FinishAnswers, ReadingStays
<1>4. CASE Record("error") /\ answer' = "error" /\ stage' = "answered"
  <2>1. events = <<>> /\ checked \in BOOLEAN
    BY <1>1 DEF RequestInv, Answering, RequestType
  <2>2. events' = <<[status |-> "error", meta |-> checked]>>
    BY <1>4, <2>1 DEF Record
  <2>3. Answering'
    BY <1>1, <1>4, <2>1, <2>2 DEF Answering, Unrecordable, Unrecorded
  <2> QED BY <1>1, <1>4, <2>3, ReadingStays
<1>5. \A result \in {"registered", "unregistered", "parse_error"} : StatusOf(ParseUpload(result)) # "unauthorized"
  BY DEF StatusOf, ParseUpload
<1> QED BY <1>2, <1>3, <1>4, <1>5 DEF Store

LEMMA RequestSteps == RequestInv /\ [RequestNext]_rvars => RequestInv'
<1> SUFFICES ASSUME RequestInv, [RequestNext]_rvars PROVE RequestInv'
  OBVIOUS
<1>1. CASE FindDevice \/ Field \/ File \/ Skip \/ FileLimit \/ FileEnd \/ PartsLimit
  BY <1>1, FindDeviceKeeps, FieldKeeps, FileKeeps, SkipKeeps, FileLimitKeeps, FileEndKeeps, PartsLimitKeeps
<1>2. CASE Close \/ RequestClose \/ RefusedParts \/ Decompress \/ Store
  BY <1>2, CloseKeeps, RequestCloseKeeps, RefusedPartsKeeps, DecompressKeeps, StoreKeeps
<1>3. CASE CloseUnread \/ Complete
  BY <1>3, ArrivalKeeps DEF CloseUnread, Complete, handler
<1>4. CASE UNCHANGED rvars
  <2>1. UNCHANGED <<body, arrived, next, stream, settled, parts, meta, file, checked, tokens, stage, answer, events>>
    BY <1>4 DEF rvars
  <2>2. RequestType' /\ Unread' /\ TokenOfField'
    BY <2>1, PastStays DEF RequestInv, RequestType, Unread, TokenOfField
  <2>3. NoFault' /\ Answering'
    BY <2>1 DEF RequestInv, NoFault, Started, Answering
  <2>4. ReadWhole'
    BY <2>1 DEF RequestInv, ReadWhole, WholeBody
  <2> QED BY <2>2, <2>3, <2>4 DEF RequestInv
<1> QED BY <1>1, <1>2, <1>3, <1>4 DEF RequestNext

LEMMA RequestAlways == RequestSpec => []RequestInv
BY RequestStarts, RequestSteps, PTL DEF RequestSpec

(* An upload kept as a row came in one good meta field and one whole file, in a   *)
(* body that ended, for one token: ingestHandler and readParts, in whatever order *)
(* the parser hands over parts, limits, its end and the connection's close.       *)
THEOREM KeptUploadsAreWhole == RequestSpec => []StoredWhole
<1>1. RequestInv => StoredWhole
  <2> SUFFICES ASSUME RequestInv, answer \in Kept
               PROVE  WholeBody /\ arrived = "complete" /\ tokens = 1
    BY DEF StoredWhole, WholeBody, Kept
  <2> QED BY DEF RequestInv, Answering, ReadWhole
<1> QED BY <1>1, RequestAlways, PTL

(* Every answered request has one event, the answer's, but for the refusals that  *)
(* a looping device can repeat, which have none; no request takes two tokens      *)
(* (finish() and refuseDevice() of ingestHandler).                                *)
THEOREM AnswersHaveOneEvent == RequestSpec => []EventOfAnswer
<1>1. RequestInv => EventOfAnswer
  <2> SUFFICES ASSUME RequestInv PROVE EventOfAnswer
    OBVIOUS
  <2>1. tokens <= 1
    <3>1. tokens \in {0, 1}
      BY DEF RequestInv, RequestType
    <3> QED BY <3>1
  <2>2. stage # "answered" => events = <<>>
    BY DEF RequestInv, Answering
  <2>3. CASE stage = "answered" /\ answer \in Unrecordable
    BY <2>1, <2>3 DEF RequestInv, Answering, EventOfAnswer, Unrecordable, Unrecorded
  <2>4. CASE stage = "answered" /\ answer \notin Unrecordable
    <3>1. PICK m \in BOOLEAN : events = <<[status |-> answer, meta |-> m]>>
      BY <2>4 DEF RequestInv, Answering
    <3>2. events # <<>> /\ Len(events) = 1 /\ events[1].status = answer
      BY <3>1
    <3> QED BY <2>1, <2>4, <3>2 DEF EventOfAnswer, Unrecordable, Unrecorded
  <2> QED BY <2>1, <2>2, <2>3, <2>4 DEF EventOfAnswer
<1> QED BY <1>1, RequestAlways, PTL
=================================================================================
