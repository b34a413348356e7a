---------------------------- MODULE ServerProofs ----------------------------
(* Proofs about what one server process does at its start and keeps in memory:   *)
(* Server, for every set of containers, of deploys and every bound on what       *)
(* fails, and Limits, for every set of names and every burst, rate and limit.    *)
(* The inductive invariant of the migrations adds to the properties who holds    *)
(* the lock, and what a run that goes on has applied or has still to apply. The  *)
(* three of Limits are about variables of their own: the buckets are sound       *)
(* (BucketsSound, which carries the refinement of Buckets), a minute's fetches   *)
(* are of two windows (FetchesSound), and the keys are fresh (KeysSound).        *)
EXTENDS Server, Limits, TLAPS, FiniteSetTheorems

\* What holds of each container. The run that read what is applied holds the
\* lock until its last commit, and its files have no rows (MigratesAlone); the
\* transaction about to commit is of a file still to apply; each file of the
\* image is applied, or still to apply, or the run failed; and a container that
\* serves has them all (ServesMigrated).
Holds(c) ==
  /\ step[c] \in {"read", "apply", "commit"} => lock = c
  /\ step[c] \in {"apply", "commit"} => pending[c] \cap rows = {}
  /\ step[c] = "commit" => tx[c] \in pending[c]
  /\ step[c] \in {"apply", "commit"} => deploy.image[c] \subseteq rows \cup pending[c]
  /\ step[c] = "unlock" /\ ~failed[c] => deploy.image[c] \subseteq rows
  /\ step[c] \in Starting \cup {"serving"} => deploy.image[c] \subseteq rows

IInv == TypeOK /\ AppliedWithRow /\ \A c \in Containers : Holds(c)

-----------------------------------------------------------------------------
(* Types.                                                                       *)

LEMMA FilesOfDeploy ==
  ASSUME NEW d \in Deploys
  PROVE  d.recorded \subseteq AllFiles /\ \A c \in Containers : d.image[c] \subseteq AllFiles
<1>1. d.recorded \subseteq AllFiles
  BY DEF AllFiles
<1>2. ASSUME NEW c \in Containers PROVE d.image[c] \subseteq AllFiles
  BY DEF AllFiles
<1> QED
  BY <1>1, <1>2

LEMMA InitType == Init => TypeOK
<1> SUFFICES ASSUME Init PROVE TypeOK
  OBVIOUS
<1>1. rows \subseteq AllFiles
  BY FilesOfDeploy DEF Init
<1>2. left \in [{"crash", "fault", "outage", "wait"} -> Nat]
  BY ServerAssumption DEF Init
<1> QED
  BY <1>1, <1>2 DEF Init, TypeOK, Steps, Migrating, NotAsking

LEMMA SpendType ==
  ASSUME TypeOK, NEW kind \in {"crash", "fault", "outage", "wait"}, Spend(kind)
  PROVE  left' \in [{"crash", "fault", "outage", "wait"} -> Nat]
BY DEF TypeOK, Spend

LEMMA GoType ==
  ASSUME TypeOK, NEW c \in Containers, NEW to \in Steps, Go(c, to)
  PROVE  step' \in [Containers -> Steps]
BY DEF TypeOK, Go

LEMMA StepNames == Steps = {"list", "connect", "lock", "waiting", "read", "apply", "commit", "rollback", "unlock",
  "configure", "check", "jobs", "listen", "serving", "exited"}
BY DEF Steps, Migrating, Starting

\* What a commit or the loss of a connection does to the database.
LEMMA CommittedType ==
  ASSUME IInv, NEW c \in Containers, step[c] = "commit", Committed(c)
  PROVE  /\ rows' \subseteq AllFiles /\ rows \subseteq rows'
         /\ applied' \in [AllFiles -> Nat]
         /\ AppliedWithRow'
         /\ lock = c
<1>1. tx[c] \in pending[c] /\ tx[c] \in AllFiles /\ tx[c] \notin rows /\ lock = c
  BY DEF IInv, TypeOK, Holds
<1>2. rows' = rows \cup {tx[c]} /\ applied' = [applied EXCEPT ![tx[c]] = @ + 1]
  BY DEF Committed
<1>3. applied \in [AllFiles -> Nat] /\ rows \subseteq AllFiles
  BY DEF IInv, TypeOK
<1>4. AppliedWithRow'
  <2> SUFFICES ASSUME NEW f \in AllFiles PROVE applied'[f] = IF f \in rows' THEN 1 ELSE 0
    BY DEF AppliedWithRow
  <2>1. applied[f] = IF f \in rows THEN 1 ELSE 0
    BY DEF IInv, AppliedWithRow
  <2> QED
    BY <1>1, <1>2, <1>3, <2>1
<1> QED
  BY <1>1, <1>2, <1>3, <1>4

LEMMA LoseType ==
  ASSUME IInv, NEW c \in Containers, LoseConnection(c)
  PROVE  /\ rows' \subseteq AllFiles /\ rows \subseteq rows'
         /\ applied' \in [AllFiles -> Nat]
         /\ AppliedWithRow'
         /\ tx' \in [Containers -> AllFiles \cup {NoFile}]
         /\ lock' \in Containers \cup {NoOne, Dead}
         /\ \A d \in Containers \ {c} : (lock = d => lock' = d) /\ tx'[d] = tx[d]
         /\ rows' # rows => lock = c
<1>1. tx' \in [Containers -> AllFiles \cup {NoFile}] /\ \A d \in Containers \ {c} : tx'[d] = tx[d]
  BY DEF LoseConnection, IInv, TypeOK
<1>2. lock' \in Containers \cup {NoOne, Dead} /\ \A d \in Containers \ {c} : lock = d => lock' = d
  BY DEF LoseConnection, IInv, TypeOK
<1>3. CASE step[c] = "commit" /\ Committed(c)
  BY <1>1, <1>2, <1>3, CommittedType
<1>4. CASE UNCHANGED <<rows, applied>>
  BY <1>1, <1>2, <1>4 DEF IInv, TypeOK, AppliedWithRow
<1> QED
  BY <1>3, <1>4 DEF LoseConnection

-----------------------------------------------------------------------------
(* The steps of a migrate.                                                      *)

\* A step of container c that leaves the others alone keeps what holds of them.
LEMMA OthersKept ==
  ASSUME IInv, NEW c \in Containers, deploy' = deploy,
         \A d \in Containers \ {c} : /\ step'[d] = step[d] /\ pending'[d] = pending[d]
                                     /\ failed'[d] = failed[d] /\ tx'[d] = tx[d]
                                     /\ lock = d => lock' = d,
         rows \subseteq rows', rows' # rows => lock = c
  PROVE  \A d \in Containers \ {c} : Holds(d)'
<1> SUFFICES ASSUME NEW d \in Containers \ {c} PROVE Holds(d)'
  OBVIOUS
<1>1. Holds(d)
  BY DEF IInv
<1>2. step[d] \in {"apply", "commit"} => rows' = rows
  BY <1>1 DEF Holds
<1> QED
  BY <1>1, <1>2 DEF Holds

\* A step that leaves the database alone, and takes nothing from anybody.
LEMMA QuietStep ==
  ASSUME IInv, NEW c \in Containers, UNCHANGED <<deploy, tx, rows, applied>>,
         \A d \in Containers \ {c} : step'[d] = step[d] /\ pending'[d] = pending[d] /\ failed'[d] = failed[d],
         \A d \in Containers \ {c} : lock = d => lock' = d,
         TypeOK', Holds(c)'
  PROVE  IInv'
<1>1. \A d \in Containers \ {c} : Holds(d)'
  BY OthersKept
<1>2. AppliedWithRow'
  BY DEF IInv, AppliedWithRow
<1> QED
  BY <1>1, <1>2 DEF IInv

LEMMA ListInv == ASSUME IInv, NEW c \in Containers, List(c) PROVE IInv'
<1>1. TypeOK'
  BY StepNames DEF IInv, TypeOK, List, Exit, Go, health
<1>2. Holds(c)'
  BY DEF IInv, TypeOK, List, Exit, Go, Holds, Starting
<1> QED
  BY <1>1, <1>2, QuietStep DEF IInv, TypeOK, List, Exit, Go

LEMMA ConnectInv == ASSUME IInv, NEW c \in Containers, Connect(c) PROVE IInv'
<1>1. TypeOK'
  BY StepNames DEF IInv, TypeOK, Connect, Exit, Go, health
<1>2. Holds(c)'
  BY DEF IInv, TypeOK, Connect, Exit, Go, Holds, Starting
<1> QED
  BY <1>1, <1>2, QuietStep DEF IInv, TypeOK, Connect, Exit, Go

LEMMA LockInv == ASSUME IInv, NEW c \in Containers, AskLock(c) \/ TakeLock(c) PROVE IInv'
<1>1. TypeOK'
  BY StepNames DEF IInv, TypeOK, AskLock, TakeLock, Go, health, migration
<1>2. Holds(c)'
  BY DEF IInv, TypeOK, AskLock, TakeLock, Go, Holds, Starting
<1> QED
  BY <1>1, <1>2, QuietStep, ServerAssumption DEF IInv, TypeOK, AskLock, TakeLock, Go, migration

LEMMA WaitTimesOutInv == ASSUME IInv, NEW c \in Containers, WaitTimesOut(c) PROVE IInv'
<1>1. left' \in [{"crash", "fault", "outage", "wait"} -> Nat]
  BY SpendType DEF WaitTimesOut, IInv
<1>2. TypeOK'
  BY <1>1, StepNames DEF IInv, TypeOK, WaitTimesOut, Exit, Go, health
<1>3. Holds(c)'
  BY DEF IInv, TypeOK, WaitTimesOut, Exit, Go, Holds, Starting
<1> QED
  BY <1>2, <1>3, QuietStep DEF IInv, TypeOK, WaitTimesOut, Exit, Go

LEMMA ReadInv == ASSUME IInv, NEW c \in Containers, ReadApplied(c) PROVE IInv'
<1>1. deploy.image[c] \subseteq AllFiles
  BY FilesOfDeploy DEF IInv, TypeOK
<1>2. pending' \in [Containers -> SUBSET AllFiles] /\ failed' \in [Containers -> BOOLEAN]
  <2>1. pending \in [Containers -> SUBSET AllFiles] /\ failed \in [Containers -> BOOLEAN]
    BY DEF IInv, TypeOK
  <2>2. CASE pending' = [pending EXCEPT ![c] = deploy.image[c] \ rows] /\ UNCHANGED failed
    BY <1>1, <2>1, <2>2
  <2>3. CASE failed' = [failed EXCEPT ![c] = TRUE] /\ UNCHANGED pending
    BY <2>1, <2>3
  <2> QED
    BY <2>2, <2>3 DEF ReadApplied
<1>3. step' \in [Containers -> Steps]
  BY StepNames DEF IInv, TypeOK, ReadApplied, Go
<1>4. TypeOK'
  BY <1>2, <1>3 DEF IInv, TypeOK, ReadApplied, health
<1>5. Holds(c)'
  BY DEF IInv, TypeOK, ReadApplied, Go, Holds, Starting
<1> QED
  BY <1>4, <1>5, QuietStep DEF IInv, TypeOK, ReadApplied, Go

LEMMA ApplyInv == ASSUME IInv, NEW c \in Containers, Apply(c) PROVE IInv'
<1>1. PICK f \in pending[c] :
        IF f \in deploy.failing \/ f \in rows
        THEN Go(c, "rollback") /\ UNCHANGED tx
        ELSE Go(c, "commit") /\ tx' = [tx EXCEPT ![c] = f]
  BY DEF Apply
<1>2. f \in AllFiles /\ step[c] = "apply"
  BY DEF IInv, TypeOK, Apply
<1>3. UNCHANGED <<deploy, pending, failed, lock, ghosts, rows, applied, up, health, left>>
  BY DEF Apply
<1>4. TypeOK'
  BY <1>1, <1>2, <1>3, StepNames DEF IInv, TypeOK, Go, health
<1>5. Holds(c)'
  BY <1>1, <1>2, <1>3 DEF IInv, TypeOK, Go, Holds, Starting
<1>6. \A d \in Containers \ {c} : Holds(d)'
  BY <1>1, <1>2, <1>3, OthersKept DEF IInv, TypeOK, Go
<1>7. AppliedWithRow'
  BY <1>3 DEF IInv, AppliedWithRow
<1> QED
  BY <1>4, <1>5, <1>6, <1>7 DEF IInv

LEMMA NothingLeftInv == ASSUME IInv, NEW c \in Containers, NothingLeft(c) PROVE IInv'
<1>1. TypeOK'
  BY StepNames DEF IInv, TypeOK, NothingLeft, Go, health, migration
<1>2. Holds(c)'
  BY DEF IInv, TypeOK, NothingLeft, Go, Holds, Starting, migration
<1> QED
  BY <1>1, <1>2, QuietStep DEF IInv, TypeOK, NothingLeft, Go, migration

LEMMA CommitInv == ASSUME IInv, NEW c \in Containers, Commit(c) PROVE IInv'
<1>1. /\ rows' \subseteq AllFiles /\ rows \subseteq rows' /\ applied' \in [AllFiles -> Nat]
      /\ AppliedWithRow' /\ lock = c
  BY CommittedType DEF Commit
<1>2. TypeOK'
  BY <1>1, StepNames DEF IInv, TypeOK, Commit, Go, health
<1>3. Holds(c)'
  BY <1>1 DEF IInv, TypeOK, Commit, Committed, Go, Holds, Starting
<1>4. \A d \in Containers \ {c} : Holds(d)'
  BY <1>1, OthersKept DEF IInv, TypeOK, Commit, Go
<1> QED
  BY <1>1, <1>2, <1>3, <1>4 DEF IInv

LEMMA RollbackInv == ASSUME IInv, NEW c \in Containers, Rollback(c) PROVE IInv'
<1>1. TypeOK'
  BY StepNames DEF IInv, TypeOK, Rollback, Go, health
<1>2. Holds(c)'
  BY DEF IInv, TypeOK, Rollback, Go, Holds, Starting
<1>3. \A d \in Containers \ {c} : Holds(d)'
  BY OthersKept DEF IInv, TypeOK, Rollback, Go
<1>4. AppliedWithRow'
  BY DEF IInv, AppliedWithRow, Rollback
<1> QED
  BY <1>1, <1>2, <1>3, <1>4 DEF IInv

LEMMA UnlockInv == ASSUME IInv, NEW c \in Containers, Unlock(c) PROVE IInv'
<1>1. TypeOK'
  BY StepNames DEF IInv, TypeOK, Unlock, Go, health
<1>2. Holds(c)'
  BY DEF IInv, TypeOK, Unlock, Go, Holds, Starting
<1> QED
  BY <1>1, <1>2, QuietStep DEF IInv, TypeOK, Unlock, Go

LEMMA MigrateInv == ASSUME IInv, NEW c \in Containers, Migrate(c) PROVE IInv'
BY ListInv, ConnectInv, LockInv, ReadInv, ApplyInv, NothingLeftInv, CommitInv, RollbackInv, UnlockInv DEF Migrate

-----------------------------------------------------------------------------
(* Faults.                                                                      *)

LEMMA FaultInv ==
  ASSUME IInv, NEW c \in Containers, FaultBefore(c) \/ FaultInFile(c) \/ FaultInUnlock(c)
  PROVE  IInv'
<1>1. LoseConnection(c) /\ left' \in [{"crash", "fault", "outage", "wait"} -> Nat]
  BY SpendType DEF FaultBefore, FaultInFile, FaultInUnlock, IInv
<1>2. TypeOK'
  BY <1>1, LoseType, StepNames DEF IInv, TypeOK, FaultBefore, FaultInFile, FaultInUnlock, Go, health
<1>3. step'[c] \in {"unlock", "rollback"}
  BY DEF IInv, TypeOK, FaultBefore, FaultInFile, FaultInUnlock, Go
<1>4. Holds(c)'
  BY <1>1, <1>3, LoseType DEF IInv, TypeOK, FaultBefore, FaultInFile, FaultInUnlock, Go, Holds, Starting
<1>5. \A d \in Containers \ {c} : Holds(d)'
  BY <1>1, LoseType, OthersKept DEF IInv, TypeOK, FaultBefore, FaultInFile, FaultInUnlock, Go
<1> QED
  BY <1>1, <1>2, <1>4, <1>5, LoseType DEF IInv

LEMMA CrashInv == ASSUME IInv, NEW c \in Containers, Crash(c) PROVE IInv'
<1>1. LoseConnection(c) /\ left' \in [{"crash", "fault", "outage", "wait"} -> Nat]
  BY SpendType DEF Crash, IInv
<1>2. TypeOK'
  BY <1>1, LoseType, StepNames DEF IInv, TypeOK, Crash, Go, NotAsking
<1>3. Holds(c)'
  BY DEF IInv, TypeOK, Crash, Go, Holds, Starting
<1>4. \A d \in Containers \ {c} : Holds(d)'
  BY <1>1, LoseType, OthersKept DEF IInv, TypeOK, Crash, Go
<1> QED
  BY <1>1, <1>2, <1>3, <1>4, LoseType DEF IInv

LEMMA StartInv == ASSUME IInv, NEW c \in Containers, Start(c) PROVE IInv'
<1>1. left' \in [{"crash", "fault", "outage", "wait"} -> Nat]
  BY SpendType DEF Start, Configure, CheckDatabase, StartJobs, Listen, IInv, TypeOK
<1>2. TypeOK'
  BY <1>1, StepNames DEF IInv, TypeOK, Start, Configure, CheckDatabase, StartJobs, Listen, Exit, Go, health, migration
<1>3. Holds(c)'
  BY DEF IInv, TypeOK, Start, Configure, CheckDatabase, StartJobs, Listen, Exit, Go, Holds, Starting, migration
<1> QED
  BY <1>2, <1>3, QuietStep
  DEF IInv, TypeOK, Start, Configure, CheckDatabase, StartJobs, Listen, Exit, Go, migration

\* The steps of /health and of the database leave every container where it is.
LEMMA HealthInv ==
  ASSUME IInv, UNCHANGED <<deploy, step, pending, failed, tx, rows, applied>>, TypeOK',
         \A c \in Containers : lock = c => lock' = c
  PROVE  IInv'
<1>1. ASSUME NEW c \in Containers PROVE Holds(c)'
  <2>1. Holds(c)
    BY <1>1 DEF IInv
  <2> QED
    BY <2>1 DEF Holds
<1>2. AppliedWithRow'
  BY DEF IInv, AppliedWithRow
<1> QED
  BY <1>1, <1>2 DEF IInv

LEMMA InitInv == Init => IInv
BY InitType DEF Init, IInv, Holds, AppliedWithRow, Starting

LEMMA NextInv == IInv /\ [Next]_vars => IInv'
<1> SUFFICES ASSUME IInv, [Next]_vars PROVE IInv'
  OBVIOUS
<1>1. CASE \E c \in Containers : Migrate(c) \/ Start(c)
  BY <1>1, MigrateInv, StartInv
<1>2. CASE \E c \in Containers : WaitTimesOut(c) \/ FaultBefore(c) \/ FaultInFile(c) \/ FaultInUnlock(c) \/ Crash(c)
  BY <1>2, WaitTimesOutInv, FaultInv, CrashInv
<1>3. ASSUME NEW c \in Containers, NEW q \in Requests, Ask(q, c) PROVE IInv'
  <2>1. TypeOK'
    BY <1>3 DEF IInv, TypeOK, Ask, migration
  <2> QED
    BY <1>3, <2>1, HealthInv DEF Ask, migration
<1>4. ASSUME NEW c \in Containers, NEW answer \in {"true", "false"}, Settle(c, answer) PROVE IInv'
  <2>1. req' \in [Requests -> [at : Containers \cup {NoOne}, state : {"idle", "waiting", "true", "false", "late"},
                               saw : SUBSET {"true", "false"}]]
    <3> DEFINE Asked == [at : Containers \cup {NoOne}, state : {"idle", "waiting", "true", "false", "late"},
                         saw : SUBSET {"true", "false"}]
    <3>1. req \in [Requests -> Asked]
      BY DEF IInv, TypeOK
    <3>2. \A r \in Asked : [r EXCEPT !.state = answer, !.saw = @ \cup {answer}] \in Asked
      BY <1>4
    <3>3. req' = [q \in Requests |-> IF Waits(q, c) THEN [req[q] EXCEPT !.state = answer, !.saw = @ \cup {answer}] ELSE req[q]]
      BY <1>4 DEF Settle
    <3> HIDE DEF Asked
    <3>4. req' \in [Requests -> Asked]
      BY <3>1, <3>2, <3>3
    <3> QED
      BY <3>4 DEF Asked
  <2>2. TypeOK'
    BY <1>4, <2>1 DEF IInv, TypeOK, Settle, After, migration
  <2> QED
    BY <1>4, <2>2, HealthInv DEF Settle, migration
<1>5. ASSUME NEW q \in Requests, Late(q) \/ Reply(q) PROVE IInv'
  <2>1. TypeOK'
    BY <1>5 DEF IInv, TypeOK, Late, Reply, NotAsking, migration
  <2> QED
    BY <1>5, <2>1, HealthInv DEF Late, Reply, migration
<1>6. CASE Reap \/ GhostTakes
  <2>1. TypeOK'
    BY <1>6 DEF IInv, TypeOK, Reap, GhostTakes, health
  <2> QED
    BY <1>6, <2>1, HealthInv, ServerAssumption DEF Reap, GhostTakes
<1>7. CASE Outage
  <2>1. left' \in [{"crash", "fault", "outage", "wait"} -> Nat]
    BY <1>7, SpendType DEF Outage, IInv, TypeOK
  <2>2. TypeOK'
    BY <1>7, <2>1 DEF IInv, TypeOK, Outage, migration, health
  <2> QED
    BY <1>7, <2>2, HealthInv DEF Outage, migration
<1>8. CASE UNCHANGED vars
  <2>1. TypeOK'
    BY <1>8 DEF IInv, TypeOK, vars
  <2> QED
    BY <1>8, <2>1, HealthInv DEF vars
<1> QED
  BY <1>1, <1>2, <1>3, <1>4, <1>5, <1>6, <1>7, <1>8 DEF Next

LEMMA Invariant == Spec => []IInv
BY InitInv, NextInv, PTL DEF Spec

-----------------------------------------------------------------------------
(* /health. No settled check is kept, so an answer came while its request        *)
(* waited: that is what a promise forgotten in `finally` buys.                   *)

HealthOK ==
  /\ \A c \in Containers : running[c] \in {NoCheck, "pending"}
  /\ \A q \in Requests : req[q].state = "waiting" => req[q].saw = {}
  /\ AnswerIsOfTheWait

\* A step that is not of /health leaves its state alone.
LEMMA HealthKept ==
  ASSUME HealthOK, UNCHANGED health
  PROVE  HealthOK'
BY DEF HealthOK, AnswerIsOfTheWait, health

LEMMA AskHealth ==
  ASSUME TypeOK, HealthOK, NEW q \in Requests, NEW c \in Containers, Ask(q, c)
  PROVE  HealthOK'
<1>1. /\ req' = [req EXCEPT ![q] = [at |-> c, state |-> "waiting", saw |-> {}]]
      /\ running' = [running EXCEPT ![c] = "pending"]
  BY DEF HealthOK, Ask, NoCheck
<1> QED
  BY <1>1 DEF TypeOK, HealthOK, AnswerIsOfTheWait

LEMMA SettleHealth ==
  ASSUME TypeOK, HealthOK, NEW c \in Containers, NEW answer \in {"true", "false"}, Settle(c, answer)
  PROVE  HealthOK'
<1>1. running' = [running EXCEPT ![c] = NoCheck]
  BY DEF Settle, After
<1>2. \A d \in Containers : running'[d] \in {NoCheck, "pending"}
  BY <1>1 DEF TypeOK, HealthOK
<1>3. ASSUME NEW q \in Requests
      PROVE  /\ req'[q].state = "waiting" => req'[q].saw = {}
             /\ req'[q].state \in {"true", "false"} => req'[q].saw = {req'[q].state}
  <2>1. req'[q] = IF Waits(q, c) THEN [req[q] EXCEPT !.state = answer, !.saw = @ \cup {answer}] ELSE req[q]
    BY DEF Settle
  <2>2. CASE Waits(q, c)
    <3>1. req[q].saw = {}
      BY <2>2 DEF HealthOK, Waits
    <3>2. req'[q].state = answer /\ req'[q].saw = {} \cup {answer}
      BY <2>1, <2>2, <3>1 DEF TypeOK
    <3> QED
      BY <3>2
  <2>3. CASE ~Waits(q, c)
    BY <2>1, <2>3 DEF HealthOK, AnswerIsOfTheWait
  <2> QED
    BY <2>2, <2>3
<1> QED
  BY <1>2, <1>3 DEF HealthOK, AnswerIsOfTheWait

LEMMA ReplyHealth ==
  ASSUME TypeOK, HealthOK, NEW q \in Requests, Late(q) \/ Reply(q)
  PROVE  HealthOK'
BY DEF TypeOK, HealthOK, AnswerIsOfTheWait, Late, Reply, NotAsking

LEMMA CrashHealth ==
  ASSUME TypeOK, HealthOK, NEW c \in Containers, Crash(c)
  PROVE  HealthOK'
<1>1. /\ running' = [running EXCEPT ![c] = NoCheck]
      /\ req' = [q \in Requests |-> IF req[q].at = c THEN NotAsking ELSE req[q]]
  BY DEF Crash
<1> QED
  BY <1>1 DEF TypeOK, HealthOK, AnswerIsOfTheWait, NotAsking

LEMMA NextHealth == TypeOK /\ HealthOK /\ [Next]_vars => HealthOK'
<1> SUFFICES ASSUME TypeOK, HealthOK, [Next]_vars PROVE HealthOK'
  OBVIOUS
<1>1. ASSUME NEW c \in Containers, Migrate(c) PROVE UNCHANGED health
  BY <1>1 DEF Migrate, List, Connect, AskLock, TakeLock, ReadApplied, Apply, NothingLeft, Commit, Rollback, Unlock, health
<1>2. ASSUME NEW c \in Containers, Start(c) PROVE UNCHANGED health
  BY <1>2 DEF Start, Configure, CheckDatabase, StartJobs, Listen, health
<1>3. ASSUME NEW c \in Containers, WaitTimesOut(c) \/ FaultBefore(c) \/ FaultInFile(c) \/ FaultInUnlock(c)
      PROVE  UNCHANGED health
  BY <1>3 DEF WaitTimesOut, FaultBefore, FaultInFile, FaultInUnlock, health
<1>4. CASE Reap \/ GhostTakes \/ Outage \/ UNCHANGED vars
  BY <1>4, HealthKept DEF Reap, GhostTakes, Outage, health, vars
<1> QED
  BY <1>1, <1>2, <1>3, <1>4, HealthKept, AskHealth, SettleHealth, ReplyHealth, CrashHealth DEF Next

LEMMA HealthInvariant == Spec => []HealthOK
<1>1. Init => HealthOK
  BY DEF Init, HealthOK, AnswerIsOfTheWait, NotAsking
<1>2. IInv => TypeOK
  BY DEF IInv
<1> QED
  BY <1>1, <1>2, Invariant, NextHealth, PTL DEF Spec

-----------------------------------------------------------------------------
(* What follows.                                                                *)

\* The variables keep their types.
THEOREM TypeCorrect == Spec => []TypeOK
<1>1. IInv => TypeOK
  BY DEF IInv
<1> QED
  BY <1>1, Invariant, PTL

\* migrations.ts: every file is committed once, with its row, by one run at a
\* time, and migrate.js && index.js: nothing is served before.
THEOREM MigrationsSafe == Spec => []MigrationSafe
<1>1. IInv => MigrationSafe
  BY DEF IInv, Holds, MigrationSafe, MigratesAlone, ServesMigrated
<1> QED
  BY <1>1, Invariant, PTL

\* health.ts: an answer that is not late is of a check that settled while the
\* request waited, whoever started it, and through crashes and outages.
THEOREM AnswersAreOfTheWait == Spec => []AnswerIsOfTheWait
<1>1. HealthOK => AnswerIsOfTheWait
  BY DEF HealthOK
<1> QED
  BY <1>1, HealthInvariant, PTL

-----------------------------------------------------------------------------
Bucket == [tokens : Nat, at : Nat]
\* Limits: the buckets kept, the posts under way, and the keys asked for.
BucketsSound ==
  /\ now \in Nat
  /\ DOMAIN buckets \subseteq Names /\ IsFiniteSet(DOMAIN buckets)
  /\ \A n \in DOMAIN buckets : buckets[n] \in Bucket /\ buckets[n].tokens <= Full[n] /\ buckets[n].at <= now

PostsSound ==
  /\ posts \in [CodePosts -> [user : CodeUsers \cup {AllMisses}, out : BOOLEAN]]
  /\ \A p \in CodePosts : posts[p].out => posts[p].user \in CodeUsers

KeyAsk == [host : Hosts \cup {"none"}, state : {"idle", "waiting", "keys", "error"}, age : Int, saw : BOOLEAN]
KeysSound ==
  /\ entries \in Seq([host : Hosts, cached : BOOLEAN, from : Nat])
  /\ fetching \in [Hosts -> {"none", "out"}]
  /\ asks \in [Clients -> KeyAsk]
  /\ \A c \in Clients : /\ asks[c].state = "waiting" => asks[c].age = 0
                        /\ asks[c].state = "keys" => asks[c].age < MaxAge
                        /\ asks[c].state = "error" => asks[c].saw

-----------------------------------------------------------------------------
(* Names and levels.                                                       *)

LEMMA NamesAre ==
  /\ \A n \in Names : Full[n] \in Nat /\ Rate[n] \in Nat /\ Rate[n] > 0
  /\ Instances \cup Devices \cup Addresses \cup CodeUsers \cup Single \subseteq Names
  /\ NamesOf = [instances |-> Instances, devices |-> Devices, addresses |-> Addresses, users |-> CodeUsers]
<1>1. NamesOf = [instances |-> Instances, devices |-> Devices, addresses |-> Addresses, users |-> CodeUsers]
  BY DEF NamesOf
<1>2. \A m \in Maps : NamesOf[m] \subseteq Names
  BY DEF Names
<1>3. Instances \cup Devices \cup Addresses \cup CodeUsers \cup Single \subseteq Names
  <2>1. Single \subseteq Names BY DEF Names
  <2>2. {"instances", "devices", "addresses", "users"} = Maps BY DEF Maps
  <2> QED BY <1>1, <1>2, <2>1, <2>2
<1>4. ASSUME NEW n \in Names PROVE Group(n) \in Maps \cup Single
  <2>1. CASE n \in Single BY <2>1 DEF Group
  <2>2. CASE n \notin Single
    <3>1. \E m \in Maps : n \in NamesOf[m] BY <2>2 DEF Names
    <3>2. (CHOOSE m \in Maps : n \in NamesOf[m]) \in Maps BY <3>1
    <3> QED BY <2>2, <3>2 DEF Group
  <2> QED BY <2>1, <2>2
<1>5. \A n \in Names : Full[n] = FullOf[Group(n)] /\ Rate[n] = RateOf[Group(n)]
  BY DEF Full, Rate
<1> QED
  BY <1>1, <1>3, <1>4, <1>5, LimitsAssumption

LEMMA Products == ASSUME NEW a \in Nat, NEW b \in Nat PROVE a * b \in Nat
OBVIOUS

LEMMA LevelIs ==
  ASSUME BucketsSound, NEW n \in Names
  PROVE /\ Level(n) \in Nat /\ Level(n) <= Full[n]
        /\ n \notin DOMAIN buckets => Level(n) = Full[n]
<1>1. CASE n \in DOMAIN buckets
  <2>1. buckets[n].tokens \in Nat /\ now - buckets[n].at \in Nat /\ Full[n] \in Nat /\ Rate[n] \in Nat
    BY <1>1, NamesAre DEF BucketsSound, Bucket
  <2>2. (now - buckets[n].at) * Rate[n] \in Nat
    BY <2>1, Products
  <2> QED
    BY <1>1, <2>1, <2>2 DEF Level, LevelAt, Lesser
<1>2. CASE n \notin DOMAIN buckets
  BY <1>2, NamesAre DEF Level, LevelAt
<1> QED
  BY <1>1, <1>2

(* A request that need not wait finds its cost in both buckets. *)
LEMMA NoWait ==
  ASSUME BucketsSound, NEW x \in Names, NEW y \in Names, WaitFor({x, y}) = 0
  PROVE Level(x) >= Cost /\ Level(y) >= Cost
<1>1. ASSUME NEW n \in Names PROVE Wait(n) \in Nat /\ (Level(n) < Cost => Wait(n) >= 1)
  <2>1. Level(n) \in Nat /\ Cost \in Nat /\ Rate[n] \in Nat /\ Rate[n] > 0
    BY LevelIs, NamesAre, LimitsAssumption
  <2>2. ASSUME NEW a \in Nat, NEW b \in Nat, b > 0, a >= b PROVE a \div b \in Nat /\ a \div b >= 1
    BY <2>2
  <2>3. CASE Level(n) >= Cost BY <2>1, <2>3 DEF Wait
  <2>4. CASE Level(n) < Cost
    <3>1. Cost - Level(n) + Rate[n] - 1 \in Nat /\ Cost - Level(n) + Rate[n] - 1 >= Rate[n]
      BY <2>1, <2>4
    <3>2. Wait(n) = (Cost - Level(n) + Rate[n] - 1) \div Rate[n]
      BY <2>1, <2>4 DEF Wait
    <3> QED BY <2>1, <2>2, <3>1, <3>2
  <2> QED BY <2>1, <2>3, <2>4
<1>2. {Wait(n) : n \in {x, y}} = {Wait(x), Wait(y)} OBVIOUS
<1>3. Max({Wait(x), Wait(y)}) = 0 BY <1>2 DEF WaitFor
<1>4. \A a, b \in Nat : Max({a, b}) = 0 => a = 0 /\ b = 0
  BY DEF Max
<1>5. Wait(x) = 0 /\ Wait(y) = 0 BY <1>1, <1>3, <1>4
<1> QED BY <1>1, <1>5, LevelIs, LimitsAssumption

-----------------------------------------------------------------------------
(* keep: what becomes of the buckets.                                      *)

Changes(used) == {n \in Names \ used : Level(n)' # Level(n)}

LEMMA KeepKeeps ==
  ASSUME BucketsSound, NEW used, used \subseteq Names, IsFiniteSet(used), NEW level, KeepBuckets(used, level), now' = now,
         \A n \in used : level[n] \in Nat /\ level[n] <= Full[n]
  PROVE /\ BucketsSound'
        /\ \A n \in used : Level(n)' = level[n]
        /\ \A n \in Names \ used : Level(n)' \in {Level(n), Full[n]}
        /\ \A n \in Changes(used) : n \in DOMAIN buckets /\ n \notin DOMAIN buckets'
        /\ DOMAIN buckets \cap Single \subseteq DOMAIN buckets'
<1> DEFINE touched == {m \in Maps : used \cap NamesOf[m] # {}}
           kept == [m \in Maps |-> IF m \in touched THEN LeftInMap(m, used) ELSE Others(m, {})]
           D == (UNION {kept[m] : m \in Maps}) \cup (DOMAIN buckets \cap Single) \cup used
<1>1. buckets' = [n \in D |-> IF n \in used THEN [tokens |-> level[n], at |-> now] ELSE buckets[n]]
  BY DEF KeepBuckets
<1>2. \A m \in Maps : kept[m] \subseteq DOMAIN buckets
  BY DEF LeftInMap, LeftAfterSweep, Others
<1> HIDE DEF kept
<1>3. /\ D \subseteq DOMAIN buckets \cup used /\ used \subseteq D
      /\ DOMAIN buckets \cap Single \subseteq D /\ \A m \in Maps : kept[m] \subseteq D
  BY <1>2
<1> HIDE DEF D
<1>4. DOMAIN buckets' = D BY <1>1
<1>5. IsFiniteSet(D)
  <2>1. IsFiniteSet(DOMAIN buckets \cup used) BY FS_Union DEF BucketsSound
  <2> QED BY <1>3, <2>1, FS_Subset
<1>6. BucketsSound'
  BY <1>1, <1>3, <1>4, <1>5 DEF BucketsSound, Bucket
<1>7. ASSUME NEW n \in used PROVE Level(n)' = level[n]
  <2>1. n \in D BY <1>3
  <2>2. buckets'[n] = [tokens |-> level[n], at |-> now] /\ now \in Nat /\ Rate[n] \in Nat /\ Full[n] \in Nat
    BY <1>1, <2>1, NamesAre DEF BucketsSound
  <2>3. buckets'[n].tokens = level[n] /\ buckets'[n].at = now BY <2>2
  <2>4. (now - now) * Rate[n] = 0 BY <2>2
  <2> QED BY <1>4, <2>1, <2>2, <2>3, <2>4 DEF Level, LevelAt, Lesser
<1>8. ASSUME NEW n \in Names \ used, n \in D PROVE Level(n)' = Level(n)
  <2>1. buckets'[n] = buckets[n] /\ n \in DOMAIN buckets /\ n \in DOMAIN buckets' BY <1>1, <1>3, <1>4, <1>8
  <2> QED BY <2>1 DEF Level, LevelAt
<1>9. ASSUME NEW n \in Names \ used, n \notin D PROVE Level(n)' = Full[n]
  BY <1>4, <1>9 DEF Level, LevelAt
<1>10. \A n \in Names : n \notin DOMAIN buckets => Level(n) = Full[n] BY LevelIs
<1> QED BY <1>3, <1>4, <1>6, <1>7, <1>8, <1>9, <1>10 DEF Changes

(* A name of the map m that loses its bucket before it is full is the one  *)
(* that a full map drops. *)
LEMMA KeepForgets ==
  ASSUME BucketsSound, NEW used, used \subseteq Names, IsFiniteSet(used), NEW level, KeepBuckets(used, level), now' = now,
         \A n \in used : level[n] \in Nat /\ level[n] <= Full[n], NEW m \in Maps
  PROVE /\ \E x : Changes(used) \cap NamesOf[m] \subseteq {x}
        /\ Changes(used) \cap NamesOf[m] # {} =>
             /\ Cardinality(LeftAfterSweep(m, used)) >= Tracked[m]
             /\ Changes(used) \cap NamesOf[m] \subseteq LeftAfterSweep(m, used)
<1> DEFINE touched == {k \in Maps : used \cap NamesOf[k] # {}}
           kept == [k \in Maps |-> IF k \in touched THEN LeftInMap(k, used) ELSE Others(k, {})]
<1>1. kept[m] \subseteq DOMAIN buckets'
  BY DEF KeepBuckets
<1>2. ASSUME NEW n \in Changes(used), n \in NamesOf[m]
      PROVE m \in touched /\ n \in LeftAfterSweep(m, used) /\ n \notin LeftInMap(m, used)
  <2>1. n \in DOMAIN buckets /\ n \notin DOMAIN buckets' /\ n \in Names \ used BY KeepKeeps DEF Changes
  <2>2. n \notin kept[m] BY <1>1, <2>1
  <2>3. n \in Others(m, {}) /\ n \in Others(m, used) BY <1>2, <2>1 DEF Others
  <2>4. m \in touched /\ n \notin LeftInMap(m, used) BY <2>2, <2>3
  <2>5. ~Refilled(n)
    <3>1. Level(n)' = Full[n] BY <2>1 DEF Level, LevelAt
    <3>2. Level(n) # Full[n] BY <3>1 DEF Changes
    <3> QED BY <2>1, <3>2, LevelIs, NamesAre DEF Refilled
  <2> QED BY <2>3, <2>4, <2>5 DEF LeftAfterSweep
<1> DEFINE stays == LeftAfterSweep(m, used)
           x == Head(SelectSeq(order[m], LAMBDA n : n \in stays))
<1>3. LeftInMap(m, used) = IF Cardinality(stays) >= Tracked[m] THEN stays \ {x} ELSE stays
  BY DEF LeftInMap
<1> HIDE DEF stays, x
<1>4. \A n \in Changes(used) \cap NamesOf[m] : n \in stays /\ n \notin LeftInMap(m, used) BY <1>2 DEF stays
<1>5. Changes(used) \cap NamesOf[m] \subseteq {x} BY <1>3, <1>4
<1> QED BY <1>3, <1>4, <1>5 DEF stays

LEMMA CardinalitySame == ASSUME NEW S PROVE Ideal!Cardinality(S) = Cardinality(S)
BY DEF Ideal!Cardinality, Cardinality

LEMMA KeepIsForgettable ==
  ASSUME BucketsSound, NEW used, used \subseteq Names, IsFiniteSet(used), NEW level, KeepBuckets(used, level), now' = now,
         \A n \in used : level[n] \in Nat /\ level[n] <= Full[n]
  PROVE Ideal!OthersStay(used)
<1>1. Changes(used) \subseteq UNION ({Instances, Devices} \cup {Addresses, CodeUsers})
  <2>1. ASSUME NEW n \in Changes(used) PROVE n \notin Single
    <3>1. n \in DOMAIN buckets /\ n \notin DOMAIN buckets' BY KeepKeeps
    <3>2. DOMAIN buckets \cap Single \subseteq DOMAIN buckets' BY KeepKeeps
    <3> QED BY <3>1, <3>2
  <2>2. UNION {NamesOf[m] : m \in Maps} = Instances \cup Devices \cup Addresses \cup CodeUsers
    BY NamesAre DEF Maps
  <2>3. Changes(used) \subseteq Instances \cup Devices \cup Addresses \cup CodeUsers BY <2>1, <2>2 DEF Changes, Names
  <2> QED BY <2>3
<1>2. ASSUME NEW group \in {Instances, Devices} \cup {Addresses, CodeUsers} PROVE \E m \in Maps : group = NamesOf[m]
  BY NamesAre DEF Maps
<1>3. ASSUME NEW group \in {Instances, Devices} \cup {Addresses, CodeUsers} PROVE Cardinality(Changes(used) \cap group) <= 1
  <2>1. PICK m \in Maps : group = NamesOf[m] BY <1>2
  <2>2. PICK x : Changes(used) \cap group \subseteq {x} BY <2>1, KeepForgets
  <2>3. CASE Changes(used) \cap group = {} BY <2>3, FS_EmptySet
  <2>4. CASE Changes(used) \cap group = {x}
    <3>1. Cardinality({x}) = 1 BY FS_Singleton
    <3> QED BY <2>4, <3>1
  <2> QED BY <2>2, <2>3, <2>4
<1>4. ASSUME NEW group \in {Instances, Devices}, Changes(used) \cap group # {}
      PROVE Cardinality({n \in group \ used : Level(n) < Full[n]}) >= Tracked.instances
  <2>1. PICK m \in {"instances", "devices"} : group = NamesOf[m] /\ Tracked[m] = Tracked.instances /\ m \in Maps
    BY NamesAre, LimitsAssumption DEF Maps
  <2> DEFINE stays == LeftAfterSweep(m, used)
             S == {n \in group \ used : Level(n) < Full[n]}
  <2>2. Cardinality(stays) >= Tracked[m] BY <1>4, <2>1, KeepForgets
  <2>3. stays \subseteq Others(m, used) /\ Others(m, used) \subseteq (group \ used) \cap DOMAIN buckets
    BY <2>1 DEF LeftAfterSweep, Others
  <2>4. Sweeps(m, used)
    <3>1. CASE ~Sweeps(m, used)
      <4>1. stays = Others(m, used) BY <3>1 DEF LeftAfterSweep
      <4> QED BY <2>1, <2>2, <3>1, <4>1 DEF Sweeps
    <3> QED BY <3>1
  <2>5. \A n \in stays : ~Refilled(n) BY <2>4 DEF LeftAfterSweep
  <2>6. stays \subseteq S
    BY <2>3, <2>5, LevelIs, NamesAre DEF Refilled, BucketsSound
  <2>7. S \subseteq DOMAIN buckets
    <3>1. group \subseteq Names BY NamesAre
    <3> QED BY <3>1, LevelIs, NamesAre
  <2> HIDE DEF stays, S
  <2>8. IsFiniteSet(S) /\ IsFiniteSet(stays) /\ Cardinality(stays) <= Cardinality(S)
    <3>1. IsFiniteSet(S) BY <2>7, FS_Subset DEF BucketsSound
    <3> QED BY <2>6, <3>1, FS_Subset
  <2>9. Cardinality(stays) \in Nat /\ Cardinality(S) \in Nat /\ Tracked[m] \in Nat
    BY <2>1, <2>8, FS_CardinalityType, LimitsAssumption
  <2> QED BY <2>1, <2>2, <2>8, <2>9 DEF S
<1> DEFINE now0 == [n \in Names |-> Level(n)]
           now1 == [n \in Names |-> Level(n)']
<1>5. /\ {n \in Names \ used : now1[n] # now0[n]} = Changes(used)
      /\ \A group \in {Instances, Devices} : {n \in group \ used : now0[n] < Full[n]} = {n \in group \ used : Level(n) < Full[n]}
      /\ \A n \in Names \ used : now1[n] \in {now0[n], Full[n]}
  BY KeepKeeps, NamesAre DEF Changes
<1>6. now0' = now1 OBVIOUS
<1>7. Ideal!Forgettable(Changes(used), used)
  BY <1>1, <1>3, <1>4, <1>5, CardinalitySame DEF Ideal!Forgettable
<1> QED BY <1>5, <1>6, <1>7 DEF Ideal!OthersStay

-----------------------------------------------------------------------------
(* The steps, as steps of Buckets.                                         *)

Levels == [n \in Names |-> Level(n)]
Outs == {<<p, PostOf(posts[p].user)>> : p \in {p \in CodePosts : posts[p].out}}

LEMMA TwoNames == ASSUME NEW S, NEW x, NEW y, S = {x, y} PROVE IsFiniteSet(S)
<1> DEFINE X == {x}
           Y == {y}
<1>1. S = X \cup Y OBVIOUS
<1>2. IsFiniteSet(X) /\ IsFiniteSet(Y) BY FS_Singleton
<1> HIDE DEF X, Y
<1> QED BY <1>1, <1>2, FS_Union

LEMMA TakeLowers ==
  ASSUME BucketsSound, NEW x \in Names, NEW y \in Names, Take({x, y}), now' = now
  PROVE BucketsSound' /\ Ideal!Lowered({x, y})
<1> DEFINE used == {x, y}
           level == [n \in used |-> Level(n) - Cost]
<1>1. Level(x) >= Cost /\ Level(y) >= Cost
  <2>1. WaitFor({x, y}) = 0 BY DEF Take
  <2> QED BY <2>1, NoWait
<1>2. ASSUME NEW n \in used PROVE level[n] = Level(n) - Cost /\ level[n] \in Nat /\ level[n] <= Full[n] /\ Level(n) >= Cost
  BY <1>1, LevelIs, NamesAre, LimitsAssumption
<1>3. KeepBuckets(used, level) BY DEF Take
<1>4. IsFiniteSet(used)
  <2>1. used = {x, y} OBVIOUS
  <2> HIDE DEF used
  <2> QED BY <2>1, TwoNames
<1> HIDE DEF level
<1>5. BucketsSound' /\ \A n \in used : Level(n)' = level[n] BY <1>2, <1>3, <1>4, KeepKeeps
<1>6. Ideal!OthersStay(used) BY <1>2, <1>3, <1>4, KeepIsForgettable
<1>7. \A n \in used : Levels[n] >= Cost /\ Levels'[n] = Levels[n] - Cost BY <1>2, <1>5 DEF Levels
<1> QED BY <1>5, <1>6, <1>7 DEF Ideal!Lowered, Levels

LEMMA UploadIsTake ==
  ASSUME BucketsSound, NEW i \in Instances, LimitUpload(i)
  PROVE BucketsSound' /\ Ideal!Next
<1>1. i \in Names /\ DeviceOf[i] \in Names BY NamesAre, LimitsAssumption
<1>2. BucketsSound' /\ Ideal!Lowered({i, DeviceOf[i]}) BY <1>1, TakeLowers DEF LimitUpload
<1>3. {i, DeviceOf[i]} \in Pairs BY DEF Pairs
<1>4. Outs' = Outs BY DEF LimitUpload, Outs
<1> QED BY <1>2, <1>3, <1>4 DEF Ideal!Take, Ideal!Next, Outs

LEMMA RegisterIsTake ==
  ASSUME BucketsSound, NEW a \in Addresses, Register(a)
  PROVE BucketsSound' /\ Ideal!Next
<1> DEFINE x == IF a \in TrustedRange THEN AllTrusted ELSE a
<1>1. x \in Names /\ AllRegistrations \in Names BY NamesAre DEF Single
<1>2. {x, AllRegistrations} \in Pairs BY DEF Pairs
<1>3. Take({x, AllRegistrations}) /\ now' = now /\ Outs' = Outs BY DEF Register, Outs
<1> HIDE DEF x
<1>4. BucketsSound' /\ Ideal!Lowered({x, AllRegistrations}) BY <1>1, <1>3, TakeLowers
<1> QED BY <1>2, <1>3, <1>4 DEF Ideal!Take, Ideal!Next, Outs

LEMMA PostsNames == ASSUME NEW u \in CodeUsers PROVE u \in Names /\ AllMisses \in Names /\ PostOf(u) = {u, AllMisses}
BY NamesAre DEF PostOf, Single

LEMMA PostIsBegin ==
  ASSUME BucketsSound, PostsSound, NEW p \in CodePosts, NEW u \in CodeUsers, Post(p, u)
  PROVE BucketsSound' /\ PostsSound' /\ Ideal!Next
<1>1. Take({u, AllMisses}) /\ now' = now BY DEF Post, PostTakes, PostOf
<1>2. BucketsSound' /\ Ideal!Lowered(PostOf(u)) BY <1>1, PostsNames, TakeLowers
<1>3. posts' = [posts EXCEPT ![p] = [user |-> u, out |-> TRUE]] /\ ~posts[p].out BY DEF Post
<1>4. PostsSound' BY <1>3 DEF PostsSound
<1>5. posts'[p] = [user |-> u, out |-> TRUE] /\ \A q \in CodePosts \ {p} : posts'[q] = posts[q] BY <1>3 DEF PostsSound
<1>6. Outs' = Outs \cup {<<p, PostOf(u)>>} BY <1>3, <1>5 DEF Outs, PostOf
<1>7. \A o \in Outs : o[1] # p BY <1>3 DEF Outs
<1>8. PostOf(u) \in Pairs BY DEF Pairs, PostOf
<1>9. Ideal!Begin(p, PostOf(u)) BY <1>2, <1>6, <1>7 DEF Ideal!Begin, Outs
<1> QED BY <1>2, <1>4, <1>8, <1>9 DEF Ideal!Next

LEMMA OutsStep == ASSUME NEW o \in Outs, Ideal!GiveBack(o) \/ Ideal!Spend(o) PROVE Ideal!Next
BY DEF Ideal!Next, Outs

LEMMA FinishIsGiveBackOrSpend ==
  ASSUME BucketsSound, PostsSound, NEW p \in CodePosts, NEW missed \in BOOLEAN, FinishPost(p, missed)
  PROVE BucketsSound' /\ PostsSound' /\ Ideal!Next
<1> DEFINE u == posts[p].user
           used == PostOf(u)
           level == [n \in used |-> Returned(n)]
<1>1. u \in CodeUsers /\ posts[p].out /\ now' = now BY DEF FinishPost, PostsSound
<1>2. posts' = [posts EXCEPT ![p] = NoPost] BY DEF FinishPost
<1>3. posts'[p] = NoPost /\ \A q \in CodePosts \ {p} : posts'[q] = posts[q] BY <1>2 DEF PostsSound
<1>4. PostsSound' BY <1>2, <1>3 DEF PostsSound, NoPost
<1>5. PICK o \in Outs : o = <<p, used>> BY <1>1 DEF Outs
<1>6. Outs' = Outs \ {o} BY <1>1, <1>3, <1>5 DEF Outs, NoPost, PostOf
<1>7. used = {u, AllMisses} /\ used \subseteq Names /\ IsFiniteSet(used)
  <2>1. used = {u, AllMisses} /\ used \subseteq Names BY <1>1, PostsNames
  <2> HIDE DEF used
  <2> QED BY <2>1, TwoNames
<1>8. CASE missed
  <2>1. UNCHANGED bucketVars BY <1>8 DEF FinishPost
  <2>2. BucketsSound' /\ Levels' = Levels BY <1>1, <2>1 DEF BucketsSound, bucketVars, Levels, Level, LevelAt
  <2>3. Ideal!Spend(o) BY <1>6, <2>2 DEF Ideal!Spend, Outs, Levels
  <2>4. Ideal!Next BY <2>3, OutsStep
  <2> QED BY <1>4, <2>2, <2>4
<1>9. CASE ~missed
  <2>1. KeepBuckets(used, level) BY <1>9 DEF FinishPost
  <2>2. ASSUME NEW n \in used PROVE level[n] = Returned(n) /\ level[n] \in Nat /\ level[n] <= Full[n]
    BY <1>7, LevelIs, NamesAre, LimitsAssumption DEF Returned, Lesser
  <2> HIDE DEF u, used, level
  <2>3. BucketsSound' /\ \A n \in used : Level(n)' = level[n] BY <1>1, <1>7, <2>1, <2>2, KeepKeeps
  <2>4. Ideal!OthersStay(used) BY <1>1, <1>7, <2>1, <2>2, KeepIsForgettable
  <2>5. \A n \in used : Levels'[n] = Ideal!Least(Full[n], Levels[n] + Cost)
    BY <1>7, <2>2, <2>3 DEF Levels, Ideal!Least, Returned, Lesser
  <2>6. Ideal!Raised(used) BY <2>4, <2>5 DEF Ideal!Raised, Levels
  <2>7. Ideal!GiveBack(o) BY <1>5, <1>6, <2>6 DEF Ideal!GiveBack, Outs
  <2>8. Ideal!Next BY <2>7, OutsStep
  <2> QED BY <1>4, <2>3, <2>8
<1> QED BY <1>8, <1>9

LEMMA OneMore == ASSUME NEW a \in Nat, NEW r \in Nat PROVE (a + 1) * r = a * r + r
OBVIOUS

LEMMA PassIsPass ==
  ASSUME BucketsSound, Pass
  PROVE BucketsSound' /\ Ideal!Next
<1>1. BucketsSound' /\ buckets' = buckets /\ now' = now + 1
  <2>1. buckets' = buckets /\ now' = now + 1 BY DEF Pass, bucketVars
  <2>2. ASSUME NEW n \in DOMAIN buckets PROVE buckets[n].at \in Nat /\ buckets[n].at <= now BY DEF BucketsSound, Bucket
  <2>3. \A n \in DOMAIN buckets : buckets[n].at <= now' BY <2>1, <2>2 DEF BucketsSound
  <2>4. \A n \in DOMAIN buckets : buckets[n] \in Bucket /\ buckets[n].tokens <= Full[n] BY DEF BucketsSound
  <2> QED BY <2>1, <2>3, <2>4 DEF BucketsSound
<1>2. ASSUME NEW n \in Names PROVE Level(n)' = Ideal!Least(Full[n], Level(n) + Rate[n])
  <2>1. Full[n] \in Nat /\ Rate[n] \in Nat BY NamesAre
  <2>2. CASE n \in DOMAIN buckets
    <3> DEFINE a == now - buckets[n].at
               t == buckets[n].tokens
    <3>1. a \in Nat /\ t \in Nat BY <2>2 DEF BucketsSound, Bucket
    <3>2. now' - buckets[n].at = a + 1 BY <1>1, <2>2 DEF BucketsSound, Bucket
    <3>3. (a + 1) * Rate[n] = a * Rate[n] + Rate[n] /\ a * Rate[n] \in Nat
      <4> HIDE DEF a
      <4>1. a * Rate[n] \in Nat BY <2>1, <3>1, Products
      <4>2. (a + 1) * Rate[n] = a * Rate[n] + Rate[n] BY <2>1, <3>1, OneMore
      <4> QED BY <4>1, <4>2
    <3>4. Level(n) = Lesser(Full[n], t + a * Rate[n]) BY <2>2 DEF Level, LevelAt
    <3>5. Level(n)' = Lesser(Full[n], t + (a + 1) * Rate[n])
      <4>1. Level(n)' = Lesser(Full[n], t + (now' - buckets[n].at) * Rate[n]) BY <1>1, <2>2 DEF Level, LevelAt
      <4> QED BY <3>2, <4>1
    <3> DEFINE s == a * Rate[n]
    <3>6. Level(n)' = Lesser(Full[n], t + (s + Rate[n])) /\ s \in Nat BY <3>3, <3>5
    <3>7. Level(n) = Lesser(Full[n], t + s) BY <3>4
    <3> HIDE DEF a, t, s
    <3> QED BY <2>1, <3>1, <3>6, <3>7 DEF Lesser, Ideal!Least
  <2>3. CASE n \notin DOMAIN buckets BY <1>1, <2>1, <2>3 DEF Level, LevelAt, Ideal!Least
  <2> QED BY <2>2, <2>3
<1>3. Levels' = [n \in Names |-> Ideal!Least(Full[n], Levels[n] + Rate[n])] BY <1>2 DEF Levels
<1>4. Outs' = Outs BY DEF Outs, Pass
<1> QED BY <1>1, <1>3, <1>4 DEF Ideal!Pass, Ideal!Next, Levels, Outs

LEMMA RestartIsRestart ==
  ASSUME Restart
  PROVE BucketsSound' /\ PostsSound' /\ Ideal!Restart
<1>1. now' = 0 /\ buckets' = NoBuckets /\ posts' = NoPosts BY DEF Restart
<1>2. DOMAIN buckets' = {} BY <1>1 DEF NoBuckets
<1>3. BucketsSound' BY <1>1, <1>2, FS_EmptySet DEF BucketsSound
<1>4. PostsSound' BY <1>1 DEF PostsSound, NoPosts, NoPost
<1>5. Levels' = Full BY <1>2 DEF Levels, Level, LevelAt, Full
<1>6. Outs' = {} BY <1>1 DEF Outs, NoPosts, NoPost
<1> QED BY <1>3, <1>4, <1>5, <1>6 DEF Ideal!Restart, Levels, Outs

LEMMA StartsFull ==
  ASSUME LimitsInit
  PROVE BucketsSound /\ PostsSound /\ Ideal!Init
<1>1. now = 0 /\ buckets = NoBuckets /\ posts = NoPosts BY DEF LimitsInit, Started
<1>2. DOMAIN buckets = {} BY <1>1 DEF NoBuckets
<1>3. BucketsSound BY <1>1, <1>2, FS_EmptySet DEF BucketsSound
<1>4. PostsSound BY <1>1 DEF PostsSound, NoPosts, NoPost
<1>5. Levels = Full BY <1>2 DEF Levels, Level, LevelAt, Full
<1>6. Outs = {} BY <1>1 DEF Outs, NoPosts, NoPost
<1> QED BY <1>3, <1>4, <1>5, <1>6 DEF Ideal!Init, Levels, Outs

(* A step about fetches leaves the buckets and the posts. *)
LEMMA FetchesStutter ==
  ASSUME BucketsSound, PostsSound, UNCHANGED <<now, buckets, posts>>
  PROVE BucketsSound' /\ PostsSound' /\ UNCHANGED <<Levels, Outs>>
<1>1. now' = now /\ buckets' = buckets /\ posts' = posts OBVIOUS
<1> QED BY <1>1 DEF BucketsSound, PostsSound, Levels, Level, LevelAt, Outs

LEMMA BucketsStep ==
  ASSUME BucketsSound, PostsSound, [LimitsNext]_limitsVars
  PROVE BucketsSound' /\ PostsSound' /\ (Ideal!Next \/ UNCHANGED <<Levels, Outs>>)
<1>1. ASSUME NEW i \in Instances, LimitUpload(i) PROVE BucketsSound' /\ PostsSound' /\ Ideal!Next
  BY <1>1, UploadIsTake DEF LimitUpload, PostsSound
<1>2. ASSUME NEW a \in Addresses, Register(a) PROVE BucketsSound' /\ PostsSound' /\ Ideal!Next
  BY <1>2, RegisterIsTake DEF Register, PostsSound
<1>3. ASSUME NEW p \in CodePosts, NEW u \in CodeUsers, Post(p, u) PROVE BucketsSound' /\ PostsSound' /\ Ideal!Next
  BY <1>3, PostIsBegin
<1>4. ASSUME NEW p \in CodePosts, NEW missed \in BOOLEAN, FinishPost(p, missed)
      PROVE BucketsSound' /\ PostsSound' /\ Ideal!Next
  BY <1>4, FinishIsGiveBackOrSpend
<1>5. ASSUME Pass PROVE BucketsSound' /\ PostsSound' /\ Ideal!Next
  BY <1>5, PassIsPass DEF Pass, PostsSound
<1>6. ASSUME Restart PROVE BucketsSound' /\ PostsSound' /\ Ideal!Next
  BY <1>6, RestartIsRestart DEF Ideal!Next
<1>7. ASSUME UNCHANGED <<now, buckets, posts>> PROVE BucketsSound' /\ PostsSound' /\ UNCHANGED <<Levels, Outs>>
  BY <1>7, FetchesStutter
<1>8. ASSUME NEW h \in Hosts, NEW a \in Callers, AllowFetch(h, a) \/ Document(h, a) PROVE UNCHANGED <<now, buckets, posts>>
  BY <1>8 DEF AllowFetch, Document, bucketVars
<1>9. ASSUME NEW h \in Hosts, UseClient(h) PROVE UNCHANGED <<now, buckets, posts>>
  BY <1>9 DEF UseClient, bucketVars
<1>10. ASSUME NEW c \in Clients, NEW h \in Hosts, NEW a \in Callers, AskKeys(c, h, a) PROVE UNCHANGED <<now, buckets, posts>>
  BY <1>10 DEF AskKeys, bucketVars
<1>11. ASSUME NEW h \in Hosts, NEW ok \in BOOLEAN, Fetched(h, ok) PROVE UNCHANGED <<now, buckets, posts>>
  BY <1>11 DEF Fetched, bucketVars
<1>12. ASSUME NEW c \in Clients, Answered(c) PROVE UNCHANGED <<now, buckets, posts>>
  BY <1>12 DEF Answered, bucketVars
<1>13. CASE UNCHANGED limitsVars
  <2>1. UNCHANGED <<now, buckets, posts>> BY <1>13 DEF limitsVars, bucketVars
  <2> QED BY <1>7, <2>1
<1> QED
  BY <1>1, <1>2, <1>3, <1>4, <1>5, <1>6, <1>7, <1>8, <1>9, <1>10, <1>11, <1>12, <1>13 DEF LimitsNext

(* The buckets a process keeps, with their sweeps and drops, implement those of *)
(* Buckets, for every set of names and every burst and rate.                    *)
THEOREM BucketsAreKept == LimitsSpec => BucketsHold
<1>1. LimitsInit => BucketsSound /\ PostsSound /\ Ideal!Init BY StartsFull
<1>2. BucketsSound /\ PostsSound /\ [LimitsNext]_limitsVars
        => BucketsSound' /\ PostsSound' /\ [Ideal!Next]_<<Levels, Outs>>
  BY BucketsStep
<1> QED BY <1>1, <1>2, PTL DEF LimitsSpec, BucketsHold, Ideal!Spec, Levels, Outs

-----------------------------------------------------------------------------
(* The key sets.                                                           *)

LEMMA SeqItems == ASSUME NEW E, NEW s \in Seq(E), NEW i \in DOMAIN s PROVE s[i] \in E
OBVIOUS

LEMMA EntriesAre ==
  ASSUME KeysSound, NEW h \in Hosts, Registered(h)
  PROVE Entry(h) \in [host : Hosts, cached : BOOLEAN, from : Nat]
<1>1. \E e \in ToSet(entries) : e.host = h BY DEF Registered
<1>2. Entry(h) \in ToSet(entries) BY <1>1 DEF Entry
<1>3. PICK i \in DOMAIN entries : Entry(h) = entries[i] BY <1>2 DEF ToSet
<1>4. entries \in Seq([host : Hosts, cached : BOOLEAN, from : Nat]) BY DEF KeysSound
<1>5. entries[i] \in [host : Hosts, cached : BOOLEAN, from : Nat] BY <1>4, SeqItems
<1> QED BY <1>3, <1>5

LEMMA UseClientKeys ==
  ASSUME KeysSound, NEW h \in Hosts, UseClient(h)
  PROVE KeysSound'
<1> DEFINE E == [host : Hosts, cached : BOOLEAN, from : Nat]
           stays == IF Len(entries) >= CacheSize THEN Tail(entries) ELSE entries
<1>1. stays \in Seq(E) BY LimitsAssumption DEF KeysSound
<1>2. NotCached(h) \in E BY DEF NotCached
<1>3. entries' = Append(stays, NotCached(h)) BY DEF UseClient
<1> HIDE DEF stays, E
<1>4. entries' \in Seq(E) BY <1>1, <1>2, <1>3
<1> QED BY <1>4 DEF KeysSound, UseClient, E

LEMMA AskKeysKeys ==
  ASSUME BucketsSound, KeysSound, NEW c \in Clients, NEW h \in Hosts, NEW a \in Callers, AskKeys(c, h, a)
  PROVE KeysSound'
<1>1. Entry(h) \in [host : Hosts, cached : BOOLEAN, from : Nat] BY EntriesAre DEF AskKeys
<1>2. entries' = entries BY DEF AskKeys
<1>3. fetching' \in [Hosts -> {"none", "out"}] BY DEF AskKeys, KeysSound
<1>4. PICK answer \in KeyAsk :
        /\ asks' = [asks EXCEPT ![c] = answer]
        /\ answer.state = "waiting" => answer.age = 0
        /\ answer.state = "keys" => answer.age < MaxAge
        /\ answer.state = "error" => answer.saw
  <2>1. CASE Entry(h).cached /\ now < Entry(h).from + MaxAge
    <3> DEFINE answer == [host |-> h, state |-> "keys", age |-> now - Entry(h).from, saw |-> FALSE]
    <3>1. asks' = [asks EXCEPT ![c] = answer] BY <2>1 DEF AskKeys, AnswerKeys
    <3>2. answer \in KeyAsk /\ answer.age < MaxAge
      BY <1>1, <2>1, LimitsAssumption DEF BucketsSound, KeyAsk
    <3> QED BY <3>1, <3>2
  <2>2. CASE ~(Entry(h).cached /\ now < Entry(h).from + MaxAge) /\ fetching[h] = "none"
    <3>1. CASE Fits(h, a)
      <4> DEFINE answer == [host |-> h, state |-> "waiting", age |-> 0, saw |-> FALSE]
      <4>1. asks' = [asks EXCEPT ![c] = answer] BY <2>2, <3>1 DEF AskKeys, AnswerKeys
      <4>2. answer \in KeyAsk /\ (answer.state = "error" => answer.saw) BY DEF KeyAsk
      <4> QED BY <4>1, <4>2
    <3>2. CASE ~Fits(h, a)
      <4> DEFINE answer == [host |-> h, state |-> "error", age |-> 0, saw |-> TRUE]
      <4>1. asks' = [asks EXCEPT ![c] = answer] BY <2>2, <3>2 DEF AskKeys, AnswerKeys
      <4>2. answer \in KeyAsk /\ (answer.state = "error" => answer.saw) BY DEF KeyAsk
      <4> QED BY <4>1, <4>2
    <3> QED BY <3>1, <3>2
  <2>3. CASE ~(Entry(h).cached /\ now < Entry(h).from + MaxAge) /\ fetching[h] # "none"
    <3> DEFINE answer == [host |-> h, state |-> "waiting", age |-> 0, saw |-> FALSE]
    <3>1. fetching[h] = "out" BY <2>3 DEF KeysSound
    <3>2. asks' = [asks EXCEPT ![c] = answer] BY <2>3, <3>1 DEF AskKeys, AnswerKeys
    <3>3. answer \in KeyAsk BY DEF KeyAsk
    <3> QED BY <3>2, <3>3
  <2> QED BY <2>1, <2>2, <2>3
<1> QED BY <1>2, <1>3, <1>4 DEF KeysSound

LEMMA FetchedKeys ==
  ASSUME BucketsSound, KeysSound, NEW h \in Hosts, NEW ok \in BOOLEAN, Fetched(h, ok)
  PROVE KeysSound'
<1> DEFINE E == [host : Hosts, cached : BOOLEAN, from : Nat]
<1>1. fetching' \in [Hosts -> {"none", "out"}] BY DEF Fetched, Settled, KeysSound
<1>2. entries' \in Seq(E)
  <2> DEFINE new(i) == IF ok /\ entries[i].host = h THEN [host |-> h, cached |-> TRUE, from |-> now] ELSE entries[i]
  <2>1. entries \in Seq(E) BY DEF KeysSound
  <2>2. DOMAIN entries = 1 .. Len(entries) /\ Len(entries) \in Nat BY <2>1
  <2>3. ASSUME NEW i \in 1 .. Len(entries) PROVE new(i) \in E
    <3>1. entries[i] \in E
      <4> HIDE DEF E
      <4> QED BY <2>1, <2>2, SeqItems
    <3>2. [host |-> h, cached |-> TRUE, from |-> now] \in E BY DEF BucketsSound
    <3> QED BY <3>1, <3>2
  <2>4. entries' = [i \in 1 .. Len(entries) |-> new(i)] BY <2>2 DEF Fetched
  <2> HIDE DEF new, E
  <2> QED BY <2>2, <2>3, <2>4
<1>3. ASSUME NEW c \in Clients
      PROVE /\ asks'[c] \in KeyAsk
            /\ asks'[c].state = "waiting" => asks'[c].age = 0
            /\ asks'[c].state = "keys" => asks'[c].age < MaxAge
            /\ asks'[c].state = "error" => asks'[c].saw
  <2>1. CASE asks[c].host = h /\ asks[c].state = "waiting"
    <3>1. asks'[c] = [asks[c] EXCEPT !.state = IF ok THEN "keys" ELSE "error", !.saw = TRUE] BY <2>1 DEF Fetched
    <3>2. asks[c] \in KeyAsk /\ asks[c].age = 0 BY <2>1 DEF KeysSound
    <3>3. /\ asks'[c] \in KeyAsk /\ asks'[c].age = 0 /\ asks'[c].saw
          /\ asks'[c].state \in {"keys", "error"}
      BY <3>1, <3>2 DEF KeyAsk
    <3> QED BY <3>3, LimitsAssumption
  <2>2. CASE ~(asks[c].host = h /\ asks[c].state = "waiting")
    <3>1. asks'[c] = asks[c] BY <2>2 DEF Fetched
    <3> QED BY <3>1 DEF KeysSound
  <2> QED BY <2>1, <2>2
<1>4. asks' \in [Clients -> KeyAsk] BY <1>3 DEF Fetched
<1> QED BY <1>1, <1>2, <1>3, <1>4 DEF KeysSound

LEMMA NoKeys ==
  ASSUME NEW e, e = <<>>, NEW f, f = NonePending, NEW k, k = NoAsks
  PROVE /\ e \in Seq([host : Hosts, cached : BOOLEAN, from : Nat]) /\ f \in [Hosts -> {"none", "out"}]
        /\ k \in [Clients -> KeyAsk] /\ \A c \in Clients : k[c].state = "idle"
BY DEF NonePending, NoAsks, NoAsk, KeyAsk

LEMMA KeysStep ==
  ASSUME BucketsSound, KeysSound, [LimitsNext]_limitsVars
  PROVE KeysSound'
<1>1. ASSUME UNCHANGED <<entries, fetching, asks>> PROVE KeysSound'
  BY <1>1 DEF KeysSound
<1>2. ASSUME NEW i \in Instances, LimitUpload(i) PROVE KeysSound' BY <1>1, <1>2 DEF LimitUpload, fetchVars
<1>3. ASSUME NEW a \in Addresses, Register(a) PROVE KeysSound' BY <1>1, <1>3 DEF Register, fetchVars
<1>4. ASSUME NEW p \in CodePosts, NEW u \in CodeUsers, Post(p, u) PROVE KeysSound' BY <1>1, <1>4 DEF Post, fetchVars
<1>5. ASSUME NEW p \in CodePosts, NEW missed \in BOOLEAN, FinishPost(p, missed) PROVE KeysSound'
  BY <1>1, <1>5 DEF FinishPost, fetchVars
<1>6. ASSUME NEW h \in Hosts, NEW a \in Callers, AllowFetch(h, a) \/ Document(h, a) PROVE KeysSound'
  BY <1>1, <1>6 DEF AllowFetch, Document
<1>7. ASSUME NEW h \in Hosts, UseClient(h) PROVE KeysSound' BY <1>7, UseClientKeys
<1>8. ASSUME NEW c \in Clients, NEW h \in Hosts, NEW a \in Callers, AskKeys(c, h, a) PROVE KeysSound'
  BY <1>8, AskKeysKeys
<1>9. ASSUME NEW h \in Hosts, NEW ok \in BOOLEAN, Fetched(h, ok) PROVE KeysSound' BY <1>9, FetchedKeys
<1>10. ASSUME NEW c \in Clients, Answered(c) PROVE KeysSound'
  BY <1>10 DEF Answered, NoAsk, KeyAsk, KeysSound
<1>11. ASSUME Pass PROVE KeysSound' BY <1>1, <1>11 DEF Pass
<1>12. ASSUME Restart PROVE KeysSound'
  BY <1>12, NoKeys DEF Restart, KeysSound
<1>13. CASE UNCHANGED limitsVars BY <1>1, <1>13 DEF limitsVars, fetchVars
<1> QED
  BY <1>2, <1>3, <1>4, <1>5, <1>6, <1>7, <1>8, <1>9, <1>10, <1>11, <1>12, <1>13 DEF LimitsNext

(* No client is answered with keys past their age, or with a failure it did    *)
(* not wait for.                                                                *)
THEOREM KeysAreOfTheWait == LimitsSpec => []KeysOfTheWait
<1>1. LimitsInit => BucketsSound /\ PostsSound /\ KeysSound
  <2> SUFFICES ASSUME LimitsInit PROVE BucketsSound /\ PostsSound /\ KeysSound OBVIOUS
  <2>1. KeysSound BY NoKeys DEF LimitsInit, Started, KeysSound
  <2> QED BY <2>1, StartsFull
<1>2. BucketsSound /\ PostsSound /\ KeysSound /\ [LimitsNext]_limitsVars => BucketsSound' /\ PostsSound' /\ KeysSound'
  BY BucketsStep, KeysStep
<1>3. KeysSound => KeysOfTheWait BY DEF KeysSound, KeysOfTheWait
<1> QED BY <1>1, <1>2, <1>3, PTL DEF LimitsSpec

-----------------------------------------------------------------------------
(* The fetches of a minute: those of the window under way and of the one before. *)

This(S, w, k, t) == {f \in S : f.of[w] = k /\ f.at >= t}
Before(S, w, k, t) == {f \in S : f.of[w] = k /\ f.at < t}

(* S, at time n, are the last minute's fetches. *)
SentSound(S, n) ==
  /\ n \in Nat /\ IsFiniteSet(S)
  /\ \A f \in S : f.at \in Nat /\ f.at <= n /\ n - f.at < Minute

(* A window w that started at t has counted c: its own fetches are in c, and those *)
(* before it are of one window.                                                 *)
WindowSound(S, n, w, t, c) ==
  /\ t \in Int /\ t <= n /\ c \in [KeysOf[w] -> Nat]
  /\ \A f \in S : f.at >= t => f.at < t + Minute
  /\ \A k \in KeysOf[w] : /\ c[k] <= MostOf[w]
                          /\ Cardinality(This(S, w, k, t)) <= c[k]
                          /\ Cardinality(Before(S, w, k, t)) <= MostOf[w]

FetchesSound == SentSound(recent, now) /\ \A w \in Windows : WindowSound(recent, now, w, windows[w], counts[w])

LEMMA MostType == \A w \in Windows : MostOf[w] \in Nat
BY LimitsAssumption DEF Windows, MostOf

LEMMA KeyType == ASSUME NEW h \in Hosts, NEW a \in Callers, NEW w \in Windows PROVE KeyOf(h, a)[w] \in KeysOf[w]
BY DEF Windows, KeyOf, KeysOf

LEMMA PartsFinite ==
  ASSUME NEW S, IsFiniteSet(S), NEW w, NEW k, NEW t
  PROVE /\ IsFiniteSet(This(S, w, k, t)) /\ Cardinality(This(S, w, k, t)) \in Nat
        /\ IsFiniteSet(Before(S, w, k, t)) /\ Cardinality(Before(S, w, k, t)) \in Nat
<1>1. This(S, w, k, t) \subseteq S /\ Before(S, w, k, t) \subseteq S BY DEF This, Before
<1> QED BY <1>1, FS_Subset, FS_CardinalityType

LEMMA AtMostOneMore ==
  ASSUME NEW A, IsFiniteSet(A), NEW f, NEW B, B = A \cup {f}
  PROVE Cardinality(B) <= Cardinality(A) + 1
<1>1. Cardinality(B) = IF f \in A THEN Cardinality(A) ELSE Cardinality(A) + 1 BY FS_AddElement
<1>2. Cardinality(A) \in Nat BY FS_CardinalityType
<1> QED BY <1>1, <1>2

LEMMA SentLater ==
  ASSUME NEW S, NEW n, SentSound(S, n)
  PROVE SentSound({f \in S : n + 1 - f.at < Minute}, n + 1)
<1> DEFINE R == {f \in S : n + 1 - f.at < Minute}
<1>1. R \subseteq S /\ n \in Nat BY DEF SentSound
<1>2. IsFiniteSet(R) BY <1>1, FS_Subset DEF SentSound
<1>3. ASSUME NEW f \in R PROVE f.at \in Nat /\ f.at <= n + 1 /\ n + 1 - f.at < Minute BY <1>1 DEF SentSound
<1> HIDE DEF R
<1>4. SentSound(R, n + 1) BY <1>1, <1>2, <1>3 DEF SentSound
<1> QED BY <1>4 DEF R

(* A window that is over starts anew: its fetches become those before, and those  *)
(* that were before are a minute old.                                             *)
LEMMA Opens ==
  ASSUME NEW S, NEW n, SentSound(S, n), NEW w \in Windows, NEW t, NEW c, WindowSound(S, n, w, t, c), n - t >= Minute
  PROVE WindowSound(S, n, w, n, NoCounts(w))
<1>1. \A f \in S : f.at \in Nat /\ f.at < n /\ f.at >= t
  BY LimitsAssumption DEF SentSound, WindowSound
<1>2. ASSUME NEW k \in KeysOf[w]
      PROVE Cardinality(This(S, w, k, n)) <= 0 /\ Cardinality(Before(S, w, k, n)) <= MostOf[w]
  <2>1. This(S, w, k, n) = {} BY <1>1 DEF This, SentSound
  <2>2. Before(S, w, k, n) \subseteq This(S, w, k, t) BY <1>1 DEF This, Before
  <2>3. IsFiniteSet(This(S, w, k, t)) BY PartsFinite DEF SentSound
  <2>4. Cardinality(Before(S, w, k, n)) <= Cardinality(This(S, w, k, t)) BY <2>2, <2>3, FS_Subset
  <2>5. Cardinality(This(S, w, k, t)) <= c[k] /\ c[k] <= MostOf[w] /\ c[k] \in Nat BY DEF WindowSound
  <2>6. Cardinality(Before(S, w, k, n)) \in Nat /\ Cardinality(This(S, w, k, t)) \in Nat /\ MostOf[w] \in Nat
    BY PartsFinite, MostType DEF SentSound
  <2> QED BY <2>1, <2>4, <2>5, <2>6, FS_EmptySet
<1>3. NoCounts(w) \in [KeysOf[w] -> Nat] /\ \A k \in KeysOf[w] : NoCounts(w)[k] = 0 BY DEF NoCounts
<1>4. n \in Int /\ n <= n /\ \A f \in S : f.at < n BY <1>1 DEF SentSound
<1>5. \A k \in KeysOf[w] : 0 <= MostOf[w] BY MostType
<1>6. \A f \in S : f.at >= n => f.at < n + Minute BY <1>1, <1>4 DEF SentSound
<1> QED BY <1>2, <1>3, <1>4, <1>5, <1>6 DEF WindowSound

(* A fetch that goes out is counted in a window that is not over. *)
LEMMA Counts ==
  ASSUME NEW S, NEW n, SentSound(S, n), NEW w \in Windows, NEW t, NEW c, WindowSound(S, n, w, t, c), n - t < Minute,
         NEW k \in KeysOf[w], c[k] < MostOf[w], NEW f, f.of[w] = k, f.at = n
  PROVE WindowSound(S \cup {f}, n, w, t, [c EXCEPT ![k] = @ + 1])
<1> DEFINE d == [c EXCEPT ![k] = @ + 1]
           T == S \cup {f}
<1>1. t \in Int /\ t <= n /\ n \in Nat /\ c \in [KeysOf[w] -> Nat] /\ MostOf[w] \in Nat
  BY MostType DEF WindowSound, SentSound
<1>2. d \in [KeysOf[w] -> Nat] /\ d[k] = c[k] + 1 /\ \A j \in KeysOf[w] \ {k} : d[j] = c[j] BY <1>1
<1>3. \A g \in T : g.at >= t => g.at < t + Minute BY <1>1, LimitsAssumption DEF WindowSound
<1>4. ASSUME NEW j \in KeysOf[w]
      PROVE d[j] <= MostOf[w] /\ Cardinality(This(T, w, j, t)) <= d[j] /\ Cardinality(Before(T, w, j, t)) <= MostOf[w]
  <2>1. Before(T, w, j, t) = Before(S, w, j, t) BY <1>1 DEF Before
  <2>2. Cardinality(This(S, w, j, t)) <= c[j] /\ c[j] <= MostOf[w] /\ Cardinality(Before(S, w, j, t)) <= MostOf[w]
    BY DEF WindowSound
  <2>3. IsFiniteSet(This(S, w, j, t)) /\ Cardinality(This(S, w, j, t)) \in Nat BY PartsFinite DEF SentSound
  <2>4. CASE j = k
    <3>1. This(T, w, j, t) = This(S, w, j, t) \cup {f} BY <1>1, <2>4 DEF This
    <3>2. Cardinality(This(T, w, j, t)) <= Cardinality(This(S, w, j, t)) + 1
      BY <2>3, <3>1, AtMostOneMore
    <3>3. Cardinality(This(T, w, j, t)) \in Nat
      <4>1. IsFiniteSet(This(S, w, j, t) \cup {f}) BY <2>3, FS_AddElement
      <4> QED BY <3>1, <4>1, FS_CardinalityType
    <3> HIDE DEF d, T
    <3> QED BY <1>1, <1>2, <2>1, <2>2, <2>3, <2>4, <3>2, <3>3
  <2>5. CASE j # k
    <3>1. This(T, w, j, t) = This(S, w, j, t) BY <2>5 DEF This
    <3> QED BY <1>2, <2>1, <2>2, <2>5, <3>1
  <2> QED BY <2>4, <2>5
<1> HIDE DEF d, T
<1>5. WindowSound(T, n, w, t, d) BY <1>1, <1>2, <1>3, <1>4 DEF WindowSound
<1> QED BY <1>5 DEF d, T

LEMMA Ages ==
  ASSUME NEW S, NEW n, SentSound(S, n), NEW w \in Windows, NEW t, NEW c, WindowSound(S, n, w, t, c),
         NEW R \in SUBSET S
  PROVE WindowSound(R, n + 1, w, t, c)
<1>1. t \in Int /\ t <= n + 1 /\ c \in [KeysOf[w] -> Nat] /\ MostOf[w] \in Nat BY MostType DEF SentSound, WindowSound
<1>2. ASSUME NEW k \in KeysOf[w]
      PROVE c[k] <= MostOf[w] /\ Cardinality(This(R, w, k, t)) <= c[k] /\ Cardinality(Before(R, w, k, t)) <= MostOf[w]
  <2>1. This(R, w, k, t) \subseteq This(S, w, k, t) /\ Before(R, w, k, t) \subseteq Before(S, w, k, t) BY DEF This, Before
  <2>2. /\ IsFiniteSet(This(S, w, k, t)) /\ Cardinality(This(S, w, k, t)) \in Nat
        /\ IsFiniteSet(Before(S, w, k, t)) /\ Cardinality(Before(S, w, k, t)) \in Nat
    BY PartsFinite DEF SentSound
  <2>3. /\ Cardinality(This(R, w, k, t)) <= Cardinality(This(S, w, k, t))
        /\ Cardinality(Before(R, w, k, t)) <= Cardinality(Before(S, w, k, t))
    BY <2>1, <2>2, FS_Subset
  <2>4. Cardinality(This(R, w, k, t)) \in Nat /\ Cardinality(Before(R, w, k, t)) \in Nat
    BY <2>1, <2>2, FS_Subset, FS_CardinalityType
  <2>5. Cardinality(This(S, w, k, t)) <= c[k] /\ c[k] <= MostOf[w] /\ Cardinality(Before(S, w, k, t)) <= MostOf[w]
    BY DEF WindowSound
  <2> QED BY <1>1, <2>2, <2>3, <2>4, <2>5
<1>3. \A f \in R : f.at >= t => f.at < t + Minute BY DEF WindowSound
<1> QED BY <1>1, <1>2, <1>3 DEF WindowSound

(* What #check leaves, whether or not it counts. *)
LEMMA CheckSound ==
  ASSUME FetchesSound, NEW h \in Hosts, NEW a \in Callers, NEW count \in BOOLEAN, Check(h, a, count), now' = now,
         recent' = recent \cup {f \in {Sent(h, a)} : count /\ Fits(h, a)}
  PROVE FetchesSound'
<1> DEFINE sent == count /\ Fits(h, a)
<1>1. SentSound(recent', now')
  <2>1. Sent(h, a).at = now /\ now \in Nat BY DEF Sent, FetchesSound, SentSound
  <2>2. IsFiniteSet(recent \cup {Sent(h, a)}) BY FS_AddElement DEF FetchesSound, SentSound
  <2>3. recent' \subseteq recent \cup {Sent(h, a)} OBVIOUS
  <2>4. IsFiniteSet(recent') BY <2>2, <2>3, FS_Subset
  <2>5. \A f \in recent : f.at \in Nat /\ f.at <= now /\ now - f.at < Minute BY DEF FetchesSound, SentSound
  <2> QED BY <2>1, <2>3, <2>4, <2>5, LimitsAssumption DEF SentSound
<1>2. ASSUME NEW w \in Windows PROVE WindowSound(recent', now', w, windows'[w], counts'[w])
  <2> DEFINE anew == w \in Read(h, a) /\ Over(w)
             t == IF anew THEN now ELSE windows[w]
             c == IF anew THEN NoCounts(w) ELSE counts[w]
             k == KeyOf(h, a)[w]
  <2>1. WindowSound(recent, now, w, windows[w], counts[w]) /\ SentSound(recent, now) BY DEF FetchesSound
  <2>2. WindowSound(recent, now, w, t, c)
    <3>1. CASE anew BY <2>1, <3>1, Opens DEF Over
    <3>2. CASE ~anew BY <2>1, <3>2
    <3> QED BY <3>1, <3>2
  <2>3. windows'[w] = t BY DEF Check
  <2>4. c = IF w \in Read(h, a) THEN CountsNow(w) ELSE counts[w] BY DEF CountsNow
  <2>5. counts'[w] = IF sent THEN [c EXCEPT ![k] = @ + 1] ELSE c
    <3> HIDE DEF c
    <3> QED BY <2>4 DEF Check, Counted
  <2>6. CASE sent
    <3>1. Read(h, a) = Windows /\ ~Reached(w, h, a) BY <2>6 DEF Fits, Read, Windows
    <3>2. c = CountsNow(w) /\ ~(c[k] >= MostOf[w]) BY <2>4, <3>1 DEF Reached
    <3>3. now - t < Minute
      <4>1. CASE Over(w) BY <2>1, <3>1, <4>1, LimitsAssumption DEF SentSound
      <4>2. CASE ~Over(w) BY <2>1, <3>1, <4>2, LimitsAssumption DEF Over, SentSound, WindowSound
      <4> QED BY <4>1, <4>2
    <3>4. Sent(h, a).of[w] = k /\ Sent(h, a).at = now BY DEF Sent
    <3>5. recent' = recent \cup {Sent(h, a)} BY <2>6
    <3>6. k \in KeysOf[w] /\ c[k] < MostOf[w] BY <2>2, <3>2, KeyType, MostType DEF WindowSound
    <3> HIDE DEF c, t, k
    <3>7. WindowSound(recent \cup {Sent(h, a)}, now, w, t, [c EXCEPT ![k] = @ + 1])
      BY <2>1, <2>2, <3>3, <3>4, <3>6, Counts
    <3> QED BY <2>3, <2>5, <2>6, <3>5, <3>7
  <2>7. CASE ~sent
    <3>1. recent' = recent BY <2>7
    <3> QED BY <2>2, <2>3, <2>5, <2>7, <3>1
  <2> QED BY <2>6, <2>7
<1> QED BY <1>1, <1>2 DEF FetchesSound

LEMMA FetchesStart ==
  ASSUME NEW n, n = 0, NEW r, r = {}, NEW ws, ws = NoWindows, NEW cs, cs = NothingCounted
  PROVE SentSound(r, n) /\ \A w \in Windows : WindowSound(r, n, w, ws[w], cs[w])
<1>1. SentSound(r, n) BY FS_EmptySet DEF SentSound
<1>2. ASSUME NEW w \in Windows PROVE WindowSound(r, n, w, ws[w], cs[w])
  <2>1. ws[w] = -Minute /\ cs[w] = NoCounts(w) BY DEF NoWindows, NothingCounted
  <2>2. -Minute \in Int /\ -Minute <= 0 /\ 0 - (-Minute) >= Minute BY LimitsAssumption
  <2>3. NoCounts(w) \in [KeysOf[w] -> Nat] /\ \A k \in KeysOf[w] : NoCounts(w)[k] = 0 BY DEF NoCounts
  <2>4. \A k, t : This(r, w, k, t) = {} /\ Before(r, w, k, t) = {} BY DEF This, Before
  <2>5. 0 <= MostOf[w] BY MostType
  <2>6. ASSUME NEW k \in KeysOf[w]
        PROVE cs[w][k] <= MostOf[w] /\ Cardinality(This(r, w, k, ws[w])) <= cs[w][k]
              /\ Cardinality(Before(r, w, k, ws[w])) <= MostOf[w]
    BY <2>1, <2>3, <2>4, <2>5, FS_EmptySet
  <2> QED BY <2>1, <2>2, <2>3, <2>6 DEF WindowSound
<1> QED BY <1>1, <1>2

LEMMA FetchesStep ==
  ASSUME FetchesSound, [LimitsNext]_limitsVars
  PROVE FetchesSound'
<1>1. ASSUME UNCHANGED <<now, recent, windows, counts>> PROVE FetchesSound'
  BY <1>1 DEF FetchesSound, SentSound, WindowSound, This, Before
<1>2. ASSUME NEW i \in Instances, LimitUpload(i) PROVE FetchesSound' BY <1>1, <1>2 DEF LimitUpload, fetchVars
<1>3. ASSUME NEW a \in Addresses, Register(a) PROVE FetchesSound' BY <1>1, <1>3 DEF Register, fetchVars
<1>4. ASSUME NEW p \in CodePosts, NEW u \in CodeUsers, Post(p, u) PROVE FetchesSound' BY <1>1, <1>4 DEF Post, fetchVars
<1>5. ASSUME NEW p \in CodePosts, NEW missed \in BOOLEAN, FinishPost(p, missed) PROVE FetchesSound'
  BY <1>1, <1>5 DEF FinishPost, fetchVars
<1>6. ASSUME NEW h \in Hosts, NEW a \in Callers, AllowFetch(h, a) PROVE FetchesSound'
  <2>1. Check(h, a, FALSE) /\ now' = now /\ recent' = recent BY <1>6 DEF AllowFetch
  <2>2. recent' = recent \cup {f \in {Sent(h, a)} : FALSE /\ Fits(h, a)} BY <2>1
  <2> QED BY <2>1, <2>2, CheckSound
<1>7. ASSUME NEW h \in Hosts, NEW a \in Callers, Check(h, a, TRUE), Send(h, a), now' = now PROVE FetchesSound'
  <2>1. recent' = recent \cup {f \in {Sent(h, a)} : TRUE /\ Fits(h, a)} BY <1>7 DEF Send
  <2> QED BY <1>7, <2>1, CheckSound
<1>8. ASSUME NEW h \in Hosts, NEW a \in Callers, Document(h, a) PROVE FetchesSound' BY <1>7, <1>8 DEF Document
<1>9. ASSUME NEW h \in Hosts, UseClient(h) PROVE FetchesSound' BY <1>1, <1>9 DEF UseClient
<1>10. ASSUME NEW c \in Clients, NEW h \in Hosts, NEW a \in Callers, AskKeys(c, h, a) PROVE FetchesSound'
  <2>1. now' = now BY <1>10 DEF AskKeys
  <2>2. (Check(h, a, TRUE) /\ Send(h, a)) \/ UNCHANGED <<recent, windows, counts>> BY <1>10 DEF AskKeys
  <2> QED BY <1>1, <1>7, <2>1, <2>2
<1>11. ASSUME NEW h \in Hosts, NEW ok \in BOOLEAN, Fetched(h, ok) PROVE FetchesSound' BY <1>1, <1>11 DEF Fetched
<1>12. ASSUME NEW c \in Clients, Answered(c) PROVE FetchesSound' BY <1>1, <1>12 DEF Answered
<1>13. ASSUME Pass PROVE FetchesSound'
  <2>1. /\ now' = now + 1 /\ windows' = windows /\ counts' = counts
        /\ recent' = {f \in recent : now + 1 - f.at < Minute}
    BY <1>13 DEF Pass
  <2>2. SentSound(recent, now) BY DEF FetchesSound
  <2>3. recent' \in SUBSET recent BY <2>1
  <2>4. SentSound(recent', now + 1) BY <2>1, <2>2, SentLater
  <2>5. ASSUME NEW w \in Windows PROVE WindowSound(recent', now + 1, w, windows[w], counts[w])
    <3>1. WindowSound(recent, now, w, windows[w], counts[w]) BY DEF FetchesSound
    <3> QED BY <2>2, <2>3, <3>1, Ages
  <2> QED BY <2>1, <2>4, <2>5 DEF FetchesSound
<1>14. ASSUME Restart PROVE FetchesSound' BY <1>14, FetchesStart DEF Restart, FetchesSound
<1>15. CASE UNCHANGED limitsVars BY <1>1, <1>15 DEF limitsVars, fetchVars
<1> QED
  BY <1>2, <1>3, <1>4, <1>5, <1>6, <1>8, <1>9, <1>10, <1>11, <1>12, <1>13, <1>14, <1>15 DEF LimitsNext

LEMMA MinuteBounded == FetchesSound => FetchesBounded
<1> SUFFICES ASSUME FetchesSound, NEW w \in Windows, NEW k \in KeysOf[w]
             PROVE Cardinality({f \in recent : f.of[w] = k}) <= 2 * MostOf[w]
  BY DEF FetchesBounded
<1> DEFINE A == This(recent, w, k, windows[w])
           B == Before(recent, w, k, windows[w])
           All == {f \in recent : f.of[w] = k}
<1>1. WindowSound(recent, now, w, windows[w], counts[w]) /\ SentSound(recent, now) BY DEF FetchesSound
<1>2. \A f \in recent : f.at >= windows[w] \/ f.at < windows[w] BY <1>1 DEF SentSound, WindowSound
<1>3. All = A \cup B BY <1>2 DEF This, Before
<1>4. A \cap B = {} BY <1>1 DEF This, Before, SentSound, WindowSound
<1>5. IsFiniteSet(A) /\ IsFiniteSet(B) /\ Cardinality(A) \in Nat /\ Cardinality(B) \in Nat
  BY <1>1, PartsFinite DEF SentSound
<1>6. Cardinality(A) <= counts[w][k] /\ counts[w][k] <= MostOf[w] /\ counts[w][k] \in Nat /\ Cardinality(B) <= MostOf[w]
  BY <1>1 DEF WindowSound
<1> HIDE DEF A, B, All
<1>7. Cardinality(All) = Cardinality(A) + Cardinality(B) - 0
  <2>1. Cardinality(A \cup B) = Cardinality(A) + Cardinality(B) - Cardinality(A \cap B) BY <1>5, FS_Union
  <2> QED BY <1>3, <1>4, <2>1, FS_EmptySet
<1>8. Cardinality(All) <= 2 * MostOf[w] BY <1>5, <1>6, <1>7, MostType
<1> QED BY <1>8 DEF All

(* In no minute more fetches go out than two windows allow, for every choice of *)
(* the limits and however the windows drift.                                     *)
THEOREM MinutesAreBounded == LimitsSpec => []FetchesBounded
<1>1. LimitsInit => FetchesSound BY FetchesStart DEF LimitsInit, Started, FetchesSound
<1> QED BY <1>1, FetchesStep, MinuteBounded, PTL DEF LimitsSpec
=============================================================================
