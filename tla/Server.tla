------------------------------- MODULE Server -------------------------------
(* Containers of the platform that start together over one database           *)
(* (platform/src/migrate.ts, migrations.ts, index.ts, health.ts): each runs     *)
(* migrate and, when that succeeds, the service (docker/Dockerfile:68). Migrate *)
(* takes an advisory lock, reads what is applied, and applies each pending file *)
(* in a transaction with its row. The service checks its configuration and the  *)
(* database, starts its jobs and listens; then /health shares one check of the  *)
(* database between the requests that wait for it.                              *)
(*                                                                              *)
(* Outside this module: what a file's statements do, the jobs, other routes.    *)
EXTENDS Naturals, FiniteSets

CONSTANTS
  Containers,    \* processes that start, with the image of one version each
  Requests,      \* requests of /health under way at once
  Deploys,       \* what may be deployed: records of image, twice, malformed, failing, recorded
  NoFile,        \* no file
  Budget         \* how often the environment may do what; Nat for each of its fields

NoOne == "no one"
Dead == "a dead connection"

ASSUME ServerAssumption ==
  /\ NoFile \notin Nat /\ NoOne \notin Containers /\ Dead \notin Containers
  /\ \A d \in Deploys :
       /\ d.image \in [Containers -> SUBSET Nat]      \* the files of each version, by number
       /\ d.twice \subseteq Containers                \* images with a number used twice
       /\ d.malformed \subseteq Nat                   \* files stripTransaction refuses
       /\ d.failing \subseteq Nat                     \* files whose statements fail
       /\ d.recorded \subseteq Nat                    \* what schema_migrations holds
  /\ Budget \in [{"crash", "fault", "outage", "wait"} -> Nat]

VARIABLES
  deploy,        \* what is deployed
  step,          \* where each container is
  pending,       \* the files its migrate has to apply
  failed,        \* whether its migrate or start failed
  tx,            \* the file its open transaction applied, or NoFile
  lock,          \* who holds the advisory lock
  ghosts,        \* dead connections that still wait for the lock
  rows,          \* the versions in schema_migrations
  applied,       \* history: how often each file's statements were committed
  up,            \* whether the database answers
  running,       \* health.ts: running
  req,           \* the requests of /health
  left           \* what is left of Budget

vars == <<deploy, step, pending, failed, tx, lock, ghosts, rows, applied, up, running, req, left>>
migration == <<pending, failed, tx, lock, ghosts, rows, applied>>
health == <<running, req>>

AllFiles == UNION {(UNION {d.image[c] : c \in Containers}) \cup d.recorded : d \in Deploys}

\* The steps of migrate.ts and of index.ts, in order.
Migrating == {"list", "connect", "lock", "waiting", "read", "apply", "commit", "rollback", "unlock"}
Starting == {"configure", "check", "jobs", "listen"}
Steps == Migrating \cup Starting \cup {"serving", "exited"}

NoCheck == "none"
NotAsking == [at |-> NoOne, state |-> "idle", saw |-> {}]

Init ==
  /\ deploy \in Deploys
  /\ step = [c \in Containers |-> "list"]
  /\ pending = [c \in Containers |-> {}]
  /\ failed = [c \in Containers |-> FALSE]
  /\ tx = [c \in Containers |-> NoFile]
  /\ lock = NoOne
  /\ ghosts = 0
  /\ rows = deploy.recorded
  /\ applied = [f \in AllFiles |-> IF f \in deploy.recorded THEN 1 ELSE 0]
  /\ up = TRUE
  /\ running = [c \in Containers |-> NoCheck]
  /\ req = [q \in Requests |-> NotAsking]
  /\ left = Budget

Spend(kind) == left[kind] > 0 /\ left' = [left EXCEPT ![kind] = @ - 1]
Go(c, to) == step' = [step EXCEPT ![c] = to]
Exit(c) == Go(c, "exited") /\ failed' = [failed EXCEPT ![c] = TRUE]

----------------------------------------------------------------------------
(* migrations.ts: migrate *)

\* listMigrationFiles: two files of one number end the run.
List(c) ==
  /\ step[c] = "list"
  /\ IF c \in deploy.twice THEN Exit(c) ELSE Go(c, "connect") /\ UNCHANGED failed
  /\ UNCHANGED <<deploy, pending, tx, lock, ghosts, rows, applied, up, health, left>>

Connect(c) ==
  /\ step[c] = "connect"
  /\ IF up THEN Go(c, "lock") /\ UNCHANGED failed ELSE Exit(c)
  /\ UNCHANGED <<deploy, pending, tx, lock, ghosts, rows, applied, up, health, left>>

AskLock(c) ==
  /\ step[c] = "lock"
  /\ Go(c, "waiting")
  /\ UNCHANGED <<deploy, migration, up, health, left>>

\* A mutant of TakeLock: the answer of an attempt at the lock is not looked at.
TryLock(c) ==
  /\ step[c] = "waiting"
  /\ lock' = IF lock = NoOne THEN c ELSE lock
  /\ Go(c, "read")
  /\ UNCHANGED <<deploy, pending, failed, tx, ghosts, rows, applied, up, health, left>>

TakeLock(c) ==
  /\ step[c] = "waiting"
  /\ lock = NoOne
  /\ lock' = c
  /\ Go(c, "read")
  /\ UNCHANGED <<deploy, pending, failed, tx, ghosts, rows, applied, up, health, left>>

\* The wait takes longer than a query may: the run ends, and its connection is
\* closed while the database still has it in the queue of the lock.
WaitTimesOut(c) ==
  /\ step[c] = "waiting"
  /\ Spend("wait")
  /\ ghosts' = ghosts + 1
  /\ Exit(c)
  /\ UNCHANGED <<deploy, pending, tx, lock, rows, applied, up, health>>

\* appliedVersions, then the text of every pending file before the first one runs.
ReadApplied(c) ==
  /\ step[c] = "read"
  /\ LET found == deploy.image[c] \ rows
     IN  IF found \cap deploy.malformed = {}
         THEN pending' = [pending EXCEPT ![c] = found] /\ Go(c, "apply") /\ UNCHANGED failed
         ELSE failed' = [failed EXCEPT ![c] = TRUE] /\ Go(c, "unlock") /\ UNCHANGED pending
  /\ UNCHANGED <<deploy, tx, lock, ghosts, rows, applied, up, health, left>>

IsNext(c, f) == f \in pending[c] /\ \A g \in pending[c] : f <= g

\* begin, the file's statements and the insert of its row. A row of that number
\* fails the insert (the primary key of 0001).
Apply(c) ==
  /\ step[c] = "apply"
  /\ \E f \in pending[c] :
       /\ IsNext(c, f)
       /\ IF f \in deploy.failing \/ f \in rows
          THEN Go(c, "rollback") /\ UNCHANGED tx
          ELSE Go(c, "commit") /\ tx' = [tx EXCEPT ![c] = f]
  /\ UNCHANGED <<deploy, pending, failed, lock, ghosts, rows, applied, up, health, left>>

NothingLeft(c) ==
  /\ step[c] = "apply"
  /\ pending[c] = {}
  /\ Go(c, "unlock")
  /\ UNCHANGED <<deploy, migration, up, health, left>>

\* A mutant of Committed: the row is inserted after the commit, and a run that
\* ends before it leaves none.

\* The transaction's effects and its row, at once.
Committed(c) ==
  /\ rows' = rows \cup {tx[c]}
  /\ applied' = [applied EXCEPT ![tx[c]] = @ + 1]

Commit(c) ==
  /\ step[c] = "commit"
  /\ Committed(c)
  /\ tx' = [tx EXCEPT ![c] = NoFile]
  /\ pending' = [pending EXCEPT ![c] = @ \ {tx[c]}]
  /\ Go(c, "apply")
  /\ UNCHANGED <<deploy, failed, lock, ghosts, up, health, left>>

\* The connection is lost: the database rolls the transaction back, unless it
\* had the commit, and frees the lock when it notices.
LoseConnection(c) ==
  /\ tx' = [tx EXCEPT ![c] = NoFile]
  /\ lock' = IF lock = c THEN Dead ELSE lock
  /\ \/ step[c] = "commit" /\ Committed(c)
     \/ UNCHANGED <<rows, applied>>

FaultBefore(c) ==
  /\ step[c] = "read"
  /\ Spend("fault")
  /\ LoseConnection(c)
  /\ failed' = [failed EXCEPT ![c] = TRUE]
  /\ Go(c, "unlock")
  /\ UNCHANGED <<deploy, pending, ghosts, up, health>>

FaultInFile(c) ==
  /\ step[c] \in {"apply", "commit"}
  /\ pending[c] # {}
  /\ Spend("fault")
  /\ LoseConnection(c)
  /\ Go(c, "rollback")
  /\ UNCHANGED <<deploy, pending, failed, ghosts, up, health>>

\* The unlock fails: the connection is dropped, and the run stays as it was.
FaultInUnlock(c) ==
  /\ step[c] = "unlock"
  /\ Spend("fault")
  /\ LoseConnection(c)
  /\ UNCHANGED <<deploy, step, pending, failed, ghosts, up, health>>

\* A mutant of Rollback: a file that failed is passed over and the run goes on.

\* The file that failed is rolled back whole and ends the run.
Rollback(c) ==
  /\ step[c] = "rollback"
  /\ tx' = [tx EXCEPT ![c] = NoFile]
  /\ failed' = [failed EXCEPT ![c] = TRUE]
  /\ Go(c, "unlock")
  /\ UNCHANGED <<deploy, pending, lock, ghosts, rows, applied, up, health, left>>

\* A mutant of Unlock: a failed run returns the connection to the pool as it is.
UnlockAfterSuccess(c) ==
  /\ step[c] = "unlock"
  /\ lock' = IF lock = c /\ ~failed[c] THEN NoOne ELSE lock
  /\ pending' = [pending EXCEPT ![c] = {}]
  /\ Go(c, IF failed[c] THEN "exited" ELSE "configure")
  /\ UNCHANGED <<deploy, failed, tx, ghosts, rows, applied, up, health, left>>

\* The finally of migrate: unlock, or drop the connection when that fails. A
\* run that failed ends the container's start (migrate.js && index.js).
Unlock(c) ==
  /\ step[c] = "unlock"
  /\ lock' = IF lock = c THEN NoOne ELSE lock
  /\ pending' = [pending EXCEPT ![c] = {}]
  /\ Go(c, IF failed[c] THEN "exited" ELSE "configure")
  /\ UNCHANGED <<deploy, failed, tx, ghosts, rows, applied, up, health, left>>

\* The database notices that the connection which holds the lock is gone.
Reap ==
  /\ lock = Dead
  /\ lock' = NoOne
  /\ UNCHANGED <<deploy, step, pending, failed, tx, ghosts, rows, applied, up, health, left>>

GhostTakes ==
  /\ lock = NoOne
  /\ ghosts > 0
  /\ ghosts' = ghosts - 1
  /\ lock' = Dead
  /\ UNCHANGED <<deploy, step, pending, failed, tx, rows, applied, up, health, left>>

----------------------------------------------------------------------------
(* index.ts and listen.ts: the start of the service *)

\* loadConfig, resolveOidcKeys, loadKitRegistry and the web UI's files.
Configure(c) ==
  /\ step[c] = "configure"
  /\ \/ Go(c, "check") /\ UNCHANGED <<failed, left>>
     \/ Spend("fault") /\ Exit(c)
  /\ UNCHANGED <<deploy, pending, tx, lock, ghosts, rows, applied, up, health>>

\* select 1: a database that cannot be reached ends the start.
CheckDatabase(c) ==
  /\ step[c] = "check"
  /\ IF up THEN Go(c, "jobs") /\ UNCHANGED failed ELSE Exit(c)
  /\ UNCHANGED <<deploy, pending, tx, lock, ghosts, rows, applied, up, health, left>>

\* createOidcProvider, startClientCleanup, startAuthCleanup, startRetention.
StartJobs(c) ==
  /\ step[c] = "jobs"
  /\ Go(c, "listen")
  /\ UNCHANGED <<deploy, migration, up, health, left>>

\* startServer: a failed bind ends the process.
Listen(c) ==
  /\ step[c] = "listen"
  /\ \/ Go(c, "serving") /\ UNCHANGED <<failed, left>>
     \/ Spend("fault") /\ Exit(c)
  /\ UNCHANGED <<deploy, pending, tx, lock, ghosts, rows, applied, up, health>>

----------------------------------------------------------------------------
(* health.ts: GET /health *)

\* probe and the race: a request waits for the check that runs, or starts one.
\* A check that has settled answers at once.
Ask(q, c) ==
  /\ step[c] = "serving"
  /\ req[q].state = "idle"
  /\ IF running[c] \in {"true", "false"}
     THEN /\ req' = [req EXCEPT ![q] = [at |-> c, state |-> running[c], saw |-> {}]]
          /\ UNCHANGED running
     ELSE /\ req' = [req EXCEPT ![q] = [at |-> c, state |-> "waiting", saw |-> {}]]
          /\ running' = [running EXCEPT ![c] = "pending"]
  /\ UNCHANGED <<deploy, step, migration, up, left>>

\* A mutant of After: the promise is forgotten only when the database answered.
AfterSuccess(answer) == IF answer = "true" THEN NoCheck ELSE answer

\* What `running` is once the check has settled.
After(answer) == NoCheck

Waits(q, c) == req[q].at = c /\ req[q].state = "waiting"

\* The check settles: the database answered, or failed, or the query took too long.
Settle(c, answer) ==
  /\ running[c] = "pending"
  /\ answer = "true" => up
  /\ answer = "false" => ~up
  /\ running' = [running EXCEPT ![c] = After(answer)]
  /\ req' = [q \in Requests |-> IF Waits(q, c)
                                THEN [req[q] EXCEPT !.state = answer, !.saw = @ \cup {answer}]
                                ELSE req[q]]
  /\ UNCHANGED <<deploy, step, migration, up, left>>

\* timeoutMs passes first.
Late(q) ==
  /\ req[q].state = "waiting"
  /\ req' = [req EXCEPT ![q].state = "late"]
  /\ UNCHANGED <<deploy, step, migration, up, running, left>>

Reply(q) ==
  /\ req[q].state \in {"true", "false", "late"}
  /\ req' = [req EXCEPT ![q] = NotAsking]
  /\ UNCHANGED <<deploy, step, migration, up, running, left>>

----------------------------------------------------------------------------
(* The environment *)

\* A container ends at any step and starts anew. What its connection did is
\* as for any lost connection.
Crash(c) ==
  /\ Spend("crash")
  /\ LoseConnection(c)
  /\ ghosts' = IF step[c] = "waiting" THEN ghosts + 1 ELSE ghosts
  /\ Go(c, "list")
  /\ pending' = [pending EXCEPT ![c] = {}]
  /\ failed' = [failed EXCEPT ![c] = FALSE]
  /\ running' = [running EXCEPT ![c] = NoCheck]
  /\ req' = [q \in Requests |-> IF req[q].at = c THEN NotAsking ELSE req[q]]
  /\ UNCHANGED <<deploy, up>>

Outage ==
  /\ IF up THEN Spend("outage") ELSE UNCHANGED left
  /\ up' = ~up
  /\ UNCHANGED <<deploy, step, migration, health>>

----------------------------------------------------------------------------

Migrate(c) ==
  \/ List(c) \/ Connect(c) \/ AskLock(c) \/ TakeLock(c) \/ ReadApplied(c)
  \/ Apply(c) \/ NothingLeft(c) \/ Commit(c) \/ Rollback(c) \/ Unlock(c)

Start(c) == Configure(c) \/ CheckDatabase(c) \/ StartJobs(c) \/ Listen(c)

Next ==
  \/ \E c \in Containers : Migrate(c)
  \/ \E c \in Containers : Start(c)
  \/ \E c \in Containers : WaitTimesOut(c) \/ FaultBefore(c) \/ FaultInFile(c) \/ FaultInUnlock(c) \/ Crash(c)
  \/ \E c \in Containers, q \in Requests : Ask(q, c)
  \/ \E c \in Containers, answer \in {"true", "false"} : Settle(c, answer)
  \/ \E q \in Requests : Late(q) \/ Reply(q)
  \/ Reap \/ GhostTakes \/ Outage

Spec == Init /\ [][Next]_vars

\* A process runs its next step, the database notices a lost connection and
\* gives a free lock to one that waits for long enough.
ContainersFairness ==
  /\ \A c \in Containers :
       /\ WF_vars(List(c)) /\ WF_vars(Connect(c)) /\ WF_vars(AskLock(c)) /\ SF_vars(TakeLock(c))
       /\ WF_vars(ReadApplied(c)) /\ WF_vars(Apply(c)) /\ WF_vars(NothingLeft(c))
       /\ WF_vars(Commit(c)) /\ WF_vars(Rollback(c)) /\ WF_vars(Unlock(c))
  /\ WF_vars(Reap) /\ WF_vars(GhostTakes)

FairSpec == Spec /\ ContainersFairness

----------------------------------------------------------------------------
(* Properties *)

\* Type correctness of the containers' and the database's state.
TypeOK ==
  /\ deploy \in Deploys
  /\ step \in [Containers -> Steps]
  /\ pending \in [Containers -> SUBSET AllFiles]
  /\ failed \in [Containers -> BOOLEAN]
  /\ tx \in [Containers -> AllFiles \cup {NoFile}]
  /\ lock \in Containers \cup {NoOne, Dead}
  /\ ghosts \in Nat
  /\ rows \subseteq AllFiles
  /\ applied \in [AllFiles -> Nat]
  /\ up \in BOOLEAN
  /\ running \in [Containers -> {NoCheck, "pending", "true", "false"}]
  /\ req \in [Requests -> [at : Containers \cup {NoOne},
                           state : {"idle", "waiting", "true", "false", "late"},
                           saw : SUBSET {"true", "false"}]]
  /\ left \in [{"crash", "fault", "outage", "wait"} -> Nat]

\* A file's statements are committed once, and exactly when its row is there,
\* whatever crashed, failed or was cut off in its commit (migrations.ts:22-25).
AppliedWithRow == \A f \in AllFiles : applied[f] = (IF f \in rows THEN 1 ELSE 0)

\* A run that may apply files holds the lock, and none of its files has a row:
\* no run is failed by the files of another (migrations.ts:30-33).
MigratesAlone ==
  \A c \in Containers : step[c] \in {"apply", "commit"} =>
    /\ lock = c
    /\ pending[c] \cap rows = {}

\* A container serves only once every file of its image has a row: a failed
\* migrate stops the deploy (migrate.ts:8-11), at whatever file, lock or
\* connection it failed.
ServesMigrated ==
  \A c \in Containers : step[c] \in Starting \cup {"serving"} => deploy.image[c] \subseteq rows

\* Migrations are applied whole, by one run at a time, and before anything is
\* served on them.
MigrationSafe == AppliedWithRow /\ MigratesAlone /\ ServesMigrated

\* An answer that is not late is what the database did while the request
\* waited: a check is shared by those who wait for it and never kept for the
\* next (health.ts:24-25).
AnswerIsOfTheWait ==
  \A q \in Requests : req[q].state \in {"true", "false"} => req[q].saw = {req[q].state}

\* A migrate ends, with the service's start or an exit, though the one before it
\* failed or was cut off: none relies on its wait's timeout (migrations.ts:298-306).
MigrateEnds == \A c \in Containers : (step[c] = "list") ~> (step[c] \notin Migrating)
=============================================================================
