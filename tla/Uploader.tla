------------------------------ MODULE Uploader ------------------------------
(***************************************************************************)
(* The bridge's uploader, bridge/internal/upload: the pending change of    *)
(* each source instance, the goroutine that uploads them one at a time,    *)
(* its sleep and its wake-ups, the retries, and the error counters.        *)
(*                                                                         *)
(* Around it stand the two neighbours it is correct or not with respect    *)
(* to: the watcher, which reports a written file once it settled           *)
(* (bridge/internal/watch, modelled here by what it hands to Add), and the *)
(* ingest route, which keeps a row for an upload and answers               *)
(* (platform/src/ingest.ts, the last row of the instance and the counters  *)
(* on its rows are kept).                                                  *)
(***************************************************************************)
EXTENDS Integers

CONSTANTS
  Instances,      \* the source instances (files) of the user's kits
  Contents,       \* the bytes a file may hold, told apart by their SHA-256
  Oversize,       \* the contents over the upload cap
  None,           \* no bytes: a file that does not exist, a SHA-256 not known
  BaseDelay,      \* delay of the first retry
  MaxDelay,       \* cap of the backoff
  MaxRetryAfter,  \* cap of a Retry-After
  Budget          \* bounds on what the environment does, see InitBudget

Counters == {"locate_failed", "read_failed", "upload_failed"}

ASSUME UploaderAssumption ==
  /\ None \notin Contents
  /\ Oversize \subseteq Contents
  /\ BaseDelay \in Nat /\ MaxDelay \in Nat /\ MaxRetryAfter \in Nat
  /\ Budget \in [writes : Nat, syncs : Nat, faults : Nat, restarts : Nat]

VARIABLES
  entries,        \* Uploader.entries: the state of each instance
  counts,         \* Uploader.counts: the errors since the last row
  loginRequired,  \* Uploader.loginRequired
  wake,           \* a signal waits in the channel Uploader.wake
  pc,             \* where Run is
  timer,          \* the time Run's timer fires at, -1 for none
  job,            \* the attempt Run makes
  res,            \* the attempt's result
  now,            \* the clock
  file,           \* the bytes of each file
  dirty,          \* the watcher has yet to report a write of the file
  held,           \* the bytes of the server's last row of the instance
  onRows,         \* the sum of the counters on the server's rows
  counted,        \* history: the errors this uploader has counted
  settled,        \* history: the bytes the last settled attempt read
  budget          \* what is left of Budget

uploader == <<entries, counts, loginRequired, wake>>
run == <<pc, timer, job, res>>
disk == <<file, dirty>>
server == <<held, onRows>>
history == <<counted, settled>>
vars == <<uploader, run, now, disk, server, history, budget>>

Bytes == Contents \cup {None}
NoEntry == [pending |-> FALSE, seq |-> 0, ifChanged |-> FALSE, failures |-> 0, due |-> 0,
            stopped |-> FALSE, err |-> "none", lastSHA |-> None]
NoCounts == [c \in Counters |-> 0]
NoResult == [action |-> "same", status |-> "none", counter |-> "none", retryAfter |-> 0]

(* Between attempts there is no job; its fields have values that no action *)
(* reads.                                                                  *)
NoJob(i) == [key |-> i, seq |-> 0, same |-> None, sha |-> None, counts |-> NoCounts]

(* A status whose row holds the counters the bridge sent: keptRow. *)
KeptRow == {"stored", "parse_error", "unsupported_flavor"}

(* The actions that end the pending upload: the seven of `action` but      *)
(* retry, stop and login.                                                  *)
Settling == {"taken", "refused", "gone", "same"}

LargerOf(a, b) == IF a > b THEN a ELSE b
SmallerOf(a, b) == IF a < b THEN a ELSE b

(* backoff: BaseDelay doubled per failure, capped, its upper half jittered. *)
Backoff(failures) ==
  {w \in 0..MaxDelay :
     LET d == SmallerOf(BaseDelay * 2^(failures - 1), MaxDelay)
     IN (d \div 2) <= w /\ w <= d}

Init ==
  /\ entries = [i \in Instances |-> NoEntry]
  /\ counts = NoCounts
  /\ loginRequired = FALSE
  /\ wake = FALSE
  /\ pc = "next" /\ timer = -1 /\ res = NoResult
  /\ job \in {NoJob(i) : i \in Instances}
  /\ now = 0
  /\ file \in [Instances -> Bytes]
  /\ dirty = [i \in Instances |-> file[i] # None]
  /\ held = [i \in Instances |-> None]
  /\ onRows = NoCounts
  /\ counted = NoCounts
  /\ settled = [i \in Instances |-> None]
  /\ budget = Budget

Spend(what) == budget[what] > 0 /\ budget' = [budget EXCEPT ![what] = @ - 1]

-----------------------------------------------------------------------------
(* The files and the watcher.                                              *)

(* The game writes, replaces or removes a file. *)
WriteFile(i, bytes) ==
  /\ Spend("writes")
  /\ bytes # file[i]
  /\ file' = [file EXCEPT ![i] = bytes]
  /\ dirty' = [dirty EXCEPT ![i] = TRUE]
  /\ UNCHANGED <<uploader, run, now, server, history>>

(* Mutants of Add: the change resets the wait; the change does not wake Run. *)
AddResettingWait(i, ifChanged) ==
  /\ entries' = [entries EXCEPT ![i].seq = @ + 1, ![i].pending = TRUE, ![i].ifChanged = ifChanged,
                              ![i].due = 0]
  /\ wake' = TRUE
  /\ UNCHANGED <<counts, loginRequired, counted, settled>>

AddWithoutSignal(i, ifChanged) ==
  /\ entries' = [entries EXCEPT ![i].seq = @ + 1, ![i].pending = TRUE, ![i].ifChanged = ifChanged]
  /\ UNCHANGED <<wake, counts, loginRequired, counted, settled>>

(* Add: the change becomes the pending one, in place of any other; the     *)
(* wait of the one it replaces stays.                                      *)
Add(i, ifChanged) ==
  /\ entries' = [entries EXCEPT ![i].seq = @ + 1, ![i].pending = TRUE, ![i].ifChanged = ifChanged]
  /\ wake' = TRUE
  /\ UNCHANGED <<counts, loginRequired, counted, settled>>

(* The debounce of a written file ran out: a file that is gone is dropped. *)
Report(i) ==
  /\ dirty[i]
  /\ dirty' = [dirty EXCEPT ![i] = FALSE]
  /\ \/ file[i] # None /\ Add(i, FALSE)
     \/ file[i] = None /\ UNCHANGED <<uploader, history>>
  /\ UNCHANGED <<run, now, file, server, budget>>

(* Resync reports an instance without a write of it: IfChanged. *)
ReportResync(i) ==
  /\ Spend("syncs")
  /\ ~dirty[i] /\ file[i] # None
  /\ Add(i, TRUE)
  /\ UNCHANGED <<run, now, disk, server>>

-----------------------------------------------------------------------------
(* The controller's calls.                                                 *)

(* CountError: the controller counts a game folder that was not found.     *)
CountError ==
  /\ Spend("faults")
  /\ counts' = [counts EXCEPT !["locate_failed"] = @ + 1]
  /\ counted' = [counted EXCEPT !["locate_failed"] = @ + 1]
  /\ UNCHANGED <<entries, loginRequired, wake, run, now, disk, server, settled>>

Resume ==
  /\ Spend("syncs")
  /\ loginRequired' = FALSE
  /\ entries' = [i \in Instances |->
                   IF entries[i].stopped THEN [entries[i] EXCEPT !.stopped = FALSE, !.due = 0]
                   ELSE entries[i]]
  /\ wake' = TRUE
  /\ UNCHANGED <<counts, run, now, disk, server, history>>

(* The bridge is restarted, or the user changed the server and changed it  *)
(* back: a new Uploader, and a watcher that reports every file.            *)
Restart ==
  /\ Spend("restarts")
  /\ entries' = [i \in Instances |-> NoEntry]
  /\ counts' = NoCounts /\ counted' = NoCounts /\ onRows' = NoCounts
  /\ loginRequired' = FALSE
  /\ wake' = FALSE
  /\ pc' = "next" /\ timer' = -1 /\ job' = NoJob(job.key) /\ res' = NoResult
  /\ dirty' = [i \in Instances |-> file[i] # None]
  /\ settled' = [i \in Instances |-> None]
  /\ UNCHANGED <<now, file, held>>

-----------------------------------------------------------------------------
(* Run: the goroutine that uploads.                                        *)

Ready == {i \in Instances : entries[i].pending /\ ~entries[i].stopped}
Earliest(i) == i \in Ready /\ \A k \in Ready : entries[i].due <= entries[k].due

Sleep(until) == pc' = "sleep" /\ timer' = until /\ UNCHANGED <<job, res>>

(* next finds nothing to upload, or only what is due later. *)
SleepUntilDue ==
  /\ pc = "next"
  /\ \/ (loginRequired \/ Ready = {}) /\ Sleep(-1)
     \/ /\ ~loginRequired
        /\ \E i \in Instances : Earliest(i) /\ entries[i].due > now /\ Sleep(entries[i].due)
  /\ UNCHANGED <<uploader, now, disk, server, history, budget>>

(* next hands out the job that is due first, with the counters as they are. *)
StartJob(i) ==
  /\ pc = "next"
  /\ ~loginRequired /\ Earliest(i) /\ entries[i].due <= now
  /\ job' = [key |-> i, seq |-> entries[i].seq, counts |-> counts, sha |-> None,
             same |-> IF entries[i].ifChanged THEN entries[i].lastSHA ELSE None]
  /\ pc' = "read"
  /\ UNCHANGED <<uploader, timer, res, now, disk, server, history, budget>>

(* The select of Run: a signal, or the timer. *)
Wake ==
  /\ pc = "sleep"
  /\ \/ wake /\ wake' = FALSE
     \/ timer # -1 /\ timer <= now /\ UNCHANGED wake
  /\ pc' = "next" /\ timer' = -1
  /\ UNCHANGED <<entries, counts, loginRequired, job, res, now, disk, server, history, budget>>

Result(action, status, counter, retryAfter) ==
  [action |-> action, status |-> status, counter |-> counter, retryAfter |-> retryAfter]

(* attempt, up to the request: the file is read once. *)
ReadFile ==
  /\ pc = "read"
  /\ LET bytes == file[job.key] IN
     /\ job' = [job EXCEPT !.sha = bytes]
     /\ \/ /\ Spend("faults")
           /\ pc' = "finish" /\ res' = Result("retry", "none", "read_failed", 0)
        \/ /\ UNCHANGED budget
           /\ \/ bytes = None /\ pc' = "finish" /\ res' = Result("gone", "none", "none", 0)
              \/ bytes \in Oversize /\ pc' = "finish" /\ res' = Result("refused", "too_large", "none", 0)
              \/ /\ bytes \in Contents \ Oversize /\ bytes = job.same
                 /\ pc' = "finish" /\ res' = Result("same", "none", "none", 0)
              \/ /\ bytes \in Contents \ Oversize /\ bytes # job.same
                 /\ pc' = "send" /\ UNCHANGED res
  /\ UNCHANGED <<uploader, timer, now, disk, server, history>>

(* What the ingest route does with an upload: it keeps a row for bytes     *)
(* that are not its last row's, and nothing otherwise.                     *)
KeepRow(status) ==
  IF status \in KeptRow
  THEN /\ held[job.key] # job.sha
       /\ held' = [held EXCEPT ![job.key] = job.sha]
       /\ onRows' = [c \in Counters |-> onRows[c] + job.counts[c]]
  ELSE /\ status = "duplicate" => held[job.key] = job.sha
       /\ UNCHANGED server

(* classify: what the bridge makes of an answer. *)
Classify(status, retryAfter) ==
  CASE status \in {"stored", "duplicate"} -> Result("taken", status, "none", 0)
    [] status \in {"parse_error", "unsupported_flavor", "too_large", "bad_request"} ->
         Result("refused", status, "none", 0)
    [] status = "device_limit" -> Result("stop", status, "none", 0)
    [] status = "rate_limited" -> Result("retry", status, "none", retryAfter)
    [] status = "unauthorized" -> Result("login", "none", "none", 0)
    [] OTHER -> Result("retry", "none", "upload_failed", 0)

Final == {"stored", "duplicate", "parse_error", "unsupported_flavor", "bad_request",
          "device_limit", "unauthorized"}

(* attempt, from the request on: the server handles it and answers; or it  *)
(* fails, or is rate limited; or no answer arrives, whether or not the     *)
(* server handled the request.                                             *)
Exchange ==
  /\ pc = "send"
  /\ pc' = "finish"
  /\ \/ \E status \in Final :
          KeepRow(status) /\ res' = Classify(status, 0) /\ UNCHANGED budget
     \/ \E status \in {"rate_limited", "error"}, after \in {0, MaxRetryAfter} :
          KeepRow(status) /\ res' = Classify(status, after) /\ Spend("faults")
     \/ \E status \in KeptRow :
          KeepRow(status) /\ res' = Classify("lost", 0) /\ Spend("faults")
  /\ UNCHANGED <<uploader, timer, job, now, disk, history>>

(* A mutant of AfterAttempt: it does not look for a newer change. *)
AfterAttemptForAnySeq(e, w) ==
  IF res.action \in Settling
  THEN [e EXCEPT !.failures = 0, !.due = 0, !.pending = FALSE,
                 !.lastSHA = IF res.action = "taken" THEN job.sha ELSE @]
  ELSE [e EXCEPT !.failures = @ + 1, !.due = now + w]

(* What finish makes of the instance's entry; w is the jittered backoff. *)
AfterAttempt(e, w) ==
  CASE res.action \in Settling ->
         [e EXCEPT !.failures = 0, !.due = 0, !.pending = @ /\ e.seq # job.seq,
                   !.err = CASE res.action = "taken" -> "none"
                             [] res.action = "refused" -> "refused"
                             [] OTHER -> @,
                   !.lastSHA = IF res.action = "taken" THEN job.sha ELSE @]
    [] res.action = "retry" ->
         [e EXCEPT !.failures = @ + 1, !.due = now + LargerOf(w, res.retryAfter),
                   !.err = IF res.status = "rate_limited" THEN @ ELSE "retrying"]
    [] res.action = "stop" -> [e EXCEPT !.stopped = TRUE, !.failures = 0, !.err = "limit"]
    [] res.action = "login" -> e

SentOnRow(c) == IF res.status \in KeptRow THEN job.counts[c] ELSE 0
Counted(c) == IF res.counter = c THEN 1 ELSE 0

Finish ==
  /\ pc = "finish"
  /\ LET i == job.key IN
     /\ \E w \in Backoff(entries[i].failures + 1) :
          entries' = [entries EXCEPT ![i] = AfterAttempt(@, w)]
     /\ settled' = [settled EXCEPT ![i] = IF res.action \in Settling THEN job.sha ELSE @]
  /\ counts' = [c \in Counters |-> counts[c] - SentOnRow(c) + Counted(c)]
  /\ counted' = [c \in Counters |-> counted[c] + Counted(c)]
  /\ loginRequired' = (loginRequired \/ res.action = "login")
  /\ pc' = "next" /\ job' = NoJob(job.key) /\ res' = NoResult
  /\ UNCHANGED <<wake, timer, now, disk, server, budget>>

(* The clock. It matters only while some instance waits. *)
Tick ==
  /\ \E i \in Instances : entries[i].due > now
  /\ now' = now + 1
  /\ UNCHANGED <<uploader, run, disk, server, history, budget>>

-----------------------------------------------------------------------------
RunStep == SleepUntilDue \/ Wake \/ (\E i \in Instances : StartJob(i)) \/ ReadFile \/ Exchange \/ Finish

Environment ==
  \/ \E i \in Instances : \/ \E bytes \in Bytes : WriteFile(i, bytes)
                          \/ ReportResync(i)
  \/ CountError
  \/ Resume
  \/ Restart

Next == RunStep \/ Tick \/ Environment \/ (\E i \in Instances : Report(i))

Spec == Init /\ [][Next]_vars

(* Run is one goroutine that the runtime schedules: each of its steps      *)
(* happens once it can. Time passes, and the watcher's debounce timers     *)
(* fire. Nothing of the user, the game or the network is fair.             *)
Fairness ==
  /\ WF_vars(RunStep)
  /\ WF_vars(Tick)
  /\ \A i \in Instances : WF_vars(Report(i))

FairSpec == Spec /\ Fairness

-----------------------------------------------------------------------------
EntryType ==
  [pending : BOOLEAN, seq : Nat, ifChanged : BOOLEAN, failures : Nat, due : Nat, stopped : BOOLEAN,
   err : {"none", "refused", "retrying", "limit"}, lastSHA : Bytes]
JobType == [key : Instances, seq : Nat, same : Bytes, sha : Bytes, counts : [Counters -> Nat]]
ResultType ==
  [action : Settling \cup {"retry", "stop", "login"},
   status : {"none", "rate_limited", "stored", "duplicate", "parse_error", "unsupported_flavor",
             "too_large", "bad_request", "device_limit"},
   counter : Counters \cup {"none"}, retryAfter : Nat]

BudgetType == [writes : Nat, syncs : Nat, faults : Nat, restarts : Nat]

UploaderTypeOK ==
  /\ entries \in [Instances -> EntryType]
  /\ counts \in [Counters -> Nat]
  /\ loginRequired \in BOOLEAN /\ wake \in BOOLEAN
RunTypeOK ==
  /\ pc \in {"next", "sleep", "read", "send", "finish"}
  /\ timer \in Nat \cup {-1}
  /\ job \in JobType /\ res \in ResultType
OutsideTypeOK ==
  /\ now \in Nat
  /\ file \in [Instances -> Bytes] /\ dirty \in [Instances -> BOOLEAN]
  /\ held \in [Instances -> Bytes] /\ onRows \in [Counters -> Nat]
HistoryTypeOK ==
  /\ counted \in [Counters -> Nat]
  /\ settled \in [Instances -> Bytes]

TypeOK == UploaderTypeOK /\ RunTypeOK /\ OutsideTypeOK /\ HistoryTypeOK /\ budget \in BudgetType

(* While Run sleeps and no signal waits for it, its timer fires no later   *)
(* than the time any instance it may upload is due: no call of Add, Resume *)
(* or finish between next's scan and Run's select is slept through.        *)
NoLostWakeup ==
  pc = "sleep" /\ ~wake /\ ~loginRequired =>
    \A i \in Ready : timer # -1 /\ timer <= entries[i].due

(* At rest, the uploader has seen the file as it is: once no upload of an  *)
(* instance is pending and the watcher owes no report, the last attempt    *)
(* that settled read exactly the bytes on disk, however the writes and the *)
(* attempts interleaved.                                                   *)
LastWriteRead ==
  \A i \in Instances :
    ~entries[i].pending /\ ~dirty[i] /\ entries[i].seq > 0 /\ file[i] # None => settled[i] = file[i]

(* Every error the bridge counted is still counted, or is on a row of the  *)
(* server: an error counted while an upload is in flight is not lost when  *)
(* that upload's row takes the counters.                                   *)
NoErrorLost == \A c \in Counters : counted[c] <= counts[c] + onRows[c]

(* Nothing the uploader must act on is lost between its goroutines.        *)
NothingLost == LastWriteRead /\ NoErrorLost /\ NoLostWakeup

(* The wait of an instance is cut short only by the end of its own attempt *)
(* or by Resume for a stopped instance: a new change, a sync or another    *)
(* instance's upload does not make the bridge retry earlier than a backoff *)
(* or the server's Retry-After allows.                                     *)
WaitKept ==
  [][\A i \in Instances : entries'[i].due < entries[i].due =>
       \/ pc = "finish" /\ job.key = i
       \/ entries[i].stopped
       \/ entries'[i].seq = 0]_vars

(* A pending change does not stay pending for ever, unless the instance is *)
(* stopped by the device limit or the login has ended.                     *)
PendingSettles ==
  \A i \in Instances :
    entries[i].pending ~> (~entries[i].pending \/ entries[i].stopped \/ loginRequired)
=============================================================================
