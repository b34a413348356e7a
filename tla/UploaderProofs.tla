--------------------------- MODULE UploaderProofs ---------------------------
(* The safety of Uploader for every set of instances, every delay and every *)
(* budget. The invariants of Uploader are not inductive: what the attempt   *)
(* in flight carries (its seq, its bytes, its counters) has to be related   *)
(* to what the uploader holds.                                              *)
EXTENDS Uploader, TLAPS

-----------------------------------------------------------------------------
(* The counters an attempt carries are among those still counted, so what  *)
(* a row takes away is there to be taken (send.go and finish).             *)
JobCountsHeld == \A c \in Counters : job.counts[c] <= counts[c]

(* The attempt is of a change that is still pending, perhaps superseded.   *)
JobPending ==
  pc \in {"read", "send", "finish"} =>
    entries[job.key].pending /\ job.seq <= entries[job.key].seq

(* The bytes of an attempt that no newer change supersedes are the file's. *)
JobFresh ==
  pc \in {"send", "finish"} /\ job.seq = entries[job.key].seq
    /\ ~dirty[job.key] /\ file[job.key] # None => job.sha = file[job.key]

(* A row the server answered for holds the attempt's counters beside every *)
(* error counted.                                                          *)
AnsweredRowHoldsCounts ==
  pc = "finish" /\ res.status \in KeptRow =>
    \A c \in Counters : counted[c] <= counts[c] - job.counts[c] + onRows[c]

IInv ==
  /\ TypeOK
  /\ JobCountsHeld
  /\ JobPending /\ JobFresh /\ LastWriteRead
  /\ AnsweredRowHoldsCounts /\ NoErrorLost
  /\ NoLostWakeup

-----------------------------------------------------------------------------
(* The finite tables.                                                      *)

LEMMA NoEntryType == NoEntry \in EntryType
  BY UploaderAssumption DEF NoEntry, EntryType, Bytes

LEMMA NoCountsType == NoCounts \in [Counters -> Nat]
  BY DEF NoCounts

LEMMA NoJobType == ASSUME NEW i \in Instances PROVE NoJob(i) \in JobType
  BY NoCountsType DEF NoJob, JobType, Bytes

LEMMA NoResultType == NoResult \in ResultType
  BY DEF NoResult, ResultType, Settling, Counters

(* An answer's result is a result, and settles nothing it should not.      *)
LEMMA ClassifyType ==
  ASSUME NEW status \in Final \cup {"rate_limited", "error", "lost"} \cup KeptRow, NEW after \in Nat
  PROVE  Classify(status, after) \in ResultType
  BY DEF Classify, Result, ResultType, Settling, Counters, Final, KeptRow

(* A result with the status of a kept row is of an answer with that status. *)
LEMMA ClassifyKept ==
  ASSUME NEW status \in Final \cup {"rate_limited", "error", "lost"} \cup KeptRow, NEW after \in Nat,
         Classify(status, after).status \in KeptRow
  PROVE  status \in KeptRow
  BY DEF Classify, Result, KeptRow, Final

LEMMA BackoffType == ASSUME NEW n, NEW w \in Backoff(n) PROVE w \in Nat
  BY UploaderAssumption DEF Backoff

(* What finish makes of an entry is an entry, with the same change, that   *)
(* stays pending unless the attempt settled this very change.              *)
LEMMA AfterAttemptType ==
  ASSUME TypeOK, NEW e \in EntryType, NEW w \in Nat
  PROVE  /\ AfterAttempt(e, w) \in EntryType
         /\ AfterAttempt(e, w).seq = e.seq
         /\ e.pending => \/ AfterAttempt(e, w).pending
                         \/ res.action \in Settling /\ e.seq = job.seq
         /\ AfterAttempt(e, w).pending => e.pending \/ e.seq # job.seq
  <1>1. job \in JobType /\ res \in ResultType /\ now \in Nat
    BY DEF TypeOK, RunTypeOK, OutsideTypeOK
  <1>2. CASE res.action \in Settling
    BY <1>1, <1>2 DEF AfterAttempt, EntryType, JobType, ResultType, Settling
  <1>3. CASE res.action = "retry"
    <2> DEFINE err == IF res.status = "rate_limited" THEN e.err ELSE "retrying"
               due == now + LargerOf(w, res.retryAfter)
               failures == e.failures + 1
               retried == [e EXCEPT !.failures = failures, !.due = due, !.err = err]
    <2>1. due \in Nat
      BY <1>1 DEF LargerOf, ResultType
    <2>2. err \in {"none", "refused", "retrying", "limit"}
      BY DEF EntryType
    <2>3. failures \in Nat
      BY DEF EntryType
    <2> HIDE DEF due, err, failures
    <2>4. retried \in EntryType /\ retried.seq = e.seq /\ retried.pending = e.pending
      BY <2>1, <2>2, <2>3 DEF EntryType
    <2>5. AfterAttempt(e, w) = retried
      BY <1>3, res.action \notin Settling DEF AfterAttempt, Settling, due, err, failures
    <2>6. QED
      BY <2>4, <2>5
  <1>4. CASE res.action \in {"stop", "login"}
    BY <1>1, <1>4 DEF AfterAttempt, EntryType, JobType, ResultType, Settling
  <1>5. QED
    BY <1>1, <1>2, <1>3, <1>4 DEF ResultType

-----------------------------------------------------------------------------
(* Every step keeps the types.                                             *)

LEMMA SpendType ==
  ASSUME budget \in BudgetType, NEW what \in {"writes", "syncs", "faults", "restarts"}, Spend(what)
  PROVE  budget' \in BudgetType
  BY DEF Spend, BudgetType

LEMMA SumType ==
  ASSUME NEW f \in [Counters -> Nat], NEW g \in [Counters -> Nat]
  PROVE  [c \in Counters |-> f[c] + g[c]] \in [Counters -> Nat]
  OBVIOUS

LEMMA AddType ==
  ASSUME TypeOK, NEW i \in Instances, NEW ifChanged \in BOOLEAN, Add(i, ifChanged)
  PROVE  UploaderTypeOK' /\ HistoryTypeOK'
  <1> DEFINE seq == entries[i].seq + 1
             added == [entries[i] EXCEPT !.seq = seq, !.pending = TRUE, !.ifChanged = ifChanged]
  <1>1. entries[i] \in EntryType /\ entries \in [Instances -> EntryType]
    BY DEF TypeOK, UploaderTypeOK
  <1>2. seq \in Nat
    BY <1>1 DEF EntryType
  <1>3. entries' = [entries EXCEPT ![i] = added]
    BY <1>1 DEF Add
  <1> HIDE DEF seq
  <1>4. added \in EntryType
    BY <1>1, <1>2 DEF EntryType
  <1> HIDE DEF added
  <1>5. entries' \in [Instances -> EntryType]
    BY <1>1, <1>3, <1>4
  <1>6. QED
    BY <1>5 DEF Add, TypeOK, UploaderTypeOK, HistoryTypeOK

LEMMA TypeInit == Init => TypeOK
  <1> SUFFICES ASSUME Init PROVE TypeOK
    OBVIOUS
  <1>1. UploaderTypeOK
    BY NoEntryType, NoCountsType DEF Init, UploaderTypeOK
  <1>2. RunTypeOK
    BY NoJobType, NoResultType DEF Init, RunTypeOK
  <1>3. OutsideTypeOK
    BY NoCountsType DEF Init, OutsideTypeOK, Bytes
  <1>4. HistoryTypeOK
    BY NoCountsType DEF Init, HistoryTypeOK, Bytes
  <1>5. QED
    BY <1>1, <1>2, <1>3, <1>4, UploaderAssumption DEF Init, TypeOK, BudgetType

LEMMA TypeEnvironment ==
  ASSUME TypeOK, Environment \/ Tick \/ (\E i \in Instances : Report(i))
  PROVE  TypeOK'
  <1> USE DEF TypeOK
  <1>1. ASSUME NEW i \in Instances, NEW bytes \in Bytes, WriteFile(i, bytes) PROVE TypeOK'
    BY <1>1, SpendType
    DEF WriteFile, UploaderTypeOK, RunTypeOK, OutsideTypeOK, HistoryTypeOK, uploader, run, server, history
  <1>2. ASSUME NEW i \in Instances, Report(i) PROVE TypeOK'
    <2>1. UploaderTypeOK' /\ HistoryTypeOK'
      BY <1>2, AddType DEF Report, UploaderTypeOK, HistoryTypeOK, uploader, history
    <2>2. QED
      BY <1>2, <2>1 DEF Report, RunTypeOK, OutsideTypeOK, run, server
  <1>3. ASSUME NEW i \in Instances, ReportResync(i) PROVE TypeOK'
    <2>1. UploaderTypeOK' /\ HistoryTypeOK'
      BY <1>3, AddType DEF ReportResync
    <2>2. QED
      BY <1>3, <2>1, SpendType DEF ReportResync, RunTypeOK, OutsideTypeOK, run, disk, server
  <1>4. CASE CountError
    BY <1>4, SpendType
    DEF CountError, Counters, UploaderTypeOK, RunTypeOK, OutsideTypeOK, HistoryTypeOK, run, disk, server
  <1>5. CASE Resume
    <2>1. \A e \in EntryType : [e EXCEPT !.stopped = FALSE, !.due = 0] \in EntryType
      BY DEF EntryType
    <2>2. UploaderTypeOK'
      BY <1>5, <2>1 DEF Resume, UploaderTypeOK
    <2>3. QED
      BY <1>5, <2>2, SpendType
      DEF Resume, RunTypeOK, OutsideTypeOK, HistoryTypeOK, run, disk, server, history
  <1>6. CASE Restart
    <2>1. job.key \in Instances
      BY DEF RunTypeOK, JobType
    <2>2. UploaderTypeOK'
      BY <1>6, NoEntryType, NoCountsType DEF Restart, UploaderTypeOK
    <2>3. RunTypeOK'
      BY <1>6, <2>1, NoJobType, NoResultType DEF Restart, RunTypeOK
    <2>4. OutsideTypeOK' /\ HistoryTypeOK'
      BY <1>6, NoCountsType DEF Restart, OutsideTypeOK, HistoryTypeOK, Bytes
    <2>5. QED
      BY <1>6, <2>2, <2>3, <2>4, SpendType DEF Restart
  <1>7. CASE Tick
    BY <1>7
    DEF Tick, UploaderTypeOK, RunTypeOK, OutsideTypeOK, HistoryTypeOK, uploader, run, disk, server, history
  <1>8. QED
    BY <1>1, <1>2, <1>3, <1>4, <1>5, <1>6, <1>7 DEF Environment

LEMMA TypeRun ==
  ASSUME TypeOK, JobCountsHeld, RunStep
  PROVE  TypeOK'
  <1> USE DEF TypeOK
  <1>1. CASE SleepUntilDue
    <2>1. \A i \in Instances : entries[i].due \in Nat
      BY DEF UploaderTypeOK, EntryType
    <2>2. RunTypeOK'
      BY <1>1, <2>1 DEF SleepUntilDue, Sleep, Earliest, Ready, RunTypeOK
    <2>3. QED
      BY <1>1, <2>2
      DEF SleepUntilDue, UploaderTypeOK, OutsideTypeOK, HistoryTypeOK, uploader, disk, server, history
  <1>2. ASSUME NEW i \in Instances, StartJob(i) PROVE TypeOK'
    <2>1. entries[i] \in EntryType /\ counts \in [Counters -> Nat]
      BY DEF UploaderTypeOK
    <2>2. job' \in JobType
      BY <1>2, <2>1 DEF StartJob, EntryType, JobType, Bytes
    <2>3. QED
      BY <1>2, <2>2
      DEF StartJob, UploaderTypeOK, RunTypeOK, OutsideTypeOK, HistoryTypeOK, uploader, disk, server, history
  <1>3. CASE Wake
    BY <1>3
    DEF Wake, UploaderTypeOK, RunTypeOK, OutsideTypeOK, HistoryTypeOK, disk, server, history
  <1>4. CASE ReadFile
    <2>1. job \in JobType /\ file[job.key] \in Bytes
      BY DEF RunTypeOK, JobType, OutsideTypeOK
    <2>2. job' \in JobType
      BY <1>4, <2>1 DEF ReadFile, JobType
    <2>3. res' \in ResultType
      BY <1>4 DEF ReadFile, Result, ResultType, Settling, Counters, RunTypeOK
    <2>4. budget' \in BudgetType
      BY <1>4, SpendType DEF ReadFile
    <2>5. QED
      BY <1>4, <2>2, <2>3, <2>4
      DEF ReadFile, UploaderTypeOK, RunTypeOK, OutsideTypeOK, HistoryTypeOK, uploader, disk, server, history
  <1>5. CASE Exchange
    <2>1. PICK status \in Final \cup {"rate_limited", "error"} \cup KeptRow,
               answer \in Final \cup {"rate_limited", "error", "lost"}, after \in Nat :
            KeepRow(status) /\ res' = Classify(answer, after)
      BY <1>5, UploaderAssumption DEF Exchange
    <2>2. res' \in ResultType
      BY <2>1, ClassifyType, UploaderAssumption
    <2>3. job.key \in Instances /\ job.sha \in Bytes /\ job.counts \in [Counters -> Nat]
      BY DEF RunTypeOK, JobType
    <2>4. held' \in [Instances -> Bytes] /\ onRows' \in [Counters -> Nat]
      <3>1. CASE status \in KeptRow
        BY <2>1, <2>3, <3>1, SumType DEF KeepRow, OutsideTypeOK
      <3>2. CASE status \notin KeptRow
        BY <2>1, <3>2 DEF KeepRow, OutsideTypeOK, server
      <3>3. QED
        BY <3>1, <3>2
    <2>5. budget' \in BudgetType
      BY <1>5, SpendType DEF Exchange
    <2>6. QED
      BY <1>5, <2>2, <2>4, <2>5
      DEF Exchange, UploaderTypeOK, RunTypeOK, OutsideTypeOK, HistoryTypeOK, uploader, disk, history
  <1>6. CASE Finish
    <2>1. job.key \in Instances /\ job.sha \in Bytes /\ job.counts \in [Counters -> Nat]
      BY DEF RunTypeOK, JobType
    <2>2. entries' \in [Instances -> EntryType]
      BY <1>6, <2>1, BackoffType, AfterAttemptType DEF Finish, UploaderTypeOK
    <2>3. counts' \in [Counters -> Nat]
      <3>1. \A c \in Counters : counts[c] - SentOnRow(c) + Counted(c) \in Nat
        BY <2>1 DEF UploaderTypeOK, JobCountsHeld, SentOnRow, Counted
      <3>2. QED
        BY <1>6, <3>1 DEF Finish
    <2>4. HistoryTypeOK'
      BY <1>6, <2>1 DEF Finish, HistoryTypeOK, Counted
    <2>5. RunTypeOK'
      BY <1>6, <2>1, NoJobType, NoResultType DEF Finish, RunTypeOK
    <2>6. QED
      BY <1>6, <2>2, <2>3, <2>4, <2>5 DEF Finish, UploaderTypeOK, OutsideTypeOK, disk, server
  <1>7. QED
    BY <1>1, <1>2, <1>3, <1>4, <1>5, <1>6 DEF RunStep

-----------------------------------------------------------------------------
(* Every step keeps the counters.                                          *)

CountsInv == JobCountsHeld /\ AnsweredRowHoldsCounts /\ NoErrorLost

LEMMA CountsStep ==
  ASSUME TypeOK, CountsInv, [Next]_vars
  PROVE  CountsInv'
  <1> USE DEF CountsInv, JobCountsHeld, AnsweredRowHoldsCounts, NoErrorLost
  <1>1. /\ counts \in [Counters -> Nat] /\ counted \in [Counters -> Nat]
        /\ onRows \in [Counters -> Nat] /\ job.counts \in [Counters -> Nat]
    BY DEF TypeOK, UploaderTypeOK, RunTypeOK, OutsideTypeOK, HistoryTypeOK, JobType
  <1>2. ASSUME UNCHANGED <<counts, counted, onRows, pc, job, res>> PROVE CountsInv'
    BY <1>2
  <1>3. CASE CountError
    BY <1>1, <1>3 DEF CountError, run, server, Counters
  <1>4. CASE Restart
    BY <1>4 DEF Restart, NoCounts, NoJob
  <1>5. CASE SleepUntilDue \/ Wake
    BY <1>5 DEF SleepUntilDue, Sleep, Wake, uploader, server, history
  <1>6. ASSUME NEW i \in Instances, StartJob(i) PROVE CountsInv'
    BY <1>1, <1>6 DEF StartJob, uploader, server, history
  <1>7. CASE ReadFile
    <2>1. res'.status \notin KeptRow \/ pc' # "finish"
      BY <1>7 DEF ReadFile, Result, KeptRow
    <2>2. job'.counts = job.counts
      BY <1>7 DEF ReadFile, TypeOK, RunTypeOK, JobType
    <2>3. QED
      BY <1>7, <2>1, <2>2 DEF ReadFile, uploader, server, history
  <1>8. CASE Exchange
    <2>1. UNCHANGED <<counts, counted, job>>
      BY <1>8 DEF Exchange, uploader, history
    <2>2. PICK status \in Final \cup {"rate_limited", "error"} \cup KeptRow,
               answer \in Final \cup {"rate_limited", "error", "lost"}, after \in Nat :
            KeepRow(status) /\ res' = Classify(answer, after) /\ answer \in {status, "lost"}
      BY <1>8, UploaderAssumption DEF Exchange
    <2>3. CASE status \in KeptRow
      <3>1. \A c \in Counters : onRows'[c] = onRows[c] + job.counts[c]
        BY <2>2, <2>3 DEF KeepRow
      <3>2. ASSUME NEW c \in Counters
            PROVE  /\ counted'[c] <= counts'[c] - job'.counts[c] + onRows'[c]
                   /\ counted'[c] <= counts'[c] + onRows'[c]
        <4> DEFINE sent == job.counts[c]
        <4>1. /\ counted[c] \in Nat /\ counts[c] \in Nat /\ onRows[c] \in Nat /\ sent \in Nat
              /\ counted[c] <= counts[c] + onRows[c]
          BY <1>1
        <4>2. /\ counted'[c] = counted[c] /\ counts'[c] = counts[c] /\ job'.counts[c] = sent
              /\ onRows'[c] = onRows[c] + sent
          BY <2>1, <3>1
        <4> HIDE DEF sent
        <4>3. QED
          BY <4>1, <4>2
      <3>3. QED
        BY <2>1, <3>2
    <2>4. CASE status \notin KeptRow
      <3>1. res'.status \notin KeptRow
        BY <2>2, <2>4, ClassifyKept, UploaderAssumption DEF KeptRow
      <3>2. UNCHANGED onRows
        BY <2>2, <2>4 DEF KeepRow, server
      <3>3. QED
        BY <2>1, <3>1, <3>2
    <2>5. QED
      BY <2>3, <2>4
  <1>9. CASE Finish
    <2>1. \A c \in Counters : Counted(c) \in Nat /\ SentOnRow(c) \in {0, job.counts[c]}
      BY DEF Counted, SentOnRow
    <2>2. ASSUME NEW c \in Counters PROVE counted[c] <= counts[c] - SentOnRow(c) + onRows[c]
      <3>1. counts[c] \in Nat /\ onRows[c] \in Nat /\ counted[c] \in Nat
        BY <1>1
      <3>2. CASE res.status \in KeptRow
        BY <1>9, <3>1, <3>2 DEF Finish, SentOnRow
      <3>3. CASE res.status \notin KeptRow
        BY <3>1, <3>3 DEF SentOnRow
      <3>4. QED
        BY <3>2, <3>3
    <2>3. /\ counts' = [c \in Counters |-> counts[c] - SentOnRow(c) + Counted(c)]
          /\ counted' = [c \in Counters |-> counted[c] + Counted(c)]
          /\ onRows' = onRows /\ pc' = "next" /\ job' = NoJob(job.key)
      BY <1>9 DEF Finish, server
    <2>4. ASSUME NEW c \in Counters PROVE counted'[c] <= counts'[c] + onRows'[c]
      <3> DEFINE sent == SentOnRow(c)
                 more == Counted(c)
      <3>1. /\ counted[c] \in Nat /\ counts[c] \in Nat /\ onRows[c] \in Nat
            /\ more \in Nat /\ sent \in Nat
        BY <1>1, <2>1
      <3>2. /\ counted'[c] = counted[c] + more /\ counts'[c] = counts[c] - sent + more
            /\ onRows'[c] = onRows[c] /\ counted[c] <= counts[c] - sent + onRows[c]
        BY <2>2, <2>3
      <3> HIDE DEF sent, more
      <3>3. QED
        BY <3>1, <3>2
    <2>5. JobCountsHeld'
      <3>1. \A c \in Counters : 0 <= counts[c] - SentOnRow(c) + Counted(c)
        BY <1>1 DEF SentOnRow, Counted
      <3>2. \A c \in Counters : counts'[c] = counts[c] - SentOnRow(c) + Counted(c)
        BY <2>3
      <3>3. \A c \in Counters : job'.counts[c] = 0
        BY <2>3 DEF NoJob, NoCounts
      <3>4. QED
        BY <3>1, <3>2, <3>3
    <2>6. QED
      BY <2>3, <2>4, <2>5
  <1>10. QED
    <2>1. ASSUME NEW i \in Instances, NEW bytes \in Bytes, WriteFile(i, bytes) PROVE CountsInv'
      BY <1>2, <2>1 DEF WriteFile, uploader, run, server, history
    <2>2. ASSUME NEW i \in Instances, Report(i) \/ ReportResync(i) PROVE CountsInv'
      BY <1>2, <2>2 DEF Report, ReportResync, Add, uploader, run, server, history
    <2>3. CASE Resume \/ Tick
      BY <1>2, <2>3 DEF Resume, Tick, uploader, run, server, history
    <2>4. CASE UNCHANGED vars
      BY <1>2, <2>4 DEF vars, uploader, run, server, history
    <2>5. QED
      BY <1>3, <1>4, <1>5, <1>6, <1>7, <1>8, <1>9, <2>1, <2>2, <2>3, <2>4
      DEF Next, RunStep, Environment

-----------------------------------------------------------------------------
(* Every step keeps what the attempt in flight has to do with the pending  *)
(* change and with the file.                                               *)

ChangeInv == JobPending /\ JobFresh /\ LastWriteRead

LEMMA ChangeStep ==
  ASSUME TypeOK, ChangeInv, [Next]_vars
  PROVE  ChangeInv'
  <1> USE DEF ChangeInv, JobPending, JobFresh, LastWriteRead
  <1>1. /\ entries \in [Instances -> EntryType] /\ dirty \in [Instances -> BOOLEAN]
        /\ file \in [Instances -> Bytes] /\ settled \in [Instances -> Bytes]
        /\ job \in JobType
        /\ job.key \in Instances /\ job.seq \in Nat
        /\ \A i \in Instances : entries[i] \in EntryType /\ entries[i].seq \in Nat
    BY DEF TypeOK, UploaderTypeOK, RunTypeOK, OutsideTypeOK, HistoryTypeOK, JobType, EntryType
  <1>2. ASSUME UNCHANGED <<entries, dirty, file, settled, pc, job>> PROVE ChangeInv'
    BY <1>2
  <1>3. ASSUME NEW i \in Instances, NEW bytes \in Bytes, WriteFile(i, bytes) PROVE ChangeInv'
    BY <1>1, <1>3 DEF WriteFile, uploader, run, history
  <1>4. ASSUME NEW i \in Instances, NEW ifChanged, Add(i, ifChanged),
               UNCHANGED <<file, settled, pc, job>>,
               dirty' = dirty \/ dirty' = [dirty EXCEPT ![i] = FALSE]
        PROVE  ChangeInv'
    <2>1. /\ entries'[i].pending /\ entries'[i].seq = entries[i].seq + 1
          /\ \A k \in Instances \ {i} : entries'[k] = entries[k] /\ dirty'[k] = dirty[k]
      BY <1>1, <1>4 DEF Add, EntryType
    <2>2. QED
      BY <1>1, <1>4, <2>1
  <1>5. ASSUME NEW i \in Instances, Report(i) PROVE ChangeInv'
    <2>1. CASE Add(i, FALSE)
      BY <1>4, <1>5, <2>1 DEF Report, run, Add
    <2>2. CASE file[i] = None
      BY <1>1, <1>5, <2>2 DEF Report, Add, run, uploader, history
    <2>3. QED
      BY <1>5, <2>1, <2>2 DEF Report
  <1>6. ASSUME NEW i \in Instances, ReportResync(i) PROVE ChangeInv'
    BY <1>4, <1>6 DEF ReportResync, run, disk, Add
  <1>7. CASE Resume
    <2>1. \A i \in Instances : /\ entries'[i].pending = entries[i].pending
                               /\ entries'[i].seq = entries[i].seq
      BY <1>1, <1>7 DEF Resume, EntryType
    <2>2. QED
      BY <1>1, <1>7, <2>1 DEF Resume, run, disk, history
  <1>8. CASE Restart
    BY <1>8 DEF Restart, NoEntry, NoJob
  <1>9. CASE SleepUntilDue \/ Wake
    BY <1>9 DEF SleepUntilDue, Sleep, Wake, uploader, disk, history
  <1>10. ASSUME NEW i \in Instances, StartJob(i) PROVE ChangeInv'
    BY <1>1, <1>10 DEF StartJob, Earliest, Ready, uploader, disk, history
  <1>11. CASE ReadFile
    <2>1. job'.sha = file[job.key] /\ job'.key = job.key /\ job'.seq = job.seq
      BY <1>1, <1>11 DEF ReadFile, JobType
    <2>2. QED
      BY <1>1, <1>11, <2>1 DEF ReadFile, uploader, disk, history
  <1>12. CASE Exchange
    BY <1>12 DEF Exchange, uploader, disk, history
  <1>13. CASE Finish
    <2> DEFINE i == job.key
    <2>1. PICK w \in Nat : entries' = [entries EXCEPT ![i] = AfterAttempt(entries[i], w)]
      BY <1>13, BackoffType DEF Finish
    <2>2. /\ entries'[i].seq = entries[i].seq
          /\ \/ entries'[i].pending
             \/ res.action \in Settling /\ entries[i].seq = job.seq
          /\ \A k \in Instances \ {i} : entries'[k] = entries[k]
      BY <1>1, <1>13, <2>1, AfterAttemptType DEF Finish
    <2>3. /\ pc' = "next" /\ UNCHANGED <<file, dirty>>
          /\ settled' = [settled EXCEPT ![i] = IF res.action \in Settling THEN job.sha ELSE @]
      BY <1>13 DEF Finish, disk
    <2>4. QED
      BY <1>1, <1>13, <2>2, <2>3 DEF Finish
  <1>14. QED
    <2>1. CASE CountError \/ Tick
      BY <1>2, <2>1 DEF CountError, Tick, uploader, run, disk, history
    <2>2. CASE UNCHANGED vars
      BY <1>2, <2>2 DEF vars, uploader, run, disk, history
    <2>3. QED
      BY <1>3, <1>5, <1>6, <1>7, <1>8, <1>9, <1>10, <1>11, <1>12, <1>13, <2>1, <2>2
      DEF Next, RunStep, Environment

-----------------------------------------------------------------------------
(* Every step keeps the signal or the timer that ends the sleep.           *)

LEMMA WakeStep ==
  ASSUME TypeOK, NoLostWakeup, [Next]_vars
  PROVE  NoLostWakeup'
  <1> USE DEF NoLostWakeup, Ready
  <1>1. /\ \A i \in Instances : entries[i].due \in Nat
        /\ timer \in Nat \cup {-1}
    BY DEF TypeOK, UploaderTypeOK, RunTypeOK, EntryType
  <1>2. ASSUME UNCHANGED <<pc, wake, loginRequired, timer, entries>> PROVE NoLostWakeup'
    BY <1>2
  <1>3. ASSUME wake' \/ pc' # "sleep" PROVE NoLostWakeup'
    BY <1>3
  <1>4. CASE SleepUntilDue
    BY <1>1, <1>4 DEF SleepUntilDue, Sleep, Earliest, uploader
  <1>5. ASSUME NEW i \in Instances, Report(i) \/ ReportResync(i) PROVE NoLostWakeup'
    BY <1>2, <1>3, <1>5 DEF Report, ReportResync, Add, uploader, run
  <1>6. CASE Resume \/ Restart \/ ReadFile \/ Wake \/ Finish
    BY <1>3, <1>6 DEF Resume, Restart, ReadFile, Wake, Finish
  <1>7. ASSUME NEW i \in Instances, StartJob(i) PROVE NoLostWakeup'
    BY <1>3, <1>7 DEF StartJob
  <1>8. CASE Exchange
    BY <1>3, <1>8 DEF Exchange
  <1>9. CASE CountError \/ Tick
    BY <1>2, <1>9 DEF CountError, Tick, uploader, run
  <1>10. ASSUME NEW i \in Instances, NEW bytes \in Bytes, WriteFile(i, bytes) PROVE NoLostWakeup'
    BY <1>2, <1>10 DEF WriteFile, uploader, run
  <1>11. CASE UNCHANGED vars
    BY <1>2, <1>11 DEF vars, uploader, run
  <1>12. QED
    BY <1>4, <1>5, <1>6, <1>7, <1>8, <1>9, <1>10, <1>11 DEF Next, RunStep, Environment

-----------------------------------------------------------------------------
(* IInv is inductive: it holds of every reachable state.                   *)

LEMMA InvInit == Init => IInv
  <1> SUFFICES ASSUME Init PROVE IInv
    OBVIOUS
  <1>1. TypeOK
    BY TypeInit
  <1>2. CountsInv
    BY DEF Init, CountsInv, JobCountsHeld, AnsweredRowHoldsCounts, NoErrorLost, NoCounts, NoJob
  <1>3. ChangeInv
    BY DEF Init, ChangeInv, JobPending, JobFresh, LastWriteRead, NoEntry
  <1>4. NoLostWakeup
    BY DEF Init, NoLostWakeup
  <1>5. QED
    BY <1>1, <1>2, <1>3, <1>4 DEF IInv, CountsInv, ChangeInv

LEMMA InvStep == IInv /\ [Next]_vars => IInv'
  <1> SUFFICES ASSUME IInv, [Next]_vars PROVE IInv'
    OBVIOUS
  <1>1. TypeOK /\ CountsInv /\ ChangeInv /\ NoLostWakeup
    BY DEF IInv, CountsInv, ChangeInv
  <1>2. TypeOK'
    <2>1. CASE Next
      BY <1>1, <2>1, TypeRun, TypeEnvironment DEF Next, CountsInv
    <2>2. CASE UNCHANGED vars
      BY <1>1, <2>2
      DEF vars, uploader, run, disk, server, history, TypeOK,
          UploaderTypeOK, RunTypeOK, OutsideTypeOK, HistoryTypeOK
    <2>3. QED
      BY <2>1, <2>2
  <1>3. CountsInv' /\ ChangeInv' /\ NoLostWakeup'
    BY <1>1, CountsStep, ChangeStep, WakeStep
  <1>4. QED
    BY <1>2, <1>3 DEF IInv, CountsInv, ChangeInv

LEMMA Invariance == Spec => []IInv
  BY InvInit, InvStep, PTL DEF Spec

(* The variables keep their types: in particular no error counter ever     *)
(* goes below zero when finish takes the counters of a kept row away.      *)
THEOREM TypeCorrect == Spec => []TypeOK
  <1>1. IInv => TypeOK
    BY DEF IInv
  <1>2. QED
    BY <1>1, Invariance, PTL

(* However Add, Resume and the end of an attempt interleave with next and  *)
(* the select, Run never sleeps past the time an instance is due.          *)
THEOREM NoLostWakeups == Spec => []NoLostWakeup
  <1>1. IInv => NoLostWakeup
    BY DEF IInv
  <1>2. QED
    BY <1>1, Invariance, PTL

(* Once nothing is pending, the last attempt that settled read the bytes   *)
(* on disk: a write during an attempt is never taken for the bytes sent.   *)
THEOREM LastWritesRead == Spec => []LastWriteRead
  <1>1. IInv => LastWriteRead
    BY DEF IInv
  <1>2. QED
    BY <1>1, Invariance, PTL

(* No error counted while an upload is in flight is lost with its row.     *)
THEOREM NoErrorsLost == Spec => []NoErrorLost
  <1>1. IInv => NoErrorLost
    BY DEF IInv
  <1>2. QED
    BY <1>1, Invariance, PTL

(* The three together: what the watcher, the controller and an attempt hand *)
(* to Run while it is elsewhere is never lost.                             *)
THEOREM NothingIsLost == Spec => []NothingLost
  <1>1. LastWriteRead /\ NoErrorLost /\ NoLostWakeup => NothingLost
    BY DEF NothingLost
  <1>2. QED
    BY <1>1, LastWritesRead, NoErrorsLost, NoLostWakeups, PTL

(* Only an attempt's own end, Resume of a stopped instance and a restart   *)
(* bring an instance's next attempt forward.                               *)
THEOREM WaitsKept == Spec => WaitKept
  <1> DEFINE Kept(i) == entries'[i].due < entries[i].due =>
                          \/ pc = "finish" /\ job.key = i
                          \/ entries[i].stopped
                          \/ entries'[i].seq = 0
  <1>1. ASSUME TypeOK, [Next]_vars, NEW i \in Instances PROVE Kept(i)
    <2>1. /\ entries \in [Instances -> EntryType] /\ entries[i] \in EntryType
          /\ entries[i].due \in Nat
      BY <1>1 DEF TypeOK, UploaderTypeOK, EntryType
    <2>2. ASSUME entries'[i].due = entries[i].due PROVE Kept(i)
      BY <2>1, <2>2
    <2>3. ASSUME NEW k \in Instances, NEW ifChanged, Add(k, ifChanged) PROVE Kept(i)
      <3>1. entries'[i].due = entries[i].due
        BY <2>1, <2>3 DEF Add, EntryType
      <3>2. QED
        BY <2>2, <3>1
    <2>4. CASE Restart
      BY <2>4 DEF Restart, NoEntry
    <2>5. CASE Finish
      <3>1. CASE job.key = i
        BY <2>5, <3>1 DEF Finish
      <3>2. CASE job.key # i
        <4>1. PICK w : entries' = [entries EXCEPT ![job.key] = AfterAttempt(entries[job.key], w)]
          BY <2>5 DEF Finish
        <4>2. entries'[i].due = entries[i].due
          BY <2>1, <3>2, <4>1
        <4>3. QED
          BY <2>2, <4>2
      <3>3. QED
        BY <3>1, <3>2
    <2>6. CASE Resume
      <3>1. entries'[i] = IF entries[i].stopped THEN [entries[i] EXCEPT !.stopped = FALSE, !.due = 0]
                          ELSE entries[i]
        BY <2>6 DEF Resume
      <3>2. QED
        BY <2>1, <2>2, <3>1
    <2>7. ASSUME UNCHANGED entries PROVE Kept(i)
      BY <2>2, <2>7
    <2> HIDE DEF Kept
    <2>8. CASE RunStep \/ Tick \/ CountError
      BY <2>5, <2>7, <2>8 DEF RunStep, SleepUntilDue, StartJob, Wake, ReadFile, Exchange, Tick, CountError, uploader
    <2>9. CASE Environment \/ (\E k \in Instances : Report(k))
      BY <2>3, <2>4, <2>6, <2>7, <2>9
      DEF Environment, WriteFile, CountError, Report, ReportResync, uploader
    <2>10. QED
      BY <1>1, <2>7, <2>8, <2>9 DEF Next, vars, uploader
  <1>2. TypeOK /\ [Next]_vars => [\A i \in Instances : Kept(i)]_vars
    BY <1>1
  <1>3. QED
    BY <1>2, TypeCorrect, PTL DEF Spec, WaitKept
=============================================================================
