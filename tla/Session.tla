-------------------------------- MODULE Session --------------------------------
(***************************************************************************)
(* The bridge's session: the controller (bridge/internal/tray) between the *)
(* login, the uploader, the kit poller, the retry of a failed keychain     *)
(* save, the menu, and the user, who logs in, syncs and changes the server. *)
(*                                                                         *)
(* The parts it composes are here what they show the controller: a request *)
(* is one step that asks the login client and brings one of five outcomes, *)
(* which the caller handles in a later step. Login.tla and Uploader.tla    *)
(* say how each part comes to its outcome.                                 *)
(***************************************************************************)
EXTENDS Integers, FiniteSets

CONSTANTS
  Servers, \* the servers the user may choose
  Logins,  \* numbers for the device logins that may be under way at once
  Budgets  \* bounds on what the user, the server and the keychain do, one for each story

NoServer == "none"
BudgetType == [logins : Nat, changes : Nat, servers : Nat, revokes : Nat, faults : Nat]

ASSUME SessionAssumption == NoServer \notin Servers /\ Logins \subseteq Nat /\ Budgets \subseteq BudgetType

VARIABLES
  auth,      \* of each server's login: "none", "saved" in the keychain, or "unsaved"
  alive,     \* the servers that accept the login the bridge has
  base,      \* Controller.Base, Controller.Auth
  next,      \* Controller.next
  run,       \* Controller.run: "live" or "ended"
  pc,        \* where Run is: "start", "running" its parts, or "joining" the tasks
  logins,    \* the logins, which tasks counts
  loggingIn, \* Controller.loggingIn
  retries,   \* the save retries, which tasks counts
  saving,    \* Controller.saving
  saveGen,   \* Controller.saveGen
  menu,      \* Model's Login
  uploader,  \* the uploader: loginRequired, its attempt, and what it shows
  follow,    \* where followUploads is
  poller,    \* the kit poller: its fetch, and known
  budget     \* what is left of the story's bounds

tokens == <<auth, alive>>
server == <<base, next, run, pc>>
tasks == <<logins, loggingIn, retries, saving, saveGen>>
parts == <<uploader, follow, poller>>
sessionVars == <<tokens, server, tasks, menu, parts, budget>>

Outcomes == {"ok", "error", "notSaved", "notRead", "loginRequired"}
NoLogin == [at |-> "none", server |-> NoServer, out |-> "ok"]
NewUploader == [required |-> FALSE, at |-> "idle", out |-> "ok", pending |-> TRUE, news |-> FALSE, changed |-> FALSE]
NewPoller == [at |-> "idle", out |-> "ok", known |-> FALSE]
NoFollow == [at |-> "idle", news |-> FALSE, required |-> FALSE]

SessionInit ==
  /\ auth \in [Servers -> {"none", "saved"}] /\ alive = [s \in Servers |-> auth[s] = "saved"]
  /\ base \in Servers /\ next = NoServer /\ run = "ended" /\ pc = "start"
  /\ logins = [l \in Logins |-> NoLogin] /\ loggingIn = FALSE
  /\ retries = {} /\ saving = FALSE /\ saveGen = 0
  /\ menu = "checking"
  /\ uploader = NewUploader /\ follow = NoFollow /\ poller = NewPoller
  /\ budget \in Budgets

Spend(what) == budget[what] > 0 /\ budget' = [budget EXCEPT ![what] = @ - 1]

-----------------------------------------------------------------------------
(* The login client of the current server.                                 *)

Becomes(state) == auth' = [auth EXCEPT ![base] = state]

(* A request with the login: what is unsaved is saved first, and a refresh *)
(* may bring tokens that the keychain does not take. A keychain that fails *)
(* goes on to fail for as long as it likes.                                *)
Ask(out) ==
  \/ out = "loginRequired" /\ (auth[base] = "none" \/ ~alive[base]) /\ Becomes("none") /\ UNCHANGED budget
  \/ out = "notRead" /\ auth[base] # "unsaved" /\ Spend("faults") /\ UNCHANGED auth
  \/ out = "notSaved" /\ auth[base] = "saved" /\ alive[base] /\ Spend("faults") /\ Becomes("unsaved")
  \/ out = "notSaved" /\ auth[base] = "unsaved" /\ UNCHANGED <<auth, budget>>
  \/ out = "error" /\ auth[base] # "none" /\ Spend("faults") /\ Becomes("saved")
  \/ out = "ok" /\ auth[base] # "none" /\ alive[base] /\ Becomes("saved") /\ UNCHANGED budget

(* AccessToken asks the server only when its token is about to expire.     *)
AskToken(out) ==
  \/ Ask(out)
  \/ out = "ok" /\ auth[base] # "none" /\ Becomes("saved") /\ UNCHANGED budget

-----------------------------------------------------------------------------
(* The menu. A login that runs keeps its state.                            *)

UnlessWaiting(state) == IF menu = "waiting" THEN menu ELSE state

(* A mutant of Works: only the first answer is shown. *)
WorksAtFirst == IF menu = "checking" THEN "done" ELSE menu

Works == UnlessWaiting("done")
Known == IF menu = "checking" THEN "done" ELSE menu

-----------------------------------------------------------------------------
(* Run: the parts of one server, then those of the next.                   *)

StartServer ==
  /\ pc = "start" /\ pc' = "running" /\ run' = "live"
  /\ base' = (IF next = NoServer THEN base ELSE next) /\ next' = NoServer
  /\ menu' = IF next = NoServer THEN menu ELSE "checking"
  /\ auth' = [auth EXCEPT ![base'] = IF @ = "unsaved" THEN "none" ELSE @]
  /\ uploader' = NewUploader /\ follow' = NoFollow /\ poller' = NewPoller
  /\ UNCHANGED <<alive, tasks, budget>>

(* The parts have returned; what they had not handled is dropped.          *)
StopParts ==
  /\ pc = "running" /\ run = "ended" /\ pc' = "joining"
  /\ poller.at # "busy" /\ follow.at = "idle"
  /\ uploader' = NewUploader /\ poller' = NewPoller
  /\ UNCHANGED <<tokens, base, next, run, tasks, menu, follow, budget>>

Joined == retries = {} /\ \A l \in Logins : logins[l].at = "none"

Join ==
  /\ pc = "joining" /\ Joined /\ pc' = "start"
  /\ UNCHANGED <<tokens, base, next, run, tasks, menu, parts, budget>>

SetServer(s) ==
  /\ Spend("servers")
  /\ next' = s /\ run' = "ended"
  /\ UNCHANGED <<tokens, base, pc, tasks, menu, parts>>

-----------------------------------------------------------------------------
(* The uploader, and followUploads.                                        *)

Running == pc = "running" /\ run = "live"

Resumed(u) == IF pc = "running" THEN [u EXCEPT !.required = FALSE, !.changed = TRUE] ELSE u

Change ==
  /\ Running /\ ~uploader.pending /\ Spend("changes")
  /\ uploader' = [uploader EXCEPT !.pending = TRUE, !.changed = TRUE]
  /\ UNCHANGED <<tokens, server, tasks, menu, follow, poller>>

Attempt ==
  /\ Running /\ uploader.at = "idle" /\ uploader.pending /\ ~uploader.required
  /\ \E out \in Outcomes : Ask(out) /\ uploader' = [uploader EXCEPT !.at = "got", !.out = out]
  /\ UNCHANGED <<alive, server, tasks, menu, follow, poller>>

Finish ==
  /\ Running /\ uploader.at = "got"
  /\ LET took == uploader.out = "ok" IN
     uploader' = [uploader EXCEPT !.at = "idle", !.out = "ok", !.changed = TRUE, !.pending = ~took,
                                  !.news = @ \/ took, !.required = @ \/ uploader.out = "loginRequired"]
  /\ UNCHANGED <<tokens, server, tasks, menu, follow, poller, budget>>

(* followUploads: it reads the status, shows a new upload, and looks at a  *)
(* login that was refused, which may be older than the latest one.         *)
Follow ==
  /\ Running /\ follow.at = "idle" /\ uploader.changed
  /\ uploader' = [uploader EXCEPT !.changed = FALSE, !.news = FALSE]
  /\ follow' = [at |-> "read", news |-> uploader.news, required |-> uploader.required]
  /\ UNCHANGED <<tokens, server, tasks, menu, poller, budget>>

FollowShows ==
  /\ follow.at = "read"
  /\ menu' = IF follow.news THEN Works ELSE menu
  /\ follow' = IF follow.required /\ menu' # "needed" THEN [NoFollow EXCEPT !.at = "ask"] ELSE NoFollow
  /\ UNCHANGED <<tokens, server, tasks, uploader, poller, budget>>

FollowAsks ==
  /\ follow.at = "ask"
  /\ \E out \in Outcomes :
       AskToken(out) /\ follow' = IF out = "loginRequired" THEN [NoFollow EXCEPT !.at = "ended"] ELSE NoFollow
  /\ UNCHANGED <<alive, server, tasks, menu, uploader, poller>>

FollowEnds ==
  /\ follow.at = "ended"
  /\ menu' = UnlessWaiting("needed") /\ follow' = NoFollow
  /\ UNCHANGED <<tokens, server, tasks, uploader, poller, budget>>

-----------------------------------------------------------------------------
(* The retry of a failed save. A new one takes the place of the last.      *)

Cancelled(r) == r.stopped \/ run = "ended"

StartRetry ==
  /\ retries' = {IF saving /\ r.gen = saveGen THEN [r EXCEPT !.stopped = TRUE] ELSE r : r \in retries}
                  \cup {[gen |-> saveGen + 1, at |-> "timer", out |-> "ok", stopped |-> FALSE, server |-> base]}
  /\ saving' = TRUE /\ saveGen' = saveGen + 1

Moves(r, at, out) == retries' = (retries \ {r}) \cup {[r EXCEPT !.at = at, !.out = out]}

RetryAsks(r) ==
  /\ r.at = "timer" /\ ~Cancelled(r)
  /\ \E out \in Outcomes : AskToken(out) /\ Moves(r, "got", out)
  /\ UNCHANGED <<alive, server, logins, loggingIn, saving, saveGen, menu, parts>>

RetryGot(r) ==
  /\ r.at = "got"
  /\ \/ Cancelled(r) /\ Moves(r, "end", "ok") /\ UNCHANGED <<menu, uploader>>
     \/ ~Cancelled(r) /\ r.out = "notSaved" /\ Moves(r, "timer", "ok") /\ UNCHANGED <<menu, uploader>>
     \/ /\ ~Cancelled(r) /\ r.out = "loginRequired" /\ Moves(r, "end", "ok")
        /\ menu' = UnlessWaiting("needed") /\ UNCHANGED uploader
     \/ /\ ~Cancelled(r) /\ r.out \notin {"notSaved", "loginRequired"} /\ Moves(r, "end", "ok")
        /\ menu' = Works /\ uploader' = Resumed(uploader)
  /\ UNCHANGED <<tokens, server, logins, loggingIn, saving, saveGen, follow, poller, budget>>

(* A mutant of SavingAfter: a replaced retry clears saving. *)
SavingAfterAny(r) == FALSE

SavingAfter(r) == saving /\ r.gen # saveGen

RetryEnds(r) ==
  /\ r.at = "end" \/ (r.at = "timer" /\ Cancelled(r))
  /\ retries' = retries \ {r} /\ saving' = SavingAfter(r)
  /\ UNCHANGED <<tokens, server, logins, loggingIn, saveGen, menu, parts, budget>>

-----------------------------------------------------------------------------
(* The kit poller and onFetch. A conditional check that finds the same list *)
(* ends without onFetch.                                                   *)

Poll(conditional) ==
  /\ Running /\ poller.at = "idle"
  /\ \E out \in Outcomes :
       /\ Ask(out)
       /\ \/ poller' = [poller EXCEPT !.at = "got", !.out = out]
          \/ conditional /\ poller.known /\ out = "ok" /\ UNCHANGED poller
  /\ UNCHANGED <<alive, server, tasks, menu, uploader, follow>>

OnFetch ==
  /\ Running /\ poller.at = "got"
  /\ \/ /\ poller.out \in {"loginRequired", "notRead"} /\ menu' = UnlessWaiting("needed") /\ poller' = NewPoller
     \/ poller.out = "error" /\ menu' = Known /\ poller' = NewPoller
     \/ /\ poller.out = "ok" /\ menu' = Works
        /\ \E known \in BOOLEAN : poller' = [NewPoller EXCEPT !.known = known]
     \/ /\ poller.out = "notSaved" /\ UNCHANGED menu
        /\ poller' = IF saving \/ loggingIn THEN NewPoller ELSE [NewPoller EXCEPT !.at = "busy"]
  /\ UNCHANGED <<tokens, server, tasks, uploader, follow, budget>>

(* The rest of onFetch for a login that was not saved. *)
OnFetchUnsaved ==
  /\ poller.at = "busy"
  /\ menu' = UnlessWaiting("unsaved") /\ StartRetry
  /\ poller' = NewPoller
  /\ UNCHANGED <<tokens, server, logins, loggingIn, uploader, follow, budget>>

-----------------------------------------------------------------------------
(* The user's login, sync, and the server's refusals.                      *)

LoginAt(l, at, out) == logins' = [logins EXCEPT ![l] = [@ EXCEPT !.at = at, !.out = out]]

(* The menu offers a login, or to open its page again. *)
Login(l) ==
  /\ menu \in {"needed", "waiting"} /\ ~loggingIn /\ run = "live" /\ Spend("logins")
  /\ logins[l].at = "none" /\ \A m \in Logins : m < l => logins[m].at # "none"
  /\ logins' = [logins EXCEPT ![l] = [at |-> "begun", server |-> base, out |-> "ok"]]
  /\ loggingIn' = TRUE
  /\ UNCHANGED <<tokens, server, retries, saving, saveGen, menu, parts>>

LoginShows(l) ==
  /\ logins[l].at = "begun" /\ LoginAt(l, "polling", "ok")
  /\ menu' = "waiting"
  /\ UNCHANGED <<tokens, server, loggingIn, retries, saving, saveGen, parts, budget>>

(* The user approves it, and its tokens are adopted; or it ends otherwise. *)
LoginEnds(l) ==
  /\ logins[l].at = "polling"
  /\ \/ LoginAt(l, "got", "ok") /\ Becomes("saved") /\ alive' = [alive EXCEPT ![base] = TRUE] /\ UNCHANGED budget
     \/ /\ LoginAt(l, "got", "notSaved") /\ Becomes("unsaved") /\ alive' = [alive EXCEPT ![base] = TRUE]
        /\ Spend("faults")
     \/ LoginAt(l, "got", "error") /\ UNCHANGED <<tokens, budget>>
  /\ UNCHANGED <<server, loggingIn, retries, saving, saveGen, menu, parts>>

LoggingInAfter(out) == FALSE

LoginReturns(l) ==
  /\ logins[l].at = "got" /\ LoginAt(l, "tell", logins[l].out)
  /\ loggingIn' = LoggingInAfter(logins[l].out)
  /\ UNCHANGED <<tokens, server, retries, saving, saveGen, menu, parts, budget>>

Failed == IF run = "ended" THEN menu ELSE "needed"

LoginTells(l) ==
  LET out == logins[l].out IN
  /\ logins[l].at = "tell" /\ logins' = [logins EXCEPT ![l] = NoLogin]
  /\ \/ out = "ok" /\ menu' = "done" /\ uploader' = Resumed(uploader) /\ UNCHANGED <<retries, saving, saveGen>>
     \/ out = "notSaved" /\ menu' = "unsaved" /\ StartRetry /\ uploader' = Resumed(uploader)
     \/ out = "error" /\ menu' = Failed /\ UNCHANGED <<retries, saving, saveGen, uploader>>
  /\ UNCHANGED <<tokens, server, loggingIn, follow, poller, budget>>

(* "Sync with server". *)
Sync ==
  /\ pc = "running" /\ menu \notin {"needed", "waiting"} /\ Spend("changes")
  /\ uploader' = [Resumed(uploader) EXCEPT !.pending = TRUE]
  /\ UNCHANGED <<tokens, server, tasks, menu, follow, poller>>

Revoke(s) ==
  /\ alive[s] /\ Spend("revokes")
  /\ alive' = [alive EXCEPT ![s] = FALSE]
  /\ UNCHANGED <<auth, server, tasks, menu, parts>>

-----------------------------------------------------------------------------
UploadStep == Attempt \/ Finish
FollowStep == Follow \/ FollowShows \/ FollowAsks \/ FollowEnds
RunStep == StartServer \/ StopParts \/ Join
RetryStep(r) == RetryAsks(r) \/ RetryGot(r) \/ RetryEnds(r)
LoginStep(l) == LoginShows(l) \/ LoginEnds(l) \/ LoginReturns(l) \/ LoginTells(l)
FetchStep == OnFetch \/ OnFetchUnsaved
User ==
  \/ Change \/ Sync
  \/ \E l \in Logins : Login(l)
  \/ \E s \in Servers : SetServer(s) \/ Revoke(s)

SessionNext ==
  \/ RunStep \/ UploadStep \/ FollowStep \/ FetchStep
  \/ \E conditional \in BOOLEAN : Poll(conditional)
  \/ \E r \in retries : RetryStep(r)
  \/ \E l \in Logins : LoginStep(l)
  \/ User

SessionSpec == SessionInit /\ [][SessionNext]_sessionVars

(* Each goroutine goes on; a login's code expires; the poller fetches in   *)
(* full every interval. The user does nothing for certain.                 *)
Fairness ==
  /\ WF_sessionVars(RunStep) /\ WF_sessionVars(UploadStep) /\ WF_sessionVars(FollowStep) /\ WF_sessionVars(FetchStep)
  /\ SF_sessionVars(Poll(FALSE))
  /\ WF_sessionVars(\E r \in retries : RetryStep(r))
  /\ \A l \in Logins : WF_sessionVars(LoginStep(l))

FairSpec == SessionSpec /\ Fairness

-----------------------------------------------------------------------------
LoginType == [at : {"none", "begun", "polling", "got", "tell"}, server : Servers \cup {NoServer}, out : Outcomes]
RetryType == [gen : Nat, at : {"timer", "got", "end"}, out : Outcomes, stopped : BOOLEAN, server : Servers]
UploaderType ==
  [required : BOOLEAN, at : {"idle", "got"}, out : Outcomes, pending : BOOLEAN, news : BOOLEAN, changed : BOOLEAN]

TokensTypeOK == auth \in [Servers -> {"none", "saved", "unsaved"}] /\ alive \in [Servers -> BOOLEAN]
ServerTypeOK ==
  /\ base \in Servers /\ next \in Servers \cup {NoServer}
  /\ run \in {"live", "ended"} /\ pc \in {"start", "running", "joining"}
TasksTypeOK ==
  /\ logins \in [Logins -> LoginType] /\ loggingIn \in BOOLEAN
  /\ retries \subseteq RetryType /\ saving \in BOOLEAN /\ saveGen \in Nat
PartsTypeOK ==
  /\ pc # "running" => uploader = NewUploader /\ poller = NewPoller /\ follow = NoFollow
  /\ follow.at = "idle" => follow = NoFollow
  /\ uploader \in UploaderType
  /\ follow \in [at : {"idle", "read", "ask", "ended"}, news : BOOLEAN, required : BOOLEAN]
  /\ poller \in [at : {"idle", "got", "busy"}, out : Outcomes, known : BOOLEAN]

SessionTypeOK ==
  /\ TokensTypeOK /\ ServerTypeOK /\ TasksTypeOK /\ PartsTypeOK
  /\ menu \in {"checking", "needed", "waiting", "unsaved", "done"}
  /\ budget \in BudgetType

(* At most one device login runs, and the controller knows of it: else the *)
(* menu would offer no login any more, or start a second one.              *)
OneLogin ==
  /\ loggingIn = (\E l \in Logins : logins[l].at \in {"begun", "polling", "got"})
  /\ \A l, m \in Logins : logins[l].at \in {"begun", "polling", "got"} /\ logins[m].at \in {"begun", "polling", "got"} => l = m

(* Logins and save retries "run against the current server": none is left  *)
(* when the parts of another server start.                                 *)
TasksOfServer ==
  /\ \A l \in Logins : logins[l].at # "none" => logins[l].server = base
  /\ \A r \in retries : r.server = base

(* saving is true while the latest retry runs, and every other one is      *)
(* stopped: a retry that was replaced "leaves saving be".                  *)
SavingIsLatest ==
  /\ saving = (\E r \in retries : r.gen = saveGen)
  /\ \A r \in retries : r.gen # saveGen => r.stopped

(* The menu shows a login under way only while there is one, or until the  *)
(* next server's parts reset it.                                           *)
WaitingIsLogin == menu = "waiting" => run = "ended" \/ \E l \in Logins : logins[l].at # "none"

(* What the controller remembers of its logins and save retries is what    *)
(* runs, whatever order they start, end and are replaced in.               *)
Tracked == OneLogin /\ TasksOfServer /\ SavingIsLatest /\ WaitingIsLogin

(* In the end the menu tells the truth about the login, whichever order the *)
(* answers of the poller, the uploader, the retries and the logins came in. *)
In == auth[base] = "saved" /\ alive[base]
LoginShown == (<>[]In => <>[](menu = "done")) /\ (<>[](auth[base] = "none") => <>[](menu = "needed"))

(* "Every upload stops until Resume", which the controller calls after a   *)
(* login: while the bridge keeps a login that works, uploads do not stay   *)
(* stopped for the want of one.                                            *)
UploadsResume == <>[]In => <>[](~uploader.required)
=============================================================================
