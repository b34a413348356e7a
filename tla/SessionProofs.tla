----------------------------- MODULE SessionProofs -----------------------------
(***************************************************************************)
(* Proofs about the two ends of being signed in: the bridge's session      *)
(* (Session), for every set of servers, of logins and every bound, and     *)
(* sign-in and the web sessions (SignIn), for every number of users,       *)
(* browsers, accounts, tokens and concurrent requests, and every bound.    *)
(* The two models share no variable.                                       *)
(***************************************************************************)
EXTENDS Session, SignIn, TLAPS

-----------------------------------------------------------------------------
(* The bridge's session.                                                   *)

(* The parts run only under a live context, or one that just ended; the    *)
(* next server starts with no task of the last.                            *)
RunHeld ==
  /\ pc # "running" => run = "ended"
  /\ pc = "start" => Joined
  /\ run = "ended" /\ next = NoServer => pc = "start" /\ menu # "waiting"

(* The generations of the retries differ, and the latest is the highest.   *)
Generations ==
  /\ \A r \in retries : r.gen <= saveGen
  /\ \A q, r \in retries : q.gen = r.gen => q = r

IInv == SessionTypeOK /\ RunHeld /\ Generations /\ OneLogin /\ TasksOfServer /\ SavingIsLatest /\ WaitingIsLogin

-----------------------------------------------------------------------------
(* What the helpers return and preserve.                                   *)

LEMMA Spends == ASSUME SessionTypeOK, NEW what \in DOMAIN budget, Spend(what) PROVE budget' \in BudgetType
BY DEF SessionTypeOK, Spend, BudgetType

LEMMA BudgetFields == ASSUME SessionTypeOK PROVE DOMAIN budget = {"logins", "changes", "servers", "revokes", "faults"}
BY DEF SessionTypeOK, BudgetType

LEMMA Asks ==
  ASSUME SessionTypeOK, NEW out \in Outcomes, Ask(out)
  PROVE auth' \in [Servers -> {"none", "saved", "unsaved"}] /\ budget' \in BudgetType
<1>1. auth' \in [Servers -> {"none", "saved", "unsaved"}]
  BY DEF SessionTypeOK, TokensTypeOK, Ask, Becomes
<1>2. budget' = budget \/ Spend("faults")
  BY DEF Ask
<1>3. budget' \in BudgetType
  BY <1>2, Spends, BudgetFields DEF SessionTypeOK
<1>4. QED
  BY <1>1, <1>3

LEMMA AsksToken ==
  ASSUME SessionTypeOK, NEW out \in Outcomes, AskToken(out)
  PROVE auth' \in [Servers -> {"none", "saved", "unsaved"}] /\ budget' \in BudgetType
<1>1. CASE Ask(out)
  BY <1>1, Asks
<1>2. CASE Becomes("saved") /\ UNCHANGED budget
  BY <1>2 DEF SessionTypeOK, TokensTypeOK, Becomes
<1>3. QED
  BY <1>1, <1>2 DEF AskToken

LEMMA Menus ==
  ASSUME SessionTypeOK, NEW state \in {"needed", "unsaved", "done"}
  PROVE LET M == {"checking", "needed", "waiting", "unsaved", "done"} IN
        /\ UnlessWaiting(state) \in M /\ Works \in M /\ Known \in M /\ Failed \in M
        /\ menu # "waiting" => UnlessWaiting(state) # "waiting" /\ Works # "waiting" /\ Known # "waiting"
        /\ Failed = "waiting" => menu = "waiting" /\ run = "ended"
BY DEF SessionTypeOK, UnlessWaiting, Works, Known, Failed

LEMMA News == NewUploader \in UploaderType /\ NoLogin \in LoginType /\ NoLogin.at = "none"
BY DEF NewUploader, UploaderType, NoLogin, LoginType, Outcomes

LEMMA ResumedType == ASSUME SessionTypeOK PROVE Resumed(uploader) \in UploaderType
BY DEF SessionTypeOK, PartsTypeOK, UploaderType, Resumed

(* The retry that StartRetry adds, and those it keeps.                     *)
LEMMA Started ==
  ASSUME SessionTypeOK, StartRetry
  PROVE \E new \in RetryType :
          /\ new.gen = saveGen + 1 /\ ~new.stopped /\ new.server = base
          /\ saving' = TRUE /\ saveGen' = saveGen + 1 /\ saveGen' \in Nat
          /\ retries' \subseteq RetryType /\ new \in retries'
          /\ \A r \in retries' : \/ r = new
                                 \/ \E q \in retries : /\ r.gen = q.gen /\ r.server = q.server
                                                       /\ r.stopped = (q.stopped \/ (saving /\ q.gen = saveGen))
                                                       /\ r = [q EXCEPT !.stopped = r.stopped]
<1> DEFINE new == [gen |-> saveGen + 1, at |-> "timer", out |-> "ok", stopped |-> FALSE, server |-> base]
           Kept(q) == IF saving /\ q.gen = saveGen THEN [q EXCEPT !.stopped = TRUE] ELSE q
<1>1. saveGen \in Nat /\ base \in Servers /\ retries \subseteq RetryType /\ saving \in BOOLEAN
  BY DEF SessionTypeOK, TasksTypeOK, ServerTypeOK
<1>2. new \in RetryType
  BY <1>1 DEF RetryType, Outcomes
<1>3. retries' = {Kept(q) : q \in retries} \cup {new}
  BY DEF StartRetry
<1>4. ASSUME NEW q \in retries
      PROVE /\ Kept(q) \in RetryType /\ Kept(q).gen = q.gen /\ Kept(q).server = q.server
            /\ Kept(q).stopped = (q.stopped \/ (saving /\ q.gen = saveGen))
            /\ Kept(q) = [q EXCEPT !.stopped = Kept(q).stopped]
  <2>1. q \in RetryType
    BY <1>1
  <2>2. CASE saving /\ q.gen = saveGen
    BY <2>1, <2>2 DEF RetryType
  <2>3. CASE ~(saving /\ q.gen = saveGen)
    BY <2>1, <2>3 DEF RetryType
  <2>4. QED
    BY <2>2, <2>3
<1>5. new.gen = saveGen + 1 /\ ~new.stopped /\ new.server = base
  OBVIOUS
<1> HIDE DEF new, Kept
<1>6. retries' \subseteq RetryType /\ new \in retries'
  BY <1>2, <1>3, <1>4
<1>7. \A r \in retries' : \/ r = new
                          \/ \E q \in retries : /\ r.gen = q.gen /\ r.server = q.server
                                                /\ r.stopped = (q.stopped \/ (saving /\ q.gen = saveGen))
                                                /\ r = [q EXCEPT !.stopped = r.stopped]
  BY <1>3, <1>4
<1>8. saving' = TRUE /\ saveGen' = saveGen + 1 /\ saveGen' \in Nat
  BY <1>1 DEF StartRetry
<1>9. QED
  BY <1>2, <1>5, <1>6, <1>7, <1>8

(* A retry that goes on keeps its generation and its server.               *)
LEMMA Moved ==
  ASSUME SessionTypeOK, NEW r \in retries, NEW at \in {"timer", "got", "end"}, NEW out \in Outcomes, Moves(r, at, out)
  PROVE \E new \in RetryType :
          /\ new.gen = r.gen /\ new.server = r.server /\ new.stopped = r.stopped
          /\ retries' = (retries \ {r}) \cup {new} /\ retries' \subseteq RetryType
<1> DEFINE new == [r EXCEPT !.at = at, !.out = out]
<1>1. r \in RetryType /\ retries \subseteq RetryType
  BY DEF SessionTypeOK, TasksTypeOK
<1>2. new \in RetryType /\ new.gen = r.gen /\ new.server = r.server /\ new.stopped = r.stopped
  BY <1>1 DEF RetryType
<1>3. retries' = (retries \ {r}) \cup {new}
  BY DEF Moves
<1> HIDE DEF new
<1>4. QED
  BY <1>1, <1>2, <1>3

-----------------------------------------------------------------------------
(* Type correctness, one step per action.                                  *)

Menu == {"checking", "needed", "waiting", "unsaved", "done"}

LEMMA StartServerType == ASSUME SessionTypeOK, StartServer PROVE SessionTypeOK'
<1>1. auth' \in [Servers -> {"none", "saved", "unsaved"}]
  BY DEF SessionTypeOK, TokensTypeOK, StartServer
<1>2. base' \in Servers /\ next' = NoServer
  BY DEF SessionTypeOK, ServerTypeOK, StartServer
<1>3. TokensTypeOK' /\ ServerTypeOK'
  BY <1>1, <1>2 DEF SessionTypeOK, TokensTypeOK, ServerTypeOK, StartServer
<1>4. TasksTypeOK'
  BY DEF SessionTypeOK, TasksTypeOK, StartServer, tasks
<1>5. PartsTypeOK'
  BY News DEF SessionTypeOK, PartsTypeOK, StartServer, NoFollow, NewPoller, Outcomes
<1>6. menu' \in Menu /\ budget' \in BudgetType
  BY DEF SessionTypeOK, StartServer, Menu
<1>7. QED
  BY <1>3, <1>4, <1>5, <1>6 DEF SessionTypeOK, Menu

LEMMA StopJoinType == ASSUME SessionTypeOK, StopParts \/ Join PROVE SessionTypeOK'
<1>1. CASE StopParts
  <2>1. PartsTypeOK'
    BY <1>1, News DEF SessionTypeOK, PartsTypeOK, StopParts, NoFollow, NewPoller, Outcomes
  <2>2. QED
    BY <1>1, <2>1 DEF SessionTypeOK, StopParts, TokensTypeOK, ServerTypeOK, TasksTypeOK, tokens, tasks
<1>2. CASE Join
  BY <1>2 DEF SessionTypeOK, Join, TokensTypeOK, ServerTypeOK, TasksTypeOK, PartsTypeOK, tokens, tasks, parts
<1>3. QED
  BY <1>1, <1>2

LEMMA UserType ==
  ASSUME SessionTypeOK, Change \/ Sync \/ \E s \in Servers : SetServer(s) \/ Revoke(s)
  PROVE SessionTypeOK'
<1>1. budget' \in BudgetType
  BY Spends, BudgetFields DEF Change, Sync, SetServer, Revoke
<1>2. CASE Change
  <2>1. PartsTypeOK'
    BY <1>2 DEF SessionTypeOK, PartsTypeOK, UploaderType, Change, Running, server
  <2>2. QED
    BY <1>1, <1>2, <2>1 DEF SessionTypeOK, Change, TokensTypeOK, ServerTypeOK, TasksTypeOK, tokens, server, tasks
<1>3. CASE Sync
  <2>1. [Resumed(uploader) EXCEPT !.pending = TRUE] \in UploaderType
    BY ResumedType DEF UploaderType
  <2>2. PartsTypeOK'
    BY <1>3, <2>1 DEF SessionTypeOK, PartsTypeOK, Sync, server
  <2>3. QED
    BY <1>1, <1>3, <2>2 DEF SessionTypeOK, Sync, TokensTypeOK, ServerTypeOK, TasksTypeOK, tokens, server, tasks
<1>4. ASSUME NEW s \in Servers, SetServer(s) PROVE SessionTypeOK'
  BY <1>1, <1>4 DEF SessionTypeOK, SetServer, TokensTypeOK, ServerTypeOK, TasksTypeOK, PartsTypeOK, tokens, tasks, parts
<1>5. ASSUME NEW s \in Servers, Revoke(s) PROVE SessionTypeOK'
  BY <1>1, <1>5 DEF SessionTypeOK, Revoke, TokensTypeOK, ServerTypeOK, TasksTypeOK, PartsTypeOK, server, tasks, parts
<1>6. QED
  BY <1>2, <1>3, <1>4, <1>5

LEMMA UploadType == ASSUME SessionTypeOK, UploadStep PROVE SessionTypeOK'
<1>1. CASE Attempt
  <2>1. PICK out \in Outcomes : Ask(out) /\ uploader' = [uploader EXCEPT !.at = "got", !.out = out]
    BY <1>1 DEF Attempt
  <2>2. auth' \in [Servers -> {"none", "saved", "unsaved"}] /\ budget' \in BudgetType
    BY <2>1, Asks
  <2>3. PartsTypeOK'
    BY <1>1, <2>1 DEF SessionTypeOK, PartsTypeOK, UploaderType, Attempt, Running, server
  <2>4. QED
    BY <1>1, <2>2, <2>3 DEF SessionTypeOK, Attempt, TokensTypeOK, ServerTypeOK, TasksTypeOK, server, tasks
<1>2. CASE Finish
  <2>1. uploader' \in UploaderType
    BY <1>2 DEF SessionTypeOK, PartsTypeOK, UploaderType, Finish, Outcomes
  <2>2. PartsTypeOK'
    BY <1>2, <2>1 DEF SessionTypeOK, PartsTypeOK, Finish, Running, server
  <2>3. QED
    BY <1>2, <2>2 DEF SessionTypeOK, Finish, TokensTypeOK, ServerTypeOK, TasksTypeOK, tokens, server, tasks
<1>3. QED
  BY <1>1, <1>2 DEF UploadStep

LEMMA FollowType == ASSUME SessionTypeOK, FollowStep PROVE SessionTypeOK'
<1>1. CASE Follow
  <2>1. PartsTypeOK'
    BY <1>1 DEF SessionTypeOK, PartsTypeOK, UploaderType, Follow, Running, server
  <2>2. QED
    BY <1>1, <2>1 DEF SessionTypeOK, Follow, TokensTypeOK, ServerTypeOK, TasksTypeOK, tokens, server, tasks
<1>2. CASE FollowShows
  <2>1. menu' \in Menu
    BY <1>2, Menus DEF SessionTypeOK, FollowShows, Menu
  <2>2. follow' \in {NoFollow, [at |-> "ask", news |-> FALSE, required |-> FALSE]}
    BY <1>2 DEF FollowShows, NoFollow
  <2>3. PartsTypeOK'
    BY <1>2, <2>2 DEF SessionTypeOK, PartsTypeOK, FollowShows, NoFollow, server
  <2>4. QED
    BY <1>2, <2>1, <2>3 DEF SessionTypeOK, FollowShows, TokensTypeOK, ServerTypeOK, TasksTypeOK, tokens, server, tasks, Menu
<1>3. CASE FollowAsks
  <2>1. PICK out \in Outcomes :
          AskToken(out) /\ follow' = IF out = "loginRequired" THEN [NoFollow EXCEPT !.at = "ended"] ELSE NoFollow
    BY <1>3 DEF FollowAsks
  <2>2. auth' \in [Servers -> {"none", "saved", "unsaved"}] /\ budget' \in BudgetType
    BY <2>1, AsksToken
  <2>3. follow' \in {NoFollow, [at |-> "ended", news |-> FALSE, required |-> FALSE]}
    BY <2>1 DEF NoFollow
  <2>4. pc = "running" /\ UNCHANGED <<pc, uploader, poller>>
    BY <1>3 DEF SessionTypeOK, PartsTypeOK, FollowAsks, NoFollow, server
  <2>5. PartsTypeOK'
    <3>1. follow' \in [at : {"idle", "read", "ask", "ended"}, news : BOOLEAN, required : BOOLEAN]
          /\ (follow'.at = "idle" => follow' = NoFollow)
      <4>1. CASE follow' = NoFollow
        BY <4>1 DEF NoFollow
      <4>2. CASE follow' = [at |-> "ended", news |-> FALSE, required |-> FALSE]
        BY <4>2
      <4>3. QED
        BY <2>3, <4>1, <4>2
    <3>2. QED
      BY <2>4, <3>1 DEF SessionTypeOK, PartsTypeOK
  <2>6. QED
    BY <1>3, <2>2, <2>5 DEF SessionTypeOK, FollowAsks, TokensTypeOK, ServerTypeOK, TasksTypeOK, server, tasks
<1>4. CASE FollowEnds
  <2>1. menu' \in Menu
    BY <1>4, Menus DEF FollowEnds, Menu
  <2>2. PartsTypeOK'
    BY <1>4 DEF SessionTypeOK, PartsTypeOK, FollowEnds, NoFollow, server
  <2>3. QED
    BY <1>4, <2>1, <2>2 DEF SessionTypeOK, FollowEnds, TokensTypeOK, ServerTypeOK, TasksTypeOK, tokens, server, tasks, Menu
<1>5. QED
  BY <1>1, <1>2, <1>3, <1>4 DEF FollowStep

LEMMA PollType == ASSUME SessionTypeOK, NEW conditional \in BOOLEAN, Poll(conditional) PROVE SessionTypeOK'
<1>1. PICK out \in Outcomes :
        Ask(out) /\ (poller' = [poller EXCEPT !.at = "got", !.out = out] \/ UNCHANGED poller)
  BY DEF Poll
<1>2. auth' \in [Servers -> {"none", "saved", "unsaved"}] /\ budget' \in BudgetType
  BY <1>1, Asks
<1>3. PartsTypeOK'
  BY <1>1 DEF SessionTypeOK, PartsTypeOK, Poll, Running, server
<1>4. QED
  BY <1>2, <1>3 DEF SessionTypeOK, Poll, TokensTypeOK, ServerTypeOK, TasksTypeOK, server, tasks

LEMMA FetchType == ASSUME SessionTypeOK, FetchStep PROVE SessionTypeOK'
<1>1. CASE OnFetch
  <2>1. menu' \in Menu
    BY <1>1, Menus DEF SessionTypeOK, OnFetch, Menu
  <2>2. poller' \in [at : {"idle", "got", "busy"}, out : Outcomes, known : BOOLEAN]
    <3>1. \/ poller' = NewPoller \/ poller' = [NewPoller EXCEPT !.at = "busy"]
          \/ \E known \in BOOLEAN : poller' = [NewPoller EXCEPT !.known = known]
      BY <1>1 DEF OnFetch
    <3>2. [NewPoller EXCEPT !.at = "busy"] \in [at : {"idle", "got", "busy"}, out : Outcomes, known : BOOLEAN]
      BY DEF NewPoller, Outcomes
    <3>3. ASSUME NEW known \in BOOLEAN
          PROVE [NewPoller EXCEPT !.known = known] \in [at : {"idle", "got", "busy"}, out : Outcomes, known : BOOLEAN]
      BY DEF NewPoller, Outcomes
    <3>4. NewPoller \in [at : {"idle", "got", "busy"}, out : Outcomes, known : BOOLEAN]
      BY DEF NewPoller, Outcomes
    <3>5. QED
      BY <3>1, <3>2, <3>3, <3>4
  <2>3. PartsTypeOK'
    BY <1>1, <2>2 DEF SessionTypeOK, PartsTypeOK, OnFetch, Running, server
  <2>4. QED
    BY <1>1, <2>1, <2>3 DEF SessionTypeOK, OnFetch, TokensTypeOK, ServerTypeOK, TasksTypeOK, tokens, server, tasks, Menu
<1>2. CASE OnFetchUnsaved
  <2>1. menu' \in Menu
    BY <1>2, Menus DEF OnFetchUnsaved, Menu
  <2>2. TasksTypeOK'
    BY <1>2, Started DEF SessionTypeOK, TasksTypeOK, OnFetchUnsaved
  <2>3. PartsTypeOK'
    BY <1>2 DEF SessionTypeOK, PartsTypeOK, OnFetchUnsaved, NewPoller, Outcomes, server
  <2>4. QED
    BY <1>2, <2>1, <2>2, <2>3 DEF SessionTypeOK, OnFetchUnsaved, TokensTypeOK, ServerTypeOK, tokens, server, Menu
<1>3. QED
  BY <1>1, <1>2 DEF FetchStep

LEMMA RetryTypes == ASSUME SessionTypeOK, NEW r \in retries, RetryStep(r) PROVE SessionTypeOK'
<1>1. CASE RetryAsks(r)
  <2>1. PICK out \in Outcomes : AskToken(out) /\ Moves(r, "got", out)
    BY <1>1 DEF RetryAsks
  <2>2. auth' \in [Servers -> {"none", "saved", "unsaved"}] /\ budget' \in BudgetType
    BY <2>1, AsksToken
  <2>3. TasksTypeOK'
    BY <1>1, <2>1, Moved DEF SessionTypeOK, TasksTypeOK, RetryAsks
  <2>4. QED
    BY <1>1, <2>2, <2>3 DEF SessionTypeOK, RetryAsks, TokensTypeOK, ServerTypeOK, PartsTypeOK, server, parts
<1>2. CASE RetryGot(r)
  <2>1. Moves(r, "end", "ok") \/ Moves(r, "timer", "ok")
    BY <1>2 DEF RetryGot
  <2>2. TasksTypeOK'
    BY <1>2, <2>1, Moved DEF SessionTypeOK, TasksTypeOK, RetryGot, Outcomes
  <2>3. menu' \in Menu /\ uploader' \in UploaderType
    BY <1>2, Menus, ResumedType DEF SessionTypeOK, PartsTypeOK, RetryGot, Menu
  <2>4. pc # "running" => uploader' = uploader
    BY <1>2 DEF RetryGot, Resumed
  <2>5. QED
    BY <1>2, <2>2, <2>3, <2>4 DEF SessionTypeOK, RetryGot, TokensTypeOK, ServerTypeOK, PartsTypeOK, tokens, server, Menu
<1>3. CASE RetryEnds(r)
  <2>1. SavingAfter(r) \in BOOLEAN
    BY DEF SessionTypeOK, TasksTypeOK, SavingAfter
  <2>2. QED
    BY <1>3, <2>1 DEF SessionTypeOK, RetryEnds, TokensTypeOK, ServerTypeOK, TasksTypeOK, PartsTypeOK, tokens, server, parts
<1>4. QED
  BY <1>1, <1>2, <1>3 DEF RetryStep

LEMMA LoginTypes == ASSUME SessionTypeOK, NEW l \in Logins, Login(l) \/ LoginStep(l) PROVE SessionTypeOK'
<1>1. logins \in [Logins -> LoginType] /\ logins[l] \in LoginType
  BY DEF SessionTypeOK, TasksTypeOK
<1>2. ASSUME NEW at \in {"polling", "got", "tell"}, NEW out \in Outcomes, LoginAt(l, at, out)
      PROVE logins' \in [Logins -> LoginType]
  <2>1. [logins[l] EXCEPT !.at = at, !.out = out] \in LoginType
    BY <1>1 DEF LoginType
  <2>2. QED
    BY <1>1, <1>2, <2>1 DEF LoginAt
<1>3. CASE Login(l)
  <2>1. [at |-> "begun", server |-> base, out |-> "ok"] \in LoginType
    BY DEF SessionTypeOK, ServerTypeOK, LoginType, Outcomes
  <2>2. budget' \in BudgetType
    BY <1>3, Spends, BudgetFields DEF Login
  <2>3. QED
    BY <1>1, <1>3, <2>1, <2>2 DEF SessionTypeOK, Login, TokensTypeOK, ServerTypeOK, TasksTypeOK, PartsTypeOK, tokens, server, parts
<1>4. CASE LoginShows(l)
  <2>1. logins' \in [Logins -> LoginType]
    BY <1>2, <1>4 DEF LoginShows, Outcomes
  <2>2. QED
    BY <1>4, <2>1 DEF SessionTypeOK, LoginShows, TokensTypeOK, ServerTypeOK, TasksTypeOK, PartsTypeOK, tokens, server, parts
<1>5. CASE LoginEnds(l)
  <2>1. logins' \in [Logins -> LoginType]
    BY <1>2, <1>5 DEF LoginEnds, Outcomes
  <2>2. budget' = budget \/ Spend("faults")
    BY <1>5 DEF LoginEnds
  <2>3. budget' \in BudgetType
    BY <2>2, Spends, BudgetFields DEF SessionTypeOK
  <2>4. TokensTypeOK'
    BY <1>5 DEF SessionTypeOK, TokensTypeOK, LoginEnds, Becomes, tokens
  <2>5. QED
    BY <1>5, <2>1, <2>3, <2>4 DEF SessionTypeOK, LoginEnds, ServerTypeOK, TasksTypeOK, PartsTypeOK, server, parts
<1>6. CASE LoginReturns(l)
  <2>1. logins' \in [Logins -> LoginType]
    BY <1>1, <1>2, <1>6 DEF LoginReturns, LoginType
  <2>2. loggingIn' = FALSE
    BY <1>6 DEF LoginReturns, LoggingInAfter
  <2>3. UNCHANGED <<tokens, server, retries, saving, saveGen, menu, parts, budget>>
    BY <1>6 DEF LoginReturns
  <2>4. TasksTypeOK'
    BY <2>1, <2>2, <2>3 DEF SessionTypeOK, TasksTypeOK
  <2>5. TokensTypeOK' /\ ServerTypeOK'
    BY <2>3 DEF SessionTypeOK, TokensTypeOK, ServerTypeOK, tokens, server
  <2>6. PartsTypeOK'
    BY <2>3 DEF SessionTypeOK, PartsTypeOK, server, parts
  <2>7. QED
    BY <2>3, <2>4, <2>5, <2>6 DEF SessionTypeOK
<1>7. CASE LoginTells(l)
  <2>1. logins' \in [Logins -> LoginType]
    BY <1>1, <1>7, News DEF LoginTells
  <2>2. StartRetry \/ UNCHANGED <<retries, saving, saveGen>>
    BY <1>7 DEF LoginTells
  <2>3. TasksTypeOK'
    BY <1>7, <2>1, <2>2, Started DEF SessionTypeOK, TasksTypeOK, LoginTells
  <2>4. menu' \in Menu /\ uploader' \in UploaderType
    BY <1>7, Menus, ResumedType DEF SessionTypeOK, PartsTypeOK, LoginTells, Menu
  <2>5. pc # "running" => uploader' = uploader
    BY <1>7 DEF LoginTells, Resumed
  <2>6. QED
    BY <1>7, <2>3, <2>4, <2>5 DEF SessionTypeOK, LoginTells, TokensTypeOK, ServerTypeOK, PartsTypeOK, tokens, server, Menu
<1>8. QED
  BY <1>3, <1>4, <1>5, <1>6, <1>7 DEF LoginStep

LEMMA SessionTypeStep == SessionTypeOK /\ [SessionNext]_sessionVars => SessionTypeOK'
<1> SUFFICES ASSUME SessionTypeOK, [SessionNext]_sessionVars PROVE SessionTypeOK'
  OBVIOUS
<1>1. CASE RunStep
  BY <1>1, StartServerType, StopJoinType DEF RunStep
<1>2. CASE UploadStep \/ FollowStep \/ FetchStep
  BY <1>2, UploadType, FollowType, FetchType
<1>3. CASE \E conditional \in BOOLEAN : Poll(conditional)
  BY <1>3, PollType
<1>4. CASE \E r \in retries : RetryStep(r)
  BY <1>4, RetryTypes
<1>5. CASE \E l \in Logins : LoginStep(l)
  BY <1>5, LoginTypes
<1>6. CASE User
  BY <1>6, UserType, LoginTypes DEF User
<1>7. CASE UNCHANGED sessionVars
  BY <1>7 DEF SessionTypeOK, TokensTypeOK, ServerTypeOK, TasksTypeOK, PartsTypeOK, sessionVars, tokens, server, tasks, parts
<1>8. QED
  BY <1>1, <1>2, <1>3, <1>4, <1>5, <1>6, <1>7 DEF SessionNext

-----------------------------------------------------------------------------
(* The other parts of IInv, one lemma per kind of step.                    *)

Held == RunHeld /\ Generations /\ OneLogin /\ TasksOfServer /\ SavingIsLatest /\ WaitingIsLogin

(* A step that leaves the tasks and the run alone.                         *)
LEMMA QuietHolds ==
  ASSUME IInv, UNCHANGED <<server, tasks>>, menu' = "waiting" => menu = "waiting"
  PROVE Held'
<1>1. RunHeld' /\ Generations'
  BY DEF IInv, RunHeld, Generations, Joined, server, tasks
<1>2. OneLogin' /\ TasksOfServer' /\ SavingIsLatest' /\ WaitingIsLogin'
  BY DEF IInv, OneLogin, TasksOfServer, SavingIsLatest, WaitingIsLogin, server, tasks
<1>3. QED
  BY <1>1, <1>2 DEF Held

LEMMA StartServerHolds == ASSUME IInv, StartServer PROVE Held'
<1>1. Joined /\ run = "ended" /\ (next = NoServer => menu # "waiting")
  BY DEF IInv, RunHeld, StartServer
<1>2. RunHeld'
  BY DEF RunHeld, StartServer
<1>3. Generations' /\ OneLogin' /\ SavingIsLatest'
  BY DEF IInv, Generations, OneLogin, SavingIsLatest, StartServer, tasks
<1>4. TasksOfServer'
  BY <1>1 DEF TasksOfServer, Joined, StartServer, tasks
<1>5. menu' # "waiting"
  BY <1>1 DEF StartServer
<1>6. QED
  BY <1>2, <1>3, <1>4, <1>5 DEF Held, WaitingIsLogin

LEMMA StopJoinHolds == ASSUME IInv, StopParts \/ Join PROVE Held'
<1>1. run = "ended" /\ pc # "start" /\ next # NoServer
  BY DEF IInv, RunHeld, StopParts, Join
<1>2. UNCHANGED <<base, next, run, tasks, menu>> /\ (pc' = "start" => Joined) /\ pc' \in {"start", "joining"}
  BY DEF StopParts, Join
<1>3. RunHeld'
  BY <1>1, <1>2 DEF RunHeld, Joined, tasks
<1>4. Generations' /\ OneLogin' /\ TasksOfServer' /\ SavingIsLatest' /\ WaitingIsLogin'
  BY <1>2 DEF IInv, Generations, OneLogin, TasksOfServer, SavingIsLatest, WaitingIsLogin, tasks
<1>5. QED
  BY <1>3, <1>4 DEF Held

LEMMA SetServerHolds == ASSUME IInv, NEW s \in Servers, SetServer(s) PROVE Held'
<1>1. s # NoServer
  BY SessionAssumption
<1>2. next' = s /\ run' = "ended" /\ UNCHANGED <<base, pc, tasks, menu>>
  BY DEF SetServer
<1>3. RunHeld'
  BY <1>1, <1>2 DEF IInv, RunHeld, Joined, tasks
<1>4. Generations' /\ OneLogin' /\ TasksOfServer' /\ SavingIsLatest' /\ WaitingIsLogin'
  BY <1>2 DEF IInv, Generations, OneLogin, TasksOfServer, SavingIsLatest, WaitingIsLogin, tasks
<1>5. QED
  BY <1>3, <1>4 DEF Held

(* A new retry takes the place of the last, which is stopped.              *)
LEMMA StartedHolds ==
  ASSUME IInv, StartRetry
  PROVE Generations' /\ SavingIsLatest' /\ \A r \in retries' : r.server = base
<1>1. PICK new \in RetryType :
        /\ new.gen = saveGen + 1 /\ ~new.stopped /\ new.server = base
        /\ saving' = TRUE /\ saveGen' = saveGen + 1 /\ saveGen' \in Nat
        /\ retries' \subseteq RetryType /\ new \in retries'
        /\ \A r \in retries' : \/ r = new
                               \/ \E q \in retries : /\ r.gen = q.gen /\ r.server = q.server
                                                     /\ r.stopped = (q.stopped \/ (saving /\ q.gen = saveGen))
                                                     /\ r = [q EXCEPT !.stopped = r.stopped]
  BY Started DEF IInv
<1>2. saveGen \in Nat /\ \A q \in retries : q.gen \in Nat /\ q.gen <= saveGen
  BY DEF IInv, SessionTypeOK, TasksTypeOK, RetryType, Generations
<1>3. \A r \in retries' : r.gen <= saveGen' /\ r.server = base
  BY <1>1, <1>2 DEF IInv, TasksOfServer
<1>4. ASSUME NEW r \in retries', NEW t \in retries', r.gen = t.gen PROVE r = t
  <2>1. CASE r = new \/ t = new
    BY <1>1, <1>2, <1>4, <2>1
  <2>2. CASE r # new /\ t # new
    <3>1. PICK q \in retries : /\ r.gen = q.gen /\ r.stopped = (q.stopped \/ (saving /\ q.gen = saveGen))
                               /\ r = [q EXCEPT !.stopped = r.stopped]
      BY <1>1, <2>2
    <3>2. PICK p \in retries : /\ t.gen = p.gen /\ t.stopped = (p.stopped \/ (saving /\ p.gen = saveGen))
                               /\ t = [p EXCEPT !.stopped = t.stopped]
      BY <1>1, <2>2
    <3>3. q = p
      BY <1>4, <3>1, <3>2 DEF IInv, Generations
    <3>4. r.stopped = t.stopped
      BY <3>1, <3>2, <3>3
    <3>5. QED
      BY <3>1, <3>2, <3>3, <3>4
  <2>3. QED
    BY <2>1, <2>2
<1>5. \A r \in retries' : r.gen # saveGen' => r.stopped
  <2>1. SUFFICES ASSUME NEW r \in retries', r.gen # saveGen' PROVE r.stopped
    OBVIOUS
  <2>2. PICK q \in retries : /\ r.gen = q.gen /\ r.stopped = (q.stopped \/ (saving /\ q.gen = saveGen))
    BY <1>1, <2>1
  <2>3. CASE q.gen = saveGen
    <3>1. saving
      BY <2>3 DEF IInv, SavingIsLatest
    <3>2. QED
      BY <2>2, <2>3, <3>1
  <2>4. CASE q.gen # saveGen
    <3>1. q.stopped
      BY <2>4 DEF IInv, SavingIsLatest
    <3>2. QED
      BY <2>2, <3>1
  <2>5. QED
    BY <2>3, <2>4
<1>6. Generations'
  BY <1>3, <1>4 DEF Generations
<1>7. SavingIsLatest'
  BY <1>1, <1>5 DEF SavingIsLatest
<1>8. QED
  BY <1>3, <1>6, <1>7

LEMMA OnFetchUnsavedHolds == ASSUME IInv, OnFetchUnsaved PROVE Held'
<1>1. pc = "running"
  BY DEF IInv, SessionTypeOK, PartsTypeOK, OnFetchUnsaved, NewPoller
<1>2. UNCHANGED <<server, logins, loggingIn>> /\ (menu' = "waiting" => menu = "waiting")
  BY DEF OnFetchUnsaved, UnlessWaiting
<1>3. Generations' /\ SavingIsLatest' /\ \A r \in retries' : r.server = base
  BY StartedHolds DEF OnFetchUnsaved
<1>4. RunHeld'
  BY <1>1, <1>2 DEF IInv, RunHeld, server
<1>5. OneLogin' /\ TasksOfServer' /\ WaitingIsLogin'
  BY <1>2, <1>3 DEF IInv, OneLogin, TasksOfServer, WaitingIsLogin, server
<1>6. QED
  BY <1>3, <1>4, <1>5 DEF Held

LEMMA RetryHolds == ASSUME IInv, NEW r \in retries, RetryStep(r) PROVE Held'
<1>1. pc # "start" /\ UNCHANGED <<server, logins, loggingIn, saveGen>> /\ (menu' = "waiting" => menu = "waiting")
  BY DEF IInv, RunHeld, Joined, RetryStep, RetryAsks, RetryGot, RetryEnds, UnlessWaiting, Works
<1>2. RunHeld'
  BY <1>1 DEF IInv, RunHeld, server
<1>3. OneLogin' /\ WaitingIsLogin'
  BY <1>1 DEF IInv, OneLogin, WaitingIsLogin, server
<1>4. CASE RetryAsks(r) \/ RetryGot(r)
  <2>1. UNCHANGED saving /\ \E at \in {"timer", "got", "end"}, out \in Outcomes : Moves(r, at, out)
    <3>1. CASE RetryAsks(r)
      BY <3>1 DEF RetryAsks
    <3>2. CASE RetryGot(r)
      BY <3>2 DEF RetryGot, Outcomes
    <3>3. QED
      BY <1>4, <3>1, <3>2
  <2>2. PICK new \in RetryType :
          /\ new.gen = r.gen /\ new.server = r.server /\ new.stopped = r.stopped
          /\ retries' = (retries \ {r}) \cup {new}
    BY <2>1, Moved DEF IInv
  <2>3. Generations'
    BY <1>1, <2>2 DEF IInv, Generations
  <2>4. TasksOfServer'
    BY <1>1, <2>2 DEF IInv, TasksOfServer, server
  <2>5. SavingIsLatest'
    BY <1>1, <2>1, <2>2 DEF IInv, SavingIsLatest
  <2>6. QED
    BY <1>2, <1>3, <2>3, <2>4, <2>5 DEF Held
<1>5. CASE RetryEnds(r)
  <2>1. retries' = retries \ {r} /\ saving' = (saving /\ r.gen # saveGen)
    BY <1>5 DEF RetryEnds, SavingAfter
  <2>2. Generations' /\ TasksOfServer'
    BY <1>1, <2>1 DEF IInv, Generations, TasksOfServer, server
  <2>3. SavingIsLatest'
    BY <1>1, <2>1 DEF IInv, SavingIsLatest, Generations
  <2>4. QED
    BY <1>2, <1>3, <2>2, <2>3 DEF Held
<1>6. QED
  BY <1>4, <1>5 DEF RetryStep

LEMMA LoginHolds == ASSUME IInv, NEW l \in Logins, Login(l) PROVE Held'
<1>1. run = "live" /\ pc # "start" /\ pc # "joining" /\ ~loggingIn
  BY DEF IInv, RunHeld, Login
<1>2. logins' = [logins EXCEPT ![l] = [at |-> "begun", server |-> base, out |-> "ok"]] /\ loggingIn' = TRUE
  BY DEF Login
<1>3. UNCHANGED <<server, retries, saving, saveGen, menu>>
  BY DEF Login
<1>4. logins \in [Logins -> LoginType]
  BY DEF IInv, SessionTypeOK, TasksTypeOK
<1>5. logins'[l].at = "begun" /\ logins'[l].server = base /\ \A k \in Logins \ {l} : logins'[k] = logins[k]
  BY <1>2, <1>4
<1>6. RunHeld' /\ Generations' /\ SavingIsLatest'
  BY <1>1, <1>3 DEF IInv, RunHeld, Generations, SavingIsLatest, server
<1>7. OneLogin'
  BY <1>1, <1>2, <1>5 DEF IInv, OneLogin
<1>8. TasksOfServer' /\ WaitingIsLogin'
  BY <1>3, <1>5 DEF IInv, TasksOfServer, WaitingIsLogin, server
<1>9. QED
  BY <1>6, <1>7, <1>8 DEF Held

(* A login that goes on to its next point.                                 *)
LEMMA LoginGoesOn ==
  ASSUME IInv, NEW l \in Logins, LoginShows(l) \/ LoginEnds(l) \/ LoginReturns(l)
  PROVE Held'
<1>1. logins \in [Logins -> LoginType]
  BY DEF IInv, SessionTypeOK, TasksTypeOK
<1>2. logins[l].at \in {"begun", "polling", "got"} /\ UNCHANGED <<server, retries, saving, saveGen>>
  BY DEF LoginShows, LoginEnds, LoginReturns
<1>3. PICK at \in {"polling", "got", "tell"}, out \in Outcomes :
        logins' = [logins EXCEPT ![l] = [@ EXCEPT !.at = at, !.out = out]]
  BY <1>1 DEF LoginShows, LoginEnds, LoginReturns, LoginAt, LoginType, Outcomes
<1>4. logins'[l].at = at /\ logins'[l].server = logins[l].server /\ \A k \in Logins \ {l} : logins'[k] = logins[k]
  BY <1>1, <1>3 DEF LoginType
<1>5. pc # "start"
  BY <1>2 DEF IInv, RunHeld, Joined
<1>6. RunHeld' /\ Generations' /\ SavingIsLatest'
  BY <1>2, <1>5 DEF IInv, RunHeld, Generations, SavingIsLatest, server
<1>7. TasksOfServer' /\ WaitingIsLogin'
  BY <1>2, <1>4 DEF IInv, TasksOfServer, WaitingIsLogin, server
<1>8. loggingIn /\ \A k \in Logins \ {l} : logins[k].at \notin {"begun", "polling", "got"}
  BY <1>2 DEF IInv, OneLogin
<1>9. loggingIn' = (at # "tell")
  <2>1. CASE LoginReturns(l)
    <3>1. logins'[l].at = "tell"
      BY <1>1, <2>1 DEF LoginReturns, LoginAt, LoginType
    <3>2. QED
      BY <1>4, <2>1, <3>1 DEF LoginReturns, LoggingInAfter
  <2>2. CASE LoginShows(l) \/ LoginEnds(l)
    <3>1. logins'[l].at \in {"polling", "got"} /\ loggingIn' = loggingIn
      BY <1>1, <2>2 DEF LoginShows, LoginEnds, LoginAt, LoginType
    <3>2. loggingIn \in BOOLEAN
      BY DEF IInv, SessionTypeOK, TasksTypeOK
    <3>3. QED
      BY <1>4, <1>8, <3>1, <3>2
  <2>3. QED
    BY <2>1, <2>2
<1>10. OneLogin'
  BY <1>4, <1>8, <1>9 DEF OneLogin
<1>11. QED
  BY <1>6, <1>7, <1>10 DEF Held

LEMMA LoginTellsHolds == ASSUME IInv, NEW l \in Logins, LoginTells(l) PROVE Held'
<1>1. logins \in [Logins -> LoginType]
  BY DEF IInv, SessionTypeOK, TasksTypeOK
<1>2. logins[l].at = "tell" /\ logins' = [logins EXCEPT ![l] = NoLogin] /\ UNCHANGED <<server, loggingIn>>
  BY DEF LoginTells
<1>3. logins'[l].at = "none" /\ \A k \in Logins \ {l} : logins'[k] = logins[k]
  BY <1>1, <1>2 DEF NoLogin
<1>4. pc # "start"
  BY <1>2 DEF IInv, RunHeld, Joined
<1>5. RunHeld'
  BY <1>2, <1>4 DEF IInv, RunHeld, server
<1>6. StartRetry \/ UNCHANGED <<retries, saving, saveGen>>
  BY DEF LoginTells
<1>7. Generations' /\ SavingIsLatest' /\ \A r \in retries' : r.server = base
  BY <1>6, StartedHolds DEF IInv, Generations, SavingIsLatest, TasksOfServer
<1>8. OneLogin'
  BY <1>2, <1>3 DEF IInv, OneLogin
<1>9. TasksOfServer'
  BY <1>2, <1>3, <1>7 DEF IInv, TasksOfServer, server
<1>10. menu' = "waiting" => run = "ended"
  BY DEF LoginTells, Failed
<1>11. WaitingIsLogin'
  BY <1>2, <1>10 DEF WaitingIsLogin, server
<1>12. QED
  BY <1>5, <1>7, <1>8, <1>9, <1>11 DEF Held

-----------------------------------------------------------------------------
LEMMA InitIInv == SessionInit => IInv
<1> SUFFICES ASSUME SessionInit PROVE IInv
  OBVIOUS
<1>1. TokensTypeOK /\ ServerTypeOK /\ TasksTypeOK
  BY News DEF SessionInit, TokensTypeOK, ServerTypeOK, TasksTypeOK
<1>2. PartsTypeOK
  BY News DEF SessionInit, PartsTypeOK, NoFollow, NewPoller, Outcomes
<1>3. SessionTypeOK
  BY <1>1, <1>2, SessionAssumption DEF SessionInit, SessionTypeOK
<1>4. RunHeld /\ Generations
  BY News DEF SessionInit, RunHeld, Generations, Joined
<1>5. OneLogin /\ TasksOfServer /\ SavingIsLatest /\ WaitingIsLogin
  BY News DEF SessionInit, OneLogin, TasksOfServer, SavingIsLatest, WaitingIsLogin
<1>6. QED
  BY <1>3, <1>4, <1>5 DEF IInv

LEMMA IInvStep == IInv /\ [SessionNext]_sessionVars => IInv'
<1> SUFFICES ASSUME IInv, [SessionNext]_sessionVars PROVE IInv'
  OBVIOUS
<1>1. SessionTypeOK'
  BY SessionTypeStep DEF IInv
<1>2. CASE RunStep
  BY <1>1, <1>2, StartServerHolds, StopJoinHolds DEF RunStep, IInv, Held
<1>3. CASE UploadStep \/ FollowStep \/ OnFetch \/ \E conditional \in BOOLEAN : Poll(conditional)
  <2>1. UNCHANGED <<server, tasks>> /\ (menu' = "waiting" => menu = "waiting")
    BY <1>3 DEF UploadStep, FollowStep, Attempt, Finish, Follow, FollowShows, FollowAsks, FollowEnds, OnFetch, Poll,
                UnlessWaiting, Works, Known
  <2>2. QED
    BY <1>1, <2>1, QuietHolds DEF IInv, Held
<1>4. CASE OnFetchUnsaved
  BY <1>1, <1>4, OnFetchUnsavedHolds DEF IInv, Held
<1>5. CASE \E r \in retries : RetryStep(r)
  BY <1>1, <1>5, RetryHolds DEF IInv, Held
<1>6. CASE \E l \in Logins : LoginStep(l)
  BY <1>1, <1>6, LoginGoesOn, LoginTellsHolds DEF LoginStep, IInv, Held
<1>7. CASE User
  <2>1. CASE Change \/ Sync \/ \E s \in Servers : Revoke(s)
    <3>1. UNCHANGED <<server, tasks, menu>>
      BY <2>1 DEF Change, Sync, Revoke
    <3>2. QED
      BY <1>1, <3>1, QuietHolds DEF IInv, Held
  <2>2. CASE \E l \in Logins : Login(l)
    BY <1>1, <2>2, LoginHolds DEF IInv, Held
  <2>3. CASE \E s \in Servers : SetServer(s)
    BY <1>1, <2>3, SetServerHolds DEF IInv, Held
  <2>4. QED
    BY <1>7, <2>1, <2>2, <2>3 DEF User
<1>8. CASE UNCHANGED sessionVars
  <2>1. UNCHANGED <<server, tasks, menu>>
    BY <1>8 DEF sessionVars
  <2>2. QED
    BY <1>1, <2>1, QuietHolds DEF IInv, Held
<1>9. QED
  BY <1>2, <1>3, <1>4, <1>5, <1>6, <1>7, <1>8 DEF SessionNext, FetchStep

LEMMA IInvHolds == SessionSpec => []IInv
BY InitIInv, IInvStep, PTL DEF SessionSpec

(* The variables of the controller and its parts keep their types, and     *)
(* between two servers no part is left running.                            *)
THEOREM SessionTypeCorrect == SessionSpec => []SessionTypeOK
<1>1. IInv => SessionTypeOK
  BY DEF IInv
<1>2. QED
  BY <1>1, IInvHolds, PTL

(* Controller.Login: at most one device login runs, and loggingIn is set   *)
(* exactly while it does.                                                  *)
THEOREM OneLoginRuns == SessionSpec => []OneLogin
<1>1. IInv => OneLogin
  BY DEF IInv
<1>2. QED
  BY <1>1, IInvHolds, PTL

(* Controller.Run and Controller.Login under mu: every login and save      *)
(* retry belongs to the server whose parts run.                            *)
THEOREM TasksBelong == SessionSpec => []TasksOfServer
<1>1. IInv => TasksOfServer
  BY DEF IInv
<1>2. QED
  BY <1>1, IInvHolds, PTL

(* Controller.startSaveRetry: saving tells of the latest retry, and every  *)
(* other one is stopped.                                                   *)
THEOREM SavingTells == SessionSpec => []SavingIsLatest
<1>1. IInv => SavingIsLatest
  BY DEF IInv
<1>2. QED
  BY <1>1, IInvHolds, PTL

(* Controller.login: the menu shows a login under way only while there is  *)
(* one, or while the server changes.                                       *)
THEOREM WaitingTells == SessionSpec => []WaitingIsLogin
<1>1. IInv => WaitingIsLogin
  BY DEF IInv
<1>2. QED
  BY <1>1, IInvHolds, PTL

(* Controller.mu and Run's wait: the controller's bookkeeping tells of the *)
(* logins and save retries there are.                                      *)
THEOREM TasksAreTracked == SessionSpec => []Tracked
<1>1. IInv => Tracked
  BY DEF IInv, Tracked
<1>2. QED
  BY <1>1, IInvHolds, PTL

-----------------------------------------------------------------------------
(* Sign-in and the web sessions. Each part adds what the parts before      *)
(* leave open: the types, the life of a web session, the users of the      *)
(* accounts, and the flows of sign-ins.                                    *)


Signing == {"find", "create", "reread", "replace", "start", "link"}

\* What each step of a request takes for granted of the steps before it.
Ready(q) ==
  /\ q.at # "idle" => q.browser \in Browsers
  /\ q.at \in {"select", "expire", "renew"} => q.token \in Tokens
  /\ q.user # NoUser => q.token \in Tokens
  /\ q.at \in Signing => q.account \in Accounts
  /\ q.at \in {"replace", "start"} => q.signer \in Users

\* The rows of TypeOK.
SessionRow == [user : Users, by : Accounts, age : Ages]
RowsType ==
  /\ users \subseteq Users /\ used \in [users : SUBSET Users, tokens : SUBSET Tokens] /\ ended \subseteq Tokens
  /\ owner \in [Accounts -> Users \cup {NoUser}]
  /\ sessions \in [Tokens -> SessionRow \cup {NoSession}]

TypeInv == TypeOK /\ \A r \in Requests : Ready(req[r])

-----------------------------------------------------------------------------
(* Types.                                                                       *)

LEMMA FreshOne == ASSUME NEW ids, NEW taken, NEW id \in Fresh(ids, taken) PROVE id \in ids /\ id \notin taken
BY DEF Fresh

LEMMA IdleType == Idle \in Request /\ Ready(Idle) /\ Idle.at = "idle" /\ Idle.user = NoUser
<1>1. (CHOOSE p \in Providers : TRUE) \in Providers
  BY SignInAssumption
<1> QED
  BY <1>1 DEF Idle, Request, Ready, Kinds, NoFlow, Flow, Untouched, Signing

\* A request that goes on to q, while the others stay.
LEMMA StepOf ==
  ASSUME TypeInv, NEW r \in Requests, NEW q, q \in Request, Ready(q), req' = [req EXCEPT ![r] = q]
  PROVE  /\ req' \in [Requests -> Request] /\ \A s \in Requests : Ready(req'[s])
         /\ req'[r] = q /\ \A s \in Requests \ {r} : req'[s] = req[s]
BY DEF TypeInv, TypeOK

LEMMA RowsOfEnd ==
  ASSUME TypeInv, NEW t \in Tokens, End(t)
  PROVE  /\ sessions' \in [Tokens -> [user : Users, by : Accounts, age : Ages] \cup {NoSession}]
         /\ sessions' = [s \in Tokens |-> IF s = t THEN NoSession ELSE sessions[s]]
         /\ ended' \subseteq Tokens
BY DEF TypeInv, TypeOK, End

LEMMA InitType == Init => TypeInv
<1> SUFFICES ASSUME Init PROVE TypeInv
  OBVIOUS
<1>1. req \in [Requests -> Request] /\ \A r \in Requests : Ready(req[r])
  BY IdleType DEF Init
<1>2. flows \in [Browsers -> [Providers -> Flow]]
  BY DEF Init, NoFlow, Flow
<1>3. begun \in Seq([browser : Browsers, provider : Providers, user : Users \cup {NoUser}])
  BY DEF Init
<1>4. RowsType /\ jar \in [Browsers -> Tokens \cup {NoToken}]
  <2>1. CASE users = {}
    BY <2>1, FreshOne DEF Init, RowsType
  <2>2. ASSUME NEW u \in Fresh(Users, {}), NEW account \in Accounts, NEW token \in Fresh(Tokens, {}), NEW browser \in Browsers, NEW age \in Ages,
               users = {u}, used = [users |-> {u}, tokens |-> {token}], ended = {},
               owner = [a \in Accounts |-> IF a = account THEN u ELSE NoUser],
               sessions = [t \in Tokens |-> IF t = token THEN [user |-> u, by |-> account, age |-> age] ELSE NoSession],
               jar = [b \in Browsers |-> IF b = browser THEN token ELSE NoToken]
        PROVE  RowsType /\ jar \in [Browsers -> Tokens \cup {NoToken}]
    BY <2>2, FreshOne DEF RowsType, SessionRow
  <2>3. CASE /\ users = {} /\ used = [users |-> {}, tokens |-> {}]
             /\ owner = [a \in Accounts |-> NoUser] /\ sessions = [t \in Tokens |-> NoSession]
             /\ jar = [b \in Browsers |-> NoToken]
    BY <2>3 DEF Init, RowsType
  <2> QED
    BY <2>2, <2>3 DEF Init
<1> QED
  BY <1>1, <1>2, <1>3, <1>4 DEF Init, TypeInv, TypeOK, RowsType, SessionRow

\* What a step of one request keeps of the rest.
LEMMA TypeStep ==
  ASSUME TypeInv, NEW r \in Requests, NEW q, q \in Request, Ready(q), req' = [req EXCEPT ![r] = q],
         RowsType', UNCHANGED <<jar, flows, begun, sends, others>>
  PROVE  TypeInv'
BY StepOf DEF TypeInv, TypeOK, RowsType, SessionRow

LEMMA SameRows == ASSUME TypeInv, UNCHANGED rows PROVE RowsType'
BY DEF TypeInv, TypeOK, RowsType, SessionRow, rows

-----------------------------------------------------------------------------
(* The browser, and the web session of a request.                               *)

LEMMA SentFields ==
  ASSUME NEW b, NEW kind, NEW p, NEW n
  PROVE  /\ Sent(b, kind, p, n).at = IF jar[b] = NoToken THEN "handle" ELSE "select"
         /\ Sent(b, kind, p, n).cookie = IF jar[b] \in ended THEN "ended" ELSE "live"
         /\ Sent(b, kind, p, n).browser = b /\ Sent(b, kind, p, n).token = jar[b]
         /\ Sent(b, kind, p, n).user = NoUser /\ Sent(b, kind, p, n).flow = flows[b][p]
         /\ Sent(b, kind, p, n).n = n /\ Sent(b, kind, p, n).flows = Untouched /\ Sent(b, kind, p, n).jar = "keep"
         /\ Sent(b, kind, p, n).provider = p
BY DEF Sent

LEMMA SendType == ASSUME TypeInv, NEW r \in Requests, Send(r) PROVE TypeInv'
<1> PICK b \in Browsers, kind \in Kinds, p \in Providers, n \in 0 .. Len(begun) :
       req' = [req EXCEPT ![r] = Sent(b, kind, p, n)]
  BY DEF Send
<1>1. flows[b][p] \in Flow /\ jar[b] \in Tokens \cup {NoToken} /\ n \in Nat
  BY DEF TypeInv, TypeOK
<1>2. Sent(b, kind, p, n) \in Request /\ Ready(Sent(b, kind, p, n))
  <2>1. Untouched \in Flow
    BY DEF Untouched, Flow
  <2>2. Sent(b, kind, p, n) \in Request
    BY <1>1, <2>1 DEF Sent, Request
  <2> QED
    BY <1>1, <2>2, SentFields DEF Ready, Signing
<1>3. req' \in [Requests -> Request] /\ \A s \in Requests : Ready(req'[s])
  BY <1>2, StepOf
<1> QED
  BY <1>3 DEF TypeInv, TypeOK, Send, rows, cookies

LEMMA AnswerType == ASSUME TypeInv, NEW r \in Requests, Answer(r) PROVE TypeInv'
<1>1. req' \in [Requests -> Request] /\ \A s \in Requests : Ready(req'[s])
  BY IdleType, StepOf DEF Answer
<1>2. req[r].jar \in Tokens \cup {NoToken, "keep"} /\ req[r].flows \in Flow
  BY DEF TypeInv, TypeOK, Request
<1>3. jar' \in [Browsers -> Tokens \cup {NoToken}]
  BY <1>2 DEF TypeInv, TypeOK, Answer
<1>4. flows' \in [Browsers -> [Providers -> Flow]]
  BY <1>2 DEF TypeInv, TypeOK, Answer
<1> QED
  BY <1>1, <1>3, <1>4 DEF TypeInv, TypeOK, Answer, rows

LEMMA ForgetType == ASSUME TypeInv, NEW b \in Browsers, Forget(b) PROVE TypeInv'
<1>1. NoFlow \in Flow
  BY DEF NoFlow, Flow
<1>2. jar' \in [Browsers -> Tokens \cup {NoToken}]
  BY DEF TypeInv, TypeOK, Forget
<1>3. flows' \in [Browsers -> [Providers -> Flow]]
  <2>1. CASE UNCHANGED flows
    BY <2>1 DEF TypeInv, TypeOK
  <2>2. ASSUME NEW p \in Providers, flows' = [flows EXCEPT ![b][p] = NoFlow]
        PROVE  flows' \in [Browsers -> [Providers -> Flow]]
    BY <1>1, <2>2 DEF TypeInv, TypeOK
  <2> QED
    BY <2>1, <2>2 DEF Forget
<1> QED
  BY <1>2, <1>3 DEF TypeInv, TypeOK, Forget, rows

LEMMA SelectType == ASSUME TypeInv, NEW r \in Requests, Select(r) PROVE TypeInv'
<1>1. req[r] \in Request /\ req[r].token \in Tokens /\ req[r].at = "select" /\ Ready(req[r])
  BY DEF TypeInv, TypeOK, Ready, Select, Is
<1> DEFINE row == sessions[req[r].token]
<1>2. row \in SessionRow \cup {NoSession} /\ NoSession.age = "expired"
  BY <1>1 DEF TypeInv, TypeOK, SessionRow, NoSession
<1>3. CASE req' = [req EXCEPT ![r].at = "handle", ![r].jar = NoToken]
  <2> DEFINE q == [req[r] EXCEPT !.at = "handle", !.jar = NoToken]
  <2>1. q \in Request /\ Ready(q) /\ req' = [req EXCEPT ![r] = q]
    BY <1>1, <1>3 DEF Request, Ready, Signing, TypeInv, TypeOK
  <2> QED
    BY <2>1, TypeStep, SameRows DEF Select, cookies
<1>4. CASE Goto(r, "expire")
  <2> DEFINE q == [req[r] EXCEPT !.at = "expire"]
  <2>1. q \in Request /\ Ready(q) /\ req' = [req EXCEPT ![r] = q]
    BY <1>1, <1>4 DEF Request, Ready, Signing, TypeInv, TypeOK, Goto
  <2> QED
    BY <2>1, TypeStep, SameRows DEF Select, cookies
<1>5. ASSUME NEW at \in {"renew", "handle"}, req' = [req EXCEPT ![r].at = at, ![r].user = row.user], row.age # "expired"
      PROVE  TypeInv'
  <2> DEFINE q == [req[r] EXCEPT !.at = at, !.user = row.user]
  <2>1. row.user \in Users
    BY <1>2, <1>5 DEF SessionRow
  <2>2. q \in Request /\ Ready(q) /\ req' = [req EXCEPT ![r] = q]
    BY <1>1, <1>5, <2>1 DEF Request, Ready, Signing, TypeInv, TypeOK
  <2> QED
    BY <2>2, TypeStep, SameRows DEF Select, cookies
<1> QED
  BY <1>3, <1>4, <1>5 DEF Select

LEMMA ExpireType == ASSUME TypeInv, NEW r \in Requests, Expire(r) PROVE TypeInv'
<1>1. req[r] \in Request /\ req[r].token \in Tokens /\ req[r].at = "expire" /\ Ready(req[r])
  BY DEF TypeInv, TypeOK, Ready, Expire, Is
<1> DEFINE q == [req[r] EXCEPT !.at = "handle", !.jar = NoToken]
<1>2. q \in Request /\ Ready(q) /\ req' = [req EXCEPT ![r] = q]
  BY <1>1 DEF Request, Ready, Signing, TypeInv, TypeOK, Expire
<1>3. RowsType'
  BY <1>1, RowsOfEnd DEF Expire, RowsType, TypeInv, TypeOK, SessionRow
<1> QED
  BY <1>2, <1>3, TypeStep DEF Expire, cookies

LEMMA RenewType == ASSUME TypeInv, NEW r \in Requests, Renew(r) PROVE TypeInv'
<1>1. req[r] \in Request /\ req[r].token \in Tokens /\ req[r].at = "renew" /\ Ready(req[r])
  BY DEF TypeInv, TypeOK, Ready, Renew, Is
<1> DEFINE q == [req[r] EXCEPT !.at = "handle", !.jar = req[r].token]
<1>2. q \in Request /\ Ready(q) /\ req' = [req EXCEPT ![r] = q]
  BY <1>1 DEF Request, Ready, Signing, TypeInv, TypeOK, Renew
<1>3. sessions' = [t \in Tokens |-> IF t = req[r].token /\ sessions[t] # NoSession THEN [sessions[t] EXCEPT !.age = "fresh"] ELSE sessions[t]]
  <2>1. CASE sessions[req[r].token] = NoSession
    <3>1. sessions' = [sessions EXCEPT ![req[r].token] = NoSession]
      BY <1>1, <2>1 DEF Renew, TypeInv, TypeOK, NoSession
    <3> QED
      BY <1>1, <2>1, <3>1 DEF TypeInv, TypeOK
  <2>2. CASE sessions[req[r].token] # NoSession
    <3>1. sessions' = [sessions EXCEPT ![req[r].token] = [sessions[req[r].token] EXCEPT !.age = "fresh"]]
      BY <1>1, <2>2 DEF Renew, TypeInv, TypeOK
    <3> QED
      BY <1>1, <2>2, <3>1 DEF TypeInv, TypeOK
  <2> QED
    BY <2>1, <2>2
<1>4. sessions' \in [Tokens -> SessionRow \cup {NoSession}]
  <2> SUFFICES ASSUME NEW t \in Tokens, sessions[t] # NoSession PROVE [sessions[t] EXCEPT !.age = "fresh"] \in SessionRow
    BY <1>3 DEF TypeInv, TypeOK, SessionRow
  <2> QED
    BY DEF TypeInv, TypeOK, SessionRow, Ages
<1>5. RowsType'
  BY <1>4 DEF Renew, RowsType, TypeInv, TypeOK
<1> QED
  BY <1>2, <1>5, TypeStep DEF Renew, cookies

-----------------------------------------------------------------------------
(* The handlers.                                                                *)

\* A request that goes on without a change of rows.
LEMMA QuietStep ==
  ASSUME TypeInv, NEW r \in Requests, NEW q, q \in Request, Ready(q), req' = [req EXCEPT ![r] = q],
         UNCHANGED <<rows, jar, flows, begun, sends, others>>
  PROVE  TypeInv'
BY SameRows, TypeStep

LEMMA PageType == ASSUME TypeInv, NEW r \in Requests, Page(r) PROVE TypeInv'
<1> DEFINE q == [req[r] EXCEPT !.at = "answer"]
<1>1. req[r] \in Request /\ Ready(req[r]) /\ req[r].at = "handle"
  BY DEF TypeInv, TypeOK, Page, Is
<1>2. q \in Request
  BY <1>1 DEF Request
<1>3. Ready(q)
  BY <1>1 DEF Request, Ready, Signing
<1>4. req' = [req EXCEPT ![r] = q]
  BY DEF TypeInv, TypeOK, Page, Goto
<1> HIDE DEF q
<1> QED
  BY <1>2, <1>3, <1>4, QuietStep DEF Page, cookies

LEMMA BeginType == ASSUME TypeInv, NEW r \in Requests, Begin(r) PROVE TypeInv'
<1>1. req[r] \in Request /\ Ready(req[r]) /\ req[r].at = "handle"
  BY DEF TypeInv, TypeOK, Begin, Is
<1>2. CASE Goto(r, "answer") /\ UNCHANGED begun
  <2> DEFINE q == [req[r] EXCEPT !.at = "answer"]
  <2>1. q \in Request
    BY <1>1 DEF Request
  <2>2. Ready(q)
    BY <1>1 DEF Request, Ready, Signing
  <2>3. req' = [req EXCEPT ![r] = q]
    BY <1>2 DEF TypeInv, TypeOK, Goto
  <2> HIDE DEF q
  <2> QED
    BY <1>2, <2>1, <2>2, <2>3, QuietStep DEF Begin, cookies
<1>3. ASSUME NEW link \in Tokens \cup {NoToken}, NEW u \in Users \cup {NoUser},
             begun' = Append(begun, [browser |-> req[r].browser, provider |-> req[r].provider, user |-> u]),
             req[r].browser \in Browsers,
             req' = [req EXCEPT ![r].at = "answer", ![r].flows = [n |-> Len(begun) + 1, link |-> link]]
      PROVE  TypeInv'
  <2> DEFINE flow == [n |-> Len(begun) + 1, link |-> link]
             q == [req[r] EXCEPT !.at = "answer", !.flows = flow]
  <2>1. flow \in Flow
    BY DEF TypeInv, TypeOK, Flow
  <2>2. req' = [req EXCEPT ![r] = q]
    BY <1>3 DEF TypeInv, TypeOK
  <2> HIDE DEF flow
  <2>3. q \in Request
    BY <1>1, <2>1 DEF Request
  <2>4. Ready(q)
    BY <1>1 DEF Request, Ready, Signing
  <2>5. begun' \in Seq([browser : Browsers, provider : Providers, user : Users \cup {NoUser}])
    BY <1>1, <1>3 DEF TypeInv, TypeOK, Request
  <2> HIDE DEF q
  <2>6. req' \in [Requests -> Request] /\ \A s \in Requests : Ready(req'[s])
    BY <2>2, <2>3, <2>4, StepOf
  <2> QED
    BY <2>5, <2>6 DEF TypeInv, TypeOK, Begin, rows, cookies
<1>4. CASE ~(Goto(r, "answer") /\ UNCHANGED begun)
  <2> DEFINE link == IF req[r].kind = "link" THEN req[r].token ELSE NoToken
             u == IF link = NoToken THEN NoUser ELSE req[r].user
  <2>1. link \in Tokens \cup {NoToken} /\ u \in Users \cup {NoUser} /\ req[r].browser \in Browsers
    BY <1>1 DEF Request, Ready
  <2>2. begun' = Append(begun, [browser |-> req[r].browser, provider |-> req[r].provider, user |-> u])
    BY <1>4 DEF Begin
  <2>3. req' = [req EXCEPT ![r].at = "answer", ![r].flows = [n |-> Len(begun) + 1, link |-> link]]
    BY <1>4 DEF Begin
  <2> QED
    BY <1>3, <2>1, <2>2, <2>3
<1> QED
  BY <1>2, <1>4

LEMMA CallbackType == ASSUME TypeInv, NEW r \in Requests, Callback(r) PROVE TypeInv'
<1>1. req[r] \in Request /\ Ready(req[r]) /\ req[r].at = "handle" /\ NoFlow \in Flow
  BY DEF TypeInv, TypeOK, Callback, Is, NoFlow, Flow
<1>2. CASE req' = [req EXCEPT ![r].at = "answer", ![r].flows = NoFlow]
  <2> DEFINE q == [req[r] EXCEPT !.at = "answer", !.flows = NoFlow]
  <2>1. q \in Request
    BY <1>1 DEF Request
  <2>2. Ready(q)
    BY <1>1 DEF Request, Ready, Signing
  <2>3. req' = [req EXCEPT ![r] = q]
    BY <1>2 DEF TypeInv, TypeOK
  <2> HIDE DEF q
  <2> QED
    BY <1>2, <2>1, <2>2, <2>3, QuietStep DEF Callback, cookies
<1>3. ASSUME NEW a \in Accounts, NEW at \in {"find", "link"},
             req' = [req EXCEPT ![r].at = at, ![r].account = a, ![r].flows = NoFlow]
      PROVE  TypeInv'
  <2> DEFINE q == [req[r] EXCEPT !.at = at, !.account = a, !.flows = NoFlow]
  <2>1. q \in Request
    BY <1>1 DEF Request
  <2>2. Ready(q)
    BY <1>1 DEF Request, Ready, Signing
  <2>3. req' = [req EXCEPT ![r] = q]
    BY <1>3 DEF TypeInv, TypeOK
  <2> HIDE DEF q
  <2> QED
    BY <2>1, <2>2, <2>3, QuietStep DEF Callback, cookies
<1>4. \A a \in Redeem(req[r].provider) \ {NoUser} : a \in Accounts
  BY DEF Redeem
<1> QED
  BY <1>2, <1>3, <1>4 DEF Callback

LEMMA LinkType == ASSUME TypeInv, NEW r \in Requests, Link(r) PROVE TypeInv'
<1>1. req[r] \in Request /\ Ready(req[r]) /\ req[r].at = "link" /\ req[r].account \in Accounts
  BY DEF TypeInv, TypeOK, Link, Is, Ready, Signing
<1> DEFINE q == [req[r] EXCEPT !.at = "answer"]
<1>2. q \in Request
  BY <1>1 DEF Request
<1>3. Ready(q)
  BY <1>1 DEF Request, Ready, Signing
<1>4. req' = [req EXCEPT ![r] = q]
  BY DEF TypeInv, TypeOK, Link, Goto
<1>5. RowsType'
  BY <1>1 DEF TypeInv, TypeOK, RowsType, SessionRow, Link
<1> HIDE DEF q
<1> QED
  BY <1>2, <1>3, <1>4, <1>5, TypeStep DEF Link, cookies

LEMMA FindOwnerType == ASSUME TypeInv, NEW r \in Requests, FindOwner(r) PROVE TypeInv'
<1>1. req[r] \in Request /\ Ready(req[r]) /\ req[r].at \in {"find", "reread"} /\ req[r].account \in Accounts
  BY DEF TypeInv, TypeOK, FindOwner, Is, Ready, Signing
<1>2. ASSUME NEW at \in {"create", "answer"}, Goto(r, at) PROVE TypeInv'
  <2> DEFINE q == [req[r] EXCEPT !.at = at]
  <2>1. q \in Request
    BY <1>1 DEF Request
  <2>2. Ready(q)
    BY <1>1 DEF Request, Ready, Signing
  <2>3. req' = [req EXCEPT ![r] = q]
    BY <1>2 DEF TypeInv, TypeOK, Goto
  <2> HIDE DEF q
  <2> QED
    BY <2>1, <2>2, <2>3, QuietStep DEF FindOwner, cookies
<1>3. ASSUME NEW u \in Users, req' = [req EXCEPT ![r].at = "replace", ![r].signer = u] PROVE TypeInv'
  <2> DEFINE q == [req[r] EXCEPT !.at = "replace", !.signer = u]
  <2>1. q \in Request
    BY <1>1 DEF Request
  <2>2. Ready(q)
    BY <1>1 DEF Request, Ready, Signing
  <2>3. req' = [req EXCEPT ![r] = q]
    BY <1>3 DEF TypeInv, TypeOK
  <2> HIDE DEF q
  <2> QED
    BY <2>1, <2>2, <2>3, QuietStep DEF FindOwner, cookies
<1>4. owner[req[r].account] \in Users \cup {NoUser}
  BY <1>1 DEF TypeInv, TypeOK
<1> QED
  BY <1>2, <1>3, <1>4 DEF FindOwner

LEMMA CreateUserType == ASSUME TypeInv, NEW r \in Requests, CreateUser(r) PROVE TypeInv'
<1>1. req[r] \in Request /\ Ready(req[r]) /\ req[r].at = "create" /\ req[r].account \in Accounts
  BY DEF TypeInv, TypeOK, CreateUser, Is, Ready, Signing
<1>2. CASE Goto(r, "reread") /\ UNCHANGED <<users, used, owner>>
  <2> DEFINE q == [req[r] EXCEPT !.at = "reread"]
  <2>1. q \in Request
    BY <1>1 DEF Request
  <2>2. Ready(q)
    BY <1>1 DEF Request, Ready, Signing
  <2>3. req' = [req EXCEPT ![r] = q]
    BY <1>2 DEF TypeInv, TypeOK, Goto
  <2> HIDE DEF q
  <2> QED
    BY <1>2, <2>1, <2>2, <2>3, QuietStep DEF CreateUser, cookies, rows
<1>3. ASSUME NEW u \in Fresh(Users, used.users), owner' = [owner EXCEPT ![req[r].account] = u],
             used' = [used EXCEPT !.users = @ \cup {u}], users' = users \cup {u},
             req' = [req EXCEPT ![r].at = "replace", ![r].signer = u]
      PROVE  TypeInv'
  <2>1. u \in Users
    BY FreshOne
  <2> DEFINE q == [req[r] EXCEPT !.at = "replace", !.signer = u]
  <2>2. q \in Request
    BY <1>1, <2>1 DEF Request
  <2>3. Ready(q)
    BY <1>1, <2>1 DEF Request, Ready, Signing
  <2>4. req' = [req EXCEPT ![r] = q]
    BY <1>3 DEF TypeInv, TypeOK
  <2>5. RowsType'
    BY <1>1, <1>3, <2>1 DEF TypeInv, TypeOK, RowsType, SessionRow, CreateUser
  <2> HIDE DEF q
  <2> QED
    BY <2>2, <2>3, <2>4, <2>5, TypeStep DEF CreateUser, cookies
<1> QED
  BY <1>2, <1>3 DEF CreateUser

LEMMA ReplaceType == ASSUME TypeInv, NEW r \in Requests, Replace(r) PROVE TypeInv'
<1>1. req[r] \in Request /\ Ready(req[r]) /\ req[r].at = "replace"
  BY DEF TypeInv, TypeOK, Replace, Is
<1> DEFINE q == [req[r] EXCEPT !.at = "start"]
<1>2. q \in Request
  BY <1>1 DEF Request
<1>3. Ready(q)
  BY <1>1 DEF Request, Ready, Signing
<1>4. req' = [req EXCEPT ![r] = q]
  BY DEF TypeInv, TypeOK, Replace, Goto
<1>5. RowsType'
  <2>1. CASE UNCHANGED <<sessions, ended>>
    BY <2>1 DEF TypeInv, TypeOK, RowsType, SessionRow, Replace
  <2>2. CASE req[r].token \in Tokens /\ End(req[r].token)
    BY <2>2, RowsOfEnd DEF TypeInv, TypeOK, RowsType, SessionRow, Replace
  <2> QED
    BY <1>1, <2>1, <2>2 DEF Replace, Ready
<1> HIDE DEF q
<1> QED
  BY <1>2, <1>3, <1>4, <1>5, TypeStep DEF Replace, cookies

LEMMA StartType == ASSUME TypeInv, NEW r \in Requests, Start(r) PROVE TypeInv'
<1>1. /\ req[r] \in Request /\ Ready(req[r]) /\ req[r].at = "start"
      /\ req[r].account \in Accounts /\ req[r].signer \in Users
  BY DEF TypeInv, TypeOK, Start, Is, Ready, Signing
<1>2. CASE Goto(r, "answer") /\ UNCHANGED <<used, sessions>>
  <2> DEFINE q == [req[r] EXCEPT !.at = "answer"]
  <2>1. q \in Request
    BY <1>1 DEF Request
  <2>2. Ready(q)
    BY <1>1 DEF Request, Ready, Signing
  <2>3. req' = [req EXCEPT ![r] = q]
    BY <1>2 DEF TypeInv, TypeOK, Goto
  <2> HIDE DEF q
  <2> QED
    BY <1>2, <2>1, <2>2, <2>3, QuietStep DEF Start, cookies, rows
<1>3. ASSUME NEW t \in Fresh(Tokens, used.tokens), used' = [used EXCEPT !.tokens = @ \cup {t}],
             sessions' = [sessions EXCEPT ![t] = [user |-> req[r].signer, by |-> req[r].account, age |-> "fresh"]],
             req' = [req EXCEPT ![r].at = "answer", ![r].jar = t]
      PROVE  TypeInv'
  <2>1. t \in Tokens
    BY FreshOne
  <2> DEFINE q == [req[r] EXCEPT !.at = "answer", !.jar = t]
  <2>2. q \in Request
    BY <1>1, <2>1 DEF Request
  <2>3. Ready(q)
    BY <1>1, <2>1 DEF Request, Ready, Signing
  <2>4. req' = [req EXCEPT ![r] = q]
    BY <1>3 DEF TypeInv, TypeOK
  <2>5. [user |-> req[r].signer, by |-> req[r].account, age |-> "fresh"] \in SessionRow
    BY <1>1 DEF SessionRow, Ages
  <2>6. RowsType'
    BY <1>3, <2>1, <2>5 DEF TypeInv, TypeOK, RowsType, SessionRow, Start
  <2> HIDE DEF q
  <2> QED
    BY <2>2, <2>3, <2>4, <2>6, TypeStep DEF Start, cookies
<1> QED
  BY <1>2, <1>3 DEF Start

LEMMA SignOutType == ASSUME TypeInv, NEW r \in Requests, SignOut(r) PROVE TypeInv'
<1>1. req[r] \in Request /\ Ready(req[r]) /\ req[r].at = "handle"
  BY DEF TypeInv, TypeOK, SignOut, Is
<1> DEFINE q == [req[r] EXCEPT !.at = "answer", !.jar = NoToken]
<1>2. q \in Request
  BY <1>1 DEF Request
<1>3. Ready(q)
  BY <1>1 DEF Request, Ready, Signing
<1>4. req' = [req EXCEPT ![r] = q]
  BY DEF TypeInv, TypeOK, SignOut
<1>5. RowsType'
  <2>1. CASE UNCHANGED <<sessions, ended>>
    BY <2>1 DEF TypeInv, TypeOK, RowsType, SessionRow, SignOut
  <2>2. CASE req[r].token \in Tokens /\ End(req[r].token)
    BY <2>2, RowsOfEnd DEF TypeInv, TypeOK, RowsType, SessionRow, SignOut
  <2> QED
    BY <1>1, <2>1, <2>2 DEF SignOut, Ready
<1> HIDE DEF q
<1> QED
  BY <1>2, <1>3, <1>4, <1>5, TypeStep DEF SignOut, cookies

LEMMA DeleteAccountType == ASSUME TypeInv, NEW r \in Requests, DeleteAccount(r) PROVE TypeInv'
<1>1. req[r] \in Request /\ Ready(req[r]) /\ req[r].at = "handle"
  BY DEF TypeInv, TypeOK, DeleteAccount, Is
<1> DEFINE j == IF req[r].user = NoUser THEN req[r].jar ELSE NoToken
           q == [req[r] EXCEPT !.at = "answer", !.jar = j]
<1>2. req' = [req EXCEPT ![r] = q]
  BY DEF TypeInv, TypeOK, DeleteAccount
<1>3. j \in Tokens \cup {NoToken, "keep"}
  BY <1>1 DEF Request
<1> HIDE DEF j
<1>4. q \in Request
  BY <1>1, <1>3 DEF Request
<1>5. Ready(q)
  BY <1>1 DEF Request, Ready, Signing
<1>6. RowsType'
  BY DEF TypeInv, TypeOK, RowsType, SessionRow, DeleteAccount
<1> HIDE DEF q
<1> QED
  BY <1>2, <1>4, <1>5, <1>6, TypeStep DEF DeleteAccount, cookies

-----------------------------------------------------------------------------
LEMMA FailType == ASSUME TypeInv, NEW r \in Requests, Fail(r) PROVE TypeInv'
<1>1. req' \in [Requests -> Request] /\ \A s \in Requests : Ready(req'[s])
  BY IdleType, StepOf DEF Fail
<1> QED
  BY <1>1 DEF TypeInv, TypeOK, Fail, rows, cookies

LEMMA AgeType == ASSUME TypeInv, NEW t \in Tokens, Age(t) PROVE TypeInv'
<1> DEFINE age == IF sessions[t].age = "fresh" THEN "due" ELSE "expired"
<1>1. sessions' = [sessions EXCEPT ![t] = [sessions[t] EXCEPT !.age = age]]
  BY DEF TypeInv, TypeOK, Age
<1>2. age \in Ages
  BY DEF Ages
<1> HIDE DEF age
<1>3. sessions[t] \in SessionRow
  BY DEF TypeInv, TypeOK, SessionRow, Age
<1>4. [sessions[t] EXCEPT !.age = age] \in SessionRow
  BY <1>2, <1>3 DEF SessionRow
<1>5. sessions' \in [Tokens -> SessionRow \cup {NoSession}]
  BY <1>1, <1>4 DEF TypeInv, TypeOK, SessionRow
<1> QED
  BY <1>5 DEF TypeInv, TypeOK, Age, cookies, SessionRow

LEMMA CleanupType == ASSUME TypeInv, Cleanup PROVE TypeInv'
BY DEF TypeInv, TypeOK, Cleanup, cookies

LEMMA NextType == ASSUME TypeInv, [Next]_vars PROVE TypeInv'
<1>1. CASE UNCHANGED vars
  BY <1>1 DEF vars, rows, cookies, TypeInv, TypeOK
<1>2. ASSUME NEW r \in Requests, Handle(r) PROVE TypeInv'
  BY <1>2, PageType, BeginType, CallbackType, SignOutType, DeleteAccountType DEF Handle
<1>3. ASSUME NEW r \in Requests, SignInSteps(r) PROVE TypeInv'
  BY <1>3, LinkType, FindOwnerType, CreateUserType, ReplaceType, StartType DEF SignInSteps
<1> QED
  BY <1>1, <1>2, <1>3, SendType, SelectType, ExpireType, RenewType, AnswerType, FailType, ForgetType, AgeType, CleanupType DEF Next

THEOREM TypesAreKept == Spec => []TypeInv
<1>1. TypeInv /\ [Next]_vars => TypeInv'
  BY NextType
<1> QED
  BY <1>1, InitType, PTL DEF Spec

(* Every variable of sign-in keeps its type, and TypeInv is why: each step  *)
(* of a request finds the token, the account and the user it works with.    *)
THEOREM TypeCorrect == Spec => []TypeOK
<1>1. TypeInv => TypeOK
  BY DEF TypeInv
<1> QED
  BY <1>1, TypesAreKept, PTL

-----------------------------------------------------------------------------
(* The life of a web session.                                                   *)

\* A token is used once, a session that ended is not open, and a request whose
\* session had ended when it was sent has no user.
LifeInv ==
  /\ Open \subseteq used.tokens /\ ended \subseteq used.tokens
  /\ \A t \in ended : t \notin Open
  /\ \A r \in Requests : req[r].cookie = "ended" => req[r].user = NoUser /\ req[r].token \in ended

\* What a step does to the sessions: it closes some of them, or opens a new one.
Closes(S) == S \subseteq Open /\ Open' = Open \ S /\ ended' = ended \cup S /\ used'.tokens = used.tokens
Opens(t) ==
  /\ t \in Tokens \ used.tokens /\ Open' = Open \cup {t} /\ ended' = ended
  /\ used'.tokens = used.tokens \cup {t}

LEMMA InitLife == Init => LifeInv
<1> SUFFICES ASSUME Init PROVE LifeInv
  OBVIOUS
<1>1. \A r \in Requests : req[r].cookie = "live"
  BY DEF Init, Idle
<1>2. Open \subseteq used.tokens
  <2>1. CASE used = [users |-> {}, tokens |-> {}] /\ sessions = [t \in Tokens |-> NoSession]
    BY <2>1 DEF Open
  <2>2. ASSUME NEW u \in Fresh(Users, {}), NEW account \in Accounts, NEW token \in Fresh(Tokens, {}), NEW age \in Ages,
               used = [users |-> {u}, tokens |-> {token}],
               sessions = [t \in Tokens |-> IF t = token THEN [user |-> u, by |-> account, age |-> age] ELSE NoSession]
        PROVE  Open \subseteq used.tokens
    BY <2>2 DEF Open
  <2> QED
    BY <2>1, <2>2 DEF Init
<1>3. ended = {}
  BY DEF Init
<1> QED
  BY <1>1, <1>2, <1>3 DEF LifeInv

LEMMA SameLife == ASSUME UNCHANGED <<sessions, ended, used>> PROVE Closes({})
BY DEF Closes, Open

LEMMA EndLife ==
  ASSUME TypeInv, NEW t \in Tokens, End(t), UNCHANGED used
  PROVE  Closes(Open \cap {t})
<1>1. sessions' = [s \in Tokens |-> IF s = t THEN NoSession ELSE sessions[s]]
  BY RowsOfEnd
<1>2. Open' = Open \ {t}
  BY <1>1 DEF Open
<1>3. ended' = ended \cup (Open \cap {t})
  BY DEF End, Open
<1> QED
  BY <1>2, <1>3 DEF Closes

LEMMA StartLife ==
  ASSUME TypeInv, LifeInv, NEW r \in Requests, Start(r)
  PROVE  Closes({}) \/ \E t \in Tokens : Opens(t)
<1>1. CASE UNCHANGED <<used, sessions>>
  BY <1>1, SameLife DEF Start
<1>2. ASSUME NEW t \in Fresh(Tokens, used.tokens), used' = [used EXCEPT !.tokens = @ \cup {t}],
             sessions' = [sessions EXCEPT ![t] = [user |-> req[r].signer, by |-> req[r].account, age |-> "fresh"]],
             req[r].signer \in users
      PROVE  Opens(t)
  <2>1. t \in Tokens \ used.tokens
    BY FreshOne
  <2>2. [user |-> req[r].signer, by |-> req[r].account, age |-> "fresh"] # NoSession
    BY DEF NoSession
  <2>3. Open' = Open \cup {t}
    BY <1>2, <2>1, <2>2 DEF Open, TypeInv, TypeOK
  <2>4. used'.tokens = used.tokens \cup {t}
    BY <1>2 DEF TypeInv, TypeOK
  <2> QED
    BY <2>1, <2>3, <2>4 DEF Opens, Start
<1>3. \A t \in Fresh(Tokens, used.tokens) : t \in Tokens
  BY FreshOne
<1> QED
  BY <1>1, <1>2, <1>3 DEF Start

LEMMA NextLife ==
  ASSUME TypeInv, LifeInv, [Next]_vars
  PROVE  (\E S \in SUBSET Tokens : Closes(S)) \/ (\E t \in Tokens : Opens(t))
<1>1. Open \subseteq Tokens
  BY DEF Open
<1>2. CASE UNCHANGED <<sessions, ended, used>>
  BY <1>2, SameLife
<1>3. ASSUME NEW t \in Tokens, End(t), UNCHANGED used PROVE \E S \in SUBSET Tokens : Closes(S)
  BY <1>1, <1>3, EndLife
<1>4. ASSUME NEW r \in Requests, Expire(r) PROVE \E S \in SUBSET Tokens : Closes(S)
  BY <1>3, <1>4 DEF Expire, TypeInv, Ready, Is
<1>5. ASSUME NEW r \in Requests, Replace(r) \/ SignOut(r) PROVE \E S \in SUBSET Tokens : Closes(S)
  BY <1>1, <1>3, <1>5, SameLife DEF Replace, SignOut, TypeInv, Ready
<1>6. ASSUME NEW r \in Requests, Renew(r) PROVE \E S \in SUBSET Tokens : Closes(S)
  <2>1. req[r].token \in Tokens
    BY <1>6 DEF Renew, TypeInv, Ready, Is
  <2>2. \A t \in Tokens : sessions'[t] = NoSession <=> sessions[t] = NoSession
    <3>1. CASE sessions[req[r].token] = NoSession
      BY <1>6, <2>1, <3>1 DEF Renew, TypeInv, TypeOK, NoSession
    <3>2. CASE sessions[req[r].token] # NoSession
      <4>1. sessions' = [sessions EXCEPT ![req[r].token] = [sessions[req[r].token] EXCEPT !.age = "fresh"]]
        BY <1>6, <2>1, <3>2 DEF Renew, TypeInv, TypeOK
      <4>2. [sessions[req[r].token] EXCEPT !.age = "fresh"] # NoSession
        BY <2>1, <3>2 DEF TypeInv, TypeOK, NoSession
      <4> QED
        BY <2>1, <3>2, <4>1, <4>2 DEF TypeInv, TypeOK
    <3> QED
      BY <3>1, <3>2
  <2>3. Closes({})
    BY <1>6, <2>2 DEF Renew, Closes, Open
  <2> QED
    BY <2>3
<1>7. ASSUME NEW t \in Tokens, Age(t) PROVE \E S \in SUBSET Tokens : Closes(S)
  <2> DEFINE age == IF sessions[t].age = "fresh" THEN "due" ELSE "expired"
  <2>1. sessions' = [sessions EXCEPT ![t] = [sessions[t] EXCEPT !.age = age]]
    BY <1>7 DEF Age, TypeInv, TypeOK
  <2>2. sessions[t] \in SessionRow
    BY <1>7 DEF TypeInv, TypeOK, SessionRow, Age
  <2> HIDE DEF age
  <2>3. [sessions[t] EXCEPT !.age = age].user \in Users
    BY <2>2 DEF SessionRow
  <2>4. [sessions[t] EXCEPT !.age = age] # NoSession
    BY <2>3, SignInAssumption DEF NoSession
  <2>5. Closes({})
    BY <1>7, <2>1, <2>4 DEF Age, Closes, Open, TypeInv, TypeOK
  <2> QED
    BY <2>5
<1>8. ASSUME NEW r \in Requests, DeleteAccount(r) PROVE \E S \in SUBSET Tokens : Closes(S)
  <2> DEFINE theirs == {t \in Tokens : sessions[t] # NoSession /\ sessions[t].user = req[r].user}
  <2>1. Closes(theirs)
    BY <1>8 DEF DeleteAccount, Closes, Open
  <2> QED
    BY <2>1
<1>9. ASSUME Cleanup PROVE \E S \in SUBSET Tokens : Closes(S)
  BY <1>9 DEF Cleanup, Closes, Open
<1>10. ASSUME NEW r \in Requests, CreateUser(r) PROVE \E S \in SUBSET Tokens : Closes(S)
  <2>1. used'.tokens = used.tokens
    BY <1>10 DEF CreateUser, TypeInv, TypeOK
  <2>2. Closes({})
    BY <1>10, <2>1 DEF CreateUser, Closes, Open
  <2> QED
    BY <2>2
<1>11. ASSUME NEW r \in Requests, Handle(r)
       PROVE  (\E S \in SUBSET Tokens : Closes(S)) \/ (\E t \in Tokens : Opens(t))
  BY <1>2, <1>5, <1>8, <1>11 DEF Handle, Page, Begin, Callback, rows
<1>12. ASSUME NEW r \in Requests, SignInSteps(r)
       PROVE  (\E S \in SUBSET Tokens : Closes(S)) \/ (\E t \in Tokens : Opens(t))
  BY <1>2, <1>5, <1>10, <1>12, StartLife DEF SignInSteps, Link, FindOwner, rows
<1> QED
  BY <1>2, <1>4, <1>6, <1>7, <1>9, <1>11, <1>12 DEF Next, vars, rows, Send, Select, Answer, Fail, Forget

\* The steps of a request but Send, Select, Answer and Fail leave alone who sent it.
KeepsUser(s) ==
  /\ req'[s].token = req[s].token /\ req'[s].user = req[s].user /\ req'[s].cookie = req[s].cookie
  /\ req'[s].browser = req[s].browser /\ req'[s].n = req[s].n
  /\ req'[s].flow = req[s].flow /\ req'[s].provider = req[s].provider

LEMMA HandlersKeep ==
  ASSUME TypeInv, NEW r \in Requests, Handle(r) \/ SignInSteps(r) \/ Expire(r) \/ Renew(r), NEW s \in Requests
  PROVE  KeepsUser(s)
<1>1. req \in [Requests -> Request]
  BY DEF TypeInv, TypeOK
<1>2. ASSUME NEW at, Goto(r, at) PROVE KeepsUser(s)
  BY <1>1, <1>2 DEF KeepsUser, Goto, Request
<1>3. ASSUME NEW at, NEW j, req' = [req EXCEPT ![r].at = at, ![r].jar = j] PROVE KeepsUser(s)
  BY <1>1, <1>3 DEF KeepsUser, Request
<1>4. ASSUME NEW at, NEW f, req' = [req EXCEPT ![r].at = at, ![r].flows = f] PROVE KeepsUser(s)
  BY <1>1, <1>4 DEF KeepsUser, Request
<1>5. ASSUME NEW at, NEW a, NEW f, req' = [req EXCEPT ![r].at = at, ![r].account = a, ![r].flows = f] PROVE KeepsUser(s)
  BY <1>1, <1>5 DEF KeepsUser, Request
<1>6. ASSUME NEW at, NEW u, req' = [req EXCEPT ![r].at = at, ![r].signer = u] PROVE KeepsUser(s)
  BY <1>1, <1>6 DEF KeepsUser, Request
<1>7. CASE Handle(r)
  <2>1. CASE Page(r)
    BY <1>2, <2>1 DEF Page
  <2>2. CASE Begin(r)
    BY <1>2, <1>4, <2>2 DEF Begin
  <2>3. CASE Callback(r)
    <3>1. ASSUME NEW a, req' = [req EXCEPT ![r].at = IF req[r].flow.link = NoToken THEN "find" ELSE "link",
                                           ![r].account = a, ![r].flows = NoFlow]
          PROVE  KeepsUser(s)
      <4> DEFINE at == IF req[r].flow.link = NoToken THEN "find" ELSE "link"
      <4>1. req' = [req EXCEPT ![r].at = at, ![r].account = a, ![r].flows = NoFlow]
        BY <3>1
      <4> QED
        BY <1>5, <4>1
    <3>2. CASE req' = [req EXCEPT ![r].at = "answer", ![r].flows = NoFlow]
      BY <1>4, <3>2
    <3> QED
      BY <2>3, <3>1, <3>2 DEF Callback
  <2>4. CASE SignOut(r)
    BY <1>3, <2>4 DEF SignOut
  <2>5. CASE DeleteAccount(r)
    BY <1>3, <2>5 DEF DeleteAccount
  <2> QED
    BY <1>7, <2>1, <2>2, <2>3, <2>4, <2>5 DEF Handle
<1>8. CASE SignInSteps(r)
  <2>1. CASE Link(r) \/ Replace(r)
    BY <1>2, <2>1 DEF Link, Replace
  <2>2. CASE FindOwner(r)
    BY <1>2, <1>6, <2>2 DEF FindOwner
  <2>3. CASE CreateUser(r)
    BY <1>2, <1>6, <2>3 DEF CreateUser
  <2>4. CASE Start(r)
    BY <1>2, <1>3, <2>4 DEF Start
  <2> QED
    BY <1>8, <2>1, <2>2, <2>3, <2>4 DEF SignInSteps
<1> QED
  BY <1>3, <1>7, <1>8 DEF Expire, Renew

LEMMA OthersKept ==
  ASSUME TypeInv, NEW r \in Requests, Send(r) \/ Select(r) \/ Answer(r) \/ Fail(r), NEW s \in Requests \ {r}
  PROVE  req'[s] = req[s]
<1>1. ASSUME NEW q, req' = [req EXCEPT ![r] = q] PROVE req'[s] = req[s]
  BY <1>1 DEF TypeInv, TypeOK
<1> QED
  BY <1>1 DEF Send, Select, Answer, Fail, Goto, TypeInv, TypeOK

\* What Select reads: the user of an open session.
LEMMA SelectUser ==
  ASSUME TypeInv, NEW r \in Requests, Select(r)
  PROVE  /\ req'[r].token = req[r].token /\ req'[r].cookie = req[r].cookie /\ req'[r].browser = req[r].browser
         /\ req'[r].n = req[r].n /\ req'[r].flow = req[r].flow /\ req'[r].provider = req[r].provider
         /\ \/ req'[r].user = req[r].user
            \/ req[r].token \in Open /\ req'[r].user = sessions[req[r].token].user
<1>1. req[r] \in Request /\ req[r].token \in Tokens
  BY DEF TypeInv, TypeOK, Ready, Select, Is
<1>2. CASE req' = [req EXCEPT ![r].at = "handle", ![r].jar = NoToken]
  BY <1>1, <1>2 DEF TypeInv, TypeOK, Request
<1>3. CASE Goto(r, "expire")
  BY <1>1, <1>3 DEF TypeInv, TypeOK, Request, Goto
<1>4. ASSUME NEW at, sessions[req[r].token].age # "expired",
             req' = [req EXCEPT ![r].at = at, ![r].user = sessions[req[r].token].user]
      PROVE  /\ req'[r].token = req[r].token /\ req'[r].cookie = req[r].cookie /\ req'[r].browser = req[r].browser
             /\ req'[r].n = req[r].n /\ req'[r].flow = req[r].flow /\ req'[r].provider = req[r].provider
             /\ req[r].token \in Open /\ req'[r].user = sessions[req[r].token].user
  <2>1. req[r].token \in Open
    BY <1>1, <1>4 DEF Open, NoSession
  <2> QED
    BY <1>1, <1>4, <2>1 DEF TypeInv, TypeOK, Request
<1> QED
  BY <1>2, <1>3, <1>4 DEF Select

LEMMA SentByStep ==
  ASSUME TypeInv, NEW r \in Requests, Send(r) \/ Answer(r) \/ Fail(r)
  PROVE  req'[r].user = NoUser /\ (req'[r].cookie = "ended" => req'[r].token \in ended)
<1>1. CASE Answer(r) \/ Fail(r)
  <2>1. req'[r] = Idle
    BY <1>1 DEF Answer, Fail, TypeInv, TypeOK
  <2> QED
    BY <2>1 DEF Idle
<1>2. CASE Send(r)
  <2>1. PICK b \in Browsers, kind \in Kinds, p \in Providers, n \in 0 .. Len(begun) :
          req' = [req EXCEPT ![r] = Sent(b, kind, p, n)]
    BY <1>2 DEF Send
  <2>2. req'[r] = Sent(b, kind, p, n)
    BY <2>1 DEF TypeInv, TypeOK
  <2> QED
    BY <2>2, SentFields
<1> QED
  BY <1>1, <1>2

LEMMA LifeOfRequests ==
  ASSUME TypeInv, LifeInv, [Next]_vars, ended \subseteq ended', NEW s \in Requests
  PROVE  req'[s].cookie = "ended" => req'[s].user = NoUser /\ req'[s].token \in ended'
<1>1. req[s].cookie = "ended" => req[s].user = NoUser /\ req[s].token \in ended
  BY DEF LifeInv
<1>2. CASE KeepsUser(s)
  BY <1>1, <1>2 DEF KeepsUser
<1>3. CASE UNCHANGED req
  BY <1>1, <1>3
<1>4. ASSUME NEW r \in Requests, Handle(r) \/ SignInSteps(r) \/ Expire(r) \/ Renew(r)
      PROVE  req'[s].cookie = "ended" => req'[s].user = NoUser /\ req'[s].token \in ended'
  BY <1>2, <1>4, HandlersKeep
<1>5. ASSUME NEW r \in Requests, Send(r) \/ Answer(r) \/ Fail(r)
      PROVE  req'[s].cookie = "ended" => req'[s].user = NoUser /\ req'[s].token \in ended'
  BY <1>1, <1>5, SentByStep, OthersKept
<1>6. ASSUME NEW r \in Requests, Select(r)
      PROVE  req'[s].cookie = "ended" => req'[s].user = NoUser /\ req'[s].token \in ended'
  <2>1. CASE s # r
    BY <1>1, <1>6, <2>1, OthersKept
  <2>2. CASE s = r
    BY <1>1, <1>6, <2>2, SelectUser DEF LifeInv
  <2> QED
    BY <2>1, <2>2
<1> QED
  BY <1>3, <1>4, <1>5, <1>6 DEF Next, Forget, Age, Cleanup, vars

LEMMA LifeStep == ASSUME TypeInv, LifeInv, [Next]_vars PROVE LifeInv'
<1>1. ended \subseteq ended' /\ Open' \subseteq used'.tokens /\ ended' \subseteq used'.tokens /\ \A t \in ended' : t \notin Open'
  <2>1. ASSUME NEW S \in SUBSET Tokens, Closes(S)
        PROVE  ended \subseteq ended' /\ Open' \subseteq used'.tokens /\ ended' \subseteq used'.tokens /\ \A t \in ended' : t \notin Open'
    BY <2>1 DEF Closes, LifeInv
  <2>2. ASSUME NEW t \in Tokens, Opens(t)
        PROVE  ended \subseteq ended' /\ Open' \subseteq used'.tokens /\ ended' \subseteq used'.tokens /\ \A t_1 \in ended' : t_1 \notin Open'
    BY <2>2 DEF Opens, LifeInv
  <2> QED
    BY <2>1, <2>2, NextLife
<1>2. \A s \in Requests : req'[s].cookie = "ended" => req'[s].user = NoUser /\ req'[s].token \in ended'
  BY <1>1, LifeOfRequests
<1> QED
  BY <1>1, <1>2 DEF LifeInv

LEMMA LivesAreKept == Spec => [](TypeInv /\ LifeInv)
<1>1. TypeInv /\ LifeInv /\ [Next]_vars => LifeInv'
  BY LifeStep
<1> QED
  BY <1>1, InitLife, TypesAreKept, PTL DEF Spec

(* A web session that ended never opens again, and no request sent after    *)
(* that is served as its user (web-sessions.ts:100-130).                    *)
THEOREM SessionsEndForGood == Spec => []EndedForGood
<1>1. LifeInv => EndedForGood
  BY DEF LifeInv, EndedForGood
<1> QED
  BY <1>1, LivesAreKept, PTL

(* The rows implement Lifecycle: each step opens one new web session, ends  *)
(* some that are open, or does neither.                                     *)
THEOREM RowsImplementLifecycle == Spec => LifeSpec
<1>1. Init => Life!Init
  BY DEF Init, Life!Init, Open
<1>2. TypeInv /\ LifeInv /\ [Next]_vars => [Life!Next]_<<Open, ended>>
  <2> SUFFICES ASSUME TypeInv, LifeInv, [Next]_vars PROVE [Life!Next]_<<Open, ended>>
    OBVIOUS
  <2>1. ASSUME NEW S \in SUBSET Tokens, Closes(S) PROVE [Life!Next]_<<Open, ended>>
    <3>1. CASE S = {}
      BY <2>1, <3>1 DEF Closes
    <3>2. CASE S # {}
      BY <2>1, <3>2 DEF Closes, Life!Next, Life!Close
    <3> QED
      BY <3>1, <3>2
  <2>2. ASSUME NEW t \in Tokens, Opens(t) PROVE [Life!Next]_<<Open, ended>>
    <3>1. t \notin Open \cup ended
      BY <2>2 DEF Opens, LifeInv
    <3> QED
      BY <2>2, <3>1 DEF Opens, Life!Next, Life!Open
  <2> QED
    BY <2>1, <2>2, NextLife
<1> QED
  BY <1>1, <1>2, LivesAreKept, PTL DEF Spec, LifeSpec, Life!Spec

-----------------------------------------------------------------------------
(* The users of the accounts.                                                   *)

\* A user's id is used once, so a sign-in under way is for the account's owner or
\* for a user who is gone for good.
Signs(r) == req[r].at \in {"replace", "start"}
OwnerInv ==
  /\ users \subseteq used.users
  /\ OneUserPerAccount
  /\ \A r \in Requests : Signs(r) => /\ req[r].signer \in used.users
                                     /\ req[r].signer \in users => owner[req[r].account] = req[r].signer

\* What a step but Start leaves of the sessions.
SessionsKept ==
  \A t \in Tokens : sessions'[t] # NoSession =>
    sessions[t] # NoSession /\ sessions'[t].user = sessions[t].user /\ sessions'[t].by = sessions[t].by

LEMMA InitOwner == Init => OwnerInv
<1> SUFFICES ASSUME Init PROVE OwnerInv
  OBVIOUS
<1>1. \A r \in Requests : ~Signs(r)
  BY DEF Init, Idle, Signs
<1>2. users \subseteq used.users /\ OneUserPerAccount
  <2>1. CASE /\ users = {} /\ used = [users |-> {}, tokens |-> {}]
             /\ owner = [a \in Accounts |-> NoUser] /\ sessions = [t \in Tokens |-> NoSession]
    BY <2>1 DEF OneUserPerAccount
  <2>2. ASSUME NEW u \in Fresh(Users, {}), NEW account \in Accounts, NEW token \in Fresh(Tokens, {}), NEW age \in Ages,
               users = {u}, used = [users |-> {u}, tokens |-> {token}],
               owner = [a \in Accounts |-> IF a = account THEN u ELSE NoUser],
               sessions = [t \in Tokens |-> IF t = token THEN [user |-> u, by |-> account, age |-> age] ELSE NoSession]
        PROVE  users \subseteq used.users /\ OneUserPerAccount
    BY <2>2 DEF OneUserPerAccount
  <2> QED
    BY <2>1, <2>2 DEF Init
<1> QED
  BY <1>1, <1>2 DEF OwnerInv

LEMMA EndKeeps == ASSUME TypeInv, NEW t \in Tokens, End(t) PROVE SessionsKept
BY RowsOfEnd DEF SessionsKept

LEMMA RenewKeeps == ASSUME TypeInv, NEW r \in Requests, Renew(r) PROVE SessionsKept
<1>1. req[r].token \in Tokens
  BY DEF TypeInv, Ready, Renew, Is
<1>2. CASE sessions[req[r].token] = NoSession
  <2>1. sessions' = [sessions EXCEPT ![req[r].token] = NoSession]
    BY <1>1, <1>2 DEF Renew, TypeInv, TypeOK, NoSession
  <2> QED
    BY <1>1, <1>2, <2>1 DEF SessionsKept, TypeInv, TypeOK
<1>3. CASE sessions[req[r].token] # NoSession
  <2>1. sessions' = [sessions EXCEPT ![req[r].token] = [sessions[req[r].token] EXCEPT !.age = "fresh"]]
    BY <1>1, <1>3 DEF Renew, TypeInv, TypeOK
  <2>2. sessions[req[r].token] \in SessionRow
    BY <1>1, <1>3 DEF TypeInv, TypeOK, SessionRow
  <2>3. /\ [sessions[req[r].token] EXCEPT !.age = "fresh"].user = sessions[req[r].token].user
        /\ [sessions[req[r].token] EXCEPT !.age = "fresh"].by = sessions[req[r].token].by
    BY <2>2 DEF SessionRow
  <2> QED
    BY <1>1, <1>3, <2>1, <2>3 DEF SessionsKept, TypeInv, TypeOK
<1> QED
  BY <1>2, <1>3

LEMMA AgeKeeps == ASSUME TypeInv, NEW t \in Tokens, Age(t) PROVE SessionsKept
<1> DEFINE age == IF sessions[t].age = "fresh" THEN "due" ELSE "expired"
<1>1. sessions' = [sessions EXCEPT ![t] = [sessions[t] EXCEPT !.age = age]]
  BY DEF Age, TypeInv, TypeOK
<1>2. sessions[t] \in SessionRow /\ sessions[t] # NoSession
  BY DEF TypeInv, TypeOK, SessionRow, Age
<1> HIDE DEF age
<1>3. /\ [sessions[t] EXCEPT !.age = age].user = sessions[t].user
      /\ [sessions[t] EXCEPT !.age = age].by = sessions[t].by
  BY <1>2 DEF SessionRow
<1> QED
  BY <1>1, <1>2, <1>3 DEF SessionsKept, TypeInv, TypeOK

\* A step keeps the signer of a request, or the request signs in as the account's owner.
LEMMA SignerOf ==
  ASSUME TypeInv, OwnerInv, [Next]_vars, NEW s \in Requests, Signs(s)'
  PROVE  \/ Signs(s) /\ req'[s].signer = req[s].signer /\ req'[s].account = req[s].account
         \/ req'[s].account \in Accounts /\ req'[s].signer = owner'[req'[s].account] /\ req'[s].signer \in users'
<1>1. req \in [Requests -> Request]
  BY DEF TypeInv, TypeOK
<1>2. CASE req'[s] = req[s]
  BY <1>2 DEF Signs
<1>3. ASSUME NEW r \in Requests, NEW at, at \notin {"replace", "start"}, s = r, req'[r].at = at PROVE FALSE
  BY <1>3 DEF Signs
<1>4. ASSUME NEW r \in Requests, FindOwner(r) \/ CreateUser(r)
      PROVE  \/ req'[s] = req[s]
             \/ req'[s].account \in Accounts /\ req'[s].signer = owner'[req'[s].account] /\ req'[s].signer \in users'
  <2>1. req[r].account \in Accounts
    BY <1>4 DEF FindOwner, CreateUser, Is, TypeInv, Ready, Signing
  <2>2. CASE s # r
    BY <1>1, <1>4, <2>2 DEF FindOwner, CreateUser, Goto, Request
  <2>3. ASSUME s = r, NEW u \in users', owner'[req[r].account] = u, req' = [req EXCEPT ![r].at = "replace", ![r].signer = u]
        PROVE  req'[s].account \in Accounts /\ req'[s].signer = owner'[req'[s].account] /\ req'[s].signer \in users'
    BY <1>1, <2>1, <2>3 DEF Request
  <2>4. CASE s = r /\ FindOwner(r)
    <3>1. owner[req[r].account] # NoUser => owner[req[r].account] \in users
      BY <2>1 DEF OwnerInv, OneUserPerAccount
    <3>2. \A at : Goto(r, at) => req'[r].at = at
      BY <1>1 DEF Goto, Request
    <3>3. owner' = owner /\ users' = users
      BY <2>4 DEF FindOwner, rows
    <3> QED
      BY <2>3, <2>4, <3>1, <3>2, <3>3 DEF FindOwner, Signs
  <2>5. CASE s = r /\ CreateUser(r)
    <3>1. \A at : Goto(r, at) => req'[r].at = at
      BY <1>1 DEF Goto, Request
    <3>2. ASSUME NEW u \in Fresh(Users, used.users), owner' = [owner EXCEPT ![req[r].account] = u], users' = users \cup {u},
                 req' = [req EXCEPT ![r].at = "replace", ![r].signer = u]
          PROVE  req'[s].account \in Accounts /\ req'[s].signer = owner'[req'[s].account] /\ req'[s].signer \in users'
      BY <2>1, <2>3, <2>5, <3>2 DEF TypeInv, TypeOK
    <3> QED
      BY <2>5, <3>1, <3>2 DEF CreateUser, Signs
  <2> QED
    BY <1>4, <2>2, <2>4, <2>5
<1>5. ASSUME NEW r \in Requests, Replace(r)
      PROVE  Signs(s) /\ req'[s].signer = req[s].signer /\ req'[s].account = req[s].account
  <2>1. req' = [req EXCEPT ![r].at = "start"] /\ req[r].at = "replace"
    BY <1>5 DEF Replace, Goto, Is
  <2> QED
    BY <1>1, <2>1 DEF Signs, Request
<1>6. ASSUME NEW r \in Requests, Page(r) \/ Begin(r) \/ SignOut(r) \/ DeleteAccount(r) \/ Link(r) \/ Start(r) \/ Expire(r) \/ Renew(r)
      PROVE  req'[s] = req[s]
  <2>1. req'[r].at \in {"answer", "handle"} /\ (s # r => req'[s] = req[s])
    <3>1. CASE Page(r) \/ Link(r)
      BY <1>1, <3>1 DEF Page, Link, Goto, Request
    <3>2. CASE Begin(r)
      BY <1>1, <3>2 DEF Begin, Goto, Request
    <3>3. CASE SignOut(r) \/ Expire(r) \/ Renew(r) \/ DeleteAccount(r)
      BY <1>1, <3>3 DEF SignOut, Expire, Renew, DeleteAccount, Request
    <3>4. CASE Start(r)
      BY <1>1, <3>4 DEF Start, Goto, Request
    <3> QED
      BY <1>6, <3>1, <3>2, <3>3, <3>4
  <2> QED
    BY <2>1 DEF Signs
<1>7. ASSUME NEW r \in Requests, Callback(r) PROVE req'[s] = req[s]
  <2>1. ASSUME NEW at \in {"find", "link"}, NEW a, req' = [req EXCEPT ![r].at = at, ![r].account = a, ![r].flows = NoFlow]
        PROVE  req'[r].at \in {"find", "link", "answer"} /\ (s # r => req'[s] = req[s])
    BY <1>1, <2>1 DEF Request
  <2>2. CASE req' = [req EXCEPT ![r].at = "answer", ![r].flows = NoFlow]
    BY <1>1, <1>3, <2>2 DEF Request
  <2>3. CASE req' # [req EXCEPT ![r].at = "answer", ![r].flows = NoFlow]
    <3> DEFINE at == IF req[r].flow.link = NoToken THEN "find" ELSE "link"
    <3>1. PICK a \in Redeem(req[r].provider) : req' = [req EXCEPT ![r].at = at, ![r].account = a, ![r].flows = NoFlow]
      BY <1>7, <2>3 DEF Callback
    <3>2. at \in {"find", "link"}
      OBVIOUS
    <3> HIDE DEF at
    <3> QED
      BY <2>1, <3>1, <3>2 DEF Signs
  <2> QED
    BY <2>2, <2>3
<1>8. ASSUME NEW r \in Requests, Send(r) \/ Answer(r) \/ Fail(r) PROVE req'[s] = req[s]
  <2>1. CASE s # r
    BY <1>8, <2>1, OthersKept
  <2>2. CASE s = r /\ (Answer(r) \/ Fail(r))
    BY <1>1, <2>2, IdleType DEF Answer, Fail, Signs
  <2>3. CASE s = r /\ Send(r)
    <3>1. PICK b \in Browsers, kind \in Kinds, p \in Providers, n \in 0 .. Len(begun) : req' = [req EXCEPT ![r] = Sent(b, kind, p, n)]
      BY <2>3 DEF Send
    <3>2. req'[r] = Sent(b, kind, p, n)
      BY <1>1, <3>1
    <3> QED
      BY <2>3, <3>2, SentFields DEF Signs
  <2> QED
    BY <1>8, <2>1, <2>2, <2>3
<1>9. ASSUME NEW r \in Requests, Select(r) PROVE req'[s] = req[s]
  <2>1. CASE s # r
    BY <1>9, <2>1, OthersKept
  <2>2. req'[r].at \in {"handle", "expire", "renew"}
    BY <1>1, <1>9 DEF Select, Goto, Request
  <2> QED
    BY <2>1, <2>2 DEF Signs
<1>10. CASE UNCHANGED req
  BY <1>2, <1>10
<1> QED
  BY <1>2, <1>4, <1>5, <1>6, <1>7, <1>8, <1>9, <1>10 DEF Next, Handle, SignInSteps, Forget, Age, Cleanup, vars

\* The four things a step does to users and accounts.
SameUsers == users' = users /\ owner' = owner /\ used'.users = used.users
Links(a, u) == owner[a] = NoUser /\ u \in users /\ owner' = [owner EXCEPT ![a] = u] /\ users' = users /\ used'.users = used.users
Creates(a, u) ==
  /\ owner[a] = NoUser /\ u \in Users \ used.users
  /\ owner' = [owner EXCEPT ![a] = u] /\ users' = users \cup {u} /\ used'.users = used.users \cup {u}
Deletes(u) ==
  /\ users' = users \ {u} /\ used'.users = used.users
  /\ owner' = [a \in Accounts |-> IF owner[a] = u THEN NoUser ELSE owner[a]]
  /\ \A t \in Tokens : sessions'[t] # NoSession => sessions[t].user # u

\* A new session is of the owner of the account it was signed in with.
StartsFor(t) ==
  /\ t \in Tokens \ used.tokens
  /\ \A o \in Tokens \ {t} : sessions'[o] = sessions[o]
  /\ sessions'[t].by \in Accounts /\ sessions'[t].user = owner[sessions'[t].by]

LEMMA StartOwner ==
  ASSUME TypeInv, OwnerInv, NEW r \in Requests, Start(r)
  PROVE  SameUsers /\ (SessionsKept \/ \E t \in Tokens : StartsFor(t))
<1>1. req[r].account \in Accounts /\ (req[r].signer \in users => owner[req[r].account] = req[r].signer)
  BY DEF Start, Is, TypeInv, Ready, Signing, OwnerInv, Signs
<1>2. CASE UNCHANGED <<used, sessions>>
  BY <1>2 DEF Start, SameUsers, SessionsKept
<1>3. ASSUME NEW t \in Fresh(Tokens, used.tokens), used' = [used EXCEPT !.tokens = @ \cup {t}], req[r].signer \in users,
             sessions' = [sessions EXCEPT ![t] = [user |-> req[r].signer, by |-> req[r].account, age |-> "fresh"]]
      PROVE  SameUsers /\ \E o \in Tokens : StartsFor(o)
  <2>1. t \in Tokens /\ t \notin used.tokens
    BY FreshOne
  <2>2. StartsFor(t)
    BY <1>1, <1>3, <2>1 DEF StartsFor, TypeInv, TypeOK
  <2> QED
    BY <1>3, <2>1, <2>2 DEF SameUsers, Start, TypeInv, TypeOK
<1> QED
  BY <1>2, <1>3 DEF Start

LEMMA NextOwner ==
  ASSUME TypeInv, OwnerInv, [Next]_vars
  PROVE  \/ SameUsers /\ (SessionsKept \/ \E t \in Tokens : StartsFor(t))
         \/ SessionsKept /\ \/ \E a \in Accounts, u \in Users : Links(a, u) \/ Creates(a, u)
                            \/ \E u \in Users : Deletes(u)
<1>1. CASE UNCHANGED <<users, used, owner, sessions>>
  BY <1>1 DEF SameUsers, SessionsKept
<1>2. ASSUME NEW r \in Requests, Link(r)
      PROVE  SessionsKept /\ (SameUsers \/ \E a \in Accounts, u \in Users : Links(a, u))
  <2>1. req[r].account \in Accounts /\ users \subseteq Users
    BY <1>2 DEF Link, Is, TypeInv, TypeOK, Ready, Signing
  <2>2. CASE owner[req[r].account] = NoUser /\ req[r].user \in users
    BY <1>2, <2>1, <2>2 DEF Link, Links, SessionsKept
  <2>3. CASE ~(owner[req[r].account] = NoUser /\ req[r].user \in users)
    BY <1>2, <2>3 DEF Link, SameUsers, SessionsKept
  <2> QED
    BY <2>2, <2>3
<1>3. ASSUME NEW r \in Requests, CreateUser(r)
      PROVE  SessionsKept /\ (SameUsers \/ \E a \in Accounts, u \in Users : Creates(a, u))
  <2>1. req[r].account \in Accounts
    BY <1>3 DEF CreateUser, Is, TypeInv, Ready, Signing
  <2>2. CASE UNCHANGED <<users, used, owner>>
    BY <1>3, <2>2 DEF CreateUser, SameUsers, SessionsKept
  <2>3. ASSUME NEW u \in Fresh(Users, used.users), owner[req[r].account] = NoUser, owner' = [owner EXCEPT ![req[r].account] = u],
               used' = [used EXCEPT !.users = @ \cup {u}], users' = users \cup {u}
        PROVE  Creates(req[r].account, u) /\ u \in Users
    BY <2>3, FreshOne DEF Creates, TypeInv, TypeOK
  <2>4. SessionsKept
    BY <1>3 DEF CreateUser, SessionsKept
  <2> QED
    BY <1>3, <2>1, <2>2, <2>3, <2>4 DEF CreateUser
<1>4. ASSUME NEW r \in Requests, DeleteAccount(r)
      PROVE  SessionsKept /\ (SameUsers \/ \E u \in Users : Deletes(u))
  <2>1. SessionsKept
    BY <1>4 DEF DeleteAccount, SessionsKept, TypeInv, TypeOK
  <2>2. CASE req[r].user \in Users
    <3>1. \A t \in Tokens : sessions'[t] # NoSession => sessions[t].user # req[r].user
      BY <1>4 DEF DeleteAccount
    <3>2. Deletes(req[r].user)
      BY <1>4, <3>1 DEF DeleteAccount, Deletes
    <3> QED
      BY <2>1, <2>2, <3>2
  <2>3. CASE req[r].user = NoUser
    <3>1. users' = users
      BY <1>4, <2>3, SignInAssumption DEF DeleteAccount, TypeInv, TypeOK
    <3>2. owner' = owner
      BY <1>4, <2>3 DEF DeleteAccount, TypeInv, TypeOK
    <3> QED
      BY <1>4, <2>1, <3>1, <3>2 DEF SameUsers, DeleteAccount
  <2> QED
    BY <2>1, <2>2, <2>3 DEF TypeInv, TypeOK, Request
<1>5. ASSUME NEW r \in Requests, Expire(r) \/ SignOut(r) \/ Replace(r) PROVE SameUsers /\ SessionsKept
  <2>1. CASE UNCHANGED sessions
    BY <1>5, <2>1 DEF Expire, SignOut, Replace, SameUsers, SessionsKept
  <2>2. CASE req[r].token \in Tokens /\ End(req[r].token)
    BY <1>5, <2>2, EndKeeps DEF Expire, SignOut, Replace, SameUsers
  <2> QED
    BY <1>5, <2>1, <2>2 DEF Expire, SignOut, Replace, Is, TypeInv, Ready
<1>6. ASSUME NEW r \in Requests, Renew(r) PROVE SameUsers /\ SessionsKept
  BY <1>6, RenewKeeps DEF Renew, SameUsers
<1>7. ASSUME NEW t \in Tokens, Age(t) PROVE SameUsers /\ SessionsKept
  BY <1>7, AgeKeeps DEF Age, SameUsers
<1>8. CASE Cleanup
  BY <1>8 DEF Cleanup, SameUsers, SessionsKept
<1>9. ASSUME NEW r \in Requests, Page(r) \/ Begin(r) \/ Callback(r) \/ FindOwner(r) \/ Send(r) \/ Select(r) \/ Answer(r) \/ Fail(r)
      PROVE  UNCHANGED <<users, used, owner, sessions>>
  BY <1>9 DEF Page, Begin, Callback, FindOwner, Send, Select, Answer, Fail, rows
<1>10. ASSUME NEW b \in Browsers, Forget(b) PROVE UNCHANGED <<users, used, owner, sessions>>
  BY <1>10 DEF Forget, rows
<1>11. CASE UNCHANGED vars
  BY <1>1, <1>11 DEF vars, rows
<1> QED
  BY <1>1, <1>2, <1>3, <1>4, <1>5, <1>6, <1>7, <1>8, <1>9, <1>10, <1>11, StartOwner DEF Next, Handle, SignInSteps

LEMMA OwnerStep == ASSUME TypeInv, OwnerInv, [Next]_vars PROVE OwnerInv'
<1> USE DEF TypeInv, TypeOK
<1>1. CASE SameUsers /\ (SessionsKept \/ \E t \in Tokens : StartsFor(t))
  <2>1. users' \subseteq used'.users
    BY <1>1 DEF SameUsers, OwnerInv
  <2>2. \A t \in Tokens : sessions'[t] # NoSession => owner'[sessions'[t].by] = sessions'[t].user
    BY <1>1 DEF SameUsers, OwnerInv, OneUserPerAccount, SessionsKept, StartsFor
  <2>3. OneUserPerAccount'
    BY <1>1, <2>2 DEF SameUsers, OwnerInv, OneUserPerAccount
  <2>4. ASSUME NEW s \in Requests, Signs(s)'
        PROVE  req'[s].signer \in used'.users /\ (req'[s].signer \in users' => owner'[req'[s].account] = req'[s].signer)
    BY <1>1, <2>1, <2>4, SignerOf DEF SameUsers, OwnerInv
  <2> QED
    BY <2>1, <2>3, <2>4 DEF OwnerInv
<1>2. ASSUME NEW a \in Accounts, NEW u \in Users, Links(a, u) \/ Creates(a, u), SessionsKept PROVE OwnerInv'
  <2>1. users' \subseteq used'.users /\ used.users \subseteq used'.users /\ users \subseteq users' /\ u \in users'
    BY <1>2 DEF Links, Creates, OwnerInv
  <2>2. owner[a] = NoUser /\ owner' = [owner EXCEPT ![a] = u] /\ users' \subseteq users \cup {u}
    BY <1>2 DEF Links, Creates
  <2>3. OneUserPerAccount'
    <3>1. \A v \in users' : \E b \in Accounts : owner'[b] = v
      <4> SUFFICES ASSUME NEW v \in users, v # u PROVE \E b \in Accounts : owner'[b] = v
        BY <2>2
      <4>1. PICK b \in Accounts : owner[b] = v
        BY DEF OwnerInv, OneUserPerAccount
      <4>2. v # NoUser
        BY SignInAssumption
      <4> QED
        BY <2>2, <4>1, <4>2
    <3>2. \A b \in Accounts : owner'[b] \in users' \cup {NoUser}
      BY <2>1, <2>2 DEF OwnerInv, OneUserPerAccount
    <3>3. ASSUME NEW t \in Tokens, sessions'[t] # NoSession PROVE owner'[sessions'[t].by] = sessions'[t].user
      <4>1. sessions[t] # NoSession /\ sessions[t] \in SessionRow /\ sessions'[t].user = sessions[t].user /\ sessions'[t].by = sessions[t].by
        BY <1>2, <3>3 DEF SessionsKept, SessionRow
      <4>2. owner[sessions[t].by] = sessions[t].user /\ sessions[t].user # NoUser
        BY <4>1, SignInAssumption DEF OwnerInv, OneUserPerAccount, SessionRow
      <4> QED
        BY <2>2, <4>1, <4>2
    <3> QED
      BY <3>1, <3>2, <3>3 DEF OneUserPerAccount
  <2>4. ASSUME NEW s \in Requests, Signs(s)'
        PROVE  req'[s].signer \in used'.users /\ (req'[s].signer \in users' => owner'[req'[s].account] = req'[s].signer)
    <3>1. CASE Signs(s) /\ req'[s].signer = req[s].signer /\ req'[s].account = req[s].account
      <4>1. req[s].signer \in used.users /\ req[s].signer \in Users /\ (req[s].signer \in users => owner[req[s].account] = req[s].signer)
        BY <3>1 DEF OwnerInv, Ready, Signs
      <4>2. CASE Links(a, u)
        <5>1. req[s].signer \in users => req[s].account # a
          BY <2>2, <4>1, SignInAssumption
        <5> QED
          BY <2>1, <2>2, <3>1, <4>1, <4>2, <5>1 DEF Links
      <4>3. CASE Creates(a, u)
        <5>1. req[s].signer # u
          BY <4>1, <4>3 DEF Creates
        <5>2. req[s].signer \in users => req[s].account # a
          BY <2>2, <4>1, SignInAssumption
        <5> QED
          BY <2>1, <2>2, <3>1, <4>1, <5>1, <5>2
      <4> QED
        BY <1>2, <4>2, <4>3
    <3> QED
      BY <2>1, <2>4, <3>1, SignerOf
  <2> QED
    BY <2>1, <2>3, <2>4 DEF OwnerInv
<1>3. ASSUME NEW u \in Users, Deletes(u), SessionsKept PROVE OwnerInv'
  <2>1. users' = users \ {u} /\ used'.users = used.users /\ users' \subseteq used'.users
    BY <1>3 DEF Deletes, OwnerInv
  <2>2. owner' = [a \in Accounts |-> IF owner[a] = u THEN NoUser ELSE owner[a]]
    BY <1>3 DEF Deletes
  <2>3. OneUserPerAccount'
    <3>1. \A v \in users' : \E b \in Accounts : owner'[b] = v
      BY <2>1, <2>2 DEF OwnerInv, OneUserPerAccount
    <3>2. \A b \in Accounts : owner'[b] \in users' \cup {NoUser}
      BY <2>1, <2>2 DEF OwnerInv, OneUserPerAccount
    <3>3. ASSUME NEW t \in Tokens, sessions'[t] # NoSession PROVE owner'[sessions'[t].by] = sessions'[t].user
      <4>1. /\ sessions[t] # NoSession /\ sessions[t] \in SessionRow /\ sessions[t].user # u
            /\ sessions'[t].user = sessions[t].user /\ sessions'[t].by = sessions[t].by
        BY <1>3, <3>3 DEF SessionsKept, SessionRow, Deletes
      <4>2. owner[sessions[t].by] = sessions[t].user /\ sessions[t].by \in Accounts
        BY <4>1 DEF OwnerInv, OneUserPerAccount, SessionRow
      <4> QED
        BY <2>2, <4>1, <4>2
    <3> QED
      BY <3>1, <3>2, <3>3 DEF OneUserPerAccount
  <2>4. ASSUME NEW s \in Requests, Signs(s)'
        PROVE  req'[s].signer \in used'.users /\ (req'[s].signer \in users' => owner'[req'[s].account] = req'[s].signer)
    <3>1. CASE Signs(s) /\ req'[s].signer = req[s].signer /\ req'[s].account = req[s].account
      <4>1. /\ req[s].signer \in used.users /\ req[s].account \in Accounts
            /\ req[s].signer \in users => owner[req[s].account] = req[s].signer
        BY <3>1 DEF OwnerInv, Ready, Signs, Signing
      <4> QED
        BY <2>1, <2>2, <3>1, <4>1
    <3> QED
      BY <2>1, <2>4, <3>1, SignerOf
  <2> QED
    BY <2>1, <2>3, <2>4 DEF OwnerInv
<1> QED
  BY <1>1, <1>2, <1>3, NextOwner

LEMMA OwnersAreKept == Spec => [](TypeInv /\ OwnerInv)
<1>1. TypeInv /\ OwnerInv /\ [Next]_vars => OwnerInv'
  BY OwnerStep
<1> QED
  BY <1>1, InitOwner, TypesAreKept, PTL DEF Spec

(* Every user has an account that signs in to it, and every web session is  *)
(* of its account's owner: two first sign-ins of one account at once make   *)
(* one user (identities.ts:18-74).                                          *)
THEOREM OneUserForEachAccount == Spec => []OneUserPerAccount
<1>1. OwnerInv => OneUserPerAccount
  BY DEF OwnerInv
<1> QED
  BY <1>1, OwnersAreKept, PTL

(* Accounts are never merged: only the delete of its user frees an account  *)
(* (identities.ts:50-74).                                                   *)
THEOREM AccountsAreNeverMerged == Spec => NeverMerged
<1>1. ASSUME TypeInv, OwnerInv, [Next]_vars
      PROVE  \A a \in Accounts : owner[a] # NoUser => owner'[a] = owner[a] \/ (owner'[a] = NoUser /\ owner[a] \notin users')
  <2> TAKE a \in Accounts
  <2>1. ASSUME NEW u \in Users, Deletes(u), owner[a] # NoUser
        PROVE  owner'[a] = owner[a] \/ (owner'[a] = NoUser /\ owner[a] \notin users')
    BY <2>1 DEF Deletes
  <2>2. ASSUME NEW b \in Accounts, NEW u \in Users, Links(b, u) \/ Creates(b, u), owner[a] # NoUser PROVE owner'[a] = owner[a]
    BY <1>1, <2>2 DEF Links, Creates, TypeInv, TypeOK
  <2> QED
    BY <1>1, <2>1, <2>2, NextOwner DEF SameUsers
<1> QED
  BY <1>1, OwnersAreKept, PTL DEF Spec, NeverMerged

-----------------------------------------------------------------------------
(* The flows of sign-ins.                                                       *)

\* Each token was given to one user, f[t]; a cookie's flow was begun in its
\* browser, and a link in a web session of the user it is for.
FlowOf(f, x, b) ==
  x.n > 0 => /\ x.n \in 1 .. Len(begun) /\ begun[x.n].browser = b
             /\ x.link # NoToken => x.link \in used.tokens /\ begun[x.n].user = f[x.link]

\* The same after a step.
FlowAfter(f, x, b) ==
  x.n > 0 => /\ x.n \in 1 .. Len(begun') /\ begun'[x.n].browser = b
             /\ x.link # NoToken => x.link \in used'.tokens /\ begun'[x.n].user = f[x.link]

Served(f, r) ==
  /\ req[r].user # NoUser => req[r].token \in used.tokens /\ f[req[r].token] = req[r].user
  /\ FlowOf(f, req[r].flow, req[r].browser) /\ FlowOf(f, req[r].flows, req[r].browser)
  /\ req[r].kind = "callback" => req[r].n # 0
  /\ req[r].at \in Signing => req[r].n # 0 /\ req[r].flow.n = req[r].n
  /\ req[r].at = "link" => req[r].user # NoUser /\ req[r].token = req[r].flow.link /\ req[r].flow.link # NoToken

FlowInv(f) ==
  /\ \A t \in Open : f[t] = sessions[t].user
  /\ \A r \in Requests : Served(f, r)
  /\ \A b \in Browsers, p \in Providers : FlowOf(f, flows[b][p], b)

Given == [Tokens -> Users \cup {NoUser}]

\* What every step keeps: the flows begun so far, and the users of the tokens used.
Grows(f, g) ==
  /\ Len(begun') >= Len(begun) /\ \A n \in 1 .. Len(begun) : begun'[n] = begun[n]
  /\ used.tokens \subseteq used'.tokens /\ \A t \in used.tokens : g[t] = f[t]

LEMMA InitFlow == ASSUME Init PROVE \E f \in Given : FlowInv(f)
<1>1. PICK f \in Given : \A t \in Open : f[t] = sessions[t].user
  <2> DEFINE f == [t \in Tokens |-> sessions[t].user]
  <2>1. f \in Given
    BY InitType DEF TypeInv, TypeOK, Given, NoSession
  <2>2. \A t \in Open : f[t] = sessions[t].user
    BY DEF Open
  <2> QED
    BY <2>1, <2>2
<1>2. \A r \in Requests : Served(f, r)
  BY DEF Init, Idle, Served, FlowOf, NoFlow, Untouched, Signing
<1>3. \A b \in Browsers, p \in Providers : FlowOf(f, flows[b][p], b)
  BY DEF Init, FlowOf, NoFlow
<1> QED
  BY <1>1, <1>2, <1>3 DEF FlowInv

LEMMA FlowGrows ==
  ASSUME TypeInv, NEW f, NEW g, Grows(f, g), NEW x \in Flow, NEW b, FlowOf(f, x, b)
  PROVE  FlowAfter(g, x, b)
<1> SUFFICES ASSUME x.n > 0
             PROVE  /\ x.n \in 1 .. Len(begun') /\ begun'[x.n].browser = b
                    /\ x.link # NoToken => x.link \in used'.tokens /\ begun'[x.n].user = g[x.link]
  BY DEF FlowAfter
<1>1. x.n \in 1 .. Len(begun) /\ Len(begun) \in Nat /\ Len(begun') >= Len(begun)
  BY DEF FlowOf, TypeInv, TypeOK, Grows
<1> QED
  BY <1>1 DEF FlowOf, Grows

LEMMA BegunGrows ==
  ASSUME TypeInv, [Next]_vars
  PROVE  Len(begun') >= Len(begun) /\ \A n \in 1 .. Len(begun) : begun'[n] = begun[n]
<1>1. CASE UNCHANGED begun
  BY <1>1 DEF TypeInv, TypeOK
<1>2. ASSUME NEW r \in Requests, Begin(r), ~UNCHANGED begun
      PROVE  Len(begun') >= Len(begun) /\ \A n \in 1 .. Len(begun) : begun'[n] = begun[n]
  <2>1. PICK e : begun' = Append(begun, e)
    BY <1>2 DEF Begin
  <2> QED
    BY <2>1 DEF TypeInv, TypeOK
<1> QED
  BY <1>1, <1>2 DEF Next, vars, Handle, SignInSteps, Send, Select, Expire, Renew, Answer, Fail, Forget, Age, Cleanup,
       Page, Callback, SignOut, DeleteAccount, Link, FindOwner, CreateUser, Replace, Start

\* A request that keeps who sent it, and whose answer leaves or clears the sign-in cookie.
LEMMA ServedKept ==
  ASSUME TypeInv, NEW f, NEW g, Grows(f, g), NEW s \in Requests, Served(f, s), KeepsUser(s),
         req'[s].kind = req[s].kind,
         req'[s].flows = req[s].flows \/ FlowAfter(g, req'[s].flows, req[s].browser),
         req'[s].at \in Signing => req[s].at \in Signing,
         req'[s].at = "link" => req[s].at = "link"
  PROVE  Served(g, s)'
<1>1. req[s].flow \in Flow /\ req[s].flows \in Flow
  BY DEF TypeInv, TypeOK, Request
<1>2. FlowAfter(g, req[s].flow, req[s].browser)
  BY <1>1, FlowGrows DEF Served
<1>3. FlowAfter(g, req'[s].flows, req[s].browser)
  BY <1>1, FlowGrows DEF Served
<1>4. req[s].user # NoUser => req[s].token \in used'.tokens /\ g[req[s].token] = req[s].user
  BY DEF Served, Grows
<1>5. FlowOf(g, req[s].flow, req[s].browser)' /\ FlowOf(g, req[s].flows, req[s].browser)'
  BY <1>2, <1>3 DEF FlowOf, FlowAfter, KeepsUser
<1> QED
  BY <1>4, <1>5 DEF Served, KeepsUser

LEMMA ServedSame ==
  ASSUME TypeInv, NEW f, NEW g, Grows(f, g), NEW s \in Requests, Served(f, s), req'[s] = req[s]
  PROVE  Served(g, s)'
BY ServedKept DEF KeepsUser

\* The steps that go on with a request and leave its sign-in cookie alone.
LEMMA ServedQuiet ==
  ASSUME TypeInv, NEW f, NEW g, Grows(f, g), NEW s \in Requests, Served(f, s),
         \/ Page(s) \/ SignOut(s) \/ DeleteAccount(s) \/ SignInSteps(s) \/ Expire(s) \/ Renew(s)
         \/ Begin(s) /\ Goto(s, "answer")
  PROVE  Served(g, s)'
<1>1. req \in [Requests -> Request] /\ KeepsUser(s)
  BY HandlersKeep DEF TypeInv, TypeOK, Handle
<1> DEFINE Rest == /\ req'[s].kind = req[s].kind /\ req'[s].flows = req[s].flows
                   /\ req'[s].at \in Signing => req[s].at \in Signing
                   /\ req'[s].at # "link"
<1>2. ASSUME NEW at \in {"answer", "handle"}, NEW j, req' = [req EXCEPT ![s].at = at, ![s].jar = j] PROVE Rest
  BY <1>1, <1>2 DEF Request, Signing
<1>3. ASSUME NEW at \in {"answer", "create", "reread", "start"}, Goto(s, at), at # "answer" => req[s].at \in Signing PROVE Rest
  BY <1>1, <1>3 DEF Request, Signing, Goto
<1>4. ASSUME NEW u, req[s].at \in Signing, req' = [req EXCEPT ![s].at = "replace", ![s].signer = u] PROVE Rest
  BY <1>1, <1>4 DEF Request, Signing
<1> HIDE DEF Rest
<1>5. ASSUME Page(s) \/ SignOut(s) \/ DeleteAccount(s) \/ Expire(s) \/ Renew(s) \/ (Begin(s) /\ Goto(s, "answer"))
      PROVE  Rest
  BY <1>2, <1>3, <1>5 DEF Page, SignOut, DeleteAccount, Expire, Renew
<1>6. ASSUME SignInSteps(s) PROVE Rest
  <2>1. req[s].at \in Signing
    BY <1>6 DEF SignInSteps, Link, FindOwner, CreateUser, Replace, Start, Is, Signing
  <2>2. CASE Link(s) \/ Replace(s)
    BY <1>3, <2>1, <2>2 DEF Link, Replace
  <2>3. CASE FindOwner(s)
    BY <1>3, <1>4, <2>1, <2>3 DEF FindOwner
  <2>4. CASE CreateUser(s)
    BY <1>3, <1>4, <2>1, <2>4 DEF CreateUser
  <2>5. CASE Start(s)
    BY <1>2, <1>3, <2>1, <2>5 DEF Start
  <2> QED
    BY <1>6, <2>2, <2>3, <2>4, <2>5 DEF SignInSteps
<1>7. Rest
  BY <1>5, <1>6
<1> QED
  BY <1>1, <1>7, ServedKept DEF Rest

LEMMA ServedBegin ==
  ASSUME TypeInv, NEW f, NEW g, Grows(f, g), NEW s \in Requests, Served(f, s), Begin(s), ~Goto(s, "answer")
  PROVE  Served(g, s)'
<1> DEFINE link == IF req[s].kind = "link" THEN req[s].token ELSE NoToken
           u == IF link = NoToken THEN NoUser ELSE req[s].user
<1>1. begun' = Append(begun, [browser |-> req[s].browser, provider |-> req[s].provider, user |-> u])
  BY DEF Begin
<1>2. req' = [req EXCEPT ![s].at = "answer", ![s].flows = [n |-> Len(begun) + 1, link |-> link]]
  BY DEF Begin
<1>3. link # NoToken => link = req[s].token /\ req[s].user # NoUser /\ u = req[s].user
  BY DEF Begin
<1> HIDE DEF link, u
<1>4. req \in [Requests -> Request] /\ begun \in Seq([browser : Browsers, provider : Providers, user : Users \cup {NoUser}])
  BY DEF TypeInv, TypeOK
<1>5. begun'[Len(begun) + 1] = [browser |-> req[s].browser, provider |-> req[s].provider, user |-> u] /\ Len(begun') = Len(begun) + 1
  BY <1>1, <1>4
<1>6. link # NoToken => link \in used'.tokens /\ g[link] = u
  BY <1>3 DEF Served, Grows
<1>7. req'[s].flows = [n |-> Len(begun) + 1, link |-> link] /\ req'[s].at = "answer" /\ req'[s].kind = req[s].kind
  BY <1>2, <1>4 DEF Request
<1>8. FlowAfter(g, req'[s].flows, req[s].browser)
  BY <1>4, <1>5, <1>6, <1>7 DEF FlowAfter
<1>9. KeepsUser(s)
  BY HandlersKeep DEF Handle
<1> QED
  BY <1>7, <1>8, <1>9, ServedKept DEF Signing

LEMMA ServedCallback ==
  ASSUME TypeInv, NEW f, NEW g, Grows(f, g), NEW s \in Requests, Served(f, s), Callback(s)
  PROVE  Served(g, s)'
<1>1. req \in [Requests -> Request] /\ req[s] \in Request /\ KeepsUser(s)
  BY HandlersKeep DEF TypeInv, TypeOK, Handle
<1>2. FlowAfter(g, NoFlow, req[s].browser)
  BY DEF FlowAfter, NoFlow
<1>3. CASE req' = [req EXCEPT ![s].at = "answer", ![s].flows = NoFlow]
  <2>1. req'[s].flows = NoFlow /\ req'[s].at = "answer" /\ req'[s].kind = req[s].kind
    BY <1>1, <1>3 DEF Request
  <2> QED
    BY <1>1, <1>2, <2>1, ServedKept DEF Signing
<1>4. CASE req' # [req EXCEPT ![s].at = "answer", ![s].flows = NoFlow]
  <2> DEFINE at == IF req[s].flow.link = NoToken THEN "find" ELSE "link"
  <2>1. PICK a : req' = [req EXCEPT ![s].at = at, ![s].account = a, ![s].flows = NoFlow]
    BY <1>4 DEF Callback
  <2>2. at = "find" \/ (at = "link" /\ req[s].flow.link # NoToken)
    OBVIOUS
  <2> HIDE DEF at
  <2>3. req'[s].flows = NoFlow /\ req'[s].at = at /\ req'[s].kind = req[s].kind
    BY <1>1, <2>1 DEF Request
  <2>4. Verified(req[s]) /\ req[s].kind = "callback"
    BY <1>4 DEF Callback
  <2>5. req[s].flow \in Flow
    BY <1>1 DEF Request
  <2>6. FlowAfter(g, req[s].flow, req[s].browser)
    BY <2>5, FlowGrows DEF Served
  <2>7. FlowOf(g, req[s].flow, req[s].browser)' /\ FlowOf(g, req[s].flows, req[s].browser)'
    BY <1>1, <1>2, <2>3, <2>6 DEF FlowOf, FlowAfter, KeepsUser
  <2>8. req[s].user # NoUser => req[s].token \in used'.tokens /\ g[req[s].token] = req[s].user
    BY DEF Served, Grows
  <2>9. req[s].n # 0 /\ req[s].flow.n = req[s].n
    BY <2>4 DEF Served, Verified
  <2>10. at = "link" => req[s].user # NoUser /\ req[s].token = req[s].flow.link /\ req[s].flow.link # NoToken
    BY <2>2, <2>4 DEF Verified
  <2> QED
    BY <1>1, <2>3, <2>7, <2>8, <2>9, <2>10 DEF Served, KeepsUser
<1> QED
  BY <1>3, <1>4

LEMMA ServedSend ==
  ASSUME TypeInv, NEW f, NEW g, FlowInv(f), Grows(f, g), NEW s \in Requests, Send(s)
  PROVE  Served(g, s)'
<1>1. PICK b \in Browsers, kind \in Kinds, p \in Providers, n \in 0 .. Len(begun) :
        ((kind = "callback") <=> (n # 0)) /\ req' = [req EXCEPT ![s] = Sent(b, kind, p, n)]
  BY DEF Send
<1>2. req'[s] = Sent(b, kind, p, n)
  BY <1>1 DEF TypeInv, TypeOK
<1>3. Sent(b, kind, p, n).kind = kind
  BY DEF Sent
<1>4. flows[b][p] \in Flow /\ FlowOf(f, flows[b][p], b)
  BY DEF TypeInv, TypeOK, FlowInv
<1>5. FlowAfter(g, flows[b][p], b)
  BY <1>4, FlowGrows
<1>6. FlowOf(g, req[s].flow, req[s].browser)'
  BY <1>2, <1>5, SentFields DEF FlowOf, FlowAfter
<1>7. FlowOf(g, req[s].flows, req[s].browser)'
  BY <1>2, SentFields DEF FlowOf, Untouched
<1>8. req'[s].at \notin Signing
  BY <1>2, SentFields DEF Signing
<1> QED
  BY <1>1, <1>2, <1>3, <1>6, <1>7, <1>8, SentFields DEF Served, Signing

LEMMA ServedSelect ==
  ASSUME TypeInv, LifeInv, NEW f, NEW g, FlowInv(f), Grows(f, g), NEW s \in Requests, Select(s)
  PROVE  Served(g, s)'
<1>1. req \in [Requests -> Request] /\ Served(f, s) /\ req[s].flow \in Flow /\ req[s].flows \in Flow
  BY DEF TypeInv, TypeOK, FlowInv, Request
<1>2. req'[s].at \in {"handle", "expire", "renew"} /\ req'[s].kind = req[s].kind /\ req'[s].flows = req[s].flows
  BY <1>1 DEF Select, Goto, Request
<1>3. FlowAfter(g, req[s].flow, req[s].browser) /\ FlowAfter(g, req[s].flows, req[s].browser)
  BY <1>1, FlowGrows DEF Served
<1>4. FlowOf(g, req[s].flow, req[s].browser)' /\ FlowOf(g, req[s].flows, req[s].browser)'
  BY <1>2, <1>3, SelectUser DEF FlowOf, FlowAfter
<1>5. req'[s].user # NoUser => req'[s].token \in used'.tokens /\ g[req'[s].token] = req'[s].user
  <2>1. CASE req'[s].user = req[s].user
    BY <1>1, <2>1, SelectUser DEF Served, Grows
  <2>2. CASE req[s].token \in Open /\ req'[s].user = sessions[req[s].token].user
    BY <2>2, SelectUser DEF FlowInv, LifeInv, Grows
  <2> QED
    BY <2>1, <2>2, SelectUser
<1> QED
  BY <1>1, <1>2, <1>4, <1>5, SelectUser DEF Served, Signing

LEMMA ServedIdle ==
  ASSUME TypeInv, NEW g, NEW s \in Requests, Answer(s) \/ Fail(s)
  PROVE  Served(g, s)'
<1>1. req'[s] = Idle
  BY DEF Answer, Fail, TypeInv, TypeOK
<1> QED
  BY <1>1 DEF Idle, Served, FlowOf, NoFlow, Untouched, Signing

LEMMA ServedStep ==
  ASSUME TypeInv, LifeInv, NEW f, NEW g, FlowInv(f), Grows(f, g), [Next]_vars, NEW s \in Requests
  PROVE  Served(g, s)'
<1>1. Served(f, s) /\ req \in [Requests -> Request]
  BY DEF FlowInv, TypeInv, TypeOK
<1>2. CASE req'[s] = req[s]
  BY <1>1, <1>2, ServedSame
<1>3. ASSUME NEW r \in Requests, s # r, Handle(r) \/ SignInSteps(r) \/ Expire(r) \/ Renew(r) PROVE req'[s] = req[s]
  BY <1>1, <1>3 DEF Handle, SignInSteps, Page, Begin, Callback, SignOut, DeleteAccount, Link, FindOwner, CreateUser, Replace, Start, Expire, Renew, Goto
<1>4. ASSUME NEW r \in Requests, s # r, Send(r) \/ Select(r) \/ Answer(r) \/ Fail(r) PROVE req'[s] = req[s]
  BY <1>4, OthersKept
<1>5. CASE Handle(s) \/ SignInSteps(s) \/ Expire(s) \/ Renew(s)
  BY <1>1, <1>5, ServedQuiet, ServedBegin, ServedCallback DEF Handle
<1>6. CASE Send(s) \/ Select(s) \/ Answer(s) \/ Fail(s)
  BY <1>6, ServedSend, ServedSelect, ServedIdle
<1>7. CASE UNCHANGED req
  BY <1>2, <1>7
<1> QED
  BY <1>2, <1>3, <1>4, <1>5, <1>6, <1>7 DEF Next, Forget, Age, Cleanup, vars

\* The sign-in cookies of the browsers.
LEMMA CookieStep ==
  ASSUME TypeInv, NEW f, NEW g, FlowInv(f), Grows(f, g), [Next]_vars, NEW b \in Browsers, NEW p \in Providers
  PROVE  FlowAfter(g, flows'[b][p], b)
<1>1. flows[b][p] \in Flow /\ flows \in [Browsers -> [Providers -> Flow]] /\ FlowOf(f, flows[b][p], b)
  BY DEF TypeInv, TypeOK, FlowInv
<1>2. CASE flows'[b][p] = flows[b][p]
  BY <1>1, <1>2, FlowGrows
<1>3. ASSUME NEW c \in Browsers, Forget(c) PROVE flows'[b][p] \in {flows[b][p], NoFlow}
  BY <1>1, <1>3 DEF Forget
<1>4. CASE flows'[b][p] = NoFlow
  BY <1>4 DEF FlowAfter, NoFlow
<1>5. ASSUME NEW r \in Requests, Answer(r) PROVE FlowAfter(g, flows'[b][p], b)
  <2>1. CASE flows'[b][p] # flows[b][p]
    <3>1. flows' = [flows EXCEPT ![req[r].browser][req[r].provider] = req[r].flows]
      BY <1>5, <2>1 DEF Answer
    <3>2. req[r].browser = b /\ flows'[b][p] = req[r].flows
      BY <1>1, <2>1, <3>1
    <3>3. FlowOf(f, req[r].flows, b) /\ req[r].flows \in Flow
      BY <3>2 DEF FlowInv, Served, TypeInv, TypeOK, Request
    <3> QED
      BY <3>2, <3>3, FlowGrows
  <2> QED
    BY <1>2, <2>1
<1>6. CASE UNCHANGED flows
  BY <1>2, <1>6
<1> QED
  BY <1>2, <1>3, <1>4, <1>5, <1>6 DEF Next, vars, cookies, Handle, SignInSteps, Send, Select, Expire, Renew, Fail, Age, Cleanup,
       Page, Begin, Callback, SignOut, DeleteAccount, Link, FindOwner, CreateUser, Replace, Start

LEMMA FlowStep ==
  ASSUME TypeInv, LifeInv, OwnerInv, NEW f \in Given, FlowInv(f), [Next]_vars
  PROVE  \E g \in Given : FlowInv(g)'
<1>1. used.tokens \subseteq used'.tokens
  BY NextLife DEF Closes, Opens
<1>2. PICK g \in Given : Grows(f, g) /\ \A t \in Open' : g[t] = sessions'[t].user
  <2>1. CASE SessionsKept
    <3>1. Grows(f, f)
      BY <1>1, BegunGrows DEF Grows
    <3>2. \A t \in Open' : f[t] = sessions'[t].user
      BY <2>1 DEF SessionsKept, FlowInv, Open
    <3> QED
      BY <3>1, <3>2
  <2>2. ASSUME NEW t \in Tokens, StartsFor(t)
        PROVE  \E g \in Given : Grows(f, g) /\ \A o \in Open' : g[o] = sessions'[o].user
    <3> DEFINE g == [f EXCEPT ![t] = sessions'[t].user]
    <3>1. sessions'[t].user \in Users \cup {NoUser} /\ t \notin used.tokens
      BY <2>2 DEF StartsFor, TypeInv, TypeOK
    <3>2. g \in Given
      BY <3>1 DEF Given
    <3>3. \A o \in used.tokens : g[o] = f[o]
      BY <3>1 DEF Given, TypeInv, TypeOK
    <3>4. Grows(f, g)
      BY <1>1, <3>3, BegunGrows DEF Grows
    <3>5. \A o \in Open' : g[o] = sessions'[o].user
      BY <2>2 DEF StartsFor, FlowInv, Open, Given
    <3> QED
      BY <3>2, <3>4, <3>5
  <2> QED
    BY <2>1, <2>2, NextOwner
<1>3. \A s \in Requests : Served(g, s)'
  BY <1>2, ServedStep
<1>4. \A b \in Browsers, p \in Providers : FlowOf(g, flows[b][p], b)'
  BY <1>2, CookieStep DEF FlowOf, FlowAfter
<1> QED
  BY <1>2, <1>3, <1>4 DEF FlowInv

AllInv == TypeInv /\ LifeInv /\ OwnerInv /\ \E f \in Given : FlowInv(f)

LEMMA AllIsKept == Spec => []AllInv
<1>1. Init => AllInv
  BY InitType, InitLife, InitOwner, InitFlow DEF AllInv
<1>2. AllInv /\ [Next]_vars => AllInv'
  BY NextType, LifeStep, OwnerStep, FlowStep DEF AllInv
<1> QED
  BY <1>1, <1>2, PTL DEF Spec

LEMMA FlowsAreOwn == ASSUME TypeInv, NEW f, FlowInv(f) PROVE OwnFlow
<1> SUFFICES ASSUME NEW r \in Requests, req[r].at \in Signing
             PROVE  begun[req[r].n].browser = req[r].browser /\ (req[r].at = "link" => begun[req[r].n].user = req[r].user)
  BY DEF OwnFlow, Signing, Is
<1>1. Served(f, r) /\ req[r].n \in Nat
  BY DEF FlowInv, TypeInv, TypeOK, Request
<1>2. req[r].flow.n = req[r].n /\ req[r].n > 0
  BY <1>1 DEF Served
<1> QED
  BY <1>1, <1>2 DEF Served, FlowOf

(* A request acts only for whom it may: the user its web session still is,  *)
(* the browser and the user its flow was begun for, the one user of the     *)
(* account it signed in with (auth.ts:116-160, identities.ts:18-74,         *)
(* web-sessions.ts:100-130).                                                *)
THEOREM RequestsActForTheirUser == Spec => []OwnUser
<1>1. AllInv => OwnUser
  BY FlowsAreOwn DEF AllInv, OwnUser, LifeInv, EndedForGood, OwnerInv
<1> QED
  BY <1>1, AllIsKept, PTL
=============================================================================
