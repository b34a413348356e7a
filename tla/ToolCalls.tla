------------------------------- MODULE ToolCalls -------------------------------
(***************************************************************************)
(* A tool call from its POST to /mcp to its events row: the checks of the  *)
(* route (platform/src/mcp.ts), the registry that counts, runs, refunds    *)
(* and records it (tools.ts, usage.ts, tool-envelope.ts), report_issue's   *)
(* transaction (report-issue.ts) and the recorder of events (events.ts).   *)
(*                                                                         *)
(* The server handles calls at once and yields at each query. A query may  *)
(* fail, the process may end at any step, and meanwhile the user changes   *)
(* tier, turns games off, uploads, deletes the data or the account, and    *)
(* midnight passes.                                                        *)
(***************************************************************************)
EXTENDS Integers, FiniteSets

CONSTANTS
  Users,       \* users.uuid
  Calls,       \* the requests the server handles at once
  Kits,        \* the keys of the first-class kits
  KitTools,    \* their tools: [kit, paidOnly]
  Caps,        \* ToolCallCaps by tier, or NoCap
  MaxPending,  \* EventRecorderOptions.maxPending
  MaxReports,  \* REPORT_ISSUE_MAX_PER_DAY
  ReportCalls, \* REPORT_ISSUE_CALLS
  VisitGap,    \* DEFAULT_VISIT_GAP_MINUTES, in ticks
  DayLength,   \* a day, in ticks
  Budget       \* bounds on how often each thing happens

Tiers == {"free", "paid"}
NoCap == -1
NoCall == "none"
Kinds == {"calls", "others", "ticks"}

ASSUME ToolCallsAssumption ==
  /\ IsFiniteSet(Calls) /\ NoCall \notin Calls /\ IsFiniteSet(Users) /\ Users # {}
  /\ KitTools \subseteq [kit : Kits, paidOnly : BOOLEAN]
  /\ Caps \in [Tiers -> Nat \cup {NoCap}] /\ \A t \in Tiers : Caps[t] # 0
  /\ {MaxPending, MaxReports, ReportCalls, DayLength} \subseteq Nat \ {0}
  /\ VisitGap \in Nat
  /\ Budget \in [Kinds -> Nat]

VARIABLES
  tier,      \* users.tier, or "gone"
  enabled,   \* user_games
  snapshots, \* the rows of snapshots: [id, user, kit, at]
  usage,     \* usage_daily.tool_calls by user and day; no row is 0
  events,    \* the rows of events by their ids, which grow
  issues,    \* the rows of issues: [id, user, kit, at, calls, snap], the id that of the call
  reporter,  \* the call whose transaction locks the row of a user, or NoCall
  call,      \* where each call is
  pending,   \* the recorder's inserts under way
  dropped,   \* the recorder's events dropped since the last line that counted them
  nextId,    \* the ids given to calls and snapshots
  clock,     \* the time, in ticks
  seen,      \* history: what became of the recorded events; the inserted ones number the rows
  charged,   \* history: the calls each user and day must answer for
  had,       \* history: the tiers each user had
  budget     \* what is left of Budget

db == <<tier, had, enabled, snapshots, usage, events, issues>>
recorder == <<pending, dropped, seen>>
vars == <<db, reporter, call, recorder, nextId, clock, charged, budget>>

NoSnapshot == -1
ListGames == [name |-> "list_games", kit |-> "none", paidOnly |-> FALSE]
ReportIssue == [name |-> "report_issue", kit |-> "none", paidOnly |-> FALSE]

(* PLATFORM_TOOLS, then the tools of every kit, whatever the user enabled. *)
Tools == {ListGames, ReportIssue} \cup {[name |-> "kit", kit |-> t.kit, paidOnly |-> t.paidOnly] : t \in KitTools}

Idle == [at |-> "idle", id |-> 0, user |-> CHOOSE u \in Users : TRUE, tool |-> ListGames, tier |-> "free", games |-> {},
         day |-> 0, occurred |-> 0, began |-> 0, counted |-> FALSE, error |-> "none"]

Today == clock \div DayLength
Days == {t \div DayLength : t \in 0 .. Budget["ticks"]}

Init ==
  /\ tier \in [Users -> Tiers] /\ enabled = [u \in Users |-> Kits]
  /\ snapshots \in {{}, {[id |-> 0, user |-> u, kit |-> k, at |-> 0] : u \in Users, k \in Kits}}
  /\ events = [i \in {} |-> {}] /\ issues = {}
  /\ usage = [u \in Users |-> [d \in Days |-> 0]] /\ charged = usage
  /\ had = [u \in Users |-> {tier[u]}]
  /\ reporter = [u \in Users |-> NoCall] /\ call = [c \in Calls |-> Idle]
  /\ pending = {} /\ dropped = 0
  /\ seen = [recorded |-> 0, inserted |-> 0, failed |-> 0, logged |-> 0, lost |-> 0]
  /\ nextId = 1 /\ clock = 0 /\ budget = Budget

Spend(what) == budget[what] > 0 /\ budget' = [budget EXCEPT ![what] = @ - 1]
Keep == UNCHANGED budget
Step(c, at) == call' = [call EXCEPT ![c].at = at]
Is(c, at) == call[c].at = at

-----------------------------------------------------------------------------
(* The route: each check refuses before the next one looks.                *)

(* A POST to /mcp, by what the checks look at. *)
Posts == [host : BOOLEAN, origin : BOOLEAN, token : BOOLEAN, post : BOOLEAN, body : {"json", "large", "broken", "other"},
          accepts : BOOLEAN]
Refusal(r) ==
  CASE ~r.host \/ ~r.origin -> 403
    [] ~r.token -> 401
    [] ~r.post -> 405
    [] r.body = "large" -> 413
    [] r.body = "broken" -> 400
    [] ~r.accepts -> 406
    [] r.body = "other" -> 415
    [] OTHER -> 200

(* tools/list, a refused post, and a call of a name no tool has, read at   *)
(* most the user, and change nothing; a call of a listed tool goes on.     *)
Receive(c) ==
  /\ Is(c, "idle") /\ Spend("calls")
  /\ \E r \in Posts : Refusal(r) = 200
  /\ \E u \in Users, t \in Tools :
       call' = [call EXCEPT ![c] = [Idle EXCEPT !.at = "received", !.id = nextId, !.user = u,
                                            !.tool = t, !.occurred = clock]]
  /\ nextId' = nextId + 1
  /\ UNCHANGED <<db, reporter, recorder, clock, charged>>

-----------------------------------------------------------------------------
(* The recorder of events.                                                 *)

Row(c, error, snap) ==
  [id |-> call[c].id, user |-> call[c].user, at |-> call[c].occurred, tool |-> call[c].tool.name, error |-> error,
   snap |-> IF error = "none" THEN snap ELSE NoSnapshot]

(* A mutant of Record: an event past the bound is let go without a count. *)
RecordUncounted(row) ==
  /\ seen' = [seen EXCEPT !.recorded = @ + 1]
  /\ pending' = IF Cardinality(pending) >= MaxPending THEN pending ELSE pending \cup {row}
  /\ UNCHANGED dropped

Record(row) ==
  /\ seen' = [seen EXCEPT !.recorded = @ + 1]
  /\ IF Cardinality(pending) >= MaxPending
     THEN dropped' = dropped + 1 /\ UNCHANGED pending
     ELSE pending' = pending \cup {row} /\ UNCHANGED dropped

(* The row gets the next id. *)
Insert(row) ==
  LET id == seen.inserted + 1
  IN events' = [i \in DOMAIN events \cup {id} |-> IF i = id THEN row ELSE events[i]]

(* An insert ends: its row is stored, or it fails, as it must for a user   *)
(* who is gone. A line then counts the events dropped meanwhile.           *)
Settle(row) ==
  /\ row \in pending /\ pending' = pending \ {row}
  /\ \/ /\ tier[row.user] # "gone" /\ Keep
        /\ Insert(row)
        /\ seen' = [seen EXCEPT !.inserted = @ + 1, !.logged = @ + dropped]
     \/ /\ IF tier[row.user] = "gone" THEN Keep ELSE Spend("others")
        /\ seen' = [seen EXCEPT !.failed = @ + 1, !.logged = @ + dropped]
        /\ UNCHANGED events
  /\ dropped' = 0
  /\ UNCHANGED <<tier, had, enabled, snapshots, usage, issues, reporter, call, nextId, clock, charged>>

-----------------------------------------------------------------------------
(* The registry.                                                           *)

(* A mutant of Refunded: an agent's bad argument is taken back too. *)
RefundedToAgents == {"failed", "too_large", "no_envelope_field", "user_error"}

Refunded == {"failed", "too_large", "no_envelope_field"}

(* What the calls answered must leave counted: the ones the service did    *)
(* not fail. Written of the answers, not of the refunds.                   *)
ServiceFailed(error) == error \in {"failed", "too_large", "no_envelope_field"}
Charge(c, error) ==
  charged' = IF call[c].counted /\ ~ServiceFailed(error) /\ tier[call[c].user] # "gone"
             THEN [charged EXCEPT ![call[c].user][call[c].day] = @ + 1] ELSE charged

(* The answer: recorded and sent in one turn of the event loop. *)
Answer(c, error, snap) ==
  /\ Record(Row(c, error, snap))
  /\ Charge(c, error)
  /\ call' = [call EXCEPT ![c] = Idle]

(* A counted call that failed through the service's fault is taken back    *)
(* before it is answered.                                                  *)
End(c, error, snap) ==
  IF call[c].counted /\ error \in Refunded
  THEN /\ call' = [call EXCEPT ![c] = [@ EXCEPT !.at = "refund", !.error = error]]
       /\ UNCHANGED <<recorder, charged>>
  ELSE Answer(c, error, snap)

(* A query outside the handler fails, or the user or the tool is unknown:  *)
(* a JSON-RPC error, with no row.                                          *)
NoAnswer(c) == call' = [call EXCEPT ![c] = Idle] /\ UNCHANGED recorder

FindUser(c) ==
  /\ Is(c, "received")
  /\ \/ tier[call[c].user] # "gone" /\ Keep /\ UNCHANGED recorder
        /\ call' = [call EXCEPT ![c] = [@ EXCEPT !.at = "user", !.tier = tier[call[c].user]]]
     \/ tier[call[c].user] = "gone" /\ Keep /\ NoAnswer(c)
     \/ Spend("others") /\ NoAnswer(c)
  /\ UNCHANGED <<db, reporter, nextId, clock, charged>>

Off(c, games) == call[c].tool.name = "kit" /\ call[c].tool.kit \notin games
PaidOnly(c, games) == ~Off(c, games) /\ call[c].tool.paidOnly /\ call[c].tier # "paid"

(* The games the user has enabled, read for this call. A call that may not *)
(* run is answered at once; any other asks for today's count.              *)
FindGames(c) ==
  /\ Is(c, "user")
  /\ LET games == IF tier[call[c].user] = "gone" THEN {} ELSE enabled[call[c].user]
     IN \/ Off(c, games) /\ Keep /\ Answer(c, "game_off", NoSnapshot)
        \/ PaidOnly(c, games) /\ Keep /\ Answer(c, "paid_only", NoSnapshot)
        \/ /\ ~Off(c, games) /\ ~PaidOnly(c, games) /\ Keep
           /\ call' = [call EXCEPT ![c] = [@ EXCEPT !.at = "count", !.games = games, !.day = Today]]
           /\ UNCHANGED <<recorder, charged>>
        \/ Spend("others") /\ NoAnswer(c) /\ UNCHANGED charged
  /\ UNCHANGED <<db, reporter, nextId, clock>>

CountOf(c) == usage[call[c].user][call[c].day]

(* A mutant of UnderCap: the count may reach one past the cap. *)
UnderCapPlusOne(c) == LET cap == Caps[call[c].tier] IN cap = NoCap \/ CountOf(c) <= cap

UnderCap(c) == LET cap == Caps[call[c].tier] IN cap = NoCap \/ CountOf(c) < cap

(* COUNT_SQL: one upsert on the row of the user and the day. Its foreign   *)
(* key waits for a delete that holds the user.                             *)
Count(c) ==
  /\ Is(c, "count")
  /\ \/ /\ tier[call[c].user] # "gone" /\ UnderCap(c) /\ Keep
        /\ usage' = [usage EXCEPT ![call[c].user][call[c].day] = @ + 1]
        /\ call' = [call EXCEPT ![c] = [@ EXCEPT !.at = "run", !.counted = TRUE]]
        /\ UNCHANGED <<recorder, charged>>
     \/ tier[call[c].user] # "gone" /\ ~UnderCap(c) /\ Keep /\ Answer(c, "cap_reached", NoSnapshot) /\ UNCHANGED usage
     \/ (IF tier[call[c].user] = "gone" THEN Keep ELSE Spend("others")) /\ NoAnswer(c) /\ UNCHANGED <<usage, charged>>
  /\ UNCHANGED <<tier, had, enabled, snapshots, events, issues, reporter, nextId, clock>>

(* REFUND_SQL, or its failure, which leaves the call counted. *)
Refund(c) ==
  /\ Is(c, "refund")
  /\ \/ /\ Keep /\ usage' = [usage EXCEPT ![call[c].user][call[c].day] = IF @ > 0 THEN @ - 1 ELSE @]
        /\ Charge(c, call[c].error)
     \/ /\ Spend("others") /\ UNCHANGED usage
        /\ charged' = IF tier[call[c].user] = "gone" THEN charged ELSE [charged EXCEPT ![call[c].user][call[c].day] = @ + 1]
  /\ Record(Row(c, call[c].error, NoSnapshot))
  /\ call' = [call EXCEPT ![c] = Idle]
  /\ UNCHANGED <<tier, had, enabled, snapshots, events, issues, reporter, nextId, clock>>

-----------------------------------------------------------------------------
(* The handlers.                                                           *)

Newest(rows) == CHOOSE s \in rows : \A r \in rows : r.at < s.at \/ (r.at = s.at /\ r.id <= s.id)
SnapshotsOf(u, kit) == {s \in snapshots : s.user = u /\ s.kit = kit}

(* list_games reads the snapshots of the enabled games; its row names none of them. *)
RunListGames(c) ==
  /\ Is(c, "run") /\ call[c].tool = ListGames
  /\ \/ Keep /\ End(c, "none", NoSnapshot)
     \/ Spend("others") /\ End(c, "failed", NoSnapshot)
  /\ UNCHANGED <<db, reporter, nextId, clock>>

(* What a kit's handler may return, by what the envelope looks at, and the *)
(* error the envelope makes of it.                                         *)
KitResults == [isError : BOOLEAN, fields : BOOLEAN, fits : BOOLEAN]
GoodResult == [isError |-> FALSE, fields |-> TRUE, fits |-> TRUE]
KitToolResult(r) ==
  CASE r.isError -> "user_error"
    [] ~r.isError /\ ~r.fields -> "no_envelope_field"
    [] ~r.isError /\ r.fields /\ ~r.fits -> "too_large"
    [] OTHER -> "none"

(* A kit's tool reads its newest snapshot, and the row names the snapshot  *)
(* the answer returned. Without a snapshot it says so; a kit at fault, or  *)
(* a query that fails, is the service's error.                             *)
RunKitTool(c) ==
  /\ Is(c, "run") /\ call[c].tool.name = "kit"
  /\ LET rows == SnapshotsOf(call[c].user, call[c].tool.kit)
     IN \/ rows = {} /\ Keep /\ End(c, "user_error", NoSnapshot)
        \/ rows # {} /\ Keep /\ End(c, KitToolResult(GoodResult), Newest(rows).id)
        \/ /\ Spend("others")
           /\ \E error \in {"failed"} \cup {KitToolResult(r) : r \in KitResults \ {GoodResult}} : End(c, error, NoSnapshot)
  /\ UNCHANGED <<db, reporter, nextId, clock>>

(* The events of a user's current visit at a time, oldest first: of the    *)
(* newest ReportCalls, the ones after the newest gap too long.             *)
IndexesOf(u, now) == {i \in DOMAIN events : events[i].user = u /\ events[i].at <= now}
Later(i, j) == events[i].at > events[j].at \/ (events[i].at = events[j].at /\ i > j)
NewestOf(S, n) == {i \in S : Cardinality({j \in S : Later(j, i)}) < n}

(* A mutant of Gap: a gap of exactly the length ends the visit. *)
GapOrMore(S, i, now) ==
  LET newer == {j \in S : Later(j, i)}
      next == IF newer = {} THEN now ELSE events[CHOOSE j \in newer : \A k \in newer : k = j \/ Later(k, j)].at
  IN next - events[i].at >= VisitGap

Gap(S, i, now) ==
  LET newer == {j \in S : Later(j, i)}
      next == IF newer = {} THEN now ELSE events[CHOOSE j \in newer : \A k \in newer : k = j \/ Later(k, j)].at
  IN next - events[i].at > VisitGap

VisitCalls(u, now) ==
  LET S == NewestOf(IndexesOf(u, now), ReportCalls)
  IN {i \in S : \A j \in S : (j = i \/ Later(j, i)) => ~Gap(S, j, now)}

(* The snapshot of the newest of them that returned one of the game. *)
Attached(S, u, kit) ==
  LET named == {i \in S : \E s \in snapshots : s.id = events[i].snap /\ s.user = u /\ s.kit = kit}
  IN IF named = {} THEN NoSnapshot ELSE events[CHOOSE i \in named : \A j \in named : j = i \/ Later(i, j)].snap

(* report_issue checks its arguments, then begins a transaction. *)
ReportBegin(c) ==
  /\ Is(c, "run") /\ call[c].tool = ReportIssue
  /\ \/ Keep /\ End(c, "user_error", NoSnapshot)
     \/ /\ call[c].games # {} /\ Keep
        /\ call' = [call EXCEPT ![c] = [@ EXCEPT !.at = "report", !.began = clock]]
        /\ UNCHANGED <<recorder, charged>>
     \/ Spend("others") /\ End(c, "failed", NoSnapshot)
  /\ UNCHANGED <<db, reporter, nextId, clock>>

(* The row of the user, for no key update: it waits for the other reports  *)
(* and the deletes of the user.                                            *)
ReportLock(c) ==
  /\ Is(c, "report") /\ reporter[call[c].user] = NoCall
  /\ reporter' = IF tier[call[c].user] = "gone" THEN reporter ELSE [reporter EXCEPT ![call[c].user] = c]
  /\ Step(c, "reporting") /\ Keep
  /\ UNCHANGED <<db, recorder, nextId, clock, charged>>

Window(now) == {r \in issues : r.at > now - DayLength}
Reports(u, now) == {r \in Window(now) : r.user = u}

Unlock(c) == reporter' = [u \in Users |-> IF reporter[u] = c THEN NoCall ELSE reporter[u]]

(* The count, over the 24 hours before the begin. *)
ReportCount(c) ==
  /\ Is(c, "reporting")
  /\ \/ /\ Cardinality(Reports(call[c].user, call[c].began)) >= MaxReports /\ Keep
        /\ Unlock(c) /\ End(c, "user_error", NoSnapshot)
     \/ /\ Cardinality(Reports(call[c].user, call[c].began)) < MaxReports /\ Keep
        /\ Step(c, "counted") /\ UNCHANGED <<reporter, recorder, charged>>
     \/ Spend("others") /\ Unlock(c) /\ End(c, "failed", NoSnapshot)
  /\ UNCHANGED <<db, nextId, clock>>

(* The visit's calls, the insert and the commit. *)
ReportInsert(c) ==
  /\ Is(c, "counted") /\ Unlock(c)
  /\ \/ /\ tier[call[c].user] # "gone" /\ Keep
        /\ \E kit \in call[c].games :
             LET S == VisitCalls(call[c].user, clock)
             IN issues' = issues \cup {[id |-> call[c].id, user |-> call[c].user, kit |-> kit, at |-> call[c].began,
                                         calls |-> {events[i].id : i \in S}, snap |-> Attached(S, call[c].user, kit)]}
        /\ End(c, "none", NoSnapshot)
     \/ /\ IF tier[call[c].user] = "gone" THEN Keep ELSE Spend("others")
        /\ End(c, "failed", NoSnapshot) /\ UNCHANGED issues
  /\ UNCHANGED <<tier, had, enabled, snapshots, usage, events, nextId, clock>>

-----------------------------------------------------------------------------
(* What happens beside the calls.                                          *)

ChangeTier(u) ==
  /\ tier[u] # "gone" /\ Spend("others")
  /\ tier' = [tier EXCEPT ![u] = IF @ = "free" THEN "paid" ELSE "free"]
  /\ had' = [had EXCEPT ![u] = Tiers]
  /\ UNCHANGED <<enabled, snapshots, usage, events, issues, reporter, call, recorder, nextId, clock, charged>>

Toggle(u, k) ==
  /\ tier[u] # "gone" /\ Spend("others")
  /\ enabled' = [enabled EXCEPT ![u] = IF k \in @ THEN @ \ {k} ELSE @ \cup {k}]
  /\ UNCHANGED <<tier, had, snapshots, usage, events, issues, reporter, call, recorder, nextId, clock, charged>>

Upload(u, k) ==
  /\ tier[u] # "gone" /\ Spend("others")
  /\ snapshots' = snapshots \cup {[id |-> nextId, user |-> u, kit |-> k, at |-> clock]}
  /\ nextId' = nextId + 1
  /\ UNCHANGED <<tier, had, enabled, usage, events, issues, reporter, call, recorder, clock, charged>>

OthersThan(u) == {i \in DOMAIN events : events[i].user # u}

(* account.ts: a transaction that first locks the user, as one step. *)
Delete(u, account) ==
  /\ tier[u] # "gone" /\ reporter[u] = NoCall /\ Spend("others")
  /\ events' = [i \in OthersThan(u) |-> events[i]]
  /\ issues' = {r \in issues : r.user # u} /\ snapshots' = {s \in snapshots : s.user # u}
  /\ IF account
     THEN /\ tier' = [tier EXCEPT ![u] = "gone"] /\ enabled' = [enabled EXCEPT ![u] = {}]
          /\ usage' = [usage EXCEPT ![u] = [d \in Days |-> 0]]
          /\ charged' = [charged EXCEPT ![u] = [d \in Days |-> 0]]
     ELSE UNCHANGED <<tier, enabled, usage, charged>>
  /\ UNCHANGED <<had, reporter, call, recorder, nextId, clock>>

Tick ==
  /\ Spend("ticks") /\ clock' = clock + 1
  /\ UNCHANGED <<db, reporter, call, recorder, nextId, charged>>

(* The process ends: its transactions roll back, its inserts that are not *)
(* stored yet are lost, and the calls it had counted stay counted.         *)
Running(u, d) == {c \in Calls : call[c].counted /\ call[c].user = u /\ call[c].day = d}
Crash ==
  /\ Spend("others")
  /\ call' = [c \in Calls |-> Idle] /\ reporter' = [u \in Users |-> NoCall]
  /\ pending' = {} /\ dropped' = 0
  /\ seen' = [seen EXCEPT !.lost = @ + Cardinality(pending) + dropped]
  /\ charged' = [u \in Users |-> [d \in Days |->
                   charged[u][d] + (IF tier[u] = "gone" THEN 0 ELSE Cardinality(Running(u, d)))]]
  /\ UNCHANGED <<db, nextId, clock>>

Handle(c) ==
  \/ FindUser(c) \/ FindGames(c) \/ Count(c) \/ Refund(c)
  \/ RunListGames(c) \/ RunKitTool(c)
  \/ ReportBegin(c) \/ ReportLock(c) \/ ReportCount(c) \/ ReportInsert(c)

Next ==
  \/ \E c \in Calls : Receive(c) \/ Handle(c)
  \/ \E row \in pending : Settle(row)
  \/ \E u \in Users : ChangeTier(u) \/ \E k \in Kits : Toggle(u, k) \/ Upload(u, k)
  \/ \E u \in Users, account \in BOOLEAN : Delete(u, account)
  \/ Tick \/ Crash

Spec == Init /\ [][Next]_vars

-----------------------------------------------------------------------------
(* The variables keep their types. *)
Error == {"none", "user_error", "game_off", "too_large", "no_envelope_field", "failed", "cap_reached", "paid_only"}
Call == [at : {"idle", "received", "user", "count", "run", "refund", "report", "reporting", "counted"},
         id : Nat, user : Users, tool : Tools, tier : Tiers, games : SUBSET Kits, day : Days,
         occurred : Nat, began : Nat, counted : BOOLEAN, error : Error]
TypeOK ==
  /\ tier \in [Users -> Tiers \cup {"gone"}] /\ had \in [Users -> SUBSET Tiers]
  /\ enabled \in [Users -> SUBSET Kits]
  /\ snapshots \subseteq [id : Nat, user : Users, kit : Kits, at : Nat]
  /\ usage \in [Users -> [Days -> Nat]] /\ charged \in [Users -> [Days -> Nat]]
  /\ reporter \in [Users -> Calls \cup {NoCall}]
  /\ call \in [Calls -> Call]
  /\ seen \in [recorded : Nat, inserted : Nat, failed : Nat, logged : Nat, lost : Nat]
  /\ IsFiniteSet(pending) /\ dropped \in Nat
  /\ nextId \in Nat /\ clock \in 0 .. Budget["ticks"] /\ budget \in [Kinds -> Nat]

(* The daily cap is exact: whatever calls of a user are in flight at once, *)
(* refunded, or counted on the day before by a call that crossed midnight, *)
(* no day counts more calls than the highest cap of the tiers the user had *)
(* (usage.ts: concurrent calls take turns on the row).                     *)
CapHolds ==
  \A u \in Users, d \in Days :
    \/ \E t \in had[u] : Caps[t] = NoCap
    \/ \E t \in had[u] : usage[u][d] <= Caps[t]

(* The count of a day is the calls the user must answer for and the ones   *)
(* that still run: a call the service failed is taken back once, from the  *)
(* day it was counted on, unless its refund failed or the process ended.   *)
UsageExact ==
  \A u \in Users, d \in Days : tier[u] # "gone" => usage[u][d] = charged[u][d] + Cardinality(Running(u, d))

(* No event vanishes from the accounts: each is stored, failed with a line,*)
(* dropped and counted by exactly one line or by the next, or under way,   *)
(* and the inserts under way stay within their bound.                      *)
EventsAccounted ==
  /\ seen.recorded = seen.inserted + seen.failed + seen.logged + seen.lost + dropped + Cardinality(pending)
  /\ Cardinality(pending) <= MaxPending

(* No 24 hours hold more reports of a user than REPORT_ISSUE_MAX_PER_DAY,  *)
(* however many are in flight and however long one waited since it began.  *)
ReportsLimited ==
  \A u \in Users, t \in 0 .. clock :
    Cardinality({r \in Reports(u, t) : r.at <= t}) <= MaxReports

(* VISITS_SQL: a call starts a visit when the user has no call before it,  *)
(* or the gap to the one before is longer than VisitGap.                   *)
Starts(S, i) ==
  LET older == {j \in S : Later(i, j)}
  IN older = {} \/ events[i].at - events[CHOOSE j \in older : \A k \in older : k = j \/ Later(j, k)].at > VisitGap
Visit(S, i) == Cardinality({j \in S : Starts(S, j) /\ (j = i \/ Later(i, j))})
Visits(u, since, until) ==
  LET S == {i \in DOMAIN events : events[i].user = u /\ since <= events[i].at /\ events[i].at < until}
  IN {{i \in S : Visit(S, i) = n} : n \in {Visit(S, i) : i \in S}}

(* The calls a report attaches are the newest of the visit the admin page  *)
(* shows as going on, whatever order their rows were stored in: the query  *)
(* of report-issue.ts, which walks back from now, and the one of events.ts,*)
(* which groups from the first call on, agree on what a visit is.          *)
VisitsAgree ==
  \A u \in Users :
    LET current == {V \in Visits(u, 0, clock + 1) : \E i \in V : clock - events[i].at <= VisitGap
                                                     /\ \A j \in IndexesOf(u, clock) : j = i \/ Later(i, j)}
    IN VisitCalls(u, clock) = NewestOf(UNION current, ReportCalls)

(* The row of a user is locked by a report that is in its transaction, and *)
(* by nothing else: no path out of report_issue leaves it locked, where    *)
(* every later report and delete of the user would wait for ever.          *)
LockOwned ==
  \A u \in Users : reporter[u] # NoCall =>
    call[reporter[u]].at \in {"reporting", "counted"} /\ call[reporter[u]].user = u

(* What a user may do in a day stays within its limits.                    *)
LimitsHold == CapHolds /\ ReportsLimited
=============================================================================
