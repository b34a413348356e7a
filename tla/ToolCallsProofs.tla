--------------------------- MODULE ToolCallsProofs ---------------------------
(* Proofs about the tool calls, for every number of users, calls at once, tools *)
(* and games, every cap and every bound; about what a kit's tool leaves out of a *)
(* result, for every size of its parts; and about what the WoW kit tells of a   *)
(* file and of the gear, for every file and all bags. A step of a call has one   *)
(* of five effects on the counts and the recorder; each invariant of the calls   *)
(* is proved of those.                                                          *)
EXTENDS ToolCalls, Trims, WowShown, FiniteSetTheorems, WellFoundedInduction, TLAPS

\* Where a call has been counted.
Counted == {"run", "refund", "report", "reporting", "counted"}

\* A call under way is counted from Count on, is refunded only for an error of
\* the service, and works with a tier its user had.
Fits(q) ==
  /\ q.counted => q.at \in Counted
  /\ q.at \in Counted => q.counted
  /\ q.at = "refund" => q.error \in Refunded
  /\ q.at \notin {"idle", "received"} => q.tier \in had[q.user]

CallInv ==
  /\ TypeOK
  /\ \A c \in Calls : Fits(call[c])
  /\ clock + budget["ticks"] = Budget["ticks"]
  /\ \A u \in Users : tier[u] # "gone" => tier[u] \in had[u]

-----------------------------------------------------------------------------
(* What a step of a call does.                                                  *)

\* It goes on, and the counts and the recorder stay.
Moves(c, q) ==
  /\ q \in Call /\ Fits(q) /\ call' = [call EXCEPT ![c] = q]
  /\ call[c].at # "idle" /\ q.at # "idle"
  /\ q.id = call[c].id /\ q.user = call[c].user
  /\ (q.counted => call[c].counted) /\ (call[c].counted => q.counted /\ q.day = call[c].day)
  /\ UNCHANGED <<usage, charged, recorder>>

\* It ends with a JSON-RPC error, before it was counted.
Leaves(c) == NoAnswer(c) /\ ~call[c].counted /\ UNCHANGED <<usage, charged>>

\* It is answered, and recorded.
Answers(c, error, snap) ==
  /\ call[c].at # "idle" /\ Answer(c, error, snap) /\ UNCHANGED usage
  /\ call[c].counted => error \notin Refunded

\* It is counted.
Counts(c) ==
  /\ call[c].at = "count" /\ tier[call[c].user] # "gone" /\ UnderCap(c)
  /\ usage' = [usage EXCEPT ![call[c].user][call[c].day] = @ + 1]
  /\ call' = [call EXCEPT ![c] = [@ EXCEPT !.at = "run", !.counted = TRUE]]
  /\ UNCHANGED <<recorder, charged>>

Effect(c) ==
  \/ \E q : Moves(c, q)
  \/ Leaves(c)
  \/ \E error \in Error : \E snap : Answers(c, error, snap)
  \/ Counts(c)
  \/ Refund(c)

LEMMA SpendType ==
  ASSUME TypeOK, NEW what \in Kinds, Spend(what) \/ Keep
  PROVE  budget' \in [Kinds -> Nat] /\ (what # "ticks" => budget'["ticks"] = budget["ticks"])
BY DEF TypeOK, Spend, Keep, Kinds

LEMMA TodayType == ASSUME TypeOK PROVE Today \in Days
BY DEF TypeOK, Today, Days

LEMMA FirstDay == 0 \in Days
<1>1. 0 \div DayLength = 0
  BY ToolCallsAssumption
<1>2. 0 \in 0 .. Budget["ticks"]
  BY ToolCallsAssumption DEF Kinds
<1> QED
  BY <1>1, <1>2 DEF Days

LEMMA IdleType == Idle \in Call /\ Fits(Idle) /\ Idle.at = "idle" /\ ~Idle.counted
<1>1. (CHOOSE u \in Users : TRUE) \in Users
  BY ToolCallsAssumption
<1>2. ListGames \in Tools
  BY DEF Tools
<1> QED
  BY <1>1, <1>2, FirstDay DEF Idle, Call, Fits, Tiers, Error, Counted

LEMMA EndEffect ==
  ASSUME CallInv, NEW c \in Calls, call[c].at \in Counted \ {"refund"}, NEW error \in Error, NEW snap,
         End(c, error, snap), UNCHANGED usage
  PROVE  Effect(c)
<1>1. call[c] \in Call /\ Fits(call[c]) /\ call[c].counted /\ call[c].at # "idle"
  BY DEF CallInv, TypeOK, Fits, Counted
<1>2. CASE error \in Refunded
  <2> DEFINE q == [call[c] EXCEPT !.at = "refund", !.error = error]
  <2>1. call' = [call EXCEPT ![c] = q] /\ UNCHANGED <<usage, charged, recorder>>
    BY <1>1, <1>2 DEF End
  <2>2. q \in Call
    BY <1>1 DEF Call
  <2>3. q.at = "refund" /\ q.error = error /\ q.id = call[c].id /\ q.user = call[c].user /\ q.day = call[c].day /\ q.tier = call[c].tier
    BY <1>1 DEF Call
  <2>4. q.counted
    BY <1>1 DEF Call
  <2>5. Fits(q)
    <3>1. call[c].tier \in had[call[c].user]
      BY <1>1 DEF Fits, Counted
    <3> HIDE DEF q
    <3> QED
      BY <1>2, <2>3, <2>4, <3>1 DEF Fits, Counted
  <2> HIDE DEF q
  <2>6. Moves(c, q)
    BY <1>1, <2>1, <2>2, <2>3, <2>4, <2>5 DEF Moves
  <2> QED
    BY <2>6 DEF Effect
<1>3. CASE error \notin Refunded
  BY <1>1, <1>3 DEF End, Answers, Effect
<1> QED
  BY <1>2, <1>3

\* A call that goes on to another place, of the same kind.
LEMMA GoEffect ==
  ASSUME CallInv, NEW c \in Calls, NEW at, call' = [call EXCEPT ![c] = [@ EXCEPT !.at = at]],
         call[c].at \in {"report", "reporting"}, at \in {"reporting", "counted"}, UNCHANGED <<usage, charged, recorder>>
  PROVE  Effect(c)
<1> DEFINE q == [call[c] EXCEPT !.at = at]
<1>1. call[c] \in Call /\ Fits(call[c])
  BY DEF CallInv, TypeOK
<1>2. q \in Call
  BY <1>1 DEF Call
<1>3. q.at = at /\ q.id = call[c].id /\ q.user = call[c].user /\ q.day = call[c].day /\ q.tier = call[c].tier
  BY <1>1 DEF Call
<1>4. q.counted /\ call[c].counted
  BY <1>1 DEF Call, Fits, Counted
<1>5. call' = [call EXCEPT ![c] = q]
  OBVIOUS
<1>6. Fits(q)
  <2>1. call[c].tier \in had[call[c].user]
    BY <1>1 DEF Fits, Counted
  <2> HIDE DEF q
  <2> QED
    BY <1>3, <1>4, <2>1 DEF Fits, Counted
<1> HIDE DEF q
<1>7. Moves(c, q)
  BY <1>2, <1>3, <1>4, <1>5, <1>6 DEF Moves
<1> QED
  BY <1>7 DEF Effect

LEMMA FindUserEffect == ASSUME CallInv, NEW c \in Calls, FindUser(c) PROVE Effect(c)
<1>1. call[c] \in Call /\ Fits(call[c]) /\ call[c].at = "received"
  BY DEF CallInv, TypeOK, FindUser, Is
<1>2. ~call[c].counted
  BY <1>1 DEF Fits, Counted
<1>3. CASE NoAnswer(c)
  BY <1>2, <1>3 DEF Leaves, Effect, FindUser, db
<1>4. CASE /\ tier[call[c].user] # "gone" /\ UNCHANGED recorder
           /\ call' = [call EXCEPT ![c] = [@ EXCEPT !.at = "user", !.tier = tier[call[c].user]]]
  <2> DEFINE t == tier[call[c].user]
             q == [call[c] EXCEPT !.at = "user", !.tier = t]
  <2>1. t \in Tiers /\ t \in had[call[c].user]
    BY <1>1, <1>4 DEF CallInv, TypeOK, Call
  <2> HIDE DEF t
  <2>2. q \in Call
    BY <1>1, <2>1 DEF Call
  <2>3. q.at = "user" /\ q.id = call[c].id /\ q.user = call[c].user /\ q.tier = t
    BY <1>1 DEF Call
  <2>4. ~q.counted
    BY <1>1, <1>2 DEF Call
  <2>5. call' = [call EXCEPT ![c] = q]
    BY <1>4 DEF t
  <2> HIDE DEF q
  <2>6. Fits(q)
    BY <2>1, <2>3, <2>4 DEF Fits, Counted
  <2>7. Moves(c, q)
    BY <1>1, <1>2, <1>4, <2>2, <2>3, <2>4, <2>5, <2>6 DEF Moves, FindUser, db
  <2> QED
    BY <2>7 DEF Effect
<1> QED
  BY <1>3, <1>4 DEF FindUser

LEMMA FindGamesEffect == ASSUME CallInv, NEW c \in Calls, FindGames(c) PROVE Effect(c)
<1>1. call[c] \in Call /\ Fits(call[c]) /\ call[c].at = "user"
  BY DEF CallInv, TypeOK, FindGames, Is
<1>2. ~call[c].counted /\ UNCHANGED usage
  BY <1>1 DEF Fits, Counted, FindGames, db
<1>3. CASE NoAnswer(c) /\ UNCHANGED charged
  BY <1>2, <1>3 DEF Leaves, Effect
<1>4. ASSUME NEW error \in {"game_off", "paid_only"}, Answer(c, error, NoSnapshot) PROVE Effect(c)
  BY <1>1, <1>2, <1>4 DEF Answers, Effect, Error
<1>5. ASSUME NEW games \in SUBSET Kits, UNCHANGED <<recorder, charged>>,
             call' = [call EXCEPT ![c] = [@ EXCEPT !.at = "count", !.games = games, !.day = Today]]
      PROVE  Effect(c)
  <2> DEFINE q == [call[c] EXCEPT !.at = "count", !.games = games, !.day = Today]
  <2>1. Today \in Days
    BY TodayType DEF CallInv
  <2>2. q \in Call
    BY <1>1, <2>1 DEF Call
  <2>3. q.at = "count" /\ q.id = call[c].id /\ q.user = call[c].user /\ q.tier = call[c].tier
    BY <1>1 DEF Call
  <2>4. ~q.counted
    BY <1>1, <1>2 DEF Call
  <2>5. call' = [call EXCEPT ![c] = q]
    BY <1>5
  <2> HIDE DEF q
  <2>6. Fits(q)
    BY <1>1, <2>3, <2>4 DEF Fits, Counted
  <2>7. Moves(c, q)
    BY <1>1, <1>2, <1>5, <2>2, <2>3, <2>4, <2>5, <2>6 DEF Moves
  <2> QED
    BY <2>7 DEF Effect
<1>6. (IF tier[call[c].user] = "gone" THEN {} ELSE enabled[call[c].user]) \in SUBSET Kits
  BY <1>1 DEF CallInv, TypeOK, Call
<1> QED
  BY <1>3, <1>4, <1>5, <1>6 DEF FindGames

LEMMA CountEffect == ASSUME CallInv, NEW c \in Calls, Count(c) PROVE Effect(c)
<1>1. call[c] \in Call /\ Fits(call[c]) /\ call[c].at = "count" /\ ~call[c].counted
  BY DEF CallInv, TypeOK, Count, Is, Fits, Counted
<1>2. CASE NoAnswer(c) /\ UNCHANGED <<usage, charged>>
  BY <1>1, <1>2 DEF Leaves, Effect
<1>3. CASE Answer(c, "cap_reached", NoSnapshot) /\ UNCHANGED usage
  BY <1>1, <1>3 DEF Answers, Effect, Error
<1>4. CASE /\ tier[call[c].user] # "gone" /\ UnderCap(c)
           /\ usage' = [usage EXCEPT ![call[c].user][call[c].day] = @ + 1]
           /\ call' = [call EXCEPT ![c] = [@ EXCEPT !.at = "run", !.counted = TRUE]]
           /\ UNCHANGED <<recorder, charged>>
  BY <1>1, <1>4 DEF Counts, Effect
<1> QED
  BY <1>2, <1>3, <1>4 DEF Count

LEMMA RunEffect ==
  ASSUME CallInv, NEW c \in Calls, RunListGames(c) \/ RunKitTool(c) \/ ReportBegin(c)
  PROVE  Effect(c)
<1>1. call[c] \in Call /\ Fits(call[c]) /\ call[c].at = "run" /\ call[c].at \in Counted \ {"refund"}
  BY DEF CallInv, TypeOK, RunListGames, RunKitTool, ReportBegin, Is, Counted
<1>2. UNCHANGED usage
  BY DEF RunListGames, RunKitTool, ReportBegin, db
<1>3. ASSUME NEW error \in Error, NEW snap, End(c, error, snap) PROVE Effect(c)
  BY <1>1, <1>2, <1>3, EndEffect
<1>4. \A r \in KitResults : KitToolResult(r) \in Error
  BY DEF KitToolResult, Error
<1>5. GoodResult \in KitResults
  BY DEF GoodResult, KitResults
<1>6. CASE RunListGames(c)
  BY <1>3, <1>6 DEF RunListGames, Error
<1>7. CASE RunKitTool(c)
  <2>1. {"failed", "user_error"} \subseteq Error
    BY DEF Error
  <2> QED
    BY <1>3, <1>4, <1>5, <1>7, <2>1 DEF RunKitTool
<1>8. CASE ReportBegin(c)
  <2>1. ASSUME UNCHANGED <<recorder, charged>>, call' = [call EXCEPT ![c] = [@ EXCEPT !.at = "report", !.began = clock]]
        PROVE  Effect(c)
    <3> DEFINE q == [call[c] EXCEPT !.at = "report", !.began = clock]
    <3>1. clock \in Nat
      BY DEF CallInv, TypeOK
    <3>2. q \in Call
      BY <1>1, <3>1 DEF Call
    <3>3. q.at = "report" /\ q.id = call[c].id /\ q.user = call[c].user /\ q.tier = call[c].tier /\ q.day = call[c].day
      BY <1>1 DEF Call
    <3>4. q.counted /\ call[c].counted
      BY <1>1 DEF Call, Fits, Counted
    <3>5. call' = [call EXCEPT ![c] = q]
      BY <2>1
    <3> HIDE DEF q
    <3>6. Fits(q)
      BY <1>1, <3>3, <3>4 DEF Fits, Counted
    <3>7. Moves(c, q)
      BY <1>1, <1>2, <2>1, <3>2, <3>3, <3>4, <3>5, <3>6 DEF Moves
    <3> QED
      BY <3>7 DEF Effect
  <2>2. {"failed", "user_error"} \subseteq Error
    BY DEF Error
  <2> QED
    BY <1>3, <1>8, <2>1, <2>2 DEF ReportBegin
<1> QED
  BY <1>6, <1>7, <1>8

LEMMA ReportEffect ==
  ASSUME CallInv, NEW c \in Calls, ReportLock(c) \/ ReportCount(c) \/ ReportInsert(c)
  PROVE  Effect(c)
<1>1. UNCHANGED usage
  BY DEF ReportLock, ReportCount, ReportInsert, db
<1>2. call[c].at \in {"report", "reporting", "counted"} /\ call[c].at \in Counted \ {"refund"}
  BY DEF ReportLock, ReportCount, ReportInsert, Is, Counted
<1>3. \A error \in {"failed", "user_error", "none"} : End(c, error, NoSnapshot) => Effect(c)
  BY <1>1, <1>2, EndEffect DEF Error
<1>4. CASE ReportLock(c)
  BY <1>1, <1>4, GoEffect DEF ReportLock, Step, Is
<1>5. CASE ReportCount(c)
  BY <1>1, <1>3, <1>5, GoEffect DEF ReportCount, Step, Is
<1>6. CASE ReportInsert(c)
  BY <1>3, <1>6 DEF ReportInsert
<1> QED
  BY <1>4, <1>5, <1>6

LEMMA HandleEffect == ASSUME CallInv, NEW c \in Calls, Handle(c) PROVE Effect(c)
BY FindUserEffect, FindGamesEffect, CountEffect, RunEffect, ReportEffect DEF Handle, Effect

-----------------------------------------------------------------------------
(* Types.                                                                       *)

Seen == [recorded : Nat, inserted : Nat, failed : Nat, logged : Nat, lost : Nat]
RecorderType == seen \in Seen /\ IsFiniteSet(pending) /\ dropped \in Nat
CountsType == usage \in [Users -> [Days -> Nat]] /\ charged \in [Users -> [Days -> Nat]]

LEMMA RecordType == ASSUME TypeOK, NEW row, Record(row) PROVE RecorderType'
<1>1. seen' \in Seen
  BY DEF TypeOK, Record, Seen
<1>2. IsFiniteSet(pending')
  <2>1. IsFiniteSet(pending \cup {row})
    BY FS_AddElement DEF TypeOK
  <2> QED
    BY <2>1 DEF TypeOK, Record
<1>3. dropped' \in Nat
  BY DEF TypeOK, Record
<1> QED
  BY <1>1, <1>2, <1>3 DEF RecorderType

LEMMA ChargeType ==
  ASSUME TypeOK, NEW c \in Calls, NEW error, Charge(c, error)
  PROVE  charged' \in [Users -> [Days -> Nat]]
<1>1. call[c].user \in Users /\ call[c].day \in Days
  BY DEF TypeOK, Call
<1> QED
  BY <1>1 DEF TypeOK, Charge

LEMMA CountType ==
  ASSUME NEW f \in [Users -> [Days -> Nat]], NEW u \in Users, NEW d \in Days, NEW n \in Nat
  PROVE  [f EXCEPT ![u][d] = n] \in [Users -> [Days -> Nat]]
<1>1. [f[u] EXCEPT ![d] = n] \in [Days -> Nat]
  OBVIOUS
<1> QED
  BY <1>1

LEMMA EffectTypes ==
  ASSUME CallInv, NEW c \in Calls, Effect(c), UNCHANGED had
  PROVE  /\ call' \in [Calls -> Call] /\ \A d \in Calls : Fits(call[d])'
         /\ RecorderType' /\ CountsType'
<1>1. call \in [Calls -> Call] /\ call[c] \in Call /\ Fits(call[c]) /\ RecorderType /\ CountsType
  BY DEF CallInv, TypeOK, RecorderType, CountsType, Seen
<1>2. ASSUME NEW q \in Call, Fits(q), call' = [call EXCEPT ![c] = q]
      PROVE  call' \in [Calls -> Call] /\ \A d \in Calls : Fits(call[d])'
  BY <1>1, <1>2 DEF CallInv, Fits
<1>3. CASE call' = [call EXCEPT ![c] = Idle] /\ RecorderType' /\ CountsType'
  BY <1>2, <1>3, IdleType
<1>4. CASE \E q : Moves(c, q)
  BY <1>1, <1>2, <1>4 DEF Moves, RecorderType, CountsType, recorder
<1>5. CASE Leaves(c)
  BY <1>1, <1>3, <1>5 DEF Leaves, NoAnswer, RecorderType, CountsType, recorder
<1>6. ASSUME NEW error, NEW snap, Answers(c, error, snap) PROVE RecorderType' /\ CountsType' /\ call' = [call EXCEPT ![c] = Idle]
  BY <1>1, <1>6, RecordType, ChargeType DEF Answers, Answer, CountsType, CallInv
<1>7. CASE Counts(c)
  <2> DEFINE q == [call[c] EXCEPT !.at = "run", !.counted = TRUE]
  <2>1. q \in Call
    BY <1>1 DEF Call
  <2>2. q.at = "run" /\ q.user = call[c].user /\ q.tier = call[c].tier
    BY <1>1 DEF Call
  <2>3. q.counted
    BY <1>1 DEF Call
  <2>4. call' = [call EXCEPT ![c] = q]
    BY <1>7 DEF Counts
  <2>5. call[c].tier \in had[call[c].user] /\ call[c].user \in Users /\ call[c].day \in Days
    BY <1>1, <1>7 DEF Counts, Fits, Call
  <2> HIDE DEF q
  <2>6. Fits(q)
    BY <2>2, <2>3, <2>5 DEF Fits, Counted
  <2>7. usage' \in [Users -> [Days -> Nat]]
    BY <1>1, <1>7, <2>5 DEF Counts, CountsType
  <2> QED
    BY <1>1, <1>2, <1>7, <2>1, <2>4, <2>6, <2>7 DEF Counts, CountsType, RecorderType, recorder
<1>8. ASSUME Refund(c) PROVE RecorderType' /\ CountsType' /\ call' = [call EXCEPT ![c] = Idle]
  <2>1. call[c].user \in Users /\ call[c].day \in Days
    BY <1>1 DEF Call
  <2> DEFINE u == call[c].user
             d == call[c].day
             n == IF usage[u][d] > 0 THEN usage[u][d] - 1 ELSE usage[u][d]
  <2>a. usage \in [Users -> [Days -> Nat]] /\ charged \in [Users -> [Days -> Nat]]
    BY <1>1 DEF CountsType
  <2>b. n \in Nat
    BY <2>1, <2>a
  <2>c. usage' = [usage EXCEPT ![u][d] = n] \/ usage' = usage
    BY <1>8 DEF Refund
  <2>d. Charge(c, call[c].error) \/ charged' = charged \/ charged' = [charged EXCEPT ![u][d] = @ + 1]
    BY <1>8 DEF Refund
  <2>e. u \in Users /\ d \in Days
    BY <2>1
  <2> HIDE DEF n, u, d
  <2>3. charged' \in [Users -> [Days -> Nat]]
    <3>1. CASE Charge(c, call[c].error)
      BY <3>1, ChargeType DEF CallInv
    <3>2. CASE charged' = charged
      BY <2>a, <3>2
    <3>3. CASE charged' = [charged EXCEPT ![u][d] = @ + 1]
      BY <2>a, <2>e, <3>3
    <3> QED
      BY <2>d, <3>1, <3>2, <3>3
  <2>2. usage' \in [Users -> [Days -> Nat]]
    BY <2>e, <2>a, <2>b, <2>c, CountType
  <2>4. RecorderType'
    BY <1>8, RecordType DEF Refund, CallInv
  <2> QED
    BY <1>8, <2>2, <2>3, <2>4 DEF Refund, CountsType
<1> QED
  BY <1>3, <1>4, <1>5, <1>6, <1>7, <1>8 DEF Effect

LEMMA InitInv == Init => CallInv
<1> SUFFICES ASSUME Init PROVE CallInv
  OBVIOUS
<1>1. snapshots \subseteq [id : Nat, user : Users, kit : Kits, at : Nat]
  BY DEF Init
<1>2. call \in [Calls -> Call] /\ \A c \in Calls : Fits(call[c])
  BY IdleType DEF Init
<1>3. seen \in Seen /\ IsFiniteSet(pending) /\ dropped \in Nat
  BY FS_EmptySet DEF Init, Seen
<1>4. clock \in 0 .. Budget["ticks"] /\ budget \in [Kinds -> Nat] /\ clock + budget["ticks"] = Budget["ticks"]
  BY ToolCallsAssumption DEF Init, Kinds
<1>5. usage \in [Users -> [Days -> Nat]] /\ charged \in [Users -> [Days -> Nat]]
  BY DEF Init
<1> QED
  BY <1>1, <1>2, <1>3, <1>4, <1>5 DEF Init, CallInv, TypeOK, Seen

\* What every step of a call leaves alone, and what it spends.
LEMMA HandleFrame ==
  ASSUME CallInv, NEW c \in Calls, Handle(c)
  PROVE  /\ UNCHANGED <<tier, had, enabled, snapshots, events, nextId, clock>>
         /\ budget' \in [Kinds -> Nat] /\ budget'["ticks"] = budget["ticks"]
<1>1. UNCHANGED <<tier, had, enabled, snapshots, events, nextId, clock>>
  BY DEF Handle, FindUser, FindGames, Count, Refund, RunListGames, RunKitTool, ReportBegin, ReportLock, ReportCount, ReportInsert, db
<1>2. Keep \/ Spend("others")
  BY DEF Handle, FindUser, FindGames, Count, Refund, RunListGames, RunKitTool, ReportBegin, ReportLock, ReportCount, ReportInsert
<1> QED
  BY <1>1, <1>2, SpendType DEF CallInv, Kinds

LEMMA ReporterType ==
  ASSUME TypeOK, NEW c \in Calls, Handle(c)
  PROVE  reporter' \in [Users -> Calls \cup {NoCall}]
<1>1. CASE UNCHANGED reporter
  BY <1>1 DEF TypeOK
<1>2. CASE Unlock(c)
  BY <1>2 DEF TypeOK, Unlock
<1>3. CASE ReportLock(c)
  BY <1>3 DEF TypeOK, ReportLock
<1> QED
  BY <1>1, <1>2, <1>3 DEF Handle, FindUser, FindGames, Count, Refund, RunListGames, RunKitTool, ReportBegin, ReportCount, ReportInsert

LEMMA HandleInv == ASSUME CallInv, NEW c \in Calls, Handle(c) PROVE CallInv'
<1>1. Effect(c) /\ UNCHANGED had
  BY HandleEffect, HandleFrame
<1>2. call' \in [Calls -> Call] /\ (\A d \in Calls : Fits(call[d])') /\ RecorderType' /\ CountsType'
  BY <1>1, EffectTypes
<1>3. reporter' \in [Users -> Calls \cup {NoCall}]
  BY ReporterType DEF CallInv
<1>4. TypeOK'
  BY <1>2, <1>3, HandleFrame DEF CallInv, TypeOK, RecorderType, CountsType, Seen
<1> QED
  BY <1>2, <1>4, HandleFrame DEF CallInv

LEMMA ReceiveInv == ASSUME CallInv, NEW c \in Calls, Receive(c) PROVE CallInv'
<1> PICK u \in Users, t \in Tools :
      call' = [call EXCEPT ![c] = [Idle EXCEPT !.at = "received", !.id = nextId, !.user = u, !.tool = t, !.occurred = clock]]
  BY DEF Receive
<1> DEFINE q == [Idle EXCEPT !.at = "received", !.id = nextId, !.user = u, !.tool = t, !.occurred = clock]
<1>1. nextId \in Nat /\ clock \in Nat /\ call \in [Calls -> Call]
  BY DEF CallInv, TypeOK
<1>2. q \in Call
  BY <1>1, IdleType DEF Call
<1>3. q.at = "received"
  BY IdleType DEF Call
<1>4. ~q.counted
  BY IdleType DEF Call
<1> HIDE DEF q
<1>5. Fits(q)
  BY <1>3, <1>4 DEF Fits, Counted
<1>6. call' = [call EXCEPT ![c] = q]
  BY DEF q
<1>7. call' \in [Calls -> Call] /\ \A d \in Calls : Fits(call'[d])
  BY <1>1, <1>2, <1>5, <1>6 DEF CallInv
<1>8. UNCHANGED had
  BY DEF Receive, db
<1>9. \A d \in Calls : Fits(call[d])'
  BY <1>7, <1>8 DEF Fits
<1>10. budget' \in [Kinds -> Nat] /\ budget'["ticks"] = budget["ticks"]
  BY SpendType DEF CallInv, Kinds, Receive
<1> QED
  BY <1>7, <1>9, <1>10 DEF CallInv, TypeOK, Receive, db, recorder

LEMMA SettleInv == ASSUME CallInv, NEW row \in pending, Settle(row) PROVE CallInv'
<1>1. budget' \in [Kinds -> Nat] /\ budget'["ticks"] = budget["ticks"]
  BY SpendType DEF CallInv, Kinds, Settle
<1>2. IsFiniteSet(pending')
  BY FS_RemoveElement DEF CallInv, TypeOK, Settle
<1>3. seen' \in Seen /\ dropped' = 0
  <2>1. seen \in Seen /\ dropped \in Nat
    BY DEF CallInv, TypeOK, Seen
  <2>2. \/ seen' = [seen EXCEPT !.inserted = @ + 1, !.logged = @ + dropped]
        \/ seen' = [seen EXCEPT !.failed = @ + 1, !.logged = @ + dropped]
    BY DEF Settle
  <2>3. dropped' = 0
    BY DEF Settle
  <2>4. seen.logged + dropped \in Nat /\ seen.inserted + 1 \in Nat /\ seen.failed + 1 \in Nat
    BY <2>1 DEF Seen
  <2>5. CASE seen' = [seen EXCEPT !.inserted = @ + 1, !.logged = @ + dropped]
    BY <2>1, <2>3, <2>4, <2>5 DEF Seen
  <2>6. CASE seen' = [seen EXCEPT !.failed = @ + 1, !.logged = @ + dropped]
    BY <2>1, <2>3, <2>4, <2>6 DEF Seen
  <2> QED
    BY <2>2, <2>5, <2>6
<1>4. \A c \in Calls : Fits(call[c])'
  BY DEF CallInv, Fits, Settle
<1> QED
  BY <1>1, <1>2, <1>3, <1>4 DEF CallInv, TypeOK, Settle, Seen

\* What the user, an upload and the admin change beside the calls.
Beside(u) == ChangeTier(u) \/ \E k \in Kits : Toggle(u, k) \/ Upload(u, k)

StoreType ==
  enabled \in [Users -> SUBSET Kits] /\ snapshots \subseteq [id : Nat, user : Users, kit : Kits, at : Nat] /\ nextId \in Nat

LEMMA OthersInv == ASSUME CallInv, NEW u \in Users, Beside(u) PROVE CallInv'
<1> USE DEF Beside
<1>1. budget' \in [Kinds -> Nat] /\ budget'["ticks"] = budget["ticks"]
  <2>1. Spend("others") /\ TypeOK
    BY DEF ChangeTier, Toggle, Upload, CallInv
  <2> QED
    BY <2>1, SpendType DEF Kinds
<1>2. had' \in [Users -> SUBSET Tiers] /\ \A v \in Users : had[v] \subseteq had'[v]
  <2>1. had \in [Users -> SUBSET Tiers]
    BY DEF CallInv, TypeOK
  <2>2. had' = [had EXCEPT ![u] = Tiers] \/ had' = had
    BY DEF ChangeTier, Toggle, Upload
  <2> QED
    BY <2>1, <2>2
<1>3. tier' \in [Users -> Tiers \cup {"gone"}] /\ \A v \in Users : tier'[v] # "gone" => tier'[v] \in had'[v]
  <2>1. tier \in [Users -> Tiers \cup {"gone"}] /\ had \in [Users -> SUBSET Tiers]
        /\ \A v \in Users : tier[v] # "gone" => tier[v] \in had[v]
    BY DEF CallInv, TypeOK
  <2>2. CASE ChangeTier(u)
    <3>1. /\ tier' = [tier EXCEPT ![u] = IF tier[u] = "free" THEN "paid" ELSE "free"]
          /\ had' = [had EXCEPT ![u] = Tiers]
      BY <2>2 DEF ChangeTier
    <3> QED
      BY <2>1, <3>1 DEF Tiers
  <2>3. CASE \E k \in Kits : Toggle(u, k) \/ Upload(u, k)
    BY <2>1, <2>3 DEF Toggle, Upload
  <2> QED
    BY <2>2, <2>3
<1>4. StoreType'
  <2> USE DEF StoreType
  <2>1. /\ enabled \in [Users -> SUBSET Kits] /\ nextId \in Nat /\ clock \in Nat
        /\ snapshots \subseteq [id : Nat, user : Users, kit : Kits, at : Nat]
    BY DEF CallInv, TypeOK
  <2>2. CASE ChangeTier(u)
    BY <2>1, <2>2 DEF ChangeTier
  <2>3. ASSUME NEW k \in Kits, Toggle(u, k) PROVE StoreType'
    BY <2>1, <2>3 DEF Toggle
  <2>4. ASSUME NEW k \in Kits, Upload(u, k) PROVE StoreType'
    BY <2>1, <2>4 DEF Upload
  <2> QED
    BY <2>2, <2>3, <2>4
<1>5. UNCHANGED <<usage, charged, reporter, call, recorder, clock>>
  BY DEF ChangeTier, Toggle, Upload
<1>6. \A c \in Calls : Fits(call[c])'
  BY <1>2, <1>5 DEF CallInv, Fits, TypeOK, Call
<1> QED
  BY <1>1, <1>2, <1>3, <1>4, <1>5, <1>6 DEF CallInv, TypeOK, recorder, StoreType

LEMMA DeleteInv == ASSUME CallInv, NEW u \in Users, NEW account \in BOOLEAN, Delete(u, account) PROVE CallInv'
<1>1. budget' \in [Kinds -> Nat] /\ budget'["ticks"] = budget["ticks"]
  BY SpendType DEF CallInv, Kinds, Delete
<1>2. /\ tier' \in [Users -> Tiers \cup {"gone"}] /\ enabled' \in [Users -> SUBSET Kits]
      /\ usage' \in [Users -> [Days -> Nat]] /\ charged' \in [Users -> [Days -> Nat]]
      /\ \A v \in Users : tier'[v] # "gone" => tier'[v] = tier[v]
  <2>1. /\ tier \in [Users -> Tiers \cup {"gone"}] /\ enabled \in [Users -> SUBSET Kits]
        /\ usage \in [Users -> [Days -> Nat]] /\ charged \in [Users -> [Days -> Nat]]
    BY DEF CallInv, TypeOK
  <2>2. CASE account
    <3>1. tier' = [tier EXCEPT ![u] = "gone"] /\ enabled' = [enabled EXCEPT ![u] = {}]
      BY <2>2 DEF Delete
    <3>2. usage' = [usage EXCEPT ![u] = [d \in Days |-> 0]] /\ charged' = [charged EXCEPT ![u] = [d \in Days |-> 0]]
      BY <2>2 DEF Delete
    <3> QED
      BY <2>1, <3>1, <3>2
  <2>3. CASE ~account
    BY <2>1, <2>3 DEF Delete
  <2> QED
    BY <2>2, <2>3
<1>3. snapshots' \subseteq [id : Nat, user : Users, kit : Kits, at : Nat]
  BY DEF CallInv, TypeOK, Delete
<1>4. UNCHANGED <<had, reporter, call, recorder, nextId, clock>>
  BY DEF Delete
<1>5. \A c \in Calls : Fits(call[c])'
  BY <1>4 DEF CallInv, Fits
<1> QED
  BY <1>1, <1>2, <1>3, <1>4, <1>5 DEF CallInv, TypeOK, recorder

LEMMA TickInv == ASSUME CallInv, Tick PROVE CallInv'
<1>1. clock' = clock + 1 /\ budget["ticks"] > 0 /\ budget' = [budget EXCEPT !["ticks"] = @ - 1]
  BY DEF Tick, Spend
<1>2. budget \in [Kinds -> Nat] /\ clock \in 0 .. Budget["ticks"] /\ clock + budget["ticks"] = Budget["ticks"]
  BY DEF CallInv, TypeOK
<1>3. budget' \in [Kinds -> Nat] /\ clock' + budget'["ticks"] = Budget["ticks"]
  BY <1>1, <1>2 DEF Kinds
<1>4. clock' \in 0 .. Budget["ticks"]
  BY <1>1, <1>2, <1>3 DEF Kinds
<1>5. \A c \in Calls : Fits(call[c])'
  BY DEF CallInv, Fits, Tick, db
<1> QED
  BY <1>3, <1>4, <1>5 DEF CallInv, TypeOK, Tick, db, recorder

LEMMA RunningFinite == ASSUME NEW u, NEW d PROVE IsFiniteSet(Running(u, d)) /\ Cardinality(Running(u, d)) \in Nat
<1>1. Running(u, d) \subseteq Calls
  BY DEF Running
<1> QED
  BY <1>1, FS_Subset, FS_CardinalityType, ToolCallsAssumption

LEMMA CrashInv == ASSUME CallInv, Crash PROVE CallInv'
<1>1. budget' \in [Kinds -> Nat] /\ budget'["ticks"] = budget["ticks"]
  BY SpendType DEF CallInv, Kinds, Crash
<1>2. call' \in [Calls -> Call] /\ \A c \in Calls : call'[c] = Idle
  BY IdleType DEF Crash
<1>3. \A c \in Calls : Fits(call[c])'
  BY <1>2, IdleType DEF Fits, Crash, db
<1>4. charged' \in [Users -> [Days -> Nat]]
  BY RunningFinite DEF CallInv, TypeOK, Crash
<1>5. Cardinality(pending) \in Nat /\ IsFiniteSet(pending')
  BY FS_CardinalityType, FS_EmptySet DEF CallInv, TypeOK, Crash
<1>6. seen' \in Seen /\ dropped' = 0
  <2>1. seen \in Seen /\ dropped \in Nat
    BY DEF CallInv, TypeOK, Seen
  <2>2. seen' = [seen EXCEPT !.lost = @ + Cardinality(pending) + dropped] /\ dropped' = 0
    BY DEF Crash
  <2> QED
    BY <1>5, <2>1, <2>2 DEF Seen
<1>7. reporter' \in [Users -> Calls \cup {NoCall}]
  BY DEF Crash
<1> QED
  BY <1>1, <1>2, <1>3, <1>4, <1>5, <1>6, <1>7 DEF CallInv, TypeOK, Crash, db, Seen

LEMMA NextInv == ASSUME CallInv, [Next]_vars PROVE CallInv'
<1>1. CASE UNCHANGED vars
  <2>1. \A c \in Calls : Fits(call[c])'
    BY <1>1 DEF CallInv, Fits, vars, db
  <2> QED
    BY <1>1, <2>1 DEF vars, db, recorder, CallInv, TypeOK
<1>2. ASSUME NEW c \in Calls, Receive(c) \/ Handle(c) PROVE CallInv'
  BY <1>2, ReceiveInv, HandleInv
<1>3. ASSUME NEW row \in pending, Settle(row) PROVE CallInv'
  BY <1>3, SettleInv
<1>4. ASSUME NEW u \in Users, Beside(u) PROVE CallInv'
  BY <1>4, OthersInv
<1>5. ASSUME NEW u \in Users, NEW account \in BOOLEAN, Delete(u, account) PROVE CallInv'
  BY <1>5, DeleteInv
<1>6. CASE Tick \/ Crash
  BY <1>6, TickInv, CrashInv
<1> QED
  BY <1>1, <1>2, <1>3, <1>4, <1>5, <1>6 DEF Next, Beside

LEMMA CallsAreKept == Spec => []CallInv
<1>1. CallInv /\ [Next]_vars => CallInv'
  BY NextInv
<1> QED
  BY <1>1, InitInv, PTL DEF Spec

(* Every variable of the tool calls keeps its type.                         *)
THEOREM TypeCorrect == Spec => []TypeOK
<1>1. CallInv => TypeOK
  BY DEF CallInv
<1> QED
  BY <1>1, CallsAreKept, PTL

-----------------------------------------------------------------------------
(* The count of a day is exact.                                                 *)

Holds(u, d) == tier[u] # "gone" => usage[u][d] = charged[u][d] + Cardinality(Running(u, d))

\* The steps of no call: they keep the calls and the counts of the users who stay.
StepAside ==
  UNCHANGED vars \/ (\E row \in pending : Settle(row)) \/ (\E u \in Users : Beside(u))
    \/ (\E u \in Users, account \in BOOLEAN : Delete(u, account)) \/ Tick

LEMMA NextCases ==
  ASSUME [Next]_vars
  PROVE  (\E c \in Calls : Receive(c) \/ Handle(c)) \/ StepAside \/ Crash
BY DEF Next, StepAside, Beside

LEMMA AsideKeeps ==
  ASSUME CallInv, StepAside, NEW u \in Users
  PROVE  /\ UNCHANGED <<call, reporter>>
         /\ tier'[u] # "gone" => tier[u] # "gone" /\ usage'[u] = usage[u] /\ charged'[u] = charged[u]
         /\ usage'[u] = usage[u] \/ usage'[u] = [d \in Days |-> 0]
         /\ had[u] \subseteq had'[u]
<1>1. /\ usage \in [Users -> [Days -> Nat]] /\ charged \in [Users -> [Days -> Nat]]
      /\ tier \in [Users -> Tiers \cup {"gone"}] /\ had \in [Users -> SUBSET Tiers]
  BY DEF CallInv, TypeOK
<1>2. CASE UNCHANGED vars \/ Tick
  BY <1>2 DEF vars, db, Tick
<1>3. ASSUME NEW row \in pending, Settle(row) PROVE UNCHANGED <<call, reporter, tier, usage, charged, had>>
  BY <1>3 DEF Settle
<1>4. ASSUME NEW v \in Users, \E k \in Kits : Toggle(v, k) \/ Upload(v, k)
      PROVE  UNCHANGED <<call, reporter, tier, usage, charged, had>>
  BY <1>4 DEF Toggle, Upload
<1>5. ASSUME NEW v \in Users, ChangeTier(v)
      PROVE  UNCHANGED <<call, reporter, usage, charged>> /\ (u # v => tier'[u] = tier[u]) /\ tier[v] # "gone" /\ had[u] \subseteq had'[u]
  BY <1>1, <1>5 DEF ChangeTier
<1>6. ASSUME NEW v \in Users, Delete(v, FALSE) PROVE UNCHANGED <<call, reporter, tier, usage, charged, had>>
  BY <1>6 DEF Delete
<1>7. ASSUME NEW v \in Users, Delete(v, TRUE)
      PROVE  /\ UNCHANGED <<call, reporter, had>>
             /\ u # v => tier'[u] = tier[u] /\ usage'[u] = usage[u] /\ charged'[u] = charged[u]
             /\ tier'[v] = "gone" /\ usage'[v] = [d \in Days |-> 0]
  BY <1>1, <1>7 DEF Delete
<1> QED
  BY <1>2, <1>3, <1>4, <1>5, <1>6, <1>7 DEF StepAside, Beside

\* A call keeps its place among the running ones of every day.
LEMMA RunningKept ==
  ASSUME NEW c \in Calls, NEW q, call \in [Calls -> Call], call' = [call EXCEPT ![c] = q],
         q.counted \in BOOLEAN, q.counted = call[c].counted,
         q.counted => q.user = call[c].user /\ q.day = call[c].day,
         NEW u \in Users, NEW d \in Days
  PROVE  Running(u, d)' = Running(u, d)
BY DEF Running

LEMMA RunningLeft ==
  ASSUME NEW c \in Calls, call \in [Calls -> Call], call' = [call EXCEPT ![c] = Idle], call[c].counted,
         NEW u \in Users, NEW d \in Days
  PROVE  /\ u = call[c].user /\ d = call[c].day =>
              Cardinality(Running(u, d)') = Cardinality(Running(u, d)) - 1
         /\ ~(u = call[c].user /\ d = call[c].day) => Running(u, d)' = Running(u, d)
<1>1. ~Idle.counted
  BY IdleType
<1>2. CASE u = call[c].user /\ d = call[c].day
  <2>1. Running(u, d)' = Running(u, d) \ {c} /\ c \in Running(u, d)
    BY <1>1, <1>2 DEF Running
  <2>2. Cardinality(Running(u, d) \ {c}) = Cardinality(Running(u, d)) - 1
    BY <2>1, RunningFinite, FS_RemoveElement
  <2> QED
    BY <1>2, <2>1, <2>2
<1>3. CASE ~(u = call[c].user /\ d = call[c].day)
  BY <1>1, <1>3 DEF Running
<1> QED
  BY <1>2, <1>3

LEMMA RunningJoined ==
  ASSUME NEW c \in Calls, NEW q, call \in [Calls -> Call], call' = [call EXCEPT ![c] = q], ~call[c].counted,
         q.counted, q.user = call[c].user, q.day = call[c].day,
         NEW u \in Users, NEW d \in Days
  PROVE  /\ u = q.user /\ d = q.day => Cardinality(Running(u, d)') = Cardinality(Running(u, d)) + 1
         /\ ~(u = q.user /\ d = q.day) => Running(u, d)' = Running(u, d)
<1>1. CASE u = q.user /\ d = q.day
  <2>1. Running(u, d)' = Running(u, d) \cup {c} /\ c \notin Running(u, d)
    BY <1>1 DEF Running
  <2>2. Cardinality(Running(u, d) \cup {c}) = Cardinality(Running(u, d)) + 1
    BY <2>1, RunningFinite, FS_AddElement
  <2> QED
    BY <1>1, <2>1, <2>2
<1>2. CASE ~(u = q.user /\ d = q.day)
  BY <1>2 DEF Running
<1> QED
  BY <1>1, <1>2

LEMMA CountElsewhere ==
  ASSUME NEW f \in [Users -> [Days -> Nat]], NEW a \in Users, NEW b \in Days, NEW u \in Users, NEW d \in Days,
         NEW n, ~(u = a /\ d = b)
  PROVE  [f EXCEPT ![a][b] = n][u][d] = f[u][d]
<1>1. CASE u = a
  <2>1. d # b /\ [f EXCEPT ![a][b] = n][u] = [f[u] EXCEPT ![b] = n]
    BY <1>1
  <2> QED
    BY <2>1
<1>2. CASE u # a
  BY <1>2
<1> QED
  BY <1>1, <1>2

LEMMA EffectExact ==
  ASSUME CallInv, NEW c \in Calls, Effect(c), UNCHANGED tier, NEW u \in Users, NEW d \in Days, Holds(u, d)
  PROVE  Holds(u, d)'
<1> SUFFICES ASSUME tier[u] # "gone" PROVE usage'[u][d] = charged'[u][d] + Cardinality(Running(u, d)')
  BY DEF Holds
<1> DEFINE mine == u = call[c].user /\ d = call[c].day
           n == Cardinality(Running(u, d))
<1>1. call \in [Calls -> Call] /\ call[c] \in Call /\ Fits(call[c]) /\ call[c].user \in Users /\ call[c].day \in Days
  BY DEF CallInv, TypeOK, Call
<1>2. usage \in [Users -> [Days -> Nat]] /\ charged \in [Users -> [Days -> Nat]] /\ n \in Nat
  BY RunningFinite DEF CallInv, TypeOK
<1>3. usage[u][d] = charged[u][d] + n /\ usage[u][d] \in Nat /\ charged[u][d] \in Nat /\ n \in Nat
  BY <1>2 DEF Holds
<1>4. ~Idle.counted /\ Idle.counted \in BOOLEAN
  BY IdleType DEF Call
<1>5. ASSUME NEW q, Moves(c, q) PROVE usage'[u][d] = charged'[u][d] + Cardinality(Running(u, d)')
  <2>1. q.counted \in BOOLEAN /\ call[c].counted \in BOOLEAN
    BY <1>1, <1>5 DEF Moves, Call
  <2>2. q.counted = call[c].counted
    BY <1>5, <2>1 DEF Moves
  <2>3. Running(u, d)' = Running(u, d)
    BY <1>1, <1>5, <2>1, <2>2, RunningKept DEF Moves
  <2> QED
    BY <1>3, <1>5, <2>3 DEF Moves
<1>6. CASE call' = [call EXCEPT ![c] = Idle] /\ ~call[c].counted /\ UNCHANGED <<usage, charged>>
  <2>1. call[c].counted \in BOOLEAN
    BY <1>1 DEF Call
  <2>2. Running(u, d)' = Running(u, d)
    BY <1>1, <1>4, <1>6, <2>1, RunningKept
  <2> QED
    BY <1>3, <1>6, <2>2
<1>7. ASSUME call' = [call EXCEPT ![c] = Idle], call[c].counted
      PROVE  /\ mine => Cardinality(Running(u, d)') = n - 1
             /\ ~mine => Running(u, d)' = Running(u, d)
  <2>1. call \in [Calls -> Call]
    BY <1>1
  <2>2. /\ u = call[c].user /\ d = call[c].day => Cardinality(Running(u, d)') = Cardinality(Running(u, d)) - 1
        /\ ~(u = call[c].user /\ d = call[c].day) => Running(u, d)' = Running(u, d)
    BY <1>7, <2>1, RunningLeft
  <2> QED
    BY <2>2
<1>8. ASSUME NEW error, NEW snap, Answers(c, error, snap)
      PROVE  usage'[u][d] = charged'[u][d] + Cardinality(Running(u, d)')
  <2>1. call' = [call EXCEPT ![c] = Idle] /\ Charge(c, error) /\ usage' = usage
    BY <1>8 DEF Answers, Answer
  <2>2. CASE ~call[c].counted
    BY <1>6, <2>1, <2>2 DEF Charge
  <2>3. CASE call[c].counted
    <3>1. ~ServiceFailed(error)
      BY <1>8, <2>3 DEF Answers, ServiceFailed, Refunded
    <3>2. CASE mine
      <4>1. charged' = [charged EXCEPT ![call[c].user][call[c].day] = @ + 1]
        BY <2>1, <2>3, <3>1, <3>2 DEF Charge
      <4>2. charged'[u][d] = charged[u][d] + 1
        BY <1>1, <1>2, <3>2, <4>1
      <4>3. Cardinality(Running(u, d)') = n - 1
        BY <1>7, <2>1, <2>3, <3>2
      <4>4. usage'[u][d] = charged[u][d] + n /\ charged[u][d] \in Nat /\ n \in Nat
        BY <1>2, <1>3, <2>1
      <4> HIDE DEF n, mine
      <4> QED
        BY <4>2, <4>3, <4>4
    <3>3. CASE ~mine
      <4>1. \/ charged' = [charged EXCEPT ![call[c].user][call[c].day] = charged[call[c].user][call[c].day] + 1]
            \/ charged' = charged
        BY <2>1 DEF Charge
      <4>2. charged'[u][d] = charged[u][d]
        <5>1. CASE charged' = charged
          BY <5>1
        <5>2. CASE charged' = [charged EXCEPT ![call[c].user][call[c].day] = charged[call[c].user][call[c].day] + 1]
          <6> HIDE DEF n
          <6> QED
            BY <1>1, <1>2, <3>3, <5>2, CountElsewhere
        <5> QED
          BY <4>1, <5>1, <5>2
      <4> QED
        BY <1>3, <1>7, <2>1, <2>3, <3>3, <4>2
    <3> QED
      BY <3>2, <3>3
  <2> QED
    BY <2>2, <2>3
<1>9. CASE Counts(c)
  <2> DEFINE q == [call[c] EXCEPT !.at = "run", !.counted = TRUE]
  <2>1. ~call[c].counted
    BY <1>1, <1>9 DEF Counts, Fits, Counted
  <2>2. q.user = call[c].user /\ q.day = call[c].day
    BY <1>1 DEF Call
  <2>3. q.counted
    BY <1>1 DEF Call
  <2>4. call' = [call EXCEPT ![c] = q]
    BY <1>9 DEF Counts
  <2> HIDE DEF q
  <2>5. /\ mine => Cardinality(Running(u, d)') = n + 1
        /\ ~mine => Running(u, d)' = Running(u, d)
    <3>1. call \in [Calls -> Call]
      BY <1>1
    <3>2. /\ u = q.user /\ d = q.day => Cardinality(Running(u, d)') = Cardinality(Running(u, d)) + 1
          /\ ~(u = q.user /\ d = q.day) => Running(u, d)' = Running(u, d)
      BY <2>1, <2>2, <2>3, <2>4, <3>1, RunningJoined
    <3> QED
      BY <2>2, <3>2
  <2>6. /\ mine => usage'[u][d] = usage[u][d] + 1
        /\ ~mine => usage'[u][d] = usage[u][d]
        /\ charged' = charged
    BY <1>1, <1>2, <1>9 DEF Counts
  <2>7. ~mine => Cardinality(Running(u, d)') = n
    BY <2>5
  <2> HIDE DEF mine, n
  <2> QED
    BY <1>3, <2>5, <2>6, <2>7
<1>10. CASE Refund(c)
  <2>1. call[c].at = "refund" /\ call[c].counted /\ call[c].error \in Refunded /\ call' = [call EXCEPT ![c] = Idle]
    BY <1>1, <1>10 DEF Refund, Is, Fits, Counted
  <2>2. /\ mine => Cardinality(Running(u, d)') = n - 1
        /\ ~mine => Running(u, d)' = Running(u, d)
    BY <1>7, <2>1
  <2>3. mine => n >= 1
    <3> SUFFICES ASSUME mine PROVE n >= 1
      OBVIOUS
    <3>1. c \in Running(u, d)
      BY <2>1 DEF Running
    <3> QED
      BY <1>2, <3>1, RunningFinite, FS_EmptySet
  <2>4. \/ /\ usage' = [usage EXCEPT ![call[c].user][call[c].day] = IF @ > 0 THEN @ - 1 ELSE @]
           /\ Charge(c, call[c].error)
        \/ /\ usage' = usage
           /\ charged' = IF tier[call[c].user] = "gone" THEN charged ELSE [charged EXCEPT ![call[c].user][call[c].day] = @ + 1]
    BY <1>10 DEF Refund
  <2>5. Charge(c, call[c].error) => charged' = charged
    BY <2>1 DEF Charge, ServiceFailed, Refunded
  <2>6. \/ /\ mine => usage'[u][d] = usage[u][d] - 1
           /\ ~mine => usage'[u][d] = usage[u][d]
           /\ charged' = charged
        \/ /\ usage' = usage
           /\ mine => charged'[u][d] = charged[u][d] + 1
           /\ ~mine => charged'[u][d] = charged[u][d]
    <3>1. CASE usage' = [usage EXCEPT ![call[c].user][call[c].day] = IF @ > 0 THEN @ - 1 ELSE @] /\ charged' = charged
      <4>1. mine => usage[u][d] > 0
        BY <1>2, <1>3, <2>3
      <4> QED
        BY <1>1, <1>2, <3>1, <4>1
    <3>2. CASE /\ usage' = usage
               /\ charged' = IF tier[call[c].user] = "gone" THEN charged ELSE [charged EXCEPT ![call[c].user][call[c].day] = @ + 1]
      BY <1>1, <1>2, <3>2
    <3> QED
      BY <2>4, <2>5, <3>1, <3>2
  <2>7. ~mine => Cardinality(Running(u, d)') = n
    BY <2>2
  <2> HIDE DEF mine, n
  <2>8. \/ /\ mine => usage'[u][d] = usage[u][d] - 1
           /\ ~mine => usage'[u][d] = usage[u][d]
           /\ charged'[u][d] = charged[u][d]
        \/ /\ usage'[u][d] = usage[u][d]
           /\ mine => charged'[u][d] = charged[u][d] + 1
           /\ ~mine => charged'[u][d] = charged[u][d]
    BY <2>6
  <2> QED
    BY <1>3, <2>2, <2>7, <2>8
<1> QED
  BY <1>5, <1>6, <1>8, <1>9, <1>10 DEF Effect, Leaves, NoAnswer

LEMMA ReceiveExact ==
  ASSUME CallInv, NEW c \in Calls, Receive(c), NEW u \in Users, NEW d \in Days, Holds(u, d)
  PROVE  Holds(u, d)'
<1> PICK v \in Users, t \in Tools :
      call' = [call EXCEPT ![c] = [Idle EXCEPT !.at = "received", !.id = nextId, !.user = v, !.tool = t, !.occurred = clock]]
  BY DEF Receive
<1> DEFINE q == [Idle EXCEPT !.at = "received", !.id = nextId, !.user = v, !.tool = t, !.occurred = clock]
<1>1. q.counted = FALSE
  BY IdleType DEF Call
<1>2. call[c].counted = FALSE /\ call \in [Calls -> Call]
  <2>1. call \in [Calls -> Call] /\ call[c].counted \in BOOLEAN /\ Fits(call[c])
    BY DEF CallInv, TypeOK, Call
  <2>2. call[c].at = "idle"
    BY DEF Receive, Is
  <2>3. ~call[c].counted
    BY <2>1, <2>2 DEF Fits, Counted
  <2> QED
    BY <2>1, <2>3
<1>3. call' = [call EXCEPT ![c] = q]
  OBVIOUS
<1> HIDE DEF q
<1>4. Running(u, d)' = Running(u, d)
  BY <1>1, <1>2, <1>3, RunningKept
<1> QED
  BY <1>4 DEF Holds, Receive, db

LEMMA CrashExact ==
  ASSUME CallInv, Crash, NEW u \in Users, NEW d \in Days, Holds(u, d)
  PROVE  Holds(u, d)'
<1>1. Running(u, d)' = {}
  BY IdleType DEF Running, Crash
<1>2. UNCHANGED <<tier, usage>>
  BY DEF Crash, db
<1>3. tier[u] # "gone" => charged'[u][d] = charged[u][d] + Cardinality(Running(u, d))
  BY DEF Crash
<1>4. usage[u][d] \in Nat
  BY DEF CallInv, TypeOK
<1>5. Cardinality(Running(u, d)') = 0
  BY <1>1, FS_EmptySet
<1> QED
  BY <1>2, <1>3, <1>4, <1>5 DEF Holds

(* The count of a day is the calls the user must answer for and the ones that  *)
(* still run: whatever calls overlap, no call is counted or taken back twice.  *)
THEOREM CountsAreExact == Spec => []UsageExact
<1>1. Init => UsageExact
  <2> SUFFICES ASSUME Init, NEW u \in Users, NEW d \in Days PROVE Holds(u, d)
    BY DEF UsageExact, Holds
  <2>1. Running(u, d) = {}
    BY IdleType DEF Init, Running
  <2>2. usage[u][d] = 0 /\ charged[u][d] = 0
    BY DEF Init
  <2> QED
    BY <2>1, <2>2, FS_EmptySet DEF Holds
<1>2. CallInv /\ UsageExact /\ [Next]_vars => UsageExact'
  <2> SUFFICES ASSUME CallInv, UsageExact, [Next]_vars, NEW u \in Users, NEW d \in Days' PROVE Holds(u, d)'
    BY DEF UsageExact, Holds
  <2>1. d \in Days /\ Holds(u, d)
    BY DEF UsageExact, Holds, Days
  <2>2. ASSUME NEW c \in Calls, Handle(c) PROVE Holds(u, d)'
    BY <2>1, <2>2, HandleEffect, HandleFrame, EffectExact
  <2>3. ASSUME NEW c \in Calls, Receive(c) PROVE Holds(u, d)'
    BY <2>1, <2>3, ReceiveExact
  <2>4. CASE StepAside
    <3>1. Running(u, d)' = Running(u, d)
      BY <2>4, AsideKeeps DEF Running
    <3> QED
      BY <2>1, <2>4, <3>1, AsideKeeps DEF Holds
  <2>5. CASE Crash
    BY <2>1, <2>5, CrashExact
  <2> QED
    BY <2>2, <2>3, <2>4, <2>5, NextCases
<1> QED
  BY <1>1, <1>2, CallsAreKept, PTL DEF Spec

-----------------------------------------------------------------------------
(* The daily cap.                                                               *)

Capped(u, d) ==
  \/ \E t \in had[u] : Caps[t] = NoCap
  \/ \E t \in had[u] : usage[u][d] <= Caps[t]

LEMMA EffectCapped ==
  ASSUME CallInv, NEW c \in Calls, Effect(c), UNCHANGED had, NEW u \in Users, NEW d \in Days, Capped(u, d)
  PROVE  Capped(u, d)'
<1>1. call[c] \in Call /\ Fits(call[c]) /\ call[c].user \in Users /\ call[c].day \in Days /\ call[c].tier \in Tiers
  BY DEF CallInv, TypeOK, Call
<1>2. usage \in [Users -> [Days -> Nat]] /\ had \in [Users -> SUBSET Tiers]
  BY DEF CallInv, TypeOK
<1>3. CASE UNCHANGED usage
  BY <1>3 DEF Capped
<1>4. CASE Counts(c)
  <2>1. usage' = [usage EXCEPT ![call[c].user][call[c].day] = @ + 1] /\ UnderCap(c)
    BY <1>4 DEF Counts
  <2>2. call[c].tier \in had[call[c].user]
    BY <1>1, <1>4 DEF Counts, Fits
  <2>3. CASE u = call[c].user /\ d = call[c].day
    <3>1. usage'[u][d] = usage[u][d] + 1 /\ usage[u][d] \in Nat
      BY <1>1, <1>2, <2>1, <2>3
    <3>2. Caps[call[c].tier] = NoCap \/ usage[u][d] < Caps[call[c].tier]
      BY <2>1, <2>3 DEF UnderCap, CountOf
    <3>3. Caps[call[c].tier] \in Nat \cup {NoCap}
      BY <1>1, ToolCallsAssumption
    <3>4. Caps[call[c].tier] = NoCap \/ usage'[u][d] <= Caps[call[c].tier]
      BY <3>1, <3>2, <3>3
    <3> QED
      BY <2>2, <2>3, <3>4 DEF Capped
  <2>4. CASE ~(u = call[c].user /\ d = call[c].day)
    <3>1. usage'[u][d] = usage[u][d]
      BY <1>1, <1>2, <2>1, <2>4
    <3> QED
      BY <3>1 DEF Capped
  <2> QED
    BY <2>3, <2>4
<1>5. CASE Refund(c)
  <2>1. usage' = usage \/ usage' = [usage EXCEPT ![call[c].user][call[c].day] = IF @ > 0 THEN @ - 1 ELSE @]
    BY <1>5 DEF Refund
  <2>2. usage[u][d] \in Nat /\ usage'[u][d] \in Nat /\ usage'[u][d] <= usage[u][d]
    BY <1>1, <1>2, <2>1
  <2>3. \A t \in had[u] : Caps[t] \in Nat \cup {NoCap}
    BY <1>2, ToolCallsAssumption
  <2>4. \A t \in had[u] : Caps[t] # NoCap /\ usage[u][d] <= Caps[t] => usage'[u][d] <= Caps[t]
    <3> SUFFICES ASSUME NEW t \in had[u], Caps[t] # NoCap, usage[u][d] <= Caps[t] PROVE usage'[u][d] <= Caps[t]
      OBVIOUS
    <3>1. Caps[t] \in Nat
      BY <2>3
    <3> QED
      BY <2>2, <3>1
  <2>5. CASE \E t \in had[u] : Caps[t] = NoCap
    BY <2>5 DEF Capped
  <2>6. CASE ~\E t \in had[u] : Caps[t] = NoCap
    BY <2>4, <2>6 DEF Capped
  <2> QED
    BY <2>5, <2>6
<1> QED
  BY <1>3, <1>4, <1>5 DEF Effect, Moves, Leaves, Answers

LEMMA CappedAtZero ==
  ASSUME CallInv, NEW u \in Users, NEW d \in Days, NEW t \in had[u]
  PROVE  Caps[t] = NoCap \/ 0 <= Caps[t]
<1>1. t \in Tiers
  BY DEF CallInv, TypeOK
<1>2. Caps[t] \in Nat \cup {NoCap}
  BY <1>1, ToolCallsAssumption
<1> QED
  BY <1>2

(* No day counts more calls of a user than the highest cap of the tiers the    *)
(* user had, whatever calls are in flight at once, refunded or late.           *)
THEOREM CapsHold == Spec => []CapHolds
<1>1. Init => CapHolds
  <2> SUFFICES ASSUME Init, NEW u \in Users, NEW d \in Days PROVE Capped(u, d)
    BY DEF CapHolds, Capped
  <2>1. tier[u] \in had[u] /\ usage[u][d] = 0
    BY DEF Init
  <2>2. Caps[tier[u]] = NoCap \/ 0 <= Caps[tier[u]]
    BY <2>1, InitInv, CappedAtZero
  <2> QED
    BY <2>1, <2>2 DEF Capped
<1>2. CallInv /\ CapHolds /\ [Next]_vars => CapHolds'
  <2> SUFFICES ASSUME CallInv, CapHolds, [Next]_vars, NEW u \in Users, NEW d \in Days' PROVE Capped(u, d)'
    BY DEF CapHolds, Capped
  <2>1. d \in Days /\ Capped(u, d)
    BY DEF CapHolds, Capped, Days
  <2>2. ASSUME NEW c \in Calls, Handle(c) PROVE Capped(u, d)'
    BY <2>1, <2>2, HandleEffect, HandleFrame, EffectCapped
  <2>3. ASSUME NEW c \in Calls, Receive(c) \/ Crash PROVE Capped(u, d)'
    BY <2>1, <2>3 DEF Receive, Crash, db, Capped
  <2>4. CASE StepAside
    <3>1. PICK t \in had[u] : Caps[t] = NoCap \/ usage[u][d] <= Caps[t]
      BY <2>1 DEF Capped
    <3>2. t \in had'[u]
      BY <2>4, <3>1, AsideKeeps
    <3>3. Caps[t] = NoCap \/ 0 <= Caps[t]
      BY <2>1, CappedAtZero
    <3>4. Caps[t] = NoCap \/ usage'[u][d] <= Caps[t]
      BY <2>1, <2>4, <3>1, <3>3, AsideKeeps
    <3> QED
      BY <3>2, <3>4 DEF Capped
  <2>5. CASE Crash
    BY <2>1, <2>5 DEF Crash, db, Capped
  <2> QED
    BY <2>2, <2>3, <2>4, <2>5, NextCases
<1> QED
  BY <1>1, <1>2, CallsAreKept, PTL DEF Spec

-----------------------------------------------------------------------------
(* The recorder.                                                                *)

\* The rows under way and the calls that may still record one all differ.
IdsInv ==
  /\ \A c \in Calls : call[c].at # "idle" =>
       /\ call[c].id < nextId
       /\ \A d \in Calls \ {c} : call[d].at # "idle" => call[d].id # call[c].id
       /\ \A row \in pending : row.id # call[c].id
  /\ \A row \in pending : row.id \in Nat /\ row.id < nextId

Account == IdsInv /\ EventsAccounted

LEMMA EffectAccount ==
  ASSUME CallInv, CallInv', Account, NEW c \in Calls, Effect(c), UNCHANGED nextId
  PROVE  Account'
<1>1. call \in [Calls -> Call] /\ call[c] \in Call /\ nextId \in Nat /\ IsFiniteSet(pending) /\ dropped \in Nat /\ seen \in Seen
  BY DEF CallInv, TypeOK, Seen
<1>2. Cardinality(pending) \in Nat /\ Cardinality(pending) <= MaxPending /\ MaxPending \in Nat
  BY <1>1, FS_CardinalityType, ToolCallsAssumption DEF Account, EventsAccounted
<1>3. Idle.at = "idle"
  BY IdleType
<1>4. ASSUME NEW q, Moves(c, q) PROVE Account'
  <2>1. call' = [call EXCEPT ![c] = q] /\ q.id = call[c].id /\ call[c].at # "idle" /\ UNCHANGED <<pending, dropped, seen>>
    BY <1>4 DEF Moves, recorder
  <2>2. \A d \in Calls : call'[d].id = call[d].id /\ (call'[d].at # "idle" => call[d].at # "idle")
    BY <1>1, <2>1
  <2>3. IdsInv'
    BY <2>1, <2>2 DEF Account, IdsInv
  <2>4. EventsAccounted'
    BY <2>1 DEF Account, EventsAccounted
  <2> QED
    BY <2>3, <2>4 DEF Account
<1>5. CASE Leaves(c)
  <2>1. call' = [call EXCEPT ![c] = Idle] /\ UNCHANGED <<pending, dropped, seen>>
    BY <1>5 DEF Leaves, NoAnswer, recorder
  <2>2. \A d \in Calls : call'[d].at # "idle" => call[d].at # "idle" /\ call'[d] = call[d]
    BY <1>1, <1>3, <2>1
  <2>3. IdsInv'
    BY <2>1, <2>2 DEF Account, IdsInv
  <2>4. EventsAccounted'
    BY <2>1 DEF Account, EventsAccounted
  <2> QED
    BY <2>3, <2>4 DEF Account
<1>6. ASSUME NEW error, NEW snap, Record(Row(c, error, snap)), call' = [call EXCEPT ![c] = Idle], call[c].at # "idle"
      PROVE  Account'
  <2> DEFINE row == Row(c, error, snap)
  <2>1. row.id = call[c].id /\ call[c].id \in Nat
    BY <1>1 DEF Row, Call
  <2>2. \A d \in Calls : call'[d].at # "idle" => d # c /\ call[d].at # "idle" /\ call'[d] = call[d]
    BY <1>1, <1>3, <1>6
  <2> HIDE DEF row
  <2>3. pending' \subseteq pending \cup {row}
    BY <1>6 DEF Record, row
  <2>4. IdsInv'
    BY <1>6, <2>1, <2>2, <2>3 DEF Account, IdsInv
  <2>5. row \notin pending
    BY <1>6, <2>1 DEF Account, IdsInv
  <2>6. Cardinality(pending \cup {row}) = Cardinality(pending) + 1
    BY <1>1, <2>5, FS_AddElement
  <2>7. seen' = [seen EXCEPT !.recorded = @ + 1]
        /\ IF Cardinality(pending) >= MaxPending
           THEN dropped' = dropped + 1 /\ pending' = pending
           ELSE pending' = pending \cup {row} /\ dropped' = dropped
    BY <1>6 DEF Record, row
  <2>8. /\ seen'.recorded = seen.recorded + 1 /\ seen'.inserted = seen.inserted /\ seen'.failed = seen.failed
        /\ seen'.logged = seen.logged /\ seen'.lost = seen.lost
    BY <1>1, <2>7 DEF Seen
  <2>9. /\ seen.recorded \in Nat /\ seen.inserted \in Nat /\ seen.failed \in Nat /\ seen.logged \in Nat /\ seen.lost \in Nat
        /\ seen.recorded = seen.inserted + seen.failed + seen.logged + seen.lost + dropped + Cardinality(pending)
    BY <1>1 DEF Account, EventsAccounted, Seen
  <2>10. ASSUME Cardinality(pending) >= MaxPending PROVE EventsAccounted'
    BY <1>1, <1>2, <2>7, <2>8, <2>9, <2>10 DEF EventsAccounted
  <2>11. ASSUME ~(Cardinality(pending) >= MaxPending) PROVE EventsAccounted'
    <3>1. Cardinality(pending') = Cardinality(pending) + 1 /\ dropped' = dropped
      BY <2>6, <2>7, <2>11
    <3>2. Cardinality(pending) + 1 <= MaxPending
      BY <1>2, <2>11
    <3>3. dropped \in Nat
      BY <1>1
    <3>4. seen.recorded + 1 = seen.inserted + seen.failed + seen.logged + seen.lost + dropped + (Cardinality(pending) + 1)
      BY <1>2, <2>9, <3>3
    <3>5. seen'.recorded = seen'.inserted + seen'.failed + seen'.logged + seen'.lost + dropped' + Cardinality(pending')
      BY <2>8, <3>1, <3>4
    <3> QED
      BY <3>1, <3>2, <3>5 DEF EventsAccounted
  <2>12. EventsAccounted'
    BY <2>10, <2>11
  <2> QED
    BY <2>4, <2>12 DEF Account
<1>7. CASE Counts(c)
  <2> DEFINE q == [call[c] EXCEPT !.at = "run", !.counted = TRUE]
  <2>1. q.id = call[c].id /\ call' = [call EXCEPT ![c] = q] /\ call[c].at # "idle" /\ UNCHANGED <<pending, dropped, seen>>
    BY <1>1, <1>7 DEF Counts, Call, recorder
  <2> HIDE DEF q
  <2>2. \A d \in Calls : call'[d].id = call[d].id /\ (call'[d].at # "idle" => call[d].at # "idle")
    BY <1>1, <2>1
  <2>3. UNCHANGED nextId
    OBVIOUS
  <2>4. IdsInv'
    BY <2>1, <2>2 DEF Account, IdsInv
  <2>5. EventsAccounted'
    BY <2>1 DEF Account, EventsAccounted
  <2> QED
    BY <2>4, <2>5 DEF Account
<1>8. CASE Refund(c)
  <2>1. Record(Row(c, call[c].error, NoSnapshot)) /\ call' = [call EXCEPT ![c] = Idle] /\ call[c].at # "idle"
    BY <1>8 DEF Refund, Is
  <2> QED
    BY <1>6, <2>1
<1>9. ASSUME NEW error, NEW snap, Answers(c, error, snap) PROVE Account'
  BY <1>6, <1>9 DEF Answers, Answer
<1> QED
  BY <1>4, <1>5, <1>7, <1>8, <1>9 DEF Effect

LEMMA ReceiveAccount == ASSUME CallInv, Account, NEW c \in Calls, Receive(c) PROVE Account'
<1> PICK v \in Users, t \in Tools :
      call' = [call EXCEPT ![c] = [Idle EXCEPT !.at = "received", !.id = nextId, !.user = v, !.tool = t, !.occurred = clock]]
  BY DEF Receive
<1> DEFINE q == [Idle EXCEPT !.at = "received", !.id = nextId, !.user = v, !.tool = t, !.occurred = clock]
<1>1. q.id = nextId
  BY IdleType DEF Call
<1>2. call' = [call EXCEPT ![c] = q] /\ call \in [Calls -> Call] /\ nextId \in Nat /\ nextId' = nextId + 1 /\ UNCHANGED recorder
  BY DEF CallInv, TypeOK, Receive
<1> HIDE DEF q
<1>3. \A d \in Calls \ {c} : call'[d] = call[d] /\ (call[d].at # "idle" => call[d].id < nextId /\ call[d].id \in Nat)
  BY <1>2 DEF Account, IdsInv, Call
<1>4. call'[c].id = nextId
  BY <1>1, <1>2
<1>5. \A d \in Calls : call'[d].at # "idle" => call'[d].id < nextId'
  <2> SUFFICES ASSUME NEW d \in Calls, call'[d].at # "idle" PROVE call'[d].id < nextId'
    OBVIOUS
  <2>1. CASE d = c
    BY <1>2, <1>4, <2>1
  <2>2. CASE d # c
    BY <1>2, <1>3, <2>2
  <2> QED
    BY <2>1, <2>2
<1>6. \A d, e \in Calls : d # e /\ call'[d].at # "idle" /\ call'[e].at # "idle" => call'[d].id # call'[e].id
  <2> SUFFICES ASSUME NEW d \in Calls, NEW e \in Calls, d # e, call'[d].at # "idle", call'[e].at # "idle"
               PROVE  call'[d].id # call'[e].id
    OBVIOUS
  <2>1. CASE d = c
    BY <1>2, <1>3, <1>4, <2>1
  <2>2. CASE e = c
    BY <1>2, <1>3, <1>4, <2>2
  <2>3. CASE d # c /\ e # c
    BY <1>3, <2>3 DEF Account, IdsInv
  <2> QED
    BY <2>1, <2>2, <2>3
<1>7. pending' = pending /\ \A row \in pending : row.id \in Nat /\ row.id < nextId
  BY <1>2 DEF recorder, Account, IdsInv
<1>8. \A d \in Calls, row \in pending : call'[d].at # "idle" => row.id # call'[d].id
  <2> SUFFICES ASSUME NEW d \in Calls, NEW row \in pending, call'[d].at # "idle" PROVE row.id # call'[d].id
    OBVIOUS
  <2>1. CASE d = c
    BY <1>2, <1>4, <1>7, <2>1
  <2>2. CASE d # c
    BY <1>3, <2>2 DEF Account, IdsInv
  <2> QED
    BY <2>1, <2>2
<1>9. \A row \in pending' : row.id \in Nat /\ row.id < nextId'
  BY <1>2, <1>7
<1>10. IdsInv'
  BY <1>5, <1>6, <1>7, <1>8, <1>9 DEF IdsInv
<1>11. EventsAccounted'
  BY <1>2 DEF recorder, Account, EventsAccounted
<1> QED
  BY <1>10, <1>11 DEF Account

LEMMA SettleAccount == ASSUME CallInv, Account, NEW row \in pending, Settle(row) PROVE Account'
<1>1. IsFiniteSet(pending) /\ dropped \in Nat /\ seen \in Seen /\ MaxPending \in Nat
  BY ToolCallsAssumption DEF CallInv, TypeOK, Seen
<1>2. pending' = pending \ {row} /\ UNCHANGED <<call, nextId>> /\ dropped' = 0
  BY DEF Settle
<1>3. IdsInv'
  BY <1>2 DEF Account, IdsInv
<1>4. Cardinality(pending') = Cardinality(pending) - 1 /\ Cardinality(pending) \in Nat
  BY <1>1, <1>2, FS_RemoveElement, FS_CardinalityType
<1>5. \/ seen' = [seen EXCEPT !.inserted = @ + 1, !.logged = @ + dropped]
      \/ seen' = [seen EXCEPT !.failed = @ + 1, !.logged = @ + dropped]
  BY DEF Settle
<1>6. /\ seen'.recorded = seen.recorded /\ seen'.lost = seen.lost /\ seen'.logged = seen.logged + dropped
      /\ seen'.inserted + seen'.failed = seen.inserted + seen.failed + 1
      /\ seen'.inserted \in Nat /\ seen'.failed \in Nat
  <2>1. CASE seen' = [seen EXCEPT !.inserted = @ + 1, !.logged = @ + dropped]
    BY <1>1, <2>1 DEF Seen
  <2>2. CASE seen' = [seen EXCEPT !.failed = @ + 1, !.logged = @ + dropped]
    BY <1>1, <2>2 DEF Seen
  <2> QED
    BY <1>5, <2>1, <2>2
<1>7. EventsAccounted'
  BY <1>1, <1>2, <1>4, <1>6 DEF Account, EventsAccounted, Seen
<1> QED
  BY <1>3, <1>7 DEF Account

LEMMA CrashAccount == ASSUME CallInv, Account, Crash PROVE Account'
<1>1. dropped \in Nat /\ seen \in Seen /\ Cardinality(pending) \in Nat /\ MaxPending \in Nat
  BY FS_CardinalityType, ToolCallsAssumption DEF CallInv, TypeOK, Seen
<1>2. pending' = {} /\ dropped' = 0 /\ Cardinality(pending') = 0
  BY FS_EmptySet DEF Crash
<1>3. \A c \in Calls : call'[c].at = "idle"
  BY IdleType DEF Crash
<1>4. seen' = [seen EXCEPT !.lost = @ + Cardinality(pending) + dropped]
  BY DEF Crash
<1>5. /\ seen'.recorded = seen.recorded /\ seen'.inserted = seen.inserted /\ seen'.failed = seen.failed
      /\ seen'.logged = seen.logged /\ seen'.lost = seen.lost + Cardinality(pending) + dropped
  BY <1>1, <1>4 DEF Seen
<1>6. EventsAccounted'
  BY <1>1, <1>2, <1>5 DEF Account, EventsAccounted, Seen
<1>7. IdsInv'
  BY <1>2, <1>3 DEF IdsInv
<1> QED
  BY <1>6, <1>7 DEF Account

LEMMA AsideAccount ==
  ASSUME CallInv, Account, UNCHANGED <<call, recorder>>, nextId' \in {nextId, nextId + 1}
  PROVE  Account'
<1>1. nextId \in Nat /\ nextId' >= nextId /\ nextId' \in Nat /\ call \in [Calls -> Call]
  BY DEF CallInv, TypeOK
<1>2. \A c \in Calls : call[c].id \in Nat
  BY <1>1 DEF Call
<1>3. \A c \in Calls : call[c].at # "idle" => call[c].id < nextId'
  BY <1>1, <1>2 DEF Account, IdsInv
<1>4. \A row \in pending : row.id \in Nat /\ row.id < nextId'
  BY <1>1 DEF Account, IdsInv
<1>5. IdsInv'
  BY <1>3, <1>4 DEF Account, IdsInv, recorder
<1> QED
  BY <1>5 DEF Account, EventsAccounted, recorder

(* Every recorded event is stored, failed, dropped and counted by one line,    *)
(* lost with the process or under way, and the inserts keep their bound.       *)
THEOREM NoEventVanishes == Spec => []EventsAccounted
<1>1. Init => Account
  <2> SUFFICES ASSUME Init PROVE Account
    OBVIOUS
  <2>1. IdsInv
    BY IdleType DEF Init, IdsInv
  <2>2. EventsAccounted
    BY FS_EmptySet, ToolCallsAssumption DEF Init, EventsAccounted
  <2> QED
    BY <2>1, <2>2 DEF Account
<1>2. CallInv /\ Account /\ [Next]_vars => Account'
  <2> SUFFICES ASSUME CallInv, Account, [Next]_vars PROVE Account'
    OBVIOUS
  <2>1. CallInv'
    BY NextInv
  <2>2. ASSUME NEW c \in Calls, Handle(c) PROVE Account'
    BY <2>1, <2>2, HandleEffect, HandleFrame, EffectAccount
  <2>3. ASSUME NEW c \in Calls, Receive(c) PROVE Account'
    BY <2>3, ReceiveAccount
  <2>4. ASSUME NEW row \in pending, Settle(row) PROVE Account'
    BY <2>4, SettleAccount
  <2>5. ASSUME NEW u \in Users, Beside(u) PROVE Account'
    <3>1. UNCHANGED <<call, recorder>> /\ nextId' \in {nextId, nextId + 1}
      BY <2>5 DEF Beside, ChangeTier, Toggle, Upload
    <3> QED
      BY <3>1, AsideAccount
  <2>6. CASE (\E u \in Users, account \in BOOLEAN : Delete(u, account)) \/ Tick \/ UNCHANGED vars
    <3>1. UNCHANGED <<call, recorder, nextId>>
      BY <2>6 DEF Delete, Tick, vars
    <3> QED
      BY <3>1, AsideAccount
  <2>7. CASE Crash
    BY <2>7, CrashAccount
  <2> QED
    BY <2>2, <2>3, <2>4, <2>5, <2>6, <2>7, NextCases DEF StepAside
<1>3. Account => EventsAccounted
  BY DEF Account
<1> QED
  BY <1>1, <1>2, <1>3, CallsAreKept, PTL DEF Spec

-----------------------------------------------------------------------------
(* The lock of report_issue.                                                    *)

LEMMA HandleLock ==
  ASSUME CallInv, LockOwned, NEW c \in Calls, Handle(c)
  PROVE  LockOwned'
<1>1. call \in [Calls -> Call] /\ reporter \in [Users -> Calls \cup {NoCall}] /\ call[c] \in Call
  BY DEF CallInv, TypeOK
<1>2. \A d \in Calls \ {c} : call'[d] = call[d]
  BY <1>1, HandleEffect DEF Effect, Moves, Leaves, NoAnswer, Answers, Answer, Counts, Refund
<1>3. CASE UNCHANGED reporter /\ call[c].at \notin {"reporting", "counted"}
  BY <1>1, <1>2, <1>3 DEF LockOwned
<1>4. CASE Unlock(c)
  <2>1. \A u \in Users : reporter'[u] # NoCall => reporter'[u] = reporter[u] /\ reporter[u] \in Calls \ {c}
    BY <1>1, <1>4 DEF Unlock
  <2> QED
    BY <1>2, <2>1 DEF LockOwned
<1>5. CASE ReportLock(c)
  <2>1. call[c].at = "report" /\ call'[c].at = "reporting" /\ call'[c].user = call[c].user
    BY <1>1, <1>5 DEF ReportLock, Is, Step, Call
  <2>2. \A u \in Users : reporter'[u] = reporter[u] \/ (u = call[c].user /\ reporter'[u] = c)
    BY <1>1, <1>5 DEF ReportLock
  <2>3. \A u \in Users : reporter[u] # NoCall => reporter[u] # c
    BY <2>1 DEF LockOwned
  <2> QED
    BY <1>1, <1>2, <2>1, <2>2, <2>3 DEF LockOwned
<1>6. CASE UNCHANGED reporter /\ Step(c, "counted")
  <2>1. call'[c].at = "counted" /\ call'[c].user = call[c].user
    BY <1>1, <1>6 DEF Step, Call
  <2> QED
    BY <1>1, <1>2, <1>6, <2>1 DEF LockOwned
<1> QED
  BY <1>3, <1>4, <1>5, <1>6
     DEF Handle, FindUser, FindGames, Count, Refund, RunListGames, RunKitTool, ReportBegin, ReportCount, ReportInsert, Is

(* A user's row is locked by a report inside its transaction and by nothing    *)
(* else: no way out of report_issue leaves it locked.                          *)
THEOREM LocksEnd == Spec => []LockOwned
<1>1. Init => LockOwned
  BY DEF Init, LockOwned
<1>2. CallInv /\ LockOwned /\ [Next]_vars => LockOwned'
  <2> SUFFICES ASSUME CallInv, LockOwned, [Next]_vars PROVE LockOwned'
    OBVIOUS
  <2>1. ASSUME NEW c \in Calls, Handle(c) PROVE LockOwned'
    BY <2>1, HandleLock
  <2>2. ASSUME NEW c \in Calls, Receive(c) PROVE LockOwned'
    <3>1. call[c].at = "idle" /\ UNCHANGED reporter /\ reporter \in [Users -> Calls \cup {NoCall}]
      BY <2>2 DEF Receive, Is, CallInv, TypeOK
    <3>2. \A d \in Calls \ {c} : call'[d] = call[d]
      BY <2>2 DEF Receive, CallInv, TypeOK
    <3> QED
      BY <3>1, <3>2 DEF LockOwned
  <2>3. CASE StepAside
    BY <2>3, AsideKeeps DEF LockOwned
  <2>4. CASE Crash
    BY <2>4 DEF Crash, LockOwned
  <2> QED
    BY <2>1, <2>2, <2>3, <2>4, NextCases
<1> QED
  BY <1>1, <1>2, CallsAreKept, PTL DEF Spec
-----------------------------------------------------------------------------
(* The limit of reports. A report in its transaction has the row of its user,  *)
(* unless the user is gone: no other changes what it counted before it inserts. *)

InTransaction == {"reporting", "counted"}
ReportedIn(u, t) == {r \in Reports(u, t) : r.at <= t}
CountHolds(c) ==
  call[c].at \in InTransaction /\ tier[call[c].user] # "gone" =>
    /\ reporter[call[c].user] = c
    /\ call[c].at = "counted" => Cardinality(Reports(call[c].user, call[c].began)) < MaxReports
Reporting ==
  /\ IsFiniteSet(issues) /\ \A r \in issues : r.at \in Nat
  /\ \A c \in Calls : CountHolds(c)
  /\ \A u \in Users, t \in Nat : Cardinality(ReportedIn(u, t)) <= MaxReports

LEMMA ReportsFinite ==
  ASSUME IsFiniteSet(issues), NEW u, NEW t
  PROVE  /\ IsFiniteSet(Reports(u, t)) /\ Cardinality(Reports(u, t)) \in Nat
         /\ IsFiniteSet(ReportedIn(u, t)) /\ Cardinality(ReportedIn(u, t)) \in Nat
<1>1. Reports(u, t) \in SUBSET issues /\ ReportedIn(u, t) \in SUBSET issues
  BY DEF Reports, Window, ReportedIn
<1> QED
  BY <1>1, FS_Subset, FS_CardinalityType

\* A step that moves a call neither into a transaction nor on in it, and that
\* adds no report, keeps what holds.
LEMMA FewerReports ==
  ASSUME Reporting, issues' \subseteq issues,
         \A c \in Calls : call'[c].at \in InTransaction =>
           /\ call'[c] = call[c] /\ (tier'[call[c].user] # "gone" => tier[call[c].user] # "gone")
           /\ reporter[call[c].user] = c => reporter'[call[c].user] = c
  PROVE  Reporting'
<1>1. \A u : \A t : Reports(u, t)' \in SUBSET Reports(u, t) /\ ReportedIn(u, t)' \in SUBSET ReportedIn(u, t)
  BY DEF Reports, Window, ReportedIn
<1>2. IsFiniteSet(issues') /\ \A r \in issues' : r.at \in Nat
  BY FS_Subset DEF Reporting
<1>3. ASSUME NEW u, NEW t
      PROVE  /\ Cardinality(Reports(u, t)') <= Cardinality(Reports(u, t)) /\ Cardinality(Reports(u, t)') \in Nat
             /\ Cardinality(Reports(u, t)) \in Nat
             /\ Cardinality(ReportedIn(u, t)') <= Cardinality(ReportedIn(u, t)) /\ Cardinality(ReportedIn(u, t)') \in Nat
             /\ Cardinality(ReportedIn(u, t)) \in Nat
  <2>1. IsFiniteSet(Reports(u, t)) /\ IsFiniteSet(ReportedIn(u, t))
    BY ReportsFinite DEF Reporting
  <2> QED
    BY <1>1, <2>1, FS_Subset, FS_CardinalityType
<1>4. MaxReports \in Nat
  BY ToolCallsAssumption
<1>5. \A u \in Users, t \in Nat : Cardinality(ReportedIn(u, t)') <= MaxReports
  BY <1>3, <1>4 DEF Reporting
<1>6. ASSUME NEW c \in Calls, call'[c].at \in InTransaction, tier'[call'[c].user] # "gone",
             NEW u, NEW t, u = call[c].user, t = call[c].began
      PROVE  CountHolds(c)'
  <2>1. call'[c] = call[c] /\ tier[u] # "gone"
    BY <1>6
  <2>2. reporter[u] = c /\ (call[c].at = "counted" => Cardinality(Reports(u, t)) < MaxReports)
    BY <1>6, <2>1 DEF Reporting, CountHolds
  <2>3. call[c].at = "counted" => Cardinality(Reports(u, t)') < MaxReports
    BY <1>3, <1>4, <2>2
  <2>4. reporter'[u] = c
    BY <1>6, <2>1, <2>2
  <2>5. call'[c].user = u /\ call'[c].began = t
    BY <1>6, <2>1
  <2> QED
    BY <2>1, <2>3, <2>4, <2>5 DEF CountHolds
<1>7. \A c \in Calls : CountHolds(c)'
  BY <1>6 DEF CountHolds
<1> QED
  BY <1>2, <1>5, <1>7 DEF Reporting

\* Where an answered call is.
LEMMA EndLeaves ==
  ASSUME CallInv, NEW c \in Calls, NEW error, NEW snap, End(c, error, snap)
  PROVE  call'[c].at \notin InTransaction /\ \A d \in Calls \ {c} : call'[d] = call[d]
<1>1. call \in [Calls -> Call] /\ call[c] \in Call /\ Idle.at = "idle"
  BY IdleType DEF CallInv, TypeOK
<1>2. ASSUME NEW q, call' = [call EXCEPT ![c] = q], q.at \in {"idle", "refund"}
      PROVE  call'[c].at \notin InTransaction /\ \A d \in Calls \ {c} : call'[d] = call[d]
  BY <1>1, <1>2 DEF InTransaction
<1>3. [call[c] EXCEPT !.at = "refund", !.error = error].at = "refund"
  BY <1>1 DEF Call
<1>4. CASE call' = [call EXCEPT ![c] = [@ EXCEPT !.at = "refund", !.error = error]]
  BY <1>2, <1>3, <1>4
<1>5. CASE call' = [call EXCEPT ![c] = Idle]
  BY <1>1, <1>2, <1>5
<1> QED
  BY <1>4, <1>5 DEF End, Answer

LEMMA LockReports == ASSUME CallInv, Reporting, NEW c \in Calls, ReportLock(c) PROVE Reporting'
<1>1. /\ call \in [Calls -> Call] /\ call[c] \in Call /\ reporter \in [Users -> Calls \cup {NoCall}]
      /\ call[c].user \in Users /\ call[c].at = "report" /\ reporter[call[c].user] = NoCall
      /\ UNCHANGED <<tier, issues>>
  BY DEF CallInv, TypeOK, Call, ReportLock, Is, db
<1>2. /\ call'[c].at = "reporting" /\ call'[c].user = call[c].user
      /\ \A d \in Calls \ {c} : call'[d] = call[d]
  BY <1>1 DEF ReportLock, Step, Call
<1>3. /\ \A u \in Users : u # call[c].user => reporter'[u] = reporter[u]
      /\ tier[call[c].user] # "gone" => reporter'[call[c].user] = c
  BY <1>1 DEF ReportLock
<1>4. \A u : \A t : Reports(u, t)' = Reports(u, t) /\ ReportedIn(u, t)' = ReportedIn(u, t)
  BY <1>1 DEF Reports, Window, ReportedIn
<1>5. ASSUME NEW d \in Calls, call'[d].at \in InTransaction, tier'[call'[d].user] # "gone"
      PROVE  CountHolds(d)'
  <2>1. CASE d = c
    BY <1>1, <1>2, <1>3, <1>5, <2>1 DEF CountHolds
  <2>2. CASE d # c
    <3>1. call'[d] = call[d] /\ call[d].user \in Users
      BY <1>1, <1>2, <2>2 DEF Call
    <3>2. /\ reporter[call[d].user] = d
          /\ call[d].at = "counted" => Cardinality(Reports(call[d].user, call[d].began)) < MaxReports
      BY <1>1, <1>5, <3>1 DEF Reporting, CountHolds
    <3>3. call[d].user # call[c].user
      BY <1>1, <3>2, ToolCallsAssumption
    <3> QED
      BY <1>3, <1>4, <3>1, <3>2, <3>3 DEF CountHolds
  <2> QED
    BY <2>1, <2>2
<1>6. \A d \in Calls : CountHolds(d)'
  BY <1>5 DEF CountHolds
<1>7. \A u \in Users, t \in Nat : Cardinality(ReportedIn(u, t)') <= MaxReports
  BY <1>4 DEF Reporting
<1> QED
  BY <1>1, <1>6, <1>7 DEF Reporting

\* A call that unlocks takes the lock from nobody else.
LEMMA UnlockReports ==
  ASSUME CallInv, Reporting, NEW c \in Calls, Unlock(c), NEW error, NEW snap, End(c, error, snap), UNCHANGED <<tier, issues>>
  PROVE  Reporting'
<1>1. call'[c].at \notin InTransaction /\ \A d \in Calls \ {c} : call'[d] = call[d]
  BY EndLeaves
<1>2. \A d \in Calls \ {c} : reporter[call[d].user] = d => reporter'[call[d].user] = d
  BY DEF Unlock, CallInv, TypeOK, Call
<1> QED
  BY <1>1, <1>2, FewerReports

LEMMA CountReports == ASSUME CallInv, Reporting, NEW c \in Calls, ReportCount(c) PROVE Reporting'
<1>1. UNCHANGED <<tier, issues>> /\ call[c].at = "reporting"
  BY DEF ReportCount, db, Is
<1>2. ASSUME NEW error, Unlock(c), End(c, error, NoSnapshot) PROVE Reporting'
  BY <1>1, <1>2, UnlockReports
<1>3. CASE /\ Cardinality(Reports(call[c].user, call[c].began)) < MaxReports
           /\ Step(c, "counted") /\ UNCHANGED reporter
  <2>1. /\ call'[c].at = "counted" /\ call'[c].user = call[c].user /\ call'[c].began = call[c].began
        /\ \A d \in Calls \ {c} : call'[d] = call[d]
    BY <1>3 DEF CallInv, TypeOK, Call, Step
  <2>2. \A u : \A t : Reports(u, t)' = Reports(u, t) /\ ReportedIn(u, t)' = ReportedIn(u, t)
    BY <1>1 DEF Reports, Window, ReportedIn
  <2>3. ASSUME NEW d \in Calls, call'[d].at \in InTransaction, tier'[call'[d].user] # "gone"
        PROVE  CountHolds(d)'
    <3>1. CASE d = c
      <4>1. reporter[call[c].user] = c
        BY <1>1, <2>1, <2>3, <3>1 DEF Reporting, CountHolds, InTransaction
      <4> QED
        BY <1>3, <2>1, <2>2, <3>1, <4>1 DEF CountHolds
    <3>2. CASE d # c
      BY <1>1, <1>3, <2>1, <2>2, <2>3, <3>2 DEF Reporting, CountHolds
    <3> QED
      BY <3>1, <3>2
  <2>4. \A d \in Calls : CountHolds(d)'
    BY <2>3 DEF CountHolds
  <2>5. \A u \in Users, t \in Nat : Cardinality(ReportedIn(u, t)') <= MaxReports
    BY <2>2 DEF Reporting
  <2> QED
    BY <1>1, <2>4, <2>5 DEF Reporting
<1> QED
  BY <1>2, <1>3 DEF ReportCount

\* A report inserted after a count below the limit: no 24 hours that hold it
\* hold another report than it counted.
LEMMA InsertReports == ASSUME CallInv, Reporting, NEW c \in Calls, ReportInsert(c) PROVE Reporting'
<1> DEFINE u == call[c].user
           b == call[c].began
<1>1. /\ call[c] \in Call /\ u \in Users /\ b \in Nat /\ call[c].at = "counted" /\ UNCHANGED tier /\ Unlock(c)
      /\ reporter \in [Users -> Calls \cup {NoCall}] /\ call \in [Calls -> Call]
  BY DEF CallInv, TypeOK, Call, ReportInsert, Is
<1>2. ASSUME NEW error, End(c, error, NoSnapshot), UNCHANGED issues PROVE Reporting'
  BY <1>1, <1>2, UnlockReports
<1>3. ASSUME tier[u] # "gone", NEW row, row.user = u, row.at = b, issues' = issues \cup {row}, End(c, "none", NoSnapshot)
      PROVE  Reporting'
  <2>1. reporter[u] = c /\ Cardinality(Reports(u, b)) < MaxReports
    BY <1>1, <1>3 DEF Reporting, CountHolds, InTransaction
  <2>2. IsFiniteSet(issues') /\ \A r \in issues' : r.at \in Nat
    <3>1. IsFiniteSet(issues \cup {row})
      BY FS_AddElement DEF Reporting
    <3> QED
      BY <1>1, <1>3, <3>1 DEF Reporting
  <2>3. call'[c].at \notin InTransaction /\ \A d \in Calls \ {c} : call'[d] = call[d]
    BY <1>3, EndLeaves
  <2>4. ASSUME NEW d \in Calls, call'[d].at \in InTransaction, tier'[call'[d].user] # "gone"
        PROVE  CountHolds(d)'
    <3>1. d # c /\ call'[d] = call[d] /\ call[d].user \in Users
      BY <1>1, <2>3, <2>4 DEF Call
    <3>2. /\ reporter[call[d].user] = d
          /\ call[d].at = "counted" => Cardinality(Reports(call[d].user, call[d].began)) < MaxReports
      BY <1>1, <2>4, <3>1 DEF Reporting, CountHolds
    <3>3. call[d].user # u
      BY <2>1, <3>1, <3>2
    <3>4. reporter'[call[d].user] = d
      BY <1>1, <3>1, <3>2 DEF Unlock
    <3>5. \A v : \A t : v # u => Reports(v, t)' = Reports(v, t)
      BY <1>3 DEF Reports, Window
    <3> QED
      BY <3>1, <3>2, <3>3, <3>4, <3>5 DEF CountHolds
  <2>5. ASSUME NEW v \in Users, NEW t \in Nat PROVE Cardinality(ReportedIn(v, t)') <= MaxReports
    <3>1. Cardinality(ReportedIn(v, t)) <= MaxReports /\ MaxReports \in Nat /\ DayLength \in Nat
      BY ToolCallsAssumption DEF Reporting
    <3>2. CASE ReportedIn(v, t)' = ReportedIn(v, t)
      BY <3>1, <3>2
    <3>3. CASE ReportedIn(v, t)' # ReportedIn(v, t)
      <4>1. v = u /\ b > t - DayLength /\ b <= t
        BY <1>3, <3>3 DEF ReportedIn, Reports, Window
      <4>2. ReportedIn(v, t)' \in SUBSET (Reports(u, b) \cup {row})
        BY <1>1, <1>3, <3>1, <4>1 DEF ReportedIn, Reports, Window, Reporting
      <4>3. /\ IsFiniteSet(Reports(u, b) \cup {row})
            /\ Cardinality(Reports(u, b) \cup {row}) \in Nat
            /\ Cardinality(Reports(u, b) \cup {row}) <= Cardinality(Reports(u, b)) + 1
            /\ Cardinality(Reports(u, b)) \in Nat
        <5>1. IsFiniteSet(Reports(u, b)) /\ Cardinality(Reports(u, b)) \in Nat
          BY ReportsFinite DEF Reporting
        <5> HIDE DEF u, b
        <5>2. /\ IsFiniteSet(Reports(u, b) \cup {row})
              /\ \/ Cardinality(Reports(u, b) \cup {row}) = Cardinality(Reports(u, b)) + 1
                 \/ Cardinality(Reports(u, b) \cup {row}) = Cardinality(Reports(u, b))
          BY <5>1, FS_AddElement
        <5> QED
          BY <5>1, <5>2
      <4>4. /\ Cardinality(ReportedIn(v, t)') <= Cardinality(Reports(u, b) \cup {row})
            /\ Cardinality(ReportedIn(v, t)') \in Nat
        <5> DEFINE A == ReportedIn(v, t)'
                   B == Reports(u, b) \cup {row}
        <5>1. A \in SUBSET B /\ IsFiniteSet(B)
          BY <4>2, <4>3
        <5> HIDE DEF A, B
        <5>2. Cardinality(A) <= Cardinality(B) /\ IsFiniteSet(A)
          BY <5>1, FS_Subset
        <5>3. Cardinality(A) \in Nat
          BY <5>2, FS_CardinalityType
        <5> QED
          BY <5>2, <5>3 DEF A, B
      <4> HIDE DEF u, b
      <4> QED
        BY <2>1, <3>1, <4>3, <4>4
    <3> QED
      BY <3>2, <3>3
  <2>6. \A d \in Calls : CountHolds(d)'
    BY <2>4 DEF CountHolds
  <2> QED
    BY <2>2, <2>5, <2>6 DEF Reporting
<1> QED
  BY <1>1, <1>2, <1>3 DEF ReportInsert

LEMMA HandleReports == ASSUME CallInv, Reporting, NEW c \in Calls, Handle(c) PROVE Reporting'
<1>1. CASE ReportLock(c) \/ ReportCount(c) \/ ReportInsert(c)
  BY <1>1, LockReports, CountReports, InsertReports
<1>2. CASE FindUser(c) \/ FindGames(c) \/ Count(c) \/ Refund(c) \/ RunListGames(c) \/ RunKitTool(c) \/ ReportBegin(c)
  <2>1. UNCHANGED <<tier, issues, reporter>>
    BY <1>2 DEF FindUser, FindGames, Count, Refund, RunListGames, RunKitTool, ReportBegin, db
  <2>2. call \in [Calls -> Call] /\ call[c] \in Call /\ Idle.at = "idle"
    BY IdleType DEF CallInv, TypeOK
  <2>3. \A d \in Calls \ {c} : call'[d] = call[d]
    BY <2>2, HandleEffect DEF Effect, Moves, Leaves, NoAnswer, Answers, Answer, Counts, Refund
  <2>4. \A error : \A snap : End(c, error, snap) => call'[c].at \notin InTransaction
    BY EndLeaves
  <2>5. \A error : \A snap : Answer(c, error, snap) => call'[c].at \notin InTransaction
    BY <2>2 DEF Answer, InTransaction
  <2>6. NoAnswer(c) => call'[c].at \notin InTransaction
    BY <2>2 DEF NoAnswer, InTransaction
  <2>7. call'[c].at \notin InTransaction
    <3>1. ASSUME NEW q, call' = [call EXCEPT ![c] = q], q.at \in {"user", "count", "run", "report"}
          PROVE  call'[c].at \notin InTransaction
      BY <2>2, <3>1 DEF InTransaction
    <3>2. CASE FindUser(c)
      <4>1. [call[c] EXCEPT !.at = "user", !.tier = tier[call[c].user]].at = "user"
        BY <2>2 DEF Call
      <4> QED
        BY <2>6, <3>1, <3>2, <4>1 DEF FindUser
    <3>3. CASE FindGames(c)
      <4>1. \A games : [call[c] EXCEPT !.at = "count", !.games = games, !.day = Today].at = "count"
        BY <2>2 DEF Call
      <4> QED
        BY <2>5, <2>6, <3>1, <3>3, <4>1 DEF FindGames
    <3>4. CASE Count(c)
      <4>1. [call[c] EXCEPT !.at = "run", !.counted = TRUE].at = "run"
        BY <2>2 DEF Call
      <4> QED
        BY <2>5, <2>6, <3>1, <3>4, <4>1 DEF Count
    <3>5. CASE Refund(c)
      BY <2>2, <3>5 DEF Refund, InTransaction
    <3>6. CASE RunListGames(c) \/ RunKitTool(c)
      BY <2>4, <3>6 DEF RunListGames, RunKitTool
    <3>7. CASE ReportBegin(c)
      <4>1. [call[c] EXCEPT !.at = "report", !.began = clock].at = "report"
        BY <2>2 DEF Call
      <4> QED
        BY <2>4, <3>1, <3>7, <4>1 DEF ReportBegin
    <3> QED
      BY <1>2, <3>2, <3>3, <3>4, <3>5, <3>6, <3>7
  <2> QED
    BY <2>1, <2>3, <2>7, FewerReports
<1> QED
  BY <1>1, <1>2 DEF Handle

LEMMA AsideReports == ASSUME CallInv, Reporting, StepAside PROVE Reporting'
<1>1. UNCHANGED <<call, reporter>>
  <2>1. PICK u : u \in Users
    BY ToolCallsAssumption
  <2> QED
    BY <2>1, AsideKeeps
<1>2. \A u \in Users : tier'[u] # "gone" => tier[u] # "gone"
  BY AsideKeeps
<1>3. issues' \subseteq issues
  BY DEF StepAside, vars, db, Settle, Beside, ChangeTier, Toggle, Upload, Delete, Tick
<1>4. \A c \in Calls : call[c].user \in Users
  BY DEF CallInv, TypeOK, Call
<1> QED
  BY <1>1, <1>2, <1>3, <1>4, FewerReports

LEMMA NextReports == ASSUME CallInv, Reporting, [Next]_vars PROVE Reporting'
<1>1. ASSUME NEW c \in Calls, Handle(c) PROVE Reporting'
  BY <1>1, HandleReports
<1>2. ASSUME NEW c \in Calls, Receive(c) PROVE Reporting'
  <2>1. call'[c].at = "received" /\ \A d \in Calls \ {c} : call'[d] = call[d]
    BY <1>2, IdleType DEF Receive, CallInv, TypeOK, Call
  <2> QED
    BY <1>2, <2>1, FewerReports DEF Receive, db, InTransaction
<1>3. CASE StepAside
  BY <1>3, AsideReports
<1>4. CASE Crash
  <2>1. \A c \in Calls : call'[c].at \notin InTransaction
    BY <1>4, IdleType DEF Crash, InTransaction
  <2> QED
    BY <1>4, <2>1, FewerReports DEF Crash, db
<1> QED
  BY <1>1, <1>2, <1>3, <1>4, NextCases

LEMMA ReportsAreKept == Spec => []Reporting
<1>1. Init => Reporting
  <2> SUFFICES ASSUME Init PROVE Reporting
    OBVIOUS
  <2>1. issues = {} /\ \A c \in Calls : call[c].at = "idle"
    BY IdleType DEF Init
  <2>2. \A u : \A t : ReportedIn(u, t) = {}
    BY <2>1 DEF ReportedIn, Reports, Window
  <2>3. Cardinality({}) = 0 /\ IsFiniteSet({}) /\ MaxReports \in Nat
    BY FS_EmptySet, ToolCallsAssumption
  <2> QED
    BY <2>1, <2>2, <2>3 DEF Reporting, CountHolds, InTransaction
<1>2. CallInv /\ Reporting /\ [Next]_vars => Reporting'
  BY NextReports
<1> QED
  BY <1>1, <1>2, CallsAreKept, PTL DEF Spec

(* What a user may do in a day stays within its limits: the calls of a day     *)
(* within the cap, and the reports of any 24 hours within theirs, however many *)
(* are in flight and however long one waited for the lock since it began.      *)
THEOREM LimitsAreKept == Spec => []LimitsHold
<1>1. CallInv /\ Reporting => ReportsLimited
  <2> SUFFICES ASSUME CallInv, Reporting, NEW u \in Users, NEW t \in 0 .. clock
               PROVE  Cardinality({r \in Reports(u, t) : r.at <= t}) <= MaxReports
    BY DEF ReportsLimited
  <2>1. t \in Nat
    BY DEF CallInv, TypeOK
  <2> QED
    BY <2>1 DEF Reporting, ReportedIn
<1>2. CapHolds /\ ReportsLimited => LimitsHold
  BY DEF LimitsHold
<1> QED
  BY <1>1, <1>2, CapsHold, CallsAreKept, ReportsAreKept, PTL

-----------------------------------------------------------------------------
(* The order of the events, and what a visit is.                               *)

\* The rows of events have times; they are finitely many.
EventRows ==
  /\ IsFiniteSet(DOMAIN events) /\ DOMAIN events \subseteq Nat
  /\ \A i \in DOMAIN events : events[i].at \in Nat

LEMMA LaterOrder ==
  ASSUME EventRows, NEW i \in DOMAIN events, NEW j \in DOMAIN events, NEW k \in DOMAIN events
  PROVE  /\ ~Later(i, i)
         /\ Later(i, j) => ~Later(j, i)
         /\ Later(i, j) /\ Later(j, k) => Later(i, k)
         /\ i = j \/ Later(i, j) \/ Later(j, i)
BY DEF EventRows, Later

\* A finite set with an order has an element that nothing is before.
LEMMA FirstOfOrder ==
  ASSUME NEW S, IsFiniteSet(S), S # {}, NEW R,
         \A i \in S : <<i, i>> \notin R,
         \A i, j, k \in S : <<i, j>> \in R /\ <<j, k>> \in R => <<i, k>> \in R
  PROVE  \E m \in S : \A j \in S : <<j, m>> \notin R
<1> DEFINE Before(i) == {j \in S : <<j, i>> \in R}
           T == {Before(i) : i \in S}
<1>1. T \subseteq FiniteSubsetsOf(S) /\ T # {}
  <2>1. FiniteSubsetsOf(S) = SUBSET S
    BY FS_FiniteSubsetsOfFinite
  <2>2. \A i \in S : Before(i) \in SUBSET S
    OBVIOUS
  <2> HIDE DEF Before
  <2> QED
    BY <2>1, <2>2
<1>2. PICK x \in T : \A y \in T : ~(<<y, x>> \in StrictSubsetOrdering(S))
  <2>1. IsWellFoundedOn(StrictSubsetOrdering(S), FiniteSubsetsOf(S))
    BY FS_StrictSubsetOrderingWellFounded
  <2> HIDE DEF T
  <2> QED
    BY <1>1, <2>1, WFMin
<1>3. PICK m \in S : x = Before(m)
  BY <1>2
<1>4. ASSUME NEW j \in S, <<j, m>> \in R PROVE FALSE
  <2>1. Before(j) \subseteq Before(m) /\ j \in Before(m) /\ j \notin Before(j)
    BY <1>4
  <2>2. Before(j) \in T
    OBVIOUS
  <2>3. <<Before(j), Before(m)>> \in StrictSubsetOrdering(S)
    <3>1. Before(j) \in SUBSET S /\ Before(m) \in SUBSET S /\ Before(j) # Before(m)
      BY <2>1
    <3> HIDE DEF Before
    <3> QED
      BY <2>1, <3>1 DEF StrictSubsetOrdering
  <2> QED
    BY <1>2, <1>3, <2>2, <2>3
<1> QED
  BY <1>4

LEMMA Newest1 ==
  ASSUME EventRows, NEW S \in SUBSET DOMAIN events, S # {}
  PROVE  \E m \in S : \A j \in S : j = m \/ Later(m, j)
<1> DEFINE R == {p \in S \X S : Later(p[1], p[2])}
<1>1. IsFiniteSet(S)
  BY FS_Subset DEF EventRows
<1>2. \A i, j \in S : <<i, j>> \in R <=> Later(i, j)
  OBVIOUS
<1> HIDE DEF R
<1>3. \E m \in S : \A j \in S : <<j, m>> \notin R
  <2>1. \A i \in S : <<i, i>> \notin R
    BY <1>2, LaterOrder
  <2>2. \A i, j, k \in S : <<i, j>> \in R /\ <<j, k>> \in R => <<i, k>> \in R
    BY <1>2, LaterOrder
  <2> QED
    BY <1>1, <2>1, <2>2, FirstOfOrder
<1> QED
  BY <1>2, <1>3, LaterOrder

LEMMA Oldest1 ==
  ASSUME EventRows, NEW S \in SUBSET DOMAIN events, S # {}
  PROVE  \E m \in S : \A j \in S : j = m \/ Later(j, m)
<1> DEFINE R == {p \in S \X S : Later(p[2], p[1])}
<1>1. IsFiniteSet(S)
  BY FS_Subset DEF EventRows
<1>2. \A i, j \in S : <<i, j>> \in R <=> Later(j, i)
  OBVIOUS
<1> HIDE DEF R
<1>3. \E m \in S : \A j \in S : <<j, m>> \notin R
  <2>1. \A i \in S : <<i, i>> \notin R
    BY <1>2, LaterOrder
  <2>2. \A i, j, k \in S : <<i, j>> \in R /\ <<j, k>> \in R => <<i, k>> \in R
    BY <1>2, LaterOrder
  <2> QED
    BY <1>1, <2>1, <2>2, FirstOfOrder
<1> QED
  BY <1>2, <1>3, LaterOrder

\* The gap after a call is the one to the call that follows it.
LEMMA GapToNext ==
  ASSUME EventRows, NEW S \in SUBSET DOMAIN events, NEW j \in S, NEW k \in S, NEW now, Later(k, j),
         \A l \in S : Later(l, j) => l = k \/ Later(l, k)
  PROVE  Gap(S, j, now) <=> events[k].at - events[j].at > VisitGap
<1> DEFINE newer == {l \in S : Later(l, j)}
           x == CHOOSE l \in newer : \A q \in newer : q = l \/ Later(q, l)
<1>1. k \in newer /\ \A q \in newer : q = k \/ Later(q, k)
  OBVIOUS
<1>2. x \in newer /\ \A q \in newer : q = x \/ Later(q, x)
  BY <1>1
<1>3. x = k
  <2>1. x \in S
    BY <1>2
  <2> HIDE DEF x
  <2> QED
    BY <1>1, <1>2, <2>1, LaterOrder
<1>4. newer # {}
  BY <1>1
<1>5. Gap(S, j, now) <=> (IF newer = {} THEN now ELSE events[x].at) - events[j].at > VisitGap
  BY DEF Gap
<1> HIDE DEF x, newer
<1> QED
  BY <1>3, <1>4, <1>5

LEMMA GapToNow ==
  ASSUME NEW S, NEW j, NEW now, \A l \in S : ~Later(l, j)
  PROVE  Gap(S, j, now) <=> now - events[j].at > VisitGap
BY DEF Gap

\* A call starts a visit by the gap to the call before it.
LEMMA StartsAfter ==
  ASSUME EventRows, NEW S \in SUBSET DOMAIN events, NEW j \in S, NEW k \in S, Later(k, j),
         \A l \in S : Later(k, l) => l = j \/ Later(j, l)
  PROVE  Starts(S, k) <=> events[k].at - events[j].at > VisitGap
<1> DEFINE older == {l \in S : Later(k, l)}
           x == CHOOSE l \in older : \A q \in older : q = l \/ Later(l, q)
<1>1. j \in older /\ \A q \in older : q = j \/ Later(j, q)
  OBVIOUS
<1>2. x \in older /\ \A q \in older : q = x \/ Later(x, q)
  BY <1>1
<1>3. x = j
  <2>1. x \in S
    BY <1>2
  <2> HIDE DEF x
  <2> QED
    BY <1>1, <1>2, <2>1, LaterOrder
<1>4. older # {}
  BY <1>1
<1>5. Starts(S, k) <=> older = {} \/ events[k].at - events[x].at > VisitGap
  BY DEF Starts
<1> HIDE DEF x, older
<1> QED
  BY <1>3, <1>4, <1>5

-----------------------------------------------------------------------------
(* The walk back from now and the count from the first call find one visit.    *)

\* The calls that no gap is after, up to now.
Unbroken(S, now) == {i \in S : \A j \in S : (j = i \/ Later(j, i)) => ~Gap(S, j, now)}

\* There is no gap from i on, before the newest, exactly when no visit starts after i.
LEMMA GapIsStart ==
  ASSUME EventRows, NEW S \in SUBSET DOMAIN events, NEW m \in S, \A j \in S : j = m \/ Later(m, j),
         NEW i \in S, NEW now
  PROVE  (\E j \in S : (j = i \/ Later(j, i)) /\ j # m /\ Gap(S, j, now)) <=> (\E k \in S : Later(k, i) /\ Starts(S, k))
<1>1. ASSUME NEW j \in S, j = i \/ Later(j, i), j # m, Gap(S, j, now)
      PROVE  \E k \in S : Later(k, i) /\ Starts(S, k)
  <2> DEFINE newer == {l \in S : Later(l, j)}
  <2>1. m \in newer
    BY <1>1
  <2>2. PICK k \in newer : \A l \in newer : l = k \/ Later(l, k)
    BY <2>1, Oldest1
  <2>3. events[k].at - events[j].at > VisitGap
    BY <1>1, <2>2, GapToNext
  <2>4. \A l \in S : Later(k, l) => l = j \/ Later(j, l)
    BY <2>2, LaterOrder
  <2>5. Starts(S, k)
    BY <2>2, <2>3, <2>4, StartsAfter
  <2>6. Later(k, i)
    BY <1>1, <2>2, LaterOrder
  <2> QED
    BY <2>2, <2>5, <2>6
<1>2. ASSUME NEW k \in S, Later(k, i), Starts(S, k)
      PROVE  \E j \in S : (j = i \/ Later(j, i)) /\ j # m /\ Gap(S, j, now)
  <2> DEFINE older == {l \in S : Later(k, l)}
  <2>1. i \in older
    BY <1>2
  <2>2. PICK j \in older : \A l \in older : l = j \/ Later(j, l)
    BY <2>1, Newest1
  <2>3. events[k].at - events[j].at > VisitGap
    BY <1>2, <2>2, StartsAfter
  <2>4. \A l \in S : Later(l, j) => l = k \/ Later(l, k)
    BY <2>2, LaterOrder
  <2>5. Gap(S, j, now)
    BY <2>2, <2>3, <2>4, GapToNext
  <2>6. j # m
    BY <2>2, LaterOrder
  <2>7. j = i \/ Later(j, i)
    BY <2>1, <2>2
  <2> QED
    BY <2>2, <2>5, <2>6, <2>7
<1> QED
  BY <1>1, <1>2

\* Two calls are of one visit exactly when none starts after the older one.
LEMMA SameVisit ==
  ASSUME EventRows, NEW S \in SUBSET DOMAIN events, NEW m \in S, \A j \in S : j = m \/ Later(m, j), NEW i \in S
  PROVE  Visit(S, i) = Visit(S, m) <=> ~\E k \in S : Later(k, i) /\ Starts(S, k)
<1> DEFINE upTo(a) == {j \in S : Starts(S, j) /\ (j = a \/ Later(a, j))}
<1>1. upTo(i) \subseteq upTo(m)
  BY LaterOrder
<1>2. IsFiniteSet(upTo(m))
  BY FS_Subset DEF EventRows
<1>3. Cardinality(upTo(i)) = Cardinality(upTo(m)) <=> upTo(i) = upTo(m)
  <2> HIDE DEF upTo
  <2> QED
    BY <1>1, <1>2, FS_Subset
<1>4. upTo(i) = upTo(m) <=> ~\E k \in S : Later(k, i) /\ Starts(S, k)
  BY LaterOrder
<1> HIDE DEF upTo
<1>5. Visit(S, i) = Cardinality(upTo(i)) /\ Visit(S, m) = Cardinality(upTo(m))
  BY DEF Visit, upTo
<1> QED
  BY <1>3, <1>4, <1>5

\* The newest calls of a set that holds every call later than one of its own.
LEMMA NewestAreUpward ==
  ASSUME EventRows, NEW S \in SUBSET DOMAIN events, NEW n \in Nat, NEW i \in NewestOf(S, n), NEW j \in S, Later(j, i)
  PROVE  j \in NewestOf(S, n)
<1> DEFINE later(a) == {k \in S : Later(k, a)}
<1>1. later(j) \subseteq later(i)
  BY LaterOrder DEF NewestOf
<1>2. IsFiniteSet(later(i)) /\ IsFiniteSet(later(j))
  BY FS_Subset DEF EventRows
<1> HIDE DEF later
<1>3. Cardinality(later(j)) <= Cardinality(later(i)) /\ Cardinality(later(i)) \in Nat /\ Cardinality(later(j)) \in Nat
  BY <1>1, <1>2, FS_Subset, FS_CardinalityType
<1>4. Cardinality(later(i)) < n
  BY DEF NewestOf, later
<1>5. Cardinality(later(j)) < n
  BY <1>3, <1>4
<1> QED
  BY <1>5 DEF NewestOf, later

\* A gap among the newest is a gap among all.
LEMMA GapAmongNewest ==
  ASSUME EventRows, NEW S \in SUBSET DOMAIN events, NEW n \in Nat, NEW j \in NewestOf(S, n), NEW now
  PROVE  Gap(NewestOf(S, n), j, now) <=> Gap(S, j, now)
<1>1. {k \in NewestOf(S, n) : Later(k, j)} = {k \in S : Later(k, j)}
  BY NewestAreUpward DEF NewestOf
<1> QED
  BY <1>1 DEF Gap

LEMMA WalkBack ==
  ASSUME EventRows, NEW S \in SUBSET DOMAIN events, NEW n \in Nat, NEW now
  PROVE  Unbroken(NewestOf(S, n), now) = NewestOf(Unbroken(S, now), n)
<1> DEFINE N == NewestOf(S, n)
           V == Unbroken(S, now)
<1>1. Unbroken(N, now) = N \cap V
  <2>1. N \subseteq S
    BY DEF NewestOf
  <2>2. ASSUME NEW i \in N
        PROVE  i \in Unbroken(N, now) <=> i \in V
    <3>1. \A j \in S : (j = i \/ Later(j, i)) => j \in N
      BY <2>2, NewestAreUpward
    <3>2. \A j \in N : Gap(N, j, now) <=> Gap(S, j, now)
      BY GapAmongNewest
    <3> HIDE DEF N
    <3> QED
      BY <2>1, <2>2, <3>1, <3>2 DEF Unbroken
  <2> HIDE DEF N, V
  <2> QED
    BY <2>2 DEF Unbroken
<1>2. NewestOf(V, n) = N \cap V
  <2>1. V \subseteq S
    BY DEF Unbroken
  <2>2. ASSUME NEW i \in V PROVE {j \in V : Later(j, i)} = {j \in S : Later(j, i)}
    BY <2>2, LaterOrder DEF Unbroken
  <2> HIDE DEF V
  <2> QED
    BY <2>1, <2>2 DEF NewestOf
<1> QED
  BY <1>1, <1>2

\* The visits that go on: at most the one of the newest call.
LEMMA CurrentVisit ==
  ASSUME TypeOK, EventRows, NEW u \in Users
  PROVE  LET S == IndexesOf(u, clock)
             current == {V \in Visits(u, 0, clock + 1) : \E i \in V : clock - events[i].at <= VisitGap
                                                           /\ \A j \in S : j = i \/ Later(i, j)}
         IN  UNION current = Unbroken(S, clock)
<1> DEFINE S == IndexesOf(u, clock)
           visit(n) == {i \in S : Visit(S, i) = n}
           goesOn(V) == \E i \in V : clock - events[i].at <= VisitGap /\ \A j \in S : j = i \/ Later(i, j)
           current == {V \in Visits(u, 0, clock + 1) : goesOn(V)}
<1>1. S \in SUBSET DOMAIN events /\ clock \in Nat /\ \A i \in S : events[i].at \in Nat
  BY DEF IndexesOf, TypeOK, EventRows
<1>2. Visits(u, 0, clock + 1) = {visit(n) : n \in {Visit(S, i) : i \in S}}
  <2>1. {i \in DOMAIN events : events[i].user = u /\ 0 <= events[i].at /\ events[i].at < clock + 1} = S
    BY <1>1 DEF IndexesOf, EventRows
  <2> QED
    BY <2>1 DEF Visits
<1> SUFFICES UNION current = Unbroken(S, clock)
  OBVIOUS
<1> HIDE DEF S
<1>3. CASE S = {}
  <2>1. Visits(u, 0, clock + 1) = {}
    BY <1>2, <1>3
  <2> QED
    BY <1>3, <2>1 DEF Unbroken
<1>4. CASE S # {}
  <2>1. PICK m \in S : \A j \in S : j = m \/ Later(m, j)
    BY <1>1, <1>4, Newest1
  <2>2. \A i \in S : (\A j \in S : j = i \/ Later(i, j)) => i = m
    BY <1>1, <2>1, LaterOrder
  <2>3. Gap(S, m, clock) <=> clock - events[m].at > VisitGap
    <3>1. \A l \in S : ~Later(l, m)
      BY <1>1, <2>1, LaterOrder
    <3> QED
      BY <3>1, GapToNow
  <2>4. visit(Visit(S, m)) \in Visits(u, 0, clock + 1) /\ m \in visit(Visit(S, m))
    BY <1>2
  <2>5. \A V \in Visits(u, 0, clock + 1) : V \subseteq S /\ (m \in V => V = visit(Visit(S, m)))
    BY <1>2
  <2>6. \A V \in current : ~Gap(S, m, clock) /\ V = visit(Visit(S, m))
    <3> SUFFICES ASSUME NEW V \in current PROVE ~Gap(S, m, clock) /\ V = visit(Visit(S, m))
      OBVIOUS
    <3>1. PICK i \in V : clock - events[i].at <= VisitGap /\ \A j \in S : j = i \/ Later(i, j)
      OBVIOUS
    <3>2. V \in Visits(u, 0, clock + 1)
      OBVIOUS
    <3> HIDE DEF current, visit
    <3>3. i = m
      BY <2>2, <2>5, <3>1, <3>2
    <3>4. ~(clock - events[m].at > VisitGap)
      BY <1>1, <3>1, <3>3, ToolCallsAssumption
    <3> QED
      BY <2>3, <2>5, <3>1, <3>2, <3>3, <3>4
  <2>7. ~Gap(S, m, clock) => visit(Visit(S, m)) \in current
    <3>1. ~Gap(S, m, clock) => clock - events[m].at <= VisitGap
      BY <1>1, <2>3, ToolCallsAssumption
    <3> HIDE DEF visit
    <3> QED
      BY <2>1, <2>4, <3>1
  <2>8. \A i \in S : i \in Unbroken(S, clock) <=> ~Gap(S, m, clock) /\ i \in visit(Visit(S, m))
    <3> SUFFICES ASSUME NEW i \in S PROVE i \in Unbroken(S, clock) <=> ~Gap(S, m, clock) /\ Visit(S, i) = Visit(S, m)
      OBVIOUS
    <3>1. i \in Unbroken(S, clock) <=>
            ~Gap(S, m, clock) /\ ~\E j \in S : (j = i \/ Later(j, i)) /\ j # m /\ Gap(S, j, clock)
      BY <2>1 DEF Unbroken
    <3>2. (\E j \in S : (j = i \/ Later(j, i)) /\ j # m /\ Gap(S, j, clock)) <=> \E k \in S : Later(k, i) /\ Starts(S, k)
      BY <1>1, <2>1, GapIsStart
    <3>3. Visit(S, i) = Visit(S, m) <=> ~\E k \in S : Later(k, i) /\ Starts(S, k)
      BY <1>1, <2>1, SameVisit
    <3> QED
      BY <3>1, <3>2, <3>3
  <2>9. Unbroken(S, clock) \subseteq S /\ visit(Visit(S, m)) \subseteq S
    BY DEF Unbroken
  <2> HIDE DEF current, visit
  <2>10. CASE Gap(S, m, clock)
    BY <2>6, <2>8, <2>9, <2>10
  <2>11. CASE ~Gap(S, m, clock)
    <3>1. current = {visit(Visit(S, m))}
      BY <2>6, <2>7, <2>11
    <3> QED
      BY <2>8, <2>9, <2>11, <3>1
  <2> QED
    BY <2>10, <2>11
<1> QED
  BY <1>3, <1>4

LEMMA OneVisit ==
  ASSUME TypeOK, EventRows
  PROVE  VisitsAgree
<1> SUFFICES ASSUME NEW u \in Users
             PROVE  LET current == {V \in Visits(u, 0, clock + 1) : \E i \in V : clock - events[i].at <= VisitGap
                                                           /\ \A j \in IndexesOf(u, clock) : j = i \/ Later(i, j)}
                    IN  VisitCalls(u, clock) = NewestOf(UNION current, ReportCalls)
  BY DEF VisitsAgree
<1> DEFINE S == IndexesOf(u, clock)
<1>1. S \in SUBSET DOMAIN events /\ ReportCalls \in Nat
  BY ToolCallsAssumption DEF IndexesOf
<1>2. VisitCalls(u, clock) = Unbroken(NewestOf(S, ReportCalls), clock)
  BY DEF VisitCalls, Unbroken
<1>3. VisitCalls(u, clock) = NewestOf(Unbroken(S, clock), ReportCalls)
  BY <1>1, <1>2, WalkBack
<1> QED
  BY <1>3, CurrentVisit

LEMMA RecordRows ==
  ASSUME CallInv, \A row \in pending : row.at \in Nat, NEW c \in Calls, NEW error, NEW snap, Record(Row(c, error, snap))
  PROVE  \A row \in pending' : row.at \in Nat
<1>1. call[c].occurred \in Nat
  BY DEF CallInv, TypeOK, Call
<1>2. Row(c, error, snap).at \in Nat
  BY <1>1 DEF Row
<1> QED
  BY <1>2 DEF Record

\* The rows of events stay finitely many, with the times of their calls.
LEMMA EventRowsKept ==
  ASSUME CallInv, EventRows, \A row \in pending : row.at \in Nat, [Next]_vars
  PROVE  EventRows' /\ \A row \in pending' : row.at \in Nat
<1>1. ASSUME UNCHANGED events PROVE EventRows'
  BY <1>1 DEF EventRows
<1>2. ASSUME NEW c \in Calls, Handle(c) PROVE EventRows' /\ \A row \in pending' : row.at \in Nat
  <2>1. UNCHANGED events /\ Effect(c)
    BY <1>2, HandleFrame, HandleEffect
  <2>2. CASE UNCHANGED pending
    BY <1>1, <2>1, <2>2
  <2>3. ASSUME NEW error, NEW snap, Record(Row(c, error, snap)) PROVE \A row \in pending' : row.at \in Nat
    BY <2>3, RecordRows
  <2> QED
    BY <1>1, <2>1, <2>2, <2>3 DEF Effect, Moves, Leaves, NoAnswer, Answers, Answer, Counts, Refund, recorder
<1>3. ASSUME NEW c \in Calls, Receive(c) PROVE EventRows' /\ \A row \in pending' : row.at \in Nat
  BY <1>1, <1>3 DEF Receive, db, recorder
<1>4. ASSUME NEW row \in pending, Settle(row) PROVE EventRows' /\ \A r \in pending' : r.at \in Nat
  <2>1. \A r \in pending' : r.at \in Nat
    BY <1>4 DEF Settle
  <2>2. CASE Insert(row)
    <3> DEFINE id == seen.inserted + 1
    <3>1. id \in Nat
      BY DEF CallInv, TypeOK
    <3> HIDE DEF id
    <3>2. events' = [i \in DOMAIN events \cup {id} |-> IF i = id THEN row ELSE events[i]]
      BY <2>2 DEF Insert, id
    <3>3. DOMAIN events' = DOMAIN events \cup {id} /\ \A i \in DOMAIN events' : events'[i].at \in Nat
      BY <3>2 DEF EventRows
    <3>4. IsFiniteSet(DOMAIN events \cup {id})
      BY FS_AddElement DEF EventRows
    <3> QED
      BY <2>1, <3>1, <3>3, <3>4 DEF EventRows
  <2>3. CASE UNCHANGED events
    BY <1>1, <2>1, <2>3
  <2> QED
    BY <1>4, <2>2, <2>3 DEF Settle
<1>5. ASSUME NEW u \in Users, NEW account \in BOOLEAN, Delete(u, account) PROVE EventRows' /\ \A row \in pending' : row.at \in Nat
  <2>1. events' = [i \in OthersThan(u) |-> events[i]] /\ UNCHANGED pending
    BY <1>5 DEF Delete, recorder
  <2>2. OthersThan(u) \in SUBSET DOMAIN events
    BY DEF OthersThan
  <2>3. IsFiniteSet(OthersThan(u))
    BY <2>2, FS_Subset DEF EventRows
  <2> QED
    BY <2>1, <2>2, <2>3 DEF EventRows
<1>6. CASE Crash
  BY <1>1, <1>6 DEF Crash, db
<1>7. CASE (\E u \in Users : Beside(u)) \/ Tick \/ UNCHANGED vars
  BY <1>1, <1>7 DEF Beside, ChangeTier, Toggle, Upload, Tick, vars, db, recorder
<1> QED
  BY <1>2, <1>3, <1>4, <1>5, <1>6, <1>7, NextCases DEF StepAside

(* The calls a report attaches are the newest of the visit that the admin page  *)
(* shows as going on, whatever order their rows were stored in.                 *)
THEOREM VisitsAreOne == Spec => []VisitsAgree
<1>1. Init => EventRows /\ \A row \in pending : row.at \in Nat
  BY FS_EmptySet DEF Init, EventRows
<1>2. CallInv /\ EventRows /\ (\A row \in pending : row.at \in Nat) /\ [Next]_vars
        => EventRows' /\ (\A row \in pending : row.at \in Nat)'
  BY EventRowsKept
<1>3. CallInv /\ EventRows => VisitsAgree
  BY OneVisit DEF CallInv
<1> QED
  BY <1>1, <1>2, <1>3, CallsAreKept, PTL DEF Spec

-----------------------------------------------------------------------------
(* A kit's tool cuts its result to the cap. What the recursions of Results give *)
(* is had of the least number at which they would not.                         *)

\* Every set of natural numbers but the empty one has a least.
LEMMA LeastNumber ==
  ASSUME NEW S \in SUBSET Nat, S # {}
  PROVE  \E n \in S : \A m \in S : n <= m
<1> DEFINE R == {ss \in Nat \X Nat : ss[1] < ss[2]}
<1>1. IsWellFoundedOn(R, Nat)
  BY NatLessThanWellFounded DEF OpToRel
<1>2. \E x \in S : \A y \in S : ~(<<y, x>> \in R)
  <2> HIDE DEF R
  <2> QED
    BY <1>1, WFMin
<1>3. PICK n \in S : \A m \in S : ~(<<m, n>> \in R)
  BY <1>2
<1>4. ASSUME NEW m \in S PROVE n <= m
  <2>1. n \in Nat /\ m \in Nat
    OBVIOUS
  <2>2. ~(m < n)
    BY <1>3, <2>1
  <2> QED
    BY <2>1, <2>2
<1> QED
  BY <1>4

\* What holds at 0, and one up from each number up to N, holds up to N. The set
\* S is where it holds.
LEMMA UpTo ==
  ASSUME NEW N \in Nat, NEW S, 0 \in S, \A n \in 0..N - 1 : n \in S => n + 1 \in S
  PROVE  0..N \subseteq S
<1> SUFFICES ASSUME ~(0..N \subseteq S) PROVE FALSE
  OBVIOUS
<1> DEFINE T == {n \in 0..N : n \notin S}
<1>1. PICK n \in T : \A m \in T : n <= m
  <2>1. T \in SUBSET Nat /\ T # {}
    OBVIOUS
  <2> HIDE DEF T
  <2> QED
    BY <2>1, LeastNumber
<1>2. n \in 1..N /\ n \notin S
  BY <1>1
<1>3. n - 1 \in 0..N - 1 /\ (n - 1) + 1 = n
  BY <1>2
<1>4. n - 1 \in S
  <2>1. n - 1 \notin T
    BY <1>1, <1>3
  <2> QED
    BY <1>3, <2>1
<1> QED
  BY <1>2, <1>3, <1>4

\* The sums of a list's parts are what the recursion says.
LEMMA SumsAre ==
  ASSUME NEW sizes \in Seq(Nat)
  PROVE  /\ Sums(sizes) \in [0..Len(sizes) -> Nat]
         /\ Sums(sizes)[0] = 0
         /\ \A n \in 1..Len(sizes) : Sums(sizes)[n] = Sums(sizes)[n - 1] + sizes[n]
<1> DEFINE L == Len(sizes)
           Rec(f) == [n \in 0..L |-> IF n = 0 THEN 0 ELSE f[n - 1] + sizes[n]]
           Good(f, k) == f \in [0..k -> Nat] /\ f[0] = 0 /\ \A n \in 1..k : f[n] = f[n - 1] + sizes[n]
           S == {k \in 0..L : \E f : Good(f, k)}
<1>1. L \in Nat /\ \A n \in 1..L : sizes[n] \in Nat
  OBVIOUS
<1> HIDE DEF L
<1>2. 0 \in S
  <2>1. Good([n \in 0..0 |-> 0], 0)
    OBVIOUS
  <2>2. 0 \in 0..L
    BY <1>1
  <2> HIDE DEF Good
  <2> QED
    BY <2>1, <2>2
<1>3. ASSUME NEW k \in 0..L - 1, k \in S PROVE k + 1 \in S
  <2>1. PICK f : Good(f, k)
    BY <1>3
  <2> DEFINE g == [n \in 0..k + 1 |-> IF n = k + 1 THEN f[k] + sizes[k + 1] ELSE f[n]]
  <2>2. f[k] \in Nat /\ sizes[k + 1] \in Nat
    BY <1>1, <2>1
  <2>3. g \in [0..k + 1 -> Nat]
    BY <2>1, <2>2
  <2>4. g[0] = 0
    BY <2>1
  <2>5. ASSUME NEW n \in 1..k + 1 PROVE g[n] = g[n - 1] + sizes[n]
    <3>1. CASE n = k + 1
      BY <3>1
    <3>2. CASE n # k + 1
      <4>1. n \in 1..k /\ n - 1 \in 0..k
        BY <3>2
      <4> QED
        BY <2>1, <4>1
    <3> QED
      BY <3>1, <3>2
  <2>6. Good(g, k + 1)
    <3> HIDE DEF g
    <3> QED
      BY <2>3, <2>4, <2>5
  <2>7. k + 1 \in 0..L
    BY <1>1
  <2> HIDE DEF Good
  <2> QED
    BY <2>6, <2>7
<1>4. PICK f : Good(f, L)
  <2>1. 0..L \subseteq S
    <3> HIDE DEF S
    <3> QED
      BY <1>1, <1>2, <1>3, UpTo
  <2>2. L \in 0..L
    BY <1>1
  <2> QED
    BY <2>1, <2>2
<1>5. f = Rec(f)
  <2>1. \A n \in 0..L : f[n] = IF n = 0 THEN 0 ELSE f[n - 1] + sizes[n]
    BY <1>1, <1>4
  <2> QED
    BY <1>4, <2>1
<1>6. Sums(sizes) = CHOOSE g : g = Rec(g)
  BY DEF Sums, L
<1>7. Sums(sizes) = Rec(Sums(sizes))
  <2> HIDE DEF Rec
  <2> QED
    BY <1>5, <1>6
<1> DEFINE s == Sums(sizes)
<1> HIDE DEF s
<1>8. s \in [0..L -> Nat] /\ s[0] = 0 /\ \A n \in 1..L : s[n] = s[n - 1] + sizes[n]
  <2>1. \A n \in 0..L : s[n] = IF n = 0 THEN 0 ELSE s[n - 1] + sizes[n]
    BY <1>7 DEF s
  <2>2. s[0] = 0 /\ \A n \in 1..L : s[n] = s[n - 1] + sizes[n]
    BY <1>1, <2>1
  <2> DEFINE T == {n \in 0..L : s[n] \in Nat}
  <2>3. 0 \in T
    BY <1>1, <2>2
  <2>4. ASSUME NEW n \in 0..L - 1, n \in T PROVE n + 1 \in T
    <3>1. n + 1 \in 1..L /\ (n + 1) - 1 = n
      BY <1>1
    <3> QED
      BY <1>1, <2>2, <2>4, <3>1
  <2>5. 0..L \subseteq T
    <3> HIDE DEF T
    <3> QED
      BY <1>1, <2>3, <2>4, UpTo
  <2>6. s = [n \in 0..L |-> s[n]]
    BY <1>7 DEF s
  <2> QED
    BY <2>2, <2>5, <2>6
<1> QED
  BY <1>8 DEF s, L

\* Parts of c bytes or more each make a longer list at least that much longer.
LEMMA SumsGrow ==
  ASSUME NEW sizes \in Seq(Nat), NEW c \in Nat, \A n \in 1..Len(sizes) : sizes[n] >= c,
         NEW m \in 0..Len(sizes), NEW n \in 0..Len(sizes), m < n
  PROVE  Sums(sizes)[n] >= Sums(sizes)[m] + c
<1> DEFINE s == Sums(sizes)
           L == Len(sizes)
           S == {k \in 0..n - m - 1 : s[m + 1 + k] >= s[m] + c}
<1>1. /\ L \in Nat /\ \A k \in 0..L : s[k] \in Nat
      /\ \A k \in 1..L : s[k] = s[k - 1] + sizes[k] /\ sizes[k] \in Nat /\ sizes[k] >= c
  <2>1. s \in [0..L -> Nat] /\ \A k \in 1..L : s[k] = s[k - 1] + sizes[k]
    BY SumsAre
  <2>2. L \in Nat /\ \A k \in 1..L : sizes[k] \in Nat
    OBVIOUS
  <2> HIDE DEF s
  <2> QED
    BY <2>1, <2>2
<1>2. n - m - 1 \in Nat
  OBVIOUS
<1> HIDE DEF s, L
<1>3. 0 \in S
  <2>1. m + 1 \in 1..L /\ (m + 1) - 1 = m /\ m \in 0..L
    BY DEF L
  <2>2. s[m + 1] = s[m] + sizes[m + 1] /\ sizes[m + 1] >= c /\ s[m] \in Nat /\ sizes[m + 1] \in Nat
    BY <1>1, <2>1
  <2> QED
    BY <1>2, <2>2
<1>4. ASSUME NEW k \in 0..(n - m - 1) - 1, k \in S PROVE k + 1 \in S
  <2>1. m + 1 + (k + 1) \in 1..L /\ (m + 1 + (k + 1)) - 1 = m + 1 + k /\ m + 1 + k \in 0..L /\ m \in 0..L
    BY DEF L
  <2>2. s[m + 1 + (k + 1)] = s[m + 1 + k] + sizes[m + 1 + (k + 1)]
    BY <1>1, <2>1
  <2>3. s[m + 1 + k] \in Nat /\ sizes[m + 1 + (k + 1)] \in Nat /\ s[m] \in Nat
    BY <1>1, <2>1
  <2>4. s[m + 1 + k] >= s[m] + c
    BY <1>4
  <2> QED
    BY <1>2, <2>2, <2>3, <2>4
<1>5. n - m - 1 \in S
  <2>1. 0..n - m - 1 \subseteq S
    <3> HIDE DEF S
    <3> QED
      BY <1>2, <1>3, <1>4, UpTo
  <2>2. n - m - 1 \in 0..n - m - 1
    BY <1>2
  <2> HIDE DEF S
  <2> QED
    BY <2>1, <2>2
<1>6. m + 1 + (n - m - 1) = n
  OBVIOUS
<1> QED
  BY <1>5, <1>6 DEF s

\* The more of a list is summed, the more bytes.
LEMMA SumsRise ==
  ASSUME NEW sizes \in Seq(Nat), NEW m \in 0..Len(sizes), NEW n \in 0..Len(sizes), m < n
  PROVE  Sums(sizes)[n] >= Sums(sizes)[m]
<1>1. \A i \in 1..Len(sizes) : sizes[i] >= 0
  OBVIOUS
<1>2. Sums(sizes)[m] \in Nat /\ Sums(sizes)[n] \in Nat
  BY SumsAre
<1>3. Sums(sizes)[n] >= Sums(sizes)[m] + 0
  BY <1>1, SumsGrow
<1> QED
  BY <1>2, <1>3

-----------------------------------------------------------------------------
\* The search for the most that fits.

\* Every turn's bounds are what the recursion says.
LEMMA BoundsAre ==
  ASSUME NEW low \in Nat, NEW high \in Nat, low <= high, NEW fitting
  PROVE  LET b == Bounds(low, high, fitting)
         IN b[0] = <<low, high>> /\ \A k \in 1..high - low : b[k] = Narrowed(b[k - 1], fitting)
<1> DEFINE N == high - low
           Rec(f) == [k \in 0..N |-> IF k = 0 THEN <<low, high>> ELSE Narrowed(f[k - 1], fitting)]
           Good(f, n) == DOMAIN f = 0..n /\ f = [k \in 0..n |-> IF k = 0 THEN <<low, high>> ELSE Narrowed(f[k - 1], fitting)]
           S == {n \in 0..N : \E f : Good(f, n)}
<1>1. N \in Nat
  OBVIOUS
<1> HIDE DEF N
<1>2. 0 \in S
  <2>1. Good([k \in 0..0 |-> <<low, high>>], 0)
    <3> \A k \in 0..0 : k = 0
      OBVIOUS
    <3> QED
      BY Zenon
  <2>2. 0 \in 0..N
    BY <1>1
  <2> HIDE DEF Good
  <2> QED
    BY <2>1, <2>2
<1>3. ASSUME NEW n \in 0..N - 1, n \in S PROVE n + 1 \in S
  <2>1. PICK f : Good(f, n)
    BY <1>3
  <2> DEFINE g == [k \in 0..n + 1 |-> IF k = n + 1 THEN Narrowed(f[n], fitting) ELSE f[k]]
  <2>2. ASSUME NEW k \in 0..n + 1 PROVE g[k] = IF k = 0 THEN <<low, high>> ELSE Narrowed(g[k - 1], fitting)
    <3>1. CASE k = n + 1
      <4>1. k # 0 /\ k - 1 = n /\ n \in 0..n + 1 /\ n # n + 1
        BY <3>1
      <4> QED
        BY <3>1, <4>1
    <3>2. CASE k # n + 1
      <4>1. k \in 0..n /\ (k # 0 => k - 1 \in 0..n + 1 /\ k - 1 # n + 1)
        BY <3>2
      <4>2. f[k] = IF k = 0 THEN <<low, high>> ELSE Narrowed(f[k - 1], fitting)
        BY <2>1, <4>1
      <4> QED
        BY <3>2, <4>1, <4>2
    <3> QED
      BY <3>1, <3>2
  <2>3. Good(g, n + 1)
    <3>1. DOMAIN g = 0..n + 1 /\ g = [k \in 0..n + 1 |-> g[k]]
      OBVIOUS
    <3> HIDE DEF g
    <3> QED
      BY <2>2, <3>1
  <2>4. n + 1 \in 0..N
    BY <1>1
  <2> HIDE DEF Good
  <2> QED
    BY <2>3, <2>4
<1>4. PICK f : f = Rec(f)
  <2>1. 0..N \subseteq S
    <3> HIDE DEF S
    <3> QED
      BY <1>1, <1>2, <1>3, UpTo
  <2>2. N \in 0..N
    BY <1>1
  <2> QED
    BY <2>1, <2>2
<1>5. Bounds(low, high, fitting) = CHOOSE g : g = Rec(g)
  BY DEF Bounds, N
<1>6. Bounds(low, high, fitting) = Rec(Bounds(low, high, fitting))
  <2> HIDE DEF Rec
  <2> QED
    BY <1>4, <1>5
<1> DEFINE b == Bounds(low, high, fitting)
<1> HIDE DEF b
<1>7. \A k \in 0..N : b[k] = IF k = 0 THEN <<low, high>> ELSE Narrowed(b[k - 1], fitting)
  BY <1>6 DEF b
<1>8. b[0] = <<low, high>> /\ \A k \in 1..N : b[k] = Narrowed(b[k - 1], fitting)
  <2>1. 0 \in 0..N /\ \A k \in 1..N : k \in 0..N /\ k # 0
    BY <1>1
  <2> QED
    BY <1>7, <2>1
<1> QED
  BY <1>8 DEF b, N

\* Among counts of which a smaller one fits when a larger one does, the search
\* finds the largest that fits, or the first.
LEMMA MostFits ==
  ASSUME NEW low \in Nat, NEW high \in Nat, low <= high, NEW fitting,
         \A m, n \in low + 1..high : m < n /\ n \in fitting => m \in fitting
  PROVE  LET most == MostThatFit(low, high, fitting)
         IN /\ most \in low..high
            /\ most = low \/ most \in fitting
            /\ \A m \in most + 1..high : m \notin fitting
<1> DEFINE b == Bounds(low, high, fitting)
           N == high - low
           Right(p, k) == /\ p = <<p[1], p[2]>> /\ p[1] \in low..high /\ p[2] \in low..high /\ p[1] <= p[2]
                          /\ p[2] - p[1] <= N - k
                          /\ p[1] = low \/ p[1] \in fitting
                          /\ \A m \in p[2] + 1..high : m \notin fitting
           S == {k \in 0..N : Right(b[k], k)}
<1>1. N \in Nat /\ b[0] = <<low, high>> /\ \A k \in 1..N : b[k] = Narrowed(b[k - 1], fitting)
  BY BoundsAre
<1> HIDE DEF b
<1>2. 0 \in S
  BY <1>1
<1>3. ASSUME NEW k \in 0..N - 1, k \in S PROVE k + 1 \in S
  <2> DEFINE p == b[k]
             q == b[k + 1]
             mid == (p[1] + p[2] + 1) \div 2
  <2>1. Right(p, k)
    BY <1>3
  <2>2. q = Narrowed(p, fitting)
    <3>1. k + 1 \in 1..N /\ (k + 1) - 1 = k
      BY <1>1
    <3> QED
      BY <1>1, <3>1
  <2>3. k + 1 \in 0..N /\ N - (k + 1) \in Nat
    BY <1>1
  <2> HIDE DEF N, p, q
  <2>4. CASE p[1] >= p[2]
    <3>1. q = p
      BY <2>2, <2>4 DEF Narrowed
    <3>2. p[2] - p[1] <= N - (k + 1)
      BY <2>1, <2>3, <2>4, <1>1
    <3>3. Right(q, k + 1)
      BY <2>1, <3>1, <3>2
    <3> QED
      BY <2>3, <3>3 DEF q
  <2>5. CASE p[1] < p[2]
    <3>1. mid \in Int /\ p[1] < mid /\ mid <= p[2]
      BY <2>1, <2>5
    <3> HIDE DEF mid
    <3>2. CASE mid \in fitting
      <4>1. q = <<mid, p[2]>>
        BY <2>1, <2>2, <2>5, <3>2 DEF Narrowed, mid
      <4>2. Right(q, k + 1)
        BY <2>1, <2>3, <3>1, <3>2, <4>1, <1>1
      <4> QED
        BY <2>3, <4>2 DEF q
    <3>3. CASE mid \notin fitting
      <4>1. q = <<p[1], mid - 1>>
        BY <2>1, <2>2, <2>5, <3>3 DEF Narrowed, mid
      <4>2. ASSUME NEW m \in mid..high PROVE m \notin fitting
        BY <2>1, <3>1, <3>3
      <4>3. Right(q, k + 1)
        BY <2>1, <2>3, <3>1, <4>1, <4>2, <1>1
      <4> QED
        BY <2>3, <4>3 DEF q
    <3> QED
      BY <3>2, <3>3
  <2> QED
    BY <2>1, <2>4, <2>5
<1>4. Right(b[N], N)
  <2>1. 0..N \subseteq S
    <3> HIDE DEF S, N
    <3> QED
      BY <1>1, <1>2, <1>3, UpTo
  <2>2. N \in 0..N
    BY <1>1
  <2> QED
    BY <2>1, <2>2
<1>5. MostThatFit(low, high, fitting) = b[N][1]
  BY DEF MostThatFit, b
<1> HIDE DEF N
<1>6. b[N][1] = b[N][2]
  BY <1>1, <1>4
<1> QED
  BY <1>4, <1>5, <1>6

-----------------------------------------------------------------------------
\* The results' sizes.

\* A larger count has no fewer digits.
LEMMA DigitsGrow ==
  ASSUME NEW m \in Nat, NEW n \in Nat, m <= n
  PROVE  DigitCount(m) \in 1..10 /\ DigitCount(n) \in 1..10 /\ DigitCount(m) <= DigitCount(n)
<1> DEFINE D(a) == {k \in 1..9 : 10^k <= a}
<1>1. IsFiniteSet(1..9) /\ Cardinality(1..9) = 9
  <2>1. \A a, b \in Int : IsFiniteSet(a..b) /\ Cardinality(a..b) = IF a > b THEN 0 ELSE b - a + 1
    BY FS_Interval
  <2>2. IsFiniteSet(1..9) /\ Cardinality(1..9) = IF 1 > 9 THEN 0 ELSE 9 - 1 + 1
    <3> 1 \in Int /\ 9 \in Int
      OBVIOUS
    <3> QED
      BY <2>1, Zenon
  <2> QED
    BY <2>2
<1>2. \A k \in 1..9 : 10^k \in Int
  OBVIOUS
<1>3. D(m) \subseteq D(n) /\ D(n) \subseteq 1..9
  BY <1>2
<1> HIDE DEF D
<1>4. IsFiniteSet(D(n)) /\ Cardinality(D(n)) <= 9
  BY <1>1, <1>3, FS_Subset
<1>5. IsFiniteSet(D(m)) /\ Cardinality(D(m)) <= Cardinality(D(n))
  BY <1>3, <1>4, FS_Subset
<1>6. Cardinality(D(m)) \in Nat /\ Cardinality(D(n)) \in Nat
  BY <1>4, <1>5, FS_CardinalityType
<1> QED
  BY <1>4, <1>5, <1>6 DEF DigitCount, D

\* A longer count is told in no fewer bytes, and in nine more at most.
LEMMA CutSizes ==
  ASSUME NEW m \in Nat, NEW n \in Nat, NEW total \in Nat, m <= n
  PROVE  /\ CutSize(m, total) \in 42..60 /\ CutSize(n, total) \in 42..60
         /\ CutSize(m, total) <= CutSize(n, total) /\ CutSize(n, total) <= CutSize(m, total) + 9
<1>1. DigitCount(m) \in 1..10 /\ DigitCount(n) \in 1..10 /\ DigitCount(m) <= DigitCount(n)
  BY DigitsGrow
<1>2. DigitCount(total) \in 1..10
  BY DigitsGrow
<1> QED
  BY <1>1, <1>2 DEF CutSize

\* Beside what is told of the cut lists a note takes always the same.
LEMMA NoteSizes ==
  ASSUME NEW left
  PROVE  \E note, none \in Nat :
           /\ \A cuts \in 42..120 : NoteSize(left, cuts) = note + cuts
           /\ NoteSize(left, 0) = none
           /\ none = note \/ (~left /\ none = 0)
<1>1. CASE left
  <2>1. NoteSize(left, 0) = 153 /\ \A cuts \in 42..120 : NoteSize(left, cuts) = 153 + cuts
    BY <1>1 DEF NoteSize
  <2> WITNESS 153 \in Nat, 153 \in Nat
  <2> QED
    BY <2>1
<1>2. CASE ~left
  <2>1. NoteSize(left, 0) = 0 /\ \A cuts \in 42..120 : NoteSize(left, cuts) = 120 + cuts
    BY <1>2 DEF NoteSize
  <2> WITNESS 120 \in Nat, 0 \in Nat
  <2> QED
    BY <1>2, <2>1
<1> QED
  BY <1>1, <1>2

\* When a longer cut takes no fewer bytes, as long as it is cut, the search gives
\* the cut that leaves out least.
LEMMA SearchKeepsMost ==
  ASSUME NEW total \in Nat, NEW max \in Nat, NEW cuts, DOMAIN cuts = 0..total,
         \A n \in 0..total : cuts[n].size \in Nat,
         \A m, n \in 0..total - 1 : m < n => cuts[m].size <= cuts[n].size,
         NEW fitting, \A n \in 1..total : n \in fitting <=> cuts[n].size <= max
  PROVE  LET most == MostThatFit(0, total - 1, fitting)
         IN IF cuts[total].size <= max \/ total = 0 THEN BestCut(cuts[total], cuts, max)
            ELSE most \in 0..total - 1 /\ BestCut(cuts[most], cuts, max)
<1> DEFINE most == MostThatFit(0, total - 1, fitting)
<1>1. CASE cuts[total].size <= max \/ total = 0
  <2>1. total \in DOMAIN cuts /\ \A k \in DOMAIN cuts : ~(total < k)
    OBVIOUS
  <2>2. cuts[total].size <= max \/ \A k \in DOMAIN cuts : total <= k
    BY <1>1
  <2>3. BestCut(cuts[total], cuts, max)
    BY <2>1, <2>2 DEF BestCut
  <2> QED
    BY <1>1, <2>3
<1>2. CASE ~(cuts[total].size <= max) /\ total # 0
  <2>1. total - 1 \in Nat
    BY <1>2
  <2>2. \A m, n \in 0 + 1..total - 1 : m < n /\ n \in fitting => m \in fitting
    <3> TAKE m, n \in 0 + 1..total - 1
    <3>1. /\ m \in 0..total /\ n \in 0..total /\ m \in 1..total /\ n \in 1..total
          /\ m \in 0..total - 1 /\ n \in 0..total - 1
      OBVIOUS
    <3>2. cuts[m].size \in Nat /\ cuts[n].size \in Nat /\ (m < n => cuts[m].size <= cuts[n].size)
      BY <3>1
    <3> QED
      BY <3>1, <3>2
  <2>3. /\ most \in 0..total - 1
        /\ most = 0 \/ most \in fitting
        /\ \A m \in most + 1..total - 1 : m \notin fitting
    BY <2>1, <2>2, MostFits
  <2> HIDE DEF most
  <2>4. most \in DOMAIN cuts
    BY <2>3
  <2>5. cuts[most].size <= max \/ \A k \in DOMAIN cuts : most <= k
    <3>1. CASE most = 0
      BY <3>1
    <3>2. CASE most # 0
      BY <2>3, <3>2
    <3> QED
      BY <3>1, <3>2
  <2>6. ASSUME NEW k \in DOMAIN cuts, most < k PROVE cuts[k].size > max
    <3>1. k \in 1..total /\ cuts[k].size \in Nat
      BY <2>3, <2>6
    <3>2. CASE k = total
      BY <1>2, <3>1, <3>2
    <3>3. CASE k # total
      <4>1. k \in most + 1..total - 1
        BY <2>3, <2>6, <3>1, <3>3
      <4> QED
        BY <2>3, <3>1, <4>1
    <3> QED
      BY <3>2, <3>3
  <2>7. BestCut(cuts[most], cuts, max)
    BY <2>4, <2>5, <2>6 DEF BestCut
  <2> QED
    BY <1>2, <2>3, <2>7 DEF most
<1> QED
  BY <1>1, <1>2

\* wow_get_state's trim keeps the most that fits.
LEMMA StateTrims ==
  ASSUME NEW s, s.base \in Nat, s.descriptions \in Nat, s.items \in Seq(Nat), NEW max \in Nat
  PROVE  LET total == Len(s.items)
             whole == StateResult(s, TRUE, total)
             cuts == [n \in 0..total |-> StateResult(s, FALSE, n)]
         IN IF whole.size <= max THEN TrimState(s, max) = whole ELSE BestCut(TrimState(s, max), cuts, max)
<1> DEFINE total == Len(s.items)
           whole == StateResult(s, TRUE, total)
           cut(n) == StateResult(s, FALSE, n)
           cuts == [n \in 0..total |-> cut(n)]
           fitting == {n \in 1..total : cut(n).size <= max}
           most == MostThatFit(0, total - 1, fitting)
           result == TrimState(s, max)
<1>1. total \in Nat
  OBVIOUS
<1>2. result = IF whole.size <= max THEN whole
               ELSE IF cut(total).size <= max \/ total = 0 THEN cut(total) ELSE cut(most)
  BY DEF TrimState
<1> DEFINE left == s.descriptions > 0 /\ ~FALSE
           said(n) == IF n < total THEN CutSize(n, total) ELSE 0
<1>3. PICK note, none \in Nat : NoteSize(left, 0) = none /\ \A k \in 42..120 : NoteSize(left, k) = note + k
  BY NoteSizes
<1>4. ASSUME NEW n \in 0..total
      PROVE  /\ Sums(s.items)[n] \in Nat
             /\ cut(n).size = s.base + Sums(s.items)[n] + IF n < total THEN note + CutSize(n, total) ELSE none
             /\ cut(n).size \in Nat
  <2>1. Sums(s.items)[n] \in Nat
    BY SumsAre
  <2>2. CutSize(n, total) \in 42..60
    <3>1. n \in Nat /\ n <= n
      OBVIOUS
    <3> HIDE DEF total
    <3> QED
      BY <1>1, <3>1, CutSizes
  <2>3. cut(n).size = s.base + 0 + Sums(s.items)[n] + NoteSize(left, said(n))
    BY DEF StateResult
  <2>4. NoteSize(left, said(n)) = IF n < total THEN note + CutSize(n, total) ELSE none
    <3> HIDE DEF left
    <3>1. CutSize(n, total) \in 42..120
      BY <2>2
    <3>2. CASE n < total
      BY <1>3, <3>1, <3>2
    <3>3. CASE ~(n < total)
      BY <1>3, <3>3
    <3> QED
      BY <3>2, <3>3
  <2> DEFINE sum == Sums(s.items)[n]
             told == NoteSize(left, said(n))
             size == CutSize(n, total)
  <2>5. told \in Nat
    <3>2. size \in Nat
      BY <2>2
    <3>1. note + size \in Nat /\ none \in Nat
      <4> HIDE DEF size
      <4> QED
        BY <1>3, <3>2
    <3> HIDE DEF told, size
    <3> QED
      BY <2>4, <3>1 DEF told, size
  <2> HIDE DEF cut, told, sum
  <2>6. cut(n).size = s.base + sum + told /\ cut(n).size \in Nat
    BY <2>1, <2>3, <2>5 DEF told, sum
  <2> QED
    BY <2>1, <2>4, <2>6 DEF told, sum
<1>5. ASSUME NEW m \in 0..total - 1, NEW n \in 0..total - 1, m < n PROVE cut(m).size <= cut(n).size
  <2>1. Sums(s.items)[n] >= Sums(s.items)[m]
    <3>1. m \in 0..Len(s.items) /\ n \in 0..Len(s.items)
      BY <1>1
    <3> QED
      BY <1>5, <3>1, SumsRise
  <2>2. m \in 0..total /\ n \in 0..total /\ m < total /\ n < total /\ m <= n
    BY <1>1, <1>5
  <2>3. CutSize(m, total) \in 42..60 /\ CutSize(n, total) \in 42..60 /\ CutSize(m, total) <= CutSize(n, total)
    BY <1>1, <2>2, CutSizes
  <2> HIDE DEF cut, total, left
  <2>4. /\ cut(m).size = s.base + Sums(s.items)[m] + (note + CutSize(m, total)) /\ Sums(s.items)[m] \in Nat
        /\ cut(n).size = s.base + Sums(s.items)[n] + (note + CutSize(n, total)) /\ Sums(s.items)[n] \in Nat
    BY <1>4, <2>2
  <2>5. CutSize(m, total) \in Int /\ CutSize(n, total) \in Int /\ CutSize(m, total) <= CutSize(n, total)
    BY <2>3
  <2>6. note \in Nat
    BY <1>3
  <2> DEFINE b == s.base
             p == Sums(s.items)[m]
             q == Sums(s.items)[n]
             x == CutSize(m, total)
             y == CutSize(n, total)
  <2>7. b \in Nat /\ p \in Nat /\ q \in Nat /\ p <= q /\ x \in Int /\ y \in Int /\ x <= y
    <3>1. p \in Nat /\ q \in Nat
      BY <2>4
    <3>2. p <= q
      BY <2>1, <3>1
    <3> QED
      BY <2>5, <3>1, <3>2
  <2>8. cut(m).size = b + p + (note + x) /\ cut(n).size = b + q + (note + y)
    BY <2>4
  <2> HIDE DEF b, p, q, x, y
  <2>9. b + p + (note + x) <= b + q + (note + y)
    BY <2>6, <2>7
  <2> QED
    BY <2>8, <2>9
<1> HIDE DEF total, whole, cut, result
<1>6. IF cuts[total].size <= max \/ total = 0 THEN BestCut(cuts[total], cuts, max)
      ELSE most \in 0..total - 1 /\ BestCut(cuts[most], cuts, max)
  <2>1. /\ DOMAIN cuts = 0..total /\ \A n \in 0..total : cuts[n] = cut(n)
        /\ \A n \in 1..total : n \in fitting <=> cuts[n].size <= max
    BY <1>1
  <2>2. \A n \in 0..total : cuts[n].size \in Nat
    BY <1>4, <2>1
  <2>3. \A m, n \in 0..total - 1 : m < n => cuts[m].size <= cuts[n].size
    <3>1. \A n \in 0..total - 1 : n \in 0..total
      BY <1>1
    <3> QED
      BY <1>5, <2>1, <3>1
  <2> HIDE DEF cuts, fitting
  <2> QED
    BY <1>1, <2>1, <2>2, <2>3, SearchKeepsMost
<1>7. cuts[total] = cut(total) /\ \A n \in 0..total - 1 : cuts[n] = cut(n)
  BY <1>1
<1> HIDE DEF cuts, most
<1>8. whole.size <= max \/ BestCut(result, cuts, max)
  BY <1>2, <1>6, <1>7
<1> QED
  BY <1>2, <1>8 DEF total, whole, cut, cuts, result

\* bg1_get_state's trim keeps the most that fits. The text of an entry takes more
\* than the digits a shorter count saves.
LEMMA JournalTrims ==
  ASSUME NEW s, s.base \in Nat, s.completed \in Nat, s.other \in Seq(Nat), s.quests \in BOOLEAN,
         \A n \in 1..Len(s.other) : s.other[n] >= SmallestText, NEW max \in Nat
  PROVE  LET total == Len(s.other)
             whole == JournalResult(s, TRUE, total)
             cuts == [n \in 0..total |-> JournalResult(s, FALSE, n)]
         IN IF whole.size <= max \/ ~s.quests THEN TrimJournal(s, max) = whole ELSE BestCut(TrimJournal(s, max), cuts, max)
<1> DEFINE total == Len(s.other)
           whole == JournalResult(s, TRUE, total)
           cut(n) == JournalResult(s, FALSE, n)
           cuts == [n \in 0..total |-> cut(n)]
           fitting == {n \in 1..total : cut(n).size <= max}
           most == MostThatFit(0, total - 1, fitting)
           result == TrimJournal(s, max)
           left == s.completed > 0 /\ ~FALSE
           said(n) == IF n < total THEN CutSize(total - n, total) ELSE 0
           sum(n) == Sums(s.other)[total] - Sums(s.other)[total - n]
<1>1. total \in Nat
  OBVIOUS
<1>2. result = IF whole.size <= max \/ ~s.quests THEN whole
               ELSE IF cut(total).size <= max \/ total = 0 THEN cut(total) ELSE cut(most)
  BY DEF TrimJournal
<1>3. PICK note, none \in Nat : NoteSize(left, 0) = none /\ \A k \in 42..120 : NoteSize(left, k) = note + k
  BY NoteSizes
<1>4. ASSUME NEW m \in 0..total, NEW n \in 0..total, m < n
      PROVE  sum(m) \in Nat /\ sum(n) \in Nat /\ sum(m) + 10 <= sum(n)
  <2>1. Sums(s.other)[total] \in Nat /\ Sums(s.other)[total - n] \in Nat /\ Sums(s.other)[total - m] \in Nat
    <3>1. total \in 0..total /\ total - n \in 0..total /\ total - m \in 0..total
      BY <1>1
    <3> QED
      BY <3>1, SumsAre
  <2>2. Sums(s.other)[total - m] >= Sums(s.other)[total - n] + 10
    <3>1. total - n \in 0..Len(s.other) /\ total - m \in 0..Len(s.other) /\ total - n < total - m
      BY <1>1, <1>4
    <3>2. \A i \in 1..Len(s.other) : s.other[i] >= 10
      BY DEF SmallestText
    <3> QED
      BY <3>1, <3>2, SumsGrow
  <2>3. m = 0 \/ Sums(s.other)[total] >= Sums(s.other)[total - m]
    <3>1. CASE m # 0
      <4>1. total - m \in 0..Len(s.other) /\ total \in 0..Len(s.other) /\ total - m < total
        BY <1>1, <3>1
      <4> QED
        BY <4>1, SumsRise
    <3> QED
      BY <3>1
  <2>4. m = 0 => total - m = total
    BY <1>1
  <2>5. Sums(s.other)[total] >= Sums(s.other)[total - m]
    BY <2>1, <2>3, <2>4
  <2> DEFINE t == Sums(s.other)[total]
             a == Sums(s.other)[total - m]
             b == Sums(s.other)[total - n]
  <2>6. t \in Nat /\ a \in Nat /\ b \in Nat /\ a >= b + 10 /\ t >= a
    BY <2>1, <2>2, <2>5
  <2>7. sum(m) = t - a /\ sum(n) = t - b
    OBVIOUS
  <2> HIDE DEF t, a, b, sum
  <2> QED
    BY <2>6, <2>7
<1>5. ASSUME NEW n \in 0..total PROVE sum(n) \in Nat
  <2>1. CASE n = 0
    <3>1. total - n = total /\ Sums(s.other)[total] \in Nat
      <4>1. total \in 0..Len(s.other)
        BY <1>1
      <4> QED
        BY <1>1, <2>1, <4>1, SumsAre
    <3> HIDE DEF total
    <3> QED
      BY <3>1
  <2>2. CASE n # 0
    <3>1. 0 \in 0..total /\ 0 < n
      BY <1>1, <2>2
    <3> HIDE DEF sum, total
    <3> QED
      BY <1>4, <3>1
  <2> QED
    BY <2>1, <2>2
<1>6. ASSUME NEW n \in 0..total
      PROVE  /\ cut(n).size = s.base + sum(n) + IF n < total THEN note + CutSize(total - n, total) ELSE none
             /\ cut(n).size \in Nat
  <2>1. CutSize(total - n, total) \in 42..60
    <3>1. total - n \in Nat /\ total - n <= total - n
      BY <1>1
    <3> QED
      BY <1>1, <3>1, CutSizes
  <2>2. cut(n).size = s.base + 0 + sum(n) + NoteSize(left, said(n))
    BY DEF JournalResult
  <2>3. NoteSize(left, said(n)) = IF n < total THEN note + CutSize(total - n, total) ELSE none
    <3> HIDE DEF left
    <3>1. CutSize(total - n, total) \in 42..120
      BY <2>1
    <3>2. CASE n < total
      BY <1>3, <3>1, <3>2
    <3>3. CASE ~(n < total)
      BY <1>3, <3>3
    <3> QED
      BY <3>2, <3>3
  <2> DEFINE told == NoteSize(left, said(n))
             size == CutSize(total - n, total)
             bytes == sum(n)
  <2>4. told \in Nat
    <3>1. size \in Nat
      BY <2>1
    <3>2. note + size \in Nat /\ none \in Nat
      <4> HIDE DEF size
      <4> QED
        BY <1>3, <3>1
    <3> HIDE DEF told, size
    <3> QED
      BY <2>3, <3>2 DEF told, size
  <2>5. bytes \in Nat
    BY <1>5
  <2> HIDE DEF cut, told, bytes
  <2>6. cut(n).size = s.base + bytes + told /\ cut(n).size \in Nat
    BY <2>2, <2>4, <2>5 DEF told, bytes
  <2> QED
    BY <2>3, <2>6 DEF told, bytes
<1>7. ASSUME NEW m \in 0..total - 1, NEW n \in 0..total - 1, m < n PROVE cut(m).size <= cut(n).size
  <2>1. m \in 0..total /\ n \in 0..total /\ m < total /\ n < total
    BY <1>1
  <2> DEFINE b == s.base
             p == sum(m)
             q == sum(n)
             x == CutSize(total - m, total)
             y == CutSize(total - n, total)
  <2>2. p \in Nat /\ q \in Nat /\ p + 10 <= q
    <3> HIDE DEF sum, total
    <3> QED
      BY <1>4, <1>7, <2>1
  <2>3. x \in 42..60 /\ y \in 42..60 /\ x <= y + 9
    <3>1. total - m \in Nat /\ total - n \in Nat /\ total - n <= total - m
      BY <1>1, <1>7
    <3> QED
      BY <1>1, <3>1, CutSizes
  <2>4. cut(m).size = b + p + (note + x) /\ cut(n).size = b + q + (note + y)
    <3> HIDE DEF cut, sum, total, left
    <3> QED
      BY <1>6, <2>1
  <2>5. b \in Nat /\ note \in Nat
    BY <1>3
  <2> HIDE DEF b, p, q, x, y
  <2>6. b + p + (note + x) <= b + q + (note + y)
    BY <2>2, <2>3, <2>5
  <2> QED
    BY <2>4, <2>6
<1> HIDE DEF total, whole, cut, result
<1>8. IF cuts[total].size <= max \/ total = 0 THEN BestCut(cuts[total], cuts, max)
      ELSE most \in 0..total - 1 /\ BestCut(cuts[most], cuts, max)
  <2>1. /\ DOMAIN cuts = 0..total /\ \A n \in 0..total : cuts[n] = cut(n)
        /\ \A n \in 1..total : n \in fitting <=> cuts[n].size <= max
    BY <1>1
  <2>2. \A n \in 0..total : cuts[n].size \in Nat
    BY <1>6, <2>1
  <2>3. \A m, n \in 0..total - 1 : m < n => cuts[m].size <= cuts[n].size
    <3>1. \A n \in 0..total - 1 : n \in 0..total
      BY <1>1
    <3> QED
      BY <1>7, <2>1, <3>1
  <2> HIDE DEF cuts, fitting
  <2> QED
    BY <1>1, <2>1, <2>2, <2>3, SearchKeepsMost
<1>9. cuts[total] = cut(total) /\ \A n \in 0..total - 1 : cuts[n] = cut(n)
  BY <1>1
<1> HIDE DEF cuts, most
<1>10. whole.size <= max \/ ~s.quests \/ BestCut(result, cuts, max)
  BY <1>2, <1>8, <1>9
<1> QED
  BY <1>2, <1>10 DEF total, whole, cut, cuts, result

\* What a listed snapshot's sizes are.
LEMMA ListedSizes ==
  ASSUME NEW list \in Seq(Snapshots("wow_get_history")), NEW i \in 1..Len(list)
  PROVE  /\ list[i].base \in Nat /\ list[i].base >= SmallestEntry /\ list[i].descriptions \in Nat
         /\ list[i].items \in Seq(Nat)
<1>1. list[i] \in Snapshots("wow_get_history")
  OBVIOUS
<1>2. list[i] \in [base : {n \in Nat : n >= SmallestEntry}, descriptions : Nat, items : Seq(Nat)]
  BY <1>1 DEF Snapshots
<1> QED
  BY <1>2

\* The bytes of a history's snapshots, each at least as many as it takes empty.
LEMMA Entries ==
  ASSUME NEW list \in Seq(Snapshots("wow_get_history")), list # <<>>, NEW shown \in 0..Len(list[1].items)
  PROVE  LET e == [i \in DOMAIN list |-> EntrySize(list[i], FALSE, IF i = 1 THEN shown ELSE Len(list[i].items))]
         IN /\ e \in Seq(Nat) /\ Len(e) = Len(list) /\ \A i \in 1..Len(list) : e[i] >= SmallestEntry
            /\ Sums(e)[1] = list[1].base + Sums(list[1].items)[shown]
<1> DEFINE entry(i) == EntrySize(list[i], FALSE, IF i = 1 THEN shown ELSE Len(list[i].items))
           e == [i \in DOMAIN list |-> entry(i)]
<1>1. Len(list) \in Nat /\ Len(list) >= 1 /\ DOMAIN list = 1..Len(list)
  OBVIOUS
<1>2. ASSUME NEW i \in 1..Len(list)
      PROVE  /\ entry(i) \in Nat /\ entry(i) >= SmallestEntry
             /\ i = 1 => entry(i) = list[1].base + Sums(list[1].items)[shown]
  <2> DEFINE k == IF i = 1 THEN shown ELSE Len(list[i].items)
             bytes == Sums(list[i].items)[k]
  <2>1. /\ list[i].base \in Nat /\ list[i].base >= SmallestEntry
        /\ list[i].items \in Seq(Nat)
    BY <1>1, ListedSizes
  <2>2. bytes \in Nat
    <3>1. k \in 0..Len(list[i].items)
      BY <2>1
    <3> HIDE DEF k
    <3> QED
      BY <2>1, <3>1, SumsAre
  <2>3. entry(i) = list[i].base + 0 + bytes
    BY DEF EntrySize
  <2>4. i = 1 => bytes = Sums(list[1].items)[shown]
    OBVIOUS
  <2> HIDE DEF entry, bytes
  <2> QED
    BY <2>1, <2>2, <2>3, <2>4 DEF SmallestEntry
<1> HIDE DEF entry
<1>3. e \in Seq(Nat) /\ Len(e) = Len(list) /\ \A i \in 1..Len(list) : e[i] = entry(i)
  BY <1>1, <1>2
<1> HIDE DEF e
<1>4. Sums(e)[1] = list[1].base + Sums(list[1].items)[shown]
  <2>1. 1 \in 1..Len(e) /\ 1 \in 1..Len(list)
    BY <1>1, <1>3
  <2>2. Sums(e)[1] = Sums(e)[1 - 1] + e[1] /\ Sums(e)[0] = 0
    BY <1>3, <2>1, SumsAre
  <2>3. e[1] \in Nat /\ e[1] = list[1].base + Sums(list[1].items)[shown]
    BY <1>2, <1>3, <2>1
  <2> QED
    BY <2>2, <2>3
<1>5. e \in Seq(Nat) /\ Len(e) = Len(list) /\ \A i \in 1..Len(list) : e[i] >= SmallestEntry
  BY <1>2, <1>3
<1> QED
  BY <1>4, <1>5 DEF e, entry

\* wow_get_history's trim leaves out the oldest snapshots, and then the newest one's
\* last items, and no more than it must. Beside the note of a cut list, the last
\* snapshot is at least as long as what the note says of it.
LEMMA HistoryTrims ==
  ASSUME NEW list \in Seq(Snapshots("wow_get_history")), list # <<>>, NEW max \in Nat
  PROVE  LET total == Len(list)
             items == Len(list[1].items)
             whole == HistoryResult(list, TRUE, total, items)
             cuts == [n \in (IF items = 0 THEN 1 ELSE 1 - items)..total |->
                        IF n >= 1 THEN HistoryResult(list, FALSE, n, items) ELSE HistoryResult(list, FALSE, 1, items - 1 + n)]
         IN IF whole.size <= max THEN TrimHistory(list, max) = whole ELSE BestCut(TrimHistory(list, max), cuts, max)
<1> DEFINE total == Len(list)
           items == Len(list[1].items)
           whole == HistoryResult(list, TRUE, total, items)
           cut(n) == HistoryResult(list, FALSE, n, items)
           newest(n) == HistoryResult(list, FALSE, 1, n)
           cuts == [n \in (IF items = 0 THEN 1 ELSE 1 - items)..total |-> IF n >= 1 THEN cut(n) ELSE newest(items - 1 + n)]
           older == {n \in 1..total : cut(n).size <= max}
           bags == {n \in 1..items : newest(n).size <= max}
           most == MostThatFit(1, total, older)
           first == MostThatFit(0, items - 1, bags)
           result == TrimHistory(list, max)
           left == (\E i \in DOMAIN list : list[i].descriptions > 0) /\ ~FALSE
           entries(k) == [i \in DOMAIN list |-> EntrySize(list[i], FALSE, IF i = 1 THEN k ELSE Len(list[i].items))]
           said(n, k) == (IF n < total THEN CutSize(n, total) ELSE 0) + (IF k < items THEN CutSize(k, items) ELSE 0)
<1>1. total \in Nat /\ total >= 1 /\ items \in Nat /\ DOMAIN list = 1..total
  <2>1. Len(list) \in Nat /\ Len(list) >= 1
    OBVIOUS
  <2>2. list[1].items \in Seq(Nat)
    BY <2>1, ListedSizes
  <2> QED
    BY <2>1, <2>2
<1>2. result = IF whole.size <= max THEN whole
               ELSE IF cut(most).size <= max \/ items = 0 THEN cut(most) ELSE newest(first)
  BY DEF TrimHistory
<1>3. PICK note, none \in Nat : /\ NoteSize(left, 0) = none /\ \A k \in 42..120 : NoteSize(left, k) = note + k
                                /\ none = note \/ (~left /\ none = 0)
  BY NoteSizes
<1>4. \A n \in 0..total, k \in 0..items : HistoryResult(list, FALSE, n, k).size = Sums(entries(k))[n] + NoteSize(left, said(n, k))
  BY DEF HistoryResult
\* With every item, the sizes rise with the snapshots but for the note of the last.
<1> DEFINE S == Sums(entries(items))
<1>5. /\ \A n \in 0..total : S[n] \in Nat
      /\ \A m, n \in 0..total : m < n => S[n] >= S[m] + 60
  <2>1. entries(items) \in Seq(Nat) /\ Len(entries(items)) = total /\ \A i \in 1..total : entries(items)[i] >= 60
    <3>1. items \in 0..Len(list[1].items)
      BY <1>1
    <3>2. ASSUME NEW k \in 0..Len(list[1].items)
          PROVE  entries(k) \in Seq(Nat) /\ Len(entries(k)) = total /\ \A i \in 1..total : entries(k)[i] >= SmallestEntry
      BY Entries
    <3> HIDE DEF items, entries
    <3> QED
      BY <3>1, <3>2 DEF SmallestEntry
  <2> DEFINE e == entries(items)
  <2> HIDE DEF e, total
  <2>2. e \in Seq(Nat) /\ Len(e) = total /\ \A i \in 1..Len(e) : e[i] >= 60
    BY <2>1 DEF e
  <2>3. \A m, n \in 0..Len(e) : m < n => Sums(e)[n] >= Sums(e)[m] + 60
    BY <2>2, SumsGrow
  <2>4. \A n \in 0..Len(e) : Sums(e)[n] \in Nat
    BY <2>2, SumsAre
  <2> QED
    BY <2>2, <2>3, <2>4 DEF e
<1>6. ASSUME NEW n \in 1..total
      PROVE  /\ cut(n).size = S[n] + IF n < total THEN note + CutSize(n, total) ELSE none
             /\ cut(n).size \in Nat
  <2>1. CutSize(n, total) \in 42..60
    <3>1. n \in Nat /\ n <= n
      OBVIOUS
    <3> QED
      BY <1>1, <3>1, CutSizes
  <2>2. cut(n).size = S[n] + NoteSize(left, said(n, items))
    <3>1. n \in 0..total /\ items \in 0..items
      BY <1>1
    <3> HIDE DEF cut, entries, said, left, total, items
    <3> QED
      BY <1>4, <3>1 DEF cut
  <2>3. NoteSize(left, said(n, items)) = IF n < total THEN note + CutSize(n, total) ELSE none
    <3>1. CutSize(n, total) \in 42..120 /\ CutSize(n, total) + 0 = CutSize(n, total) /\ ~(items < items)
      BY <1>1, <2>1
    <3> HIDE DEF left, total, items
    <3>2. CASE n < total
      BY <1>3, <3>1, <3>2
    <3>3. CASE ~(n < total)
      BY <1>3, <3>1, <3>3
    <3> QED
      BY <3>2, <3>3
  <2> DEFINE told == NoteSize(left, said(n, items))
             size == CutSize(n, total)
             bytes == S[n]
  <2>4. told \in Nat
    <3>1. size \in Nat
      BY <2>1
    <3>2. note + size \in Nat /\ none \in Nat
      <4> HIDE DEF size
      <4> QED
        BY <1>3, <3>1
    <3> HIDE DEF told, size
    <3> QED
      BY <2>3, <3>2 DEF told, size
  <2>5. bytes \in Nat
    <3>1. n \in 0..total
      BY <1>1
    <3> HIDE DEF S
    <3> QED
      BY <1>5, <3>1
  <2> HIDE DEF cut, told, bytes
  <2>6. cut(n).size = bytes + told /\ cut(n).size \in Nat
    BY <2>2, <2>4, <2>5 DEF told, bytes
  <2>7. cut(n).size = S[n] + NoteSize(left, said(n, items))
    BY <2>6 DEF told, bytes
  <2> HIDE DEF S, left, said
  <2> QED
    BY <2>3, <2>6, <2>7
\* Without a description the whole result is the one of every snapshot.
<1>7. ~left => whole.size = S[total]
  <2> SUFFICES ASSUME ~left PROVE whole.size = S[total]
    OBVIOUS
  <2> DEFINE all == [i \in DOMAIN list |-> EntrySize(list[i], TRUE, IF i = 1 THEN items ELSE Len(list[i].items))]
  <2>1. ASSUME NEW i \in DOMAIN list, NEW k PROVE EntrySize(list[i], TRUE, k) = EntrySize(list[i], FALSE, k)
    <3>1. list[i].descriptions = 0
      <4>1. list[i].descriptions \in Nat
        BY ListedSizes
      <4>2. ~(list[i].descriptions > 0)
        OBVIOUS
      <4> QED
        BY <4>1, <4>2
    <3> QED
      BY <3>1 DEF EntrySize
  <2>2. all = entries(items)
    BY <2>1
  <2>3. whole.size = Sums(all)[total] + NoteSize((\E i \in DOMAIN list : list[i].descriptions > 0) /\ ~TRUE, said(total, items))
    BY DEF HistoryResult
  <2>4. said(total, items) = 0
    <3>1. ~(total < total) /\ ~(items < items)
      BY <1>1
    <3> HIDE DEF total, items
    <3> QED
      BY <3>1
  <2>5. NoteSize((\E i \in DOMAIN list : list[i].descriptions > 0) /\ ~TRUE, 0) = 0
    BY DEF NoteSize
  <2>6. S[total] \in Nat
    <3>1. total \in 0..total
      BY <1>1
    <3> HIDE DEF S
    <3> QED
      BY <1>5, <3>1
  <2>7. whole.size = S[total] + 0
    <3> HIDE DEF whole, all, entries, said, total
    <3> QED
      BY <2>2, <2>3, <2>4, <2>5
  <2> HIDE DEF S, whole
  <2> QED
    BY <2>6, <2>7
<1> HIDE DEF left, entries, said, S
<1>8. ASSUME ~(whole.size <= max), NEW m \in 1..total, NEW n \in 1..total, m < n, cut(n).size <= max
      PROVE  cut(m).size <= max
  <2> DEFINE p == S[m]
             q == S[n]
             x == CutSize(m, total)
             y == CutSize(n, total)
  <2>1. p \in Nat /\ q \in Nat /\ q >= p + 60
    <3>1. m \in 0..total /\ n \in 0..total
      BY <1>1
    <3> QED
      BY <1>5, <1>8, <3>1
  <2>2. x \in 42..60 /\ y \in 42..60 /\ x <= y
    <3>1. m \in Nat /\ n \in Nat /\ m <= n
      BY <1>8
    <3> QED
      BY <1>1, <3>1, CutSizes
  <2>3. cut(m).size = p + (note + x)
    <3>1. m < total
      BY <1>1, <1>8
    <3> HIDE DEF cut, total
    <3> QED
      BY <1>6, <3>1
  <2>4. cut(n).size = q + IF n < total THEN note + y ELSE none
    <3> HIDE DEF cut, total
    <3> QED
      BY <1>6
  <2>5. note \in Nat /\ none \in Nat
    BY <1>3
  <2>6. n < total \/ none = note
    <3>1. CASE ~left /\ none = 0 /\ ~(n < total)
      <4>1. n = total
        <5> HIDE DEF total
        <5>1. n \in Int /\ n <= total /\ total \in Int
          BY <1>1
        <5> QED
          BY <3>1, <5>1
      <4>2. q \in Nat /\ cut(n).size = q + 0 /\ whole.size = q
        <5> HIDE DEF cut, whole
        <5> QED
          BY <1>7, <2>1, <2>4, <3>1, <4>1
      <4>3. cut(n).size = whole.size
        <5> HIDE DEF q, cut, whole
        <5> QED
          BY <4>2
      <4> HIDE DEF cut, whole
      <4> QED
        BY <1>8, <4>3
    <3> QED
      BY <1>3, <3>1
  <2> HIDE DEF cut, p, q, x, y
  <2>7. p + (note + x) <= q + IF n < total THEN note + y ELSE none
    <3>1. p + (note + x) <= q + (note + y) /\ p + (note + x) <= q + note
      BY <2>1, <2>2, <2>5
    <3> QED
      BY <2>6, <3>1
  <2>8. p + (note + x) \in Int /\ (q + IF n < total THEN note + y ELSE none) \in Int
    BY <2>1, <2>2, <2>5
  <2> QED
    BY <1>8, <2>3, <2>4, <2>7, <2>8
\* Of the newest snapshot alone, the sizes rise with the items.
<1> DEFINE base == list[1].base
           told == IF 1 < total THEN CutSize(1, total) ELSE 0
           I == Sums(list[1].items)
<1>9. /\ base \in Nat /\ told \in 0..60 /\ \A n \in 0..items : I[n] \in Nat
      /\ \A m, n \in 0..items : m < n => I[n] >= I[m]
  <2>1. base \in Nat /\ list[1].items \in Seq(Nat)
    <3>1. 1 \in 1..Len(list)
      BY <1>1
    <3> QED
      BY <3>1, ListedSizes
  <2>2. told \in 0..60
    <3>1. CutSize(1, total) \in 42..60
      <4>1. 1 \in Nat /\ 1 <= 1
        OBVIOUS
      <4> HIDE DEF total
      <4> QED
        BY <1>1, <4>1, CutSizes
    <3> QED
      BY <3>1
  <2> QED
    BY <2>1, <2>2, SumsAre, SumsRise
<1>10. ASSUME NEW k \in 0..items, k < items
       PROVE  /\ newest(k).size = base + I[k] + (note + (told + CutSize(k, items)))
              /\ newest(k).size \in Nat
  <2>1. CutSize(k, items) \in 42..60
    <3>1. k \in Nat /\ k <= k
      BY <1>1
    <3> QED
      BY <1>1, <3>1, CutSizes
  <2>2. newest(k).size = Sums(entries(k))[1] + NoteSize(left, said(1, k))
    <3>1. 1 \in 0..total
      BY <1>1
    <3> HIDE DEF total, items, newest
    <3> QED
      BY <1>4, <3>1 DEF newest
  <2>3. Sums(entries(k))[1] = base + I[k]
    BY Entries DEF entries
  <2>4. said(1, k) = told + CutSize(k, items) /\ told + CutSize(k, items) \in 42..120
    <3>1. said(1, k) = told + CutSize(k, items)
      BY <1>10 DEF said
    <3> DEFINE size == CutSize(k, items)
    <3>2. told \in 0..60 /\ size \in 42..60
      BY <1>9, <2>1
    <3> HIDE DEF told, size
    <3>3. told + size \in 42..120
      BY <3>2
    <3> QED
      BY <3>1, <3>3 DEF size
  <2>5. NoteSize(left, said(1, k)) = note + (told + CutSize(k, items))
    <3> HIDE DEF told, items
    <3> QED
      BY <1>3, <2>4
  <2> DEFINE c == told + CutSize(k, items)
             bytes == I[k]
  <2>6. c \in Nat /\ bytes \in Nat /\ note \in Nat /\ base \in Nat
    <3> HIDE DEF told, I, base
    <3>1. c \in 42..120
      BY <2>4
    <3>2. c \in Nat
      <4> HIDE DEF c
      <4> QED
        BY <3>1
    <3> QED
      BY <1>3, <1>9, <3>2
  <2>7. newest(k).size = base + bytes + (note + c)
    <3> HIDE DEF newest, base, I, told
    <3> QED
      BY <2>2, <2>3, <2>5
  <2>8. newest(k).size \in Nat
    <3> HIDE DEF newest, base, bytes, c
    <3> QED
      BY <2>6, <2>7
  <2> HIDE DEF newest
  <2> QED
    BY <2>7, <2>8
<1>11. ASSUME NEW m \in 0..items, NEW n \in 0..items, m < n, n < items
       PROVE  newest(m).size <= newest(n).size
  <2> DEFINE p == I[m]
             q == I[n]
             x == CutSize(m, items)
             y == CutSize(n, items)
  <2>1. p \in Nat /\ q \in Nat /\ p <= q
    <3> HIDE DEF I, items
    <3>1. p \in Nat /\ q \in Nat /\ q >= p
      BY <1>9, <1>11
    <3> HIDE DEF p, q
    <3> QED
      BY <3>1
  <2>2. x \in 42..60 /\ y \in 42..60 /\ x <= y
    <3>1. m \in Nat /\ n \in Nat /\ m <= n
      BY <1>1, <1>11
    <3> QED
      BY <1>1, <3>1, CutSizes
  <2>3. newest(m).size = base + p + (note + (told + x)) /\ newest(n).size = base + q + (note + (told + y))
    <3>1. m < items
      BY <1>1, <1>11
    <3> HIDE DEF newest, base, I, told, items
    <3> QED
      BY <1>10, <1>11, <3>1
  <2>4. base \in Nat /\ note \in Nat /\ told \in Int
    <3> HIDE DEF base, told
    <3> QED
      BY <1>3, <1>9
  <2> HIDE DEF base, told, newest, p, q, x, y
  <2>5. base + p + (note + (told + x)) <= base + q + (note + (told + y))
    BY <2>1, <2>2, <2>4
  <2> QED
    BY <2>3, <2>5, Zenon
<1> HIDE DEF base, told, I, total, items, whole, cut, newest, result
<1>12. ASSUME ~(whole.size <= max)
       PROVE  /\ most \in 1..total
              /\ most = 1 \/ cut(most).size <= max
              /\ \A m \in 1..total : m > most => cut(m).size > max
  <2>1. \A m, n \in 1 + 1..total : m < n /\ n \in older => m \in older
    <3>1. \A n \in 1 + 1..total : n \in 1..total
      BY <1>1
    <3> QED
      BY <1>8, <1>12, <3>1
  <2> HIDE DEF older
  <2>2. /\ most \in 1..total
        /\ most = 1 \/ most \in older
        /\ \A m \in most + 1..total : m \notin older
    BY <1>1, <2>1, MostFits
  <2> HIDE DEF most
  <2>3. ASSUME NEW m \in 1..total, m > most PROVE cut(m).size > max
    <3>1. m \in most + 1..total /\ cut(m).size \in Nat
      BY <1>1, <1>6, <2>2, <2>3
    <3>2. ~(cut(m).size <= max)
      BY <2>2, <3>1 DEF older
    <3> QED
      BY <3>1, <3>2
  <2> QED
    BY <2>2, <2>3 DEF older
<1>13. ASSUME items # 0
       PROVE  /\ first \in 0..items - 1
              /\ first = 0 \/ newest(first).size <= max
              /\ \A m \in 0..items - 1 : m > first => newest(m).size > max
  <2>1. \A m, n \in 0 + 1..items - 1 : m < n /\ n \in bags => m \in bags
    <3> TAKE m, n \in 0 + 1..items - 1
    <3> HAVE m < n /\ n \in bags
    <3>1. m \in 0..items /\ n \in 0..items /\ m < items /\ n < items /\ m \in 1..items
      BY <1>1
    <3>2. newest(m).size \in Nat /\ newest(n).size \in Nat /\ newest(m).size <= newest(n).size
      BY <1>10, <1>11, <3>1
    <3>3. newest(n).size <= max
      OBVIOUS
    <3>4. newest(m).size <= max
      BY <3>2, <3>3
    <3> QED
      BY <3>1, <3>4
  <2> HIDE DEF bags
  <2>2. /\ first \in 0..items - 1
        /\ first = 0 \/ first \in bags
        /\ \A m \in first + 1..items - 1 : m \notin bags
    <3>1. items - 1 \in Nat /\ 0 <= items - 1
      BY <1>1, <1>13
    <3> QED
      BY <2>1, <3>1, MostFits
  <2> HIDE DEF first
  <2>3. ASSUME NEW m \in 0..items - 1, m > first PROVE newest(m).size > max
    <3>1. m \in first + 1..items - 1 /\ m \in 1..items /\ m \in 0..items /\ m < items
      BY <1>1, <2>2, <2>3
    <3>2. newest(m).size \in Nat
      BY <1>10, <3>1
    <3>3. ~(newest(m).size <= max)
      BY <2>2, <3>1 DEF bags
    <3> QED
      BY <3>2, <3>3
  <2> QED
    BY <2>2, <2>3 DEF bags
<1> HIDE DEF most, first
<1>14. ASSUME ~(whole.size <= max) PROVE BestCut(result, cuts, max)
  <2> DEFINE low == IF items = 0 THEN 1 ELSE 1 - items
  <2>1. /\ low \in Int /\ low <= 1 /\ DOMAIN cuts = low..total
        /\ \A n \in 1..total : n \in DOMAIN cuts /\ cuts[n] = cut(n)
        /\ \A n \in low..0 : n \in DOMAIN cuts /\ cuts[n] = newest(items - 1 + n)
    BY <1>1
  <2> HIDE DEF cuts
  <2>2. CASE cut(most).size <= max \/ items = 0
    <3>1. result = cuts[most] /\ most \in DOMAIN cuts
      BY <1>2, <1>12, <1>14, <2>1, <2>2
    <3>2. cuts[most].size <= max \/ \A k \in DOMAIN cuts : most <= k
      <4>1. CASE cut(most).size <= max
        BY <1>12, <1>14, <2>1, <4>1
      <4>2. CASE ~(cut(most).size <= max)
        <5>1. most = 1 /\ low = 1
          BY <1>12, <1>14, <2>2, <4>2
        <5> QED
          BY <1>1, <2>1, <5>1
      <4> QED
        BY <4>1, <4>2
    <3>3. ASSUME NEW k \in DOMAIN cuts, most < k PROVE cuts[k].size > max
      <4>1. k \in 1..total /\ k > most
        BY <1>1, <1>12, <1>14, <2>1, <3>3
      <4> QED
        BY <1>12, <1>14, <2>1, <4>1
    <3> QED
      BY <3>1, <3>2, <3>3 DEF BestCut
  <2>3. CASE ~(cut(most).size <= max \/ items = 0)
    <3> DEFINE n == first + 1 - items
    <3>1. n \in low..0 /\ items - 1 + n = first /\ items # 0
      BY <1>1, <1>13, <2>3
    <3>2. result = cuts[n] /\ n \in DOMAIN cuts /\ cuts[n] = newest(first)
      BY <1>2, <1>14, <2>1, <2>3, <3>1
    <3>3. cuts[n].size <= max \/ \A k \in DOMAIN cuts : n <= k
      <4>1. CASE first = 0
        <5>1. n = low
          BY <1>1, <3>1, <4>1
        <5> QED
          BY <1>1, <2>1, <5>1
      <4>2. CASE first # 0
        BY <1>13, <3>1, <3>2, <4>2
      <4> QED
        BY <4>1, <4>2
    <3>4. ASSUME NEW k \in DOMAIN cuts, n < k PROVE cuts[k].size > max
      <4>1. k \in low..total /\ k \in Int
        BY <1>1, <2>1
      <4>2. CASE k >= 1
        <5>1. most = 1 /\ k \in 1..total
          BY <1>1, <1>12, <1>14, <2>3, <4>1, <4>2
        <5>2. cut(k).size > max
          <6>1. CASE k = 1
            <7>1. cut(1).size \in Nat /\ ~(cut(1).size <= max)
              BY <1>6, <2>3, <5>1, <6>1
            <7> QED
              BY <6>1, <7>1
          <6>2. CASE k # 1
            BY <1>12, <1>14, <5>1, <6>2
          <6> QED
            BY <6>1, <6>2
        <5> QED
          BY <2>1, <5>1, <5>2
      <4>3. CASE ~(k >= 1)
        <5>1. k <= 0 /\ low <= k /\ low = 1 - items /\ items \in Int
          BY <1>1, <3>1, <4>1, <4>3
        <5>2. first \in Int /\ first + 1 - items < k
          BY <1>13, <3>1, <3>4
        <5>3. k \in low..0
          BY <2>1, <4>1, <5>1
        <5>4. items - 1 + k \in 0..items - 1 /\ items - 1 + k > first
          <6> HIDE DEF low, n
          <6> QED
            BY <4>1, <5>1, <5>2
        <5> QED
          BY <1>13, <2>1, <3>1, <5>3, <5>4
      <4> QED
        BY <4>2, <4>3
    <3> HIDE DEF n
    <3> QED
      BY <3>2, <3>3, <3>4 DEF BestCut
  <2> QED
    BY <2>2, <2>3
<1> HIDE DEF cuts
<1> QED
  BY <1>2, <1>14 DEF total, items, whole, cut, newest, cuts, result

-----------------------------------------------------------------------------
\* The tools.

\* The sections a call asks for.
Asked(c, default) == IF c.args.kind = "list" THEN Range(c.args.list) ELSE default

\* A call's arguments are good when they name sections there are.
LEMMA GoodInput ==
  ASSUME NEW c, Called(c), NEW all, NEW default \in SUBSET all, default # {}
  PROVE  LET input == ReadInput(c.args, all, default)
             asked == Asked(c, default)
         IN /\ input.ok = (asked # {} /\ asked \subseteq all /\ c.args.kind # "bad" /\ ~c.args.other)
            /\ input.sections = asked
            /\ input = [ok |-> input.ok, sections |-> asked]
<1> DEFINE list == c.args.list
<1>1. list \in Seq(STRING) /\ c.args.kind \in {"absent", "bad", "list"}
  BY DEF Called
<1> HIDE DEF list
<1>2. Range(list) = {} <=> list = <<>>
  <2>1. CASE list = <<>>
    BY <2>1 DEF Range
  <2>2. CASE list # <<>>
    <3>1. 1 \in DOMAIN list
      BY <1>1, <2>2
    <3> QED
      BY <2>2, <3>1 DEF Range
  <2> QED
    BY <2>1, <2>2
<1>3. CASE c.args.kind = "list"
  BY <1>2, <1>3 DEF ReadInput, Asked, list
<1>4. CASE c.args.kind # "list"
  BY <1>1, <1>4 DEF ReadInput, Asked
<1> QED
  BY <1>3, <1>4

\* A handler answers with a result when its arguments are good and there is a
\* snapshot.
LEMMA HandlerAnswers ==
  ASSUME NEW input, NEW found, NEW shown
  PROVE  LET answer == Handled(input, found, shown)
         IN /\ (answer.error = "") = (input.ok /\ ~found.rejects /\ found.snapshots # <<>>)
            /\ answer.error = "" => answer.result = shown
<1>1. CASE ~input.ok
  BY <1>1 DEF Handled, Refused
<1>2. CASE input.ok /\ found.rejects
  BY <1>2 DEF Handled, Refused
<1>3. CASE input.ok /\ ~found.rejects /\ found.snapshots = <<>>
  BY <1>3 DEF Handled, Refused
<1>4. CASE input.ok /\ ~found.rejects /\ found.snapshots # <<>>
  BY <1>4 DEF Handled
<1> QED
  BY <1>1, <1>2, <1>3, <1>4

\* What the sections leave of a snapshot is the sizes of a snapshot.
LEMMA PickedSizes ==
  ASSUME NEW s \in Snapshots("wow_get_history"), NEW sections
  PROVE  Picked(s, sections) \in Snapshots("wow_get_history")
<1>1. s \in [base : {n \in Nat : n >= SmallestEntry}, descriptions : Nat, items : Seq(Nat)]
  BY DEF Snapshots
<1>2. <<>> \in Seq(Nat)
  OBVIOUS
<1>3. Picked(s, sections) \in [base : {n \in Nat : n >= SmallestEntry}, descriptions : Nat, items : Seq(Nat)]
  BY <1>1, <1>2 DEF Picked
<1> QED
  BY <1>3 DEF Snapshots

\* wow_get_state's answer is the best cut of what the arguments ask for.
LEMMA StateAnswers ==
  ASSUME Called(given), given.tool = "wow_get_state", made = <<WowGetState(given.args, given.found, given.max)>>
  PROVE  TrimKeepsMost
<1> DEFINE input == ReadInput(given.args, WowSections, WowSections)
           asked == Asked(given, WowSections)
           found == given.found.snapshots
           list == [i \in DOMAIN found |-> Picked(found[i], asked)]
           one == Picked(found[1], asked)
           good == asked # {} /\ asked \subseteq WowSections /\ given.args.kind # "bad" /\ ~given.args.other
           max == given.max
           whole == Whole("wow_get_state", list)
<1>1. input.ok = good /\ input.sections = asked
  <2>1. WowSections # {} /\ WowSections \in SUBSET WowSections
    BY DEF WowSections
  <2> QED
    BY <2>1, GoodInput
<1>2. /\ (made[1].error = "") = (good /\ ~given.found.rejects /\ found # <<>>)
      /\ made[1].error = "" => made[1].result = TrimState(one, max)
  <2>1. made[1] = Handled(input, given.found, TrimState(Picked(found[1], input.sections), max))
    BY DEF WowGetState
  <2>2. Picked(found[1], input.sections) = one
    BY <1>1
  <2> HIDE DEF input, asked, good, one, found
  <2>3. made[1] = Handled(input, given.found, TrimState(one, max))
    BY <2>1, <2>2
  <2>4. /\ (made[1].error = "") = (input.ok /\ ~given.found.rejects /\ found # <<>>)
        /\ made[1].error = "" => made[1].result = TrimState(one, max)
    <3> DEFINE answer == Handled(input, given.found, TrimState(one, max))
    <3>1. /\ (answer.error = "") = (input.ok /\ ~given.found.rejects /\ given.found.snapshots # <<>>)
          /\ answer.error = "" => answer.result = TrimState(one, max)
      BY HandlerAnswers
    <3>2. made[1] = answer
      BY <2>3
    <3> HIDE DEF answer
    <3> QED
      BY <3>1, <3>2, Zenon DEF found
  <2> QED
    BY <1>1, <2>4, Zenon
<1>3. ASSUME found # <<>>
      PROVE  IF whole.size <= max THEN TrimState(one, max) = whole
             ELSE BestCut(TrimState(one, max), Cuts("wow_get_state", list), max)
  <2>1. found \in Seq(Snapshots("wow_get_history")) /\ max \in Nat
    BY DEF Called, Snapshots
  <2>2. found[1] \in Snapshots("wow_get_history") /\ 1 \in DOMAIN found
    BY <1>3, <2>1
  <2>3. one \in Snapshots("wow_get_history")
    BY <2>2, PickedSizes
  <2>4. list[1] = one
    BY <2>2
  <2> HIDE DEF one, list
  <2>5. one.base \in Nat /\ one.descriptions \in Nat /\ one.items \in Seq(Nat)
    BY <2>3 DEF Snapshots
  <2>6. /\ whole = StateResult(one, TRUE, Len(one.items))
        /\ Cuts("wow_get_state", list) = [n \in 0..Len(one.items) |-> StateResult(one, FALSE, n)]
    BY <2>4 DEF Whole, Cuts
  <2> HIDE DEF whole
  <2> QED
    BY <2>1, <2>5, <2>6, StateTrims
<1> HIDE DEF one, whole
<1>4. made[1].error = "" => IF whole.size <= max THEN made[1].result = whole
                            ELSE BestCut(made[1].result, Cuts("wow_get_state", list), max)
  BY <1>2, <1>3
<1> QED
  BY <1>2, <1>4 DEF TrimKeepsMost, Asked, whole

\* So is bg1_get_state's. Without the quests there is nothing to cut.
LEMMA JournalAnswers ==
  ASSUME Called(given), given.tool = "bg1_get_state", made = <<Bg1GetState(given.args, given.found, given.max)>>
  PROVE  TrimKeepsMost
<1> DEFINE input == ReadInput(given.args, Bg1Sections, Bg1Sections)
           asked == Asked(given, Bg1Sections)
           found == given.found.snapshots
           list == [i \in DOMAIN found |-> Bg1Picked(found[i], asked)]
           one == Bg1Picked(found[1], asked)
           good == asked # {} /\ asked \subseteq Bg1Sections /\ given.args.kind # "bad" /\ ~given.args.other
           max == given.max
           whole == Whole("bg1_get_state", list)
<1>1. input.ok = good /\ input.sections = asked
  <2>1. Bg1Sections # {} /\ Bg1Sections \in SUBSET Bg1Sections
    BY DEF Bg1Sections
  <2> QED
    BY <2>1, GoodInput
<1>2. /\ (made[1].error = "") = (good /\ ~given.found.rejects /\ found # <<>>)
      /\ made[1].error = "" => made[1].result = TrimJournal(one, max)
  <2>1. made[1] = Handled(input, given.found, TrimJournal(Bg1Picked(found[1], input.sections), max))
    BY DEF Bg1GetState
  <2>2. Bg1Picked(found[1], input.sections) = one
    BY <1>1
  <2> HIDE DEF input, asked, good, one, found
  <2>3. made[1] = Handled(input, given.found, TrimJournal(one, max))
    BY <2>1, <2>2
  <2>4. /\ (made[1].error = "") = (input.ok /\ ~given.found.rejects /\ found # <<>>)
        /\ made[1].error = "" => made[1].result = TrimJournal(one, max)
    <3> DEFINE answer == Handled(input, given.found, TrimJournal(one, max))
    <3>1. /\ (answer.error = "") = (input.ok /\ ~given.found.rejects /\ given.found.snapshots # <<>>)
          /\ answer.error = "" => answer.result = TrimJournal(one, max)
      BY HandlerAnswers
    <3>2. made[1] = answer
      BY <2>3
    <3> HIDE DEF answer
    <3> QED
      BY <3>1, <3>2, Zenon DEF found
  <2> QED
    BY <1>1, <2>4, Zenon
<1>3. ASSUME found # <<>>
      PROVE  IF whole.size <= max THEN TrimJournal(one, max) = whole
             ELSE BestCut(TrimJournal(one, max), Cuts("bg1_get_state", list), max)
  <2>1. found \in Seq(Snapshots("bg1_get_state")) /\ max \in Nat
    BY DEF Called
  <2>2. found[1] \in Snapshots("bg1_get_state") /\ 1 \in DOMAIN found
    BY <1>3, <2>1
  <2> DEFINE s == found[1]
             Texts == {n \in Nat : n >= SmallestText}
  <2>3. s.base \in Nat /\ s.completed \in Nat /\ s.other \in Seq(Texts)
    <3>1. s \in [base : Nat, completed : Nat, other : Seq(Texts)]
      BY <2>2 DEF Snapshots
    <3> HIDE DEF s, Texts
    <3> QED
      BY <3>1
  <2>4. list[1] = one
    BY <2>2
  <2> HIDE DEF list, s, found
  <2>5. /\ one.base \in Nat /\ one.completed \in Nat /\ one.quests \in BOOLEAN
        /\ one.other \in Seq(Texts) /\ (~one.quests => one.other = <<>>)
    <3>1. <<>> \in Seq(Texts)
      OBVIOUS
    <3>2. CASE "quests" \in asked
      BY <2>3, <3>2 DEF Bg1Picked, s
    <3>3. CASE "quests" \notin asked
      BY <2>3, <3>1, <3>3 DEF Bg1Picked, s
    <3> QED
      BY <3>2, <3>3
  <2> HIDE DEF one
  <2>6. one.other \in Seq(Nat) /\ \A n \in 1..Len(one.other) : one.other[n] >= SmallestText
    BY <2>5
  <2> DEFINE total == Len(one.other)
             cuts == [n \in 0..total |-> JournalResult(one, FALSE, n)]
  <2>7. /\ whole = JournalResult(one, TRUE, total)
        /\ Cuts("bg1_get_state", list) =
              [n \in (IF one.quests THEN 0 ELSE total)..total |-> JournalResult(one, ~one.quests, n)]
    BY <2>4 DEF Whole, Cuts
  <2>8. IF whole.size <= max \/ ~one.quests THEN TrimJournal(one, max) = whole
        ELSE BestCut(TrimJournal(one, max), cuts, max)
    <3> HIDE DEF whole
    <3> QED
      BY <2>1, <2>5, <2>6, <2>7, JournalTrims
  <2> HIDE DEF whole, cuts
  <2>9. CASE one.quests
    <3>1. Cuts("bg1_get_state", list) = cuts
      <4>1. ~one.quests = FALSE
        BY <2>9
      <4>2. [n \in (IF one.quests THEN 0 ELSE total)..total |-> JournalResult(one, ~one.quests, n)]
            = [n \in 0..total |-> JournalResult(one, FALSE, n)]
        BY <2>9, <4>1
      <4> QED
        BY <2>7, <4>2 DEF cuts
    <3> QED
      BY <2>8, <2>9, <3>1
  <2>10. CASE ~one.quests
    <3>1. total = 0
      BY <2>5, <2>10
    <3> DEFINE alone == Cuts("bg1_get_state", list)
    <3>2. DOMAIN alone = 0..0 /\ alone[0] = whole
      <4>1. ~one.quests = TRUE
        BY <2>10
      <4>2. alone = [n \in 0..0 |-> JournalResult(one, TRUE, n)]
        BY <2>7, <2>10, <3>1, <4>1
      <4> HIDE DEF alone, total
      <4> QED
        BY <2>7, <3>1, <4>2
    <3> HIDE DEF alone
    <3>3. BestCut(alone[0], alone, max)
      <4>1. 0 \in DOMAIN alone /\ \A k \in DOMAIN alone : 0 <= k /\ ~(0 < k)
        BY <3>2
      <4> QED
        BY <4>1 DEF BestCut
    <3>4. TrimJournal(one, max) = alone[0]
      BY <2>8, <2>10, <3>2
    <3>5. BestCut(TrimJournal(one, max), alone, max)
      BY <3>3, <3>4
    <3> QED
      BY <2>8, <2>10, <3>5 DEF alone
  <2> QED
    BY <2>9, <2>10
<1> HIDE DEF one, whole
<1>4. made[1].error = "" => IF whole.size <= max THEN made[1].result = whole
                            ELSE BestCut(made[1].result, Cuts("bg1_get_state", list), max)
  BY <1>2, <1>3
<1> QED
  BY <1>2, <1>4 DEF TrimKeepsMost, Asked, whole

\* So is wow_get_history's, of as many snapshots as its limit allows.
LEMMA HistoryAnswers ==
  ASSUME Called(given), given.tool = "wow_get_history", made = <<WowGetHistory(given.args, given.found, given.max)>>
  PROVE  TrimKeepsMost
<1> DEFINE default == {"character", "location"}
           input == ReadInput(given.args, WowSections, default)
           asked == Asked(given, default)
           limit == IF given.args.limit = <<>> THEN DefaultLimit ELSE given.args.limit[1]
           all == given.found.snapshots
           found == IF limit < Len(all) THEN SubSeq(all, 1, limit) ELSE all
           list == [i \in DOMAIN found |-> Picked(found[i], asked)]
           right == asked # {} /\ asked \subseteq WowSections /\ given.args.kind # "bad" /\ ~given.args.other
           good == asked # {} /\ asked \subseteq WowSections /\ given.args.kind # "bad" /\ ~given.args.other
                   /\ (TRUE => given.args.since /\ limit >= 1)
           max == given.max
           whole == Whole("wow_get_history", list)
<1>1. input.ok = right /\ input.sections = asked /\ input = [ok |-> input.ok, sections |-> asked]
  <2>1. default # {} /\ default \in SUBSET WowSections
    BY DEF WowSections
  <2> HIDE DEF default
  <2>2. /\ input.ok = (asked # {} /\ asked \subseteq WowSections /\ given.args.kind # "bad" /\ ~given.args.other)
        /\ input.sections = asked
        /\ input = [ok |-> input.ok, sections |-> asked]
    BY <2>1, GoodInput
  <2> QED
    BY <2>2
<1>2. all \in Seq(Snapshots("wow_get_history")) /\ max \in Nat /\ limit \in Nat
  BY DEF Called, Snapshots, DefaultLimit
<1>3. found = SubSeq(all, 1, IF limit < Len(all) THEN limit ELSE Len(all))
  <2> HIDE DEF limit, all
  <2>1. SubSeq(all, 1, Len(all)) = all
    BY <1>2
  <2> QED
    BY <2>1
<1>4. /\ (made[1].error = "") = (good /\ ~given.found.rejects /\ all # <<>>)
      /\ made[1].error = "" => made[1].result = TrimHistory(list, max)
  <2> DEFINE checked == [input EXCEPT !.ok = @ /\ given.args.since /\ limit >= 1]
  <2>1. made[1] = Handled(checked, given.found, TrimHistory([i \in DOMAIN found |-> Picked(found[i], input.sections)], max))
    <3> HIDE DEF found
    <3> QED
      BY <1>3 DEF WowGetHistory
  <2>2. [i \in DOMAIN found |-> Picked(found[i], input.sections)] = list
    <3> HIDE DEF found, input
    <3> QED
      BY <1>1
  <2>3. checked.ok = (input.ok /\ given.args.since /\ limit >= 1)
    <3> HIDE DEF input, limit
    <3> QED
      BY <1>1
  <2> HIDE DEF checked, asked, list, found, input, limit
  <2>4. made[1] = Handled(checked, given.found, TrimHistory(list, max))
    BY <2>1, <2>2
  <2>5. /\ (made[1].error = "") = (checked.ok /\ ~given.found.rejects /\ all # <<>>)
        /\ made[1].error = "" => made[1].result = TrimHistory(list, max)
    <3> DEFINE answer == Handled(checked, given.found, TrimHistory(list, max))
    <3>1. /\ (answer.error = "") = (checked.ok /\ ~given.found.rejects /\ given.found.snapshots # <<>>)
          /\ answer.error = "" => answer.result = TrimHistory(list, max)
      BY HandlerAnswers
    <3>2. made[1] = answer
      BY <2>4
    <3> HIDE DEF answer
    <3> QED
      BY <3>1, <3>2, Zenon
  <2>6. checked.ok = good
    BY <1>1, <2>3, Zenon
  <2> HIDE DEF good
  <2> QED
    BY <2>5, <2>6, Zenon
<1>5. ASSUME all # <<>>, limit >= 1
      PROVE  IF whole.size <= max THEN TrimHistory(list, max) = whole
             ELSE BestCut(TrimHistory(list, max), Cuts("wow_get_history", list), max)
  <2>1. found \in Seq(Snapshots("wow_get_history")) /\ Len(found) >= 1
    <3> HIDE DEF limit, all, found
    <3>1. Len(all) \in Nat /\ Len(all) >= 1
      BY <1>2, <1>5
    <3> DEFINE n == IF limit < Len(all) THEN limit ELSE Len(all)
    <3>2. n \in 1..Len(all)
      BY <1>2, <1>5, <3>1
    <3> HIDE DEF n
    <3>3. SubSeq(all, 1, n) \in Seq(Snapshots("wow_get_history")) /\ Len(SubSeq(all, 1, n)) = n
      BY <1>2, <3>2
    <3> QED
      BY <1>3, <3>2, <3>3 DEF n
  <2> HIDE DEF found
  <2>2. list \in Seq(Snapshots("wow_get_history")) /\ list # <<>>
    <3>1. \A i \in DOMAIN found : Picked(found[i], asked) \in Snapshots("wow_get_history")
      <4> TAKE i \in DOMAIN found
      <4>1. found[i] \in Snapshots("wow_get_history")
        BY <2>1
      <4> QED
        BY <4>1, PickedSizes
    <3>2. DOMAIN found = 1..Len(found) /\ Len(found) \in Nat
      BY <2>1
    <3> HIDE DEF asked
    <3>3. list \in Seq(Snapshots("wow_get_history")) /\ DOMAIN list = 1..Len(found)
      BY <3>1, <3>2
    <3>4. 1 \in DOMAIN list
      BY <2>1, <3>2, <3>3
    <3> HIDE DEF list
    <3> QED
      BY <3>3, <3>4
  <2> HIDE DEF list
  <2>3. whole = HistoryResult(list, TRUE, Len(list), Len(list[1].items))
    BY DEF Whole
  <2>4. Cuts("wow_get_history", list) =
          [n \in (IF Len(list[1].items) = 0 THEN 1 ELSE 1 - Len(list[1].items))..Len(list) |->
             IF n >= 1 THEN HistoryResult(list, FALSE, n, Len(list[1].items))
             ELSE HistoryResult(list, FALSE, 1, Len(list[1].items) - 1 + n)]
    BY DEF Cuts
  <2> HIDE DEF whole
  <2> QED
    BY <1>2, <2>2, <2>3, <2>4, HistoryTrims
<1>6. made[1].error = "" => IF whole.size <= max THEN made[1].result = whole
                            ELSE BestCut(made[1].result, Cuts("wow_get_history", list), max)
  <2> HIDE DEF whole, list, asked, all, limit
  <2> QED
    BY <1>4, <1>5
<1> QED
  BY <1>4, <1>6 DEF TrimKeepsMost, Asked, whole

\* A call that was made is one the tools may be given, and what it made is its
\* tool's answer.
ToolInv ==
  /\ subject = "result" /\ Called(given)
  /\ made # <<>> =>
       made = <<CASE given.tool = "wow_get_state" -> WowGetState(given.args, given.found, given.max)
                  [] given.tool = "wow_get_history" -> WowGetHistory(given.args, given.found, given.max)
                  [] given.tool = "bg1_get_state" -> Bg1GetState(given.args, given.found, given.max)>>

\* THEOREM: whatever sizes the parts of a result have, and whatever the cap, a
\* tool's answer leaves out the least that brings it under the cap (trim and
\* mostThatFit of the kits).
THEOREM TrimsKeepMost == ToolSpec => []TrimKeepsMost
<1>1. Begun("result") => ToolInv
  BY InputsAssumption DEF Begun, ToolInv
<1>2. ToolInv /\ [CallTool]_<<subject, given, made>> => ToolInv'
  <2> SUFFICES ASSUME ToolInv, [CallTool]_<<subject, given, made>> PROVE ToolInv'
    OBVIOUS
  <2>1. CASE CallTool
    BY <2>1 DEF ToolInv, CallTool, Make, Called
  <2>2. CASE UNCHANGED <<subject, given, made>>
    BY <2>2 DEF ToolInv, Called
  <2> QED
    BY <2>1, <2>2
<1>3. ToolInv => TrimKeepsMost
  <2> SUFFICES ASSUME ToolInv, made # <<>> PROVE TrimKeepsMost
    BY DEF TrimKeepsMost, Made
  <2>1. Called(given) /\ given.tool \in {"wow_get_state", "wow_get_history", "bg1_get_state"}
    BY DEF ToolInv, Called
  <2>2. CASE given.tool = "wow_get_state"
    BY <2>1, <2>2, StateAnswers DEF ToolInv
  <2>3. CASE given.tool = "wow_get_history"
    BY <2>1, <2>3, HistoryAnswers DEF ToolInv
  <2>4. CASE given.tool = "bg1_get_state"
    BY <2>1, <2>4, JournalAnswers DEF ToolInv
  <2> QED
    BY <2>1, <2>2, <2>3, <2>4
<1> QED
  BY <1>1, <1>2, <1>3, PTL DEF ToolSpec
-----------------------------------------------------------------------------
(* What the WoW kit tells of a parsed file: its client.                         *)

\* An interface number is in the range of one flavor at most.
LEMMA FlavorRanges ==
  ASSUME NEW i \in Int
  PROVE  /\ Wow!InRange("classic_era", i) <=> (i >= 11000 /\ i <= 11999)
         /\ Wow!InRange("classic_sod", i) <=> (i >= 11000 /\ i <= 11999)
         /\ Wow!InRange("tbc_classic", i) <=> (i >= 20000 /\ i <= 29999)
         /\ Wow!InRange("mists_classic", i) <=> (i >= 50000 /\ i <= 59999)
         /\ Wow!InRange("forever", i) <=> (i >= 16000 /\ i <= 16999)
         /\ Wow!InRange("retail", i) <=> (i >= 100000 /\ i <= 999999)
  BY DEF Wow!InRange

\* The flavors whose clients have an interface number.
Claiming(i) == {f \in Flavors : Wow!InRange(f, i)}

LEMMA OneFlavor ==
  ASSUME NEW i \in Int, NEW f \in Flavors \cup {"classic_sod"}, Wow!InRange(f, i)
  PROVE  Claiming(i) = {IF f = "classic_sod" THEN "classic_era" ELSE f}
<1> DEFINE g == IF f = "classic_sod" THEN "classic_era" ELSE f
<1>1. g \in Flavors /\ Wow!InRange(g, i)
  BY FlavorRanges DEF Flavors
<1>2. ASSUME NEW h \in Flavors, Wow!InRange(h, i) PROVE h = g
  <2> HIDE DEF g
  <2> DEFINE Claims(x) == Wow!InRange(x, i)
  <2>1. /\ Claims("classic_era") <=> (i >= 11000 /\ i <= 11999)
        /\ Claims("tbc_classic") <=> (i >= 20000 /\ i <= 29999)
        /\ Claims("mists_classic") <=> (i >= 50000 /\ i <= 59999)
        /\ Claims("forever") <=> (i >= 16000 /\ i <= 16999)
        /\ Claims("retail") <=> (i >= 100000 /\ i <= 999999)
    BY FlavorRanges
  <2>2. Claims(g) /\ Claims(h)
    BY <1>1, <1>2
  <2> HIDE DEF Claims
  <2>3. CASE g = "classic_era"
    BY <1>2, <2>1, <2>2, <2>3 DEF Flavors
  <2>4. CASE g = "tbc_classic"
    BY <1>2, <2>1, <2>2, <2>4 DEF Flavors
  <2>5. CASE g = "mists_classic"
    BY <1>2, <2>1, <2>2, <2>5 DEF Flavors
  <2>6. CASE g = "forever"
    BY <1>2, <2>1, <2>2, <2>6 DEF Flavors
  <2>7. CASE g = "retail"
    BY <1>2, <2>1, <2>2, <2>7 DEF Flavors
  <2> QED
    BY <1>1, <2>3, <2>4, <2>5, <2>6, <2>7 DEF Flavors
<1> QED
  <2> HIDE DEF g
  <2>1. Claiming(i) = {g}
    BY <1>1, <1>2 DEF Claiming
  <2> QED
    BY <2>1 DEF g

\* A row of the table names a flavor, and hardcore only for a hardcore season.
LEMMA Rows ==
  ASSUME NEW client \in ClientFacts, Wow!Row(client) # Wow!None
  PROVE  /\ Wow!Row(client)[1] \in Flavors \cup {"classic_sod"}
         /\ "hardcore" \in Wow!Row(client)[2] => Wow!Row(client)[1] = "classic_era" /\ client.season \in {3, 12}
<1>1. Wow!Or(client.season, 0) = IF client.season = -1 THEN 0 ELSE client.season
  BY DEF Wow!Or, Wow!Null
<1>2. client.project \in Int /\ client.season \in Int
  BY DEF ClientFacts
<1> DEFINE season == Wow!Or(client.season, 0)
<1>3. CASE client.project = 2
  <2>1. Wow!Row(client) = Wow!ClassicRow(season)
    BY <1>3 DEF Wow!Row, Wow!Projects
  <2>2. season \in Int /\ (season \in {3, 12} => client.season = season)
    BY <1>1, <1>2
  <2> HIDE DEF season
  <2>3. CASE season = 0
    <3>1. Wow!ClassicRow(season) = <<"classic_era", {}>>
      BY <2>3 DEF Wow!ClassicRow
    <3> QED
      BY <2>1, <3>1 DEF Flavors
  <2>4. CASE season = 2
    <3>1. Wow!ClassicRow(season) = <<"classic_sod", {}>>
      BY <2>4 DEF Wow!ClassicRow
    <3> QED
      BY <2>1, <3>1 DEF Flavors
  <2>5. CASE season = 3
    <3>1. Wow!ClassicRow(season) = <<"classic_era", {"hardcore"}>>
      BY <2>5 DEF Wow!ClassicRow
    <3> QED
      BY <2>1, <2>2, <2>5, <3>1 DEF Flavors
  <2>6. CASE season = 11
    <3>1. Wow!ClassicRow(season) = <<"classic_era", {"fresh"}>>
      BY <2>6 DEF Wow!ClassicRow
    <3> QED
      BY <2>1, <3>1 DEF Flavors
  <2>7. CASE season = 12
    <3>1. Wow!ClassicRow(season) = <<"classic_era", {"fresh", "hardcore"}>>
      BY <2>7 DEF Wow!ClassicRow
    <3> QED
      BY <2>1, <2>2, <2>7, <3>1 DEF Flavors
  <2>8. CASE season \notin {0, 2, 3, 11, 12}
    <3>1. Wow!ClassicRow(season) = Wow!None
      BY <2>8 DEF Wow!ClassicRow
    <3> QED
      BY <2>1, <3>1
  <2> QED
    BY <2>3, <2>4, <2>5, <2>6, <2>7, <2>8
<1>4. CASE client.project = 5
  <2>1. Wow!Row(client) = <<"tbc_classic", {}>>
    BY <1>4 DEF Wow!Row, Wow!Projects
  <2> QED
    BY <2>1 DEF Flavors
<1>5. CASE client.project = 19
  <2>1. Wow!Row(client) = <<"mists_classic", {}>>
    BY <1>5 DEF Wow!Row, Wow!Projects
  <2> QED
    BY <2>1 DEF Flavors
<1>6. CASE client.project = 1
  <2>1. Wow!Row(client) = <<"forever", {}>> \/ Wow!Row(client) = <<"retail", {}>>
    BY <1>6 DEF Wow!Row, Wow!Projects
  <2>2. CASE Wow!Row(client) = <<"forever", {}>>
    BY <2>2 DEF Flavors
  <2>3. CASE Wow!Row(client) = <<"retail", {}>>
    BY <2>3 DEF Flavors
  <2> QED
    BY <2>1, <2>2, <2>3
<1>7. CASE client.project \notin {1, 2, 5, 19}
  <2>1. Wow!Row(client) = Wow!None
    BY <1>7 DEF Wow!Row, Wow!Projects
  <2> QED
    BY <2>1
<1> QED
  BY <1>3, <1>4, <1>5, <1>6, <1>7

\* What parse() makes of a file is true of its client, its schema and the clock.
LEMMA ParsedIsTrue ==
  ASSUME NEW file, Stored(file)
  PROVE  ParsedTrue(Wow!ParseDb(file.db, file.now), file.db, file.now)
<1> DEFINE dump == file.db
           now == file.now
           parsed == Wow!ParseDb(dump, now)
           read == [ok |-> TRUE, flavor |-> Wow!Detect(dump.client).flavor, rules |-> Wow!Detect(dump.client).rules,
                    character |-> dump.guid, capturedAt |-> Wow!CapturedAt(dump.stamp, now)]
<1>1. /\ dump.kind \in {"table", "list", "missing", "unreadable"} /\ dump.schema \in Int /\ dump.stamp \in Int /\ now \in Int
      /\ dump.client = <<>> \/ dump.client[1] \in ClientFacts
  BY DEF Stored
<1> HIDE DEF dump, now
<1>2. parsed.ok => dump.schema = Wow!AdapterSchema /\ parsed = read
  <2>1. CASE dump.kind = "table" /\ dump.schema = Wow!AdapterSchema /\ Wow!SchemaGood(dump)
    <3>1. dump.schema # Wow!Null
      BY <2>1 DEF Wow!AdapterSchema, Wow!Null
    <3>2. parsed = read
      BY <2>1, <3>1 DEF Wow!ParseDb
    <3> QED
      BY <2>1, <3>2
  <2>2. CASE ~(dump.kind = "table" /\ dump.schema = Wow!AdapterSchema /\ Wow!SchemaGood(dump))
    <3>1. ~parsed.ok
      BY <1>1, <2>2 DEF Wow!ParseDb
    <3> QED
      BY <3>1
  <2> QED
    BY <2>1, <2>2
<1> DEFINE detected == Wow!Detect(dump.client)
<1>3. /\ detected.flavor # "unknown" =>
           /\ dump.client # <<>>
           /\ Claiming(dump.client[1].interface) = {IF detected.flavor = "classic_sod" THEN "classic_era" ELSE detected.flavor}
      /\ "hardcore" \in detected.rules => detected.flavor = "classic_era" /\ dump.client[1].season \in {3, 12}
  <2> DEFINE row == IF dump.client = Wow!None THEN Wow!None ELSE Wow!Row(dump.client[1])
  <2>1. CASE row # Wow!None /\ Wow!InRange(row[1], dump.client[1].interface)
    <3>1. dump.client # <<>> /\ dump.client[1] \in ClientFacts /\ row = Wow!Row(dump.client[1])
      BY <1>1, <2>1 DEF Wow!None
    <3>2. dump.client[1].interface \in Int
      BY <3>1 DEF ClientFacts
    <3>3. detected.flavor = row[1] /\ detected.rules = row[2]
      BY <2>1 DEF Wow!Detect
    <3> HIDE DEF row, detected
    <3>4. row[1] \in Flavors \cup {"classic_sod"}
      BY <2>1, <3>1, Rows
    <3>5. "hardcore" \in row[2] => row[1] = "classic_era" /\ dump.client[1].season \in {3, 12}
      BY <2>1, <3>1, Rows
    <3>6. Claiming(dump.client[1].interface) = {IF row[1] = "classic_sod" THEN "classic_era" ELSE row[1]}
      BY <2>1, <3>2, <3>4, OneFlavor
    <3> QED
      BY <3>1, <3>3, <3>5, <3>6
  <2>2. CASE ~(row # Wow!None /\ Wow!InRange(row[1], dump.client[1].interface))
    <3>1. detected = [flavor |-> "unknown", rules |-> {}]
      BY <2>2 DEF Wow!Detect
    <3> QED
      BY <3>1
  <2> QED
    BY <2>1, <2>2
<1>4. LET at == Wow!CapturedAt(dump.stamp, now)
      IN at # Wow!Null => at \in Wow!CapturedAtMin..now + Wow!CapturedAtAhead
  BY <1>1 DEF Wow!CapturedAt, Wow!CapturedAtMin, Wow!CapturedAtAhead, Wow!Null
<1>5. ParsedTrue(parsed, dump, now)
  <2> SUFFICES ASSUME parsed.ok PROVE ParsedTrue(parsed, dump, now)
    BY DEF ParsedTrue
  <2>1. dump.schema = Wow!AdapterSchema /\ parsed = read
    BY <1>2
  <2>2. /\ parsed.flavor = detected.flavor /\ parsed.rules = detected.rules
        /\ parsed.capturedAt = Wow!CapturedAt(dump.stamp, now)
    BY <2>1
  <2> HIDE DEF parsed, detected
  <2> QED
    BY <1>3, <1>4, <2>1, <2>2 DEF ParsedTrue, Claiming
<1> QED
  BY <1>5 DEF dump, now

-----------------------------------------------------------------------------
(* The way the path went.                                                       *)

\* The length of a move aside.
Aside(n) == IF n < 0 THEN -n ELSE n

\* What is along and aside of a move lies within a sixteenth of a turn.
Within(along, across) == along > 0 /\ (along + Aside(across)) * (along + Aside(across)) <= 2 * along * along

LEMMA AlongAnAxis ==
  ASSUME NEW a \in Nat, NEW b \in Nat, (a + b) * (a + b) < 2 * b * b
  PROVE  Within(b, a) /\ Within(b, -a)
<1>1. Aside(a) = a /\ Aside(-a) = a
  BY DEF Aside
<1>2. b > 0
  <2> SUFFICES ASSUME b = 0 PROVE FALSE
    OBVIOUS
  <2>1. a * a < 0
    OBVIOUS
  <2>2. a * a \in Nat
    OBVIOUS
  <2> QED
    BY <2>1, <2>2
<1>3. (b + a) * (b + a) <= 2 * b * b
  <2>1. b + a = a + b
    OBVIOUS
  <2>2. (a + b) * (a + b) \in Int /\ 2 * b * b \in Int
    OBVIOUS
  <2> QED
    BY <2>1, <2>2
<1> QED
  BY <1>1, <1>2, <1>3 DEF Within

LEMMA AlongADiagonal ==
  ASSUME NEW a \in Nat, NEW b \in Nat, a > 0, b > 0,
         (a + b) * (a + b) >= 2 * a * a, (a + b) * (a + b) >= 2 * b * b
  PROVE  Within(a + b, a - b)
<1> DEFINE s == a + b
<1>1. CASE a >= b
  <2>1. s + Aside(a - b) = 2 * a
    BY <1>1 DEF Aside
  <2>2. (2 * a) * (2 * a) = 2 * (2 * a * a) /\ 2 * s * s = 2 * (s * s)
    OBVIOUS
  <2>3. s * s \in Int /\ 2 * a * a \in Int /\ s * s >= 2 * a * a
    OBVIOUS
  <2>4. (2 * a) * (2 * a) <= 2 * s * s
    BY <2>2, <2>3
  <2>5. s > 0
    OBVIOUS
  <2> HIDE DEF s
  <2> QED
    BY <2>1, <2>4, <2>5 DEF Within, s
<1>2. CASE a < b
  <2>1. s + Aside(a - b) = 2 * b
    BY <1>2 DEF Aside
  <2>2. (2 * b) * (2 * b) = 2 * (2 * b * b) /\ 2 * s * s = 2 * (s * s)
    OBVIOUS
  <2>3. s * s \in Int /\ 2 * b * b \in Int /\ s * s >= 2 * b * b
    OBVIOUS
  <2>4. (2 * b) * (2 * b) <= 2 * s * s
    BY <2>2, <2>3
  <2>5. s > 0
    OBVIOUS
  <2> HIDE DEF s
  <2> QED
    BY <2>1, <2>4, <2>5 DEF Within, s
<1> QED
  BY <1>1, <1>2

\* Each of the eight ways is within a sixteenth of a turn of the moves it is told of.
LEMMA WayIsTrue ==
  ASSUME NEW e \in Int, NEW n \in Int, e # 0 \/ n # 0
  PROVE  LET way == Ways[Wow!Way(e, n)]
         IN Within(way[1] * e + way[2] * n, way[1] * n - way[2] * e)
<1> DEFINE a == IF e < 0 THEN -e ELSE e
           b == IF n < 0 THEN -n ELSE n
           w == Wow!Way(e, n)
           upright == (a + b) * (a + b) < 2 * n * n
           level == (b + a) * (b + a) < 2 * e * e
<1>1. a \in Nat /\ b \in Nat
  OBVIOUS
<1>2. n * n = b * b /\ e * e = a * a
  <2>1. b = n \/ b = -n
    OBVIOUS
  <2>2. a = e \/ a = -e
    OBVIOUS
  <2> HIDE DEF a, b
  <2> QED
    BY <1>1, <2>1, <2>2
<1>3. 2 * n * n = 2 * b * b /\ 2 * e * e = 2 * a * a
  <2>1. 2 * n * n = 2 * (n * n) /\ 2 * b * b = 2 * (b * b) /\ 2 * e * e = 2 * (e * e) /\ 2 * a * a = 2 * (a * a)
    OBVIOUS
  <2> HIDE DEF a, b
  <2> QED
    BY <1>2, <2>1
<1>4. w = IF upright THEN (IF n > 0 THEN "north" ELSE "south")
          ELSE IF level THEN (IF e > 0 THEN "east" ELSE "west")
          ELSE IF n > 0 THEN (IF e > 0 THEN "northeast" ELSE "northwest")
          ELSE IF e > 0 THEN "southeast" ELSE "southwest"
  BY DEF Wow!Way
<1> DEFINE Right(x, y) == Within(x * e + y * n, x * n - y * e)
<1>5. SUFFICES Right(Ways[w][1], Ways[w][2])
  OBVIOUS
<1>6. CASE upright
  <2>1. Within(b, a) /\ Within(b, -a)
    <3>1. (a + b) * (a + b) < 2 * b * b
      BY <1>3, <1>6
    <3> HIDE DEF a, b
    <3> QED
      BY <1>1, <3>1, AlongAnAxis
  <2>2. CASE n > 0
    <3>1. Ways[w] = <<0, 1>>
      BY <1>4, <1>6, <2>2 DEF Ways
    <3>2. 0 * e + 1 * n = b /\ (0 * n - 1 * e = a \/ 0 * n - 1 * e = -a)
      BY <2>2
    <3> HIDE DEF a, b, w
    <3> QED
      BY <2>1, <3>1, <3>2
  <2>3. CASE ~(n > 0)
    <3>1. Ways[w] = <<0, -1>>
      BY <1>4, <1>6, <2>3 DEF Ways
    <3>2. 0 * e + (-1) * n = b /\ (0 * n - (-1) * e = a \/ 0 * n - (-1) * e = -a)
      BY <2>3
    <3> HIDE DEF a, b, w
    <3> QED
      BY <2>1, <3>1, <3>2
  <2> QED
    BY <2>2, <2>3
<1>7. CASE ~upright /\ level
  <2>1. Within(a, b) /\ Within(a, -b)
    <3>1. (b + a) * (b + a) < 2 * a * a
      BY <1>3, <1>7
    <3> HIDE DEF a, b
    <3> QED
      BY <1>1, <3>1, AlongAnAxis
  <2>2. CASE e > 0
    <3>1. Ways[w] = <<1, 0>>
      BY <1>4, <1>7, <2>2 DEF Ways
    <3>2. 1 * e + 0 * n = a /\ (1 * n - 0 * e = b \/ 1 * n - 0 * e = -b)
      BY <2>2
    <3> HIDE DEF a, b, w
    <3> QED
      BY <2>1, <3>1, <3>2
  <2>3. CASE ~(e > 0)
    <3>1. Ways[w] = <<-1, 0>>
      BY <1>4, <1>7, <2>3 DEF Ways
    <3>2. (-1) * e + 0 * n = a /\ ((-1) * n - 0 * e = b \/ (-1) * n - 0 * e = -b)
      BY <2>3
    <3> HIDE DEF a, b, w
    <3> QED
      BY <2>1, <3>1, <3>2
  <2> QED
    BY <2>2, <2>3
<1>8. CASE ~upright /\ ~level
  <2>1. (a + b) * (a + b) >= 2 * b * b /\ (a + b) * (a + b) >= 2 * a * a
    <3>1. ~((a + b) * (a + b) < 2 * b * b) /\ ~((b + a) * (b + a) < 2 * a * a)
      BY <1>3, <1>8
    <3>2. b + a = a + b
      BY <1>1
    <3> HIDE DEF a, b
    <3>3. (a + b) * (a + b) \in Int /\ 2 * b * b \in Int /\ 2 * a * a \in Int
      BY <1>1
    <3> QED
      BY <3>1, <3>2, <3>3
  <2>2. a # 0 /\ b # 0
    <3>1. a # 0 \/ b # 0
      OBVIOUS
    <3> HIDE DEF a, b
    <3>2. ASSUME a = 0 PROVE b * b >= 2 * b * b
      <4>1. a + b = b
        BY <1>1, <3>2
      <4> QED
        BY <2>1, <4>1
    <3>3. ASSUME b = 0 PROVE a * a >= 2 * a * a
      <4>1. a + b = a
        BY <1>1, <3>3
      <4> QED
        BY <2>1, <4>1
    <3>4. ASSUME NEW c \in Nat, c # 0 PROVE ~(c * c >= 2 * c * c)
      <4>1. c * c > 0
        BY <3>4
      <4>2. 2 * c * c = 2 * (c * c) /\ c * c \in Nat
        OBVIOUS
      <4> QED
        BY <4>1, <4>2
    <3> QED
      BY <1>1, <3>1, <3>2, <3>3, <3>4
  <2>3. Within(a + b, a - b) /\ Within(a + b, b - a)
    <3>1. a > 0 /\ b > 0 /\ a + b = b + a
      BY <1>1, <2>2
    <3> HIDE DEF a, b
    <3>2. Within(a + b, a - b)
      BY <1>1, <2>1, <3>1, AlongADiagonal
    <3>3. Within(b + a, b - a)
      BY <1>1, <2>1, <3>1, AlongADiagonal
    <3> QED
      BY <3>1, <3>2, <3>3
  <2>4. CASE n > 0 /\ e > 0
    <3>1. Ways[w] = <<1, 1>>
      BY <1>4, <1>8, <2>4 DEF Ways
    <3>2. 1 * e + 1 * n = a + b /\ 1 * n - 1 * e = b - a
      BY <2>4
    <3> HIDE DEF a, b, w
    <3> QED
      BY <2>3, <3>1, <3>2
  <2>5. CASE n > 0 /\ ~(e > 0)
    <3>1. Ways[w] = <<-1, 1>>
      BY <1>4, <1>8, <2>5 DEF Ways
    <3>2. (-1) * e + 1 * n = a + b /\ (-1) * n - 1 * e = a - b
      BY <2>5
    <3> HIDE DEF a, b, w
    <3> QED
      BY <2>3, <3>1, <3>2
  <2>6. CASE ~(n > 0) /\ e > 0
    <3>1. Ways[w] = <<1, -1>>
      BY <1>4, <1>8, <2>6 DEF Ways
    <3>2. 1 * e + (-1) * n = a + b /\ 1 * n - (-1) * e = a - b
      BY <2>6
    <3> HIDE DEF a, b, w
    <3> QED
      BY <2>3, <3>1, <3>2
  <2>7. CASE ~(n > 0) /\ ~(e > 0)
    <3>1. Ways[w] = <<-1, -1>>
      BY <1>4, <1>8, <2>7 DEF Ways
    <3>2. (-1) * e + (-1) * n = a + b /\ (-1) * n - (-1) * e = b - a
      BY <2>7
    <3> HIDE DEF a, b, w
    <3> QED
      BY <2>3, <3>1, <3>2
  <2> QED
    BY <2>4, <2>5, <2>6, <2>7
<1> QED
  BY <1>6, <1>7, <1>8

\* A direction is told between two places that are apart, and is the way between them.
LEMMA DirectionIsTrue ==
  ASSUME NEW from \in Positions, NEW to \in Positions, Wow!DirectionBetween(from, to) # "none"
  PROVE  WayTrue(from, to, Wow!DirectionBetween(from, to))
<1> DEFINE east == 3 * (to.x - from.x)
           north == 2 * (from.y - to.y)
           way == Wow!Way(east, north)
<1>1. east \in Int /\ north \in Int
  BY DEF Positions
<1>2. /\ Wow!DirectionBetween(from, to) = way
      /\ ~(east * east + north * north < 4 * Wow!MinMove * Wow!MinMove)
  BY DEF Wow!DirectionBetween
<1> HIDE DEF east, north
<1>3. east # 0 \/ north # 0
  <2> SUFFICES ASSUME east = 0, north = 0 PROVE FALSE
    OBVIOUS
  <2>1. east * east + north * north = 0
    OBVIOUS
  <2> QED
    BY <1>2, <2>1 DEF Wow!MinMove
<1>4. Within(Ways[way][1] * east + Ways[way][2] * north, Ways[way][1] * north - Ways[way][2] * east)
  BY <1>1, <1>3, WayIsTrue
<1> HIDE DEF way
<1> QED
  BY <1>2, <1>4 DEF WayTrue, Within, Aside, east, north

\* What the tools tell of a path is its places from the newest on, and the way to each.
LEMMA PathIsTrue ==
  ASSUME NEW path \in Seq(Positions)
  PROVE  PathTrue(Wow!BuildRecentPath(path), path)
<1> DEFINE n == Len(path)
           told(i) == [place |-> path[i],
                       moved |-> IF i > 1 /\ path[i - 1].map # Wow!Null /\ path[i - 1].map = path[i].map
                                 THEN Wow!DirectionBetween(path[i - 1], path[i]) ELSE "none"]
           shown == Wow!BuildRecentPath(path)
<1>1. n \in Nat /\ \A i \in 1..n : path[i] \in Positions
  OBVIOUS
<1>2. \A i \in 1..n : shown[i] = told(n - i + 1)
  <2> DEFINE all == [i \in 1..n |-> told(i)]
  <2>1. shown = Wow!Reverse(all)
    BY DEF Wow!BuildRecentPath
  <2>2. Len(all) = n
    BY <1>1
  <2> HIDE DEF all
  <2>3. shown = [i \in 1..n |-> all[(n - i) + 1]]
    BY <2>1, <2>2 DEF Wow!Reverse
  <2>4. \A i \in 1..n : (n - i) + 1 \in 1..n
    BY <1>1
  <2> HIDE DEF told, n, shown
  <2> QED
    BY <2>3, <2>4 DEF all
<1> HIDE DEF shown
<1>3. ASSUME NEW i \in 1..n
      PROVE  LET to == path[n + 1 - i]
                 from == path[n - i]
             IN /\ shown[i].place = to
                /\ shown[i].moved # "none" => i < n /\ from.map = to.map /\ WayTrue(from, to, shown[i].moved)
  <2> DEFINE k == n - i + 1
  <2>1. k \in 1..n /\ n + 1 - i = k /\ n - i = k - 1
    BY <1>1
  <2>2. shown[i] = told(k)
    BY <1>2
  <2> HIDE DEF n, k
  <2>3. shown[i].place = path[k]
    BY <2>2
  <2>4. ASSUME shown[i].moved # "none"
        PROVE  i < n /\ path[k - 1].map = path[k].map /\ WayTrue(path[k - 1], path[k], shown[i].moved)
    <3>1. /\ k > 1 /\ path[k - 1].map = path[k].map
          /\ shown[i].moved = Wow!DirectionBetween(path[k - 1], path[k])
      BY <2>2, <2>4
    <3>2. path[k - 1] \in Positions /\ path[k] \in Positions
      BY <1>1, <2>1, <3>1
    <3>3. WayTrue(path[k - 1], path[k], shown[i].moved)
      BY <2>4, <3>1, <3>2, DirectionIsTrue
    <3> QED
      BY <1>1, <2>1, <3>1, <3>3 DEF k
  <2> QED
    BY <2>1, <2>3, <2>4
<1> QED
  BY <1>3 DEF PathTrue, shown

-----------------------------------------------------------------------------
(* The lists of skills.                                                         *)

\* A recursion of L steps from zero, which stays in V; and the function it defines.
Recursive(V, zero, L, step) ==
  zero \in V /\ L \in Nat /\ \A v \in V, n \in 1..L : step[<<v, n>>] \in V
HasFunction(V, zero, L, step) ==
  \E f \in [0..L -> V] : f[0] = zero /\ \A n \in 1..L : f[n] = step[<<f[n - 1], n>>]

LEMMA Recursion ==
  ASSUME NEW V, NEW zero, NEW L, NEW step, Recursive(V, zero, L, step)
  PROVE  HasFunction(V, zero, L, step)
<1>0. zero \in V /\ L \in Nat /\ \A v \in V, n \in 1..L : step[<<v, n>>] \in V
  BY DEF Recursive
<1> DEFINE Good(f, k) == f \in [0..k -> V] /\ f[0] = zero /\ \A n \in 1..k : f[n] = step[<<f[n - 1], n>>]
           S == {k \in 0..L : \E f : Good(f, k)}
<1>1. 0 \in S
  <2>1. Good([n \in 0..0 |-> zero], 0)
    BY <1>0
  <2> HIDE DEF Good
  <2> QED
    BY <1>0, <2>1
<1>2. ASSUME NEW k \in 0..L - 1, k \in S PROVE k + 1 \in S
  <2>1. PICK f : Good(f, k)
    BY <1>2
  <2> DEFINE g == [n \in 0..k + 1 |-> IF n = k + 1 THEN step[<<f[k], k + 1>>] ELSE f[n]]
  <2>2. k + 1 \in 1..L /\ f[k] \in V
    BY <1>0, <2>1
  <2>3. step[<<f[k], k + 1>>] \in V
    BY <1>0, <2>2
  <2>4. g \in [0..k + 1 -> V] /\ g[0] = zero
    BY <2>1, <2>3
  <2>5. ASSUME NEW n \in 1..k + 1 PROVE g[n] = step[<<g[n - 1], n>>]
    <3>1. CASE n = k + 1
      <4>1. n - 1 = k /\ k \in 0..k + 1 /\ k # k + 1
        BY <3>1
      <4>2. g[n] = step[<<f[k], n>>] /\ g[n - 1] = f[k]
        BY <3>1, <4>1
      <4> QED
        BY <4>2
    <3>2. CASE n # k + 1
      <4>1. n \in 1..k /\ n - 1 \in 0..k
        BY <3>2
      <4> QED
        BY <2>1, <4>1
    <3> QED
      BY <3>1, <3>2
  <2>6. Good(g, k + 1)
    <3> HIDE DEF g
    <3> QED
      BY <2>4, <2>5
  <2> HIDE DEF Good
  <2> QED
    BY <1>0, <2>2, <2>6
<1>3. 0..L \subseteq S
  <2> HIDE DEF S
  <2> QED
    BY <1>0, <1>1, <1>2, UpTo
<1>4. PICK f : Good(f, L)
  BY <1>0, <1>3
<1> QED
  BY <1>4 DEF HasFunction

\* What is filtered from a list is what the recursion says.
LEMMA FilteredAre ==
  ASSUME NEW T, NEW list \in Seq(T), NEW kept
  PROVE  LET first == Wow!Filtered(list, kept)
         IN /\ first[0] = <<>>
            /\ \A n \in 1..Len(list) :
                 first[n] = IF list[n] \in kept THEN Append(first[n - 1], list[n]) ELSE first[n - 1]
<1> DEFINE L == Len(list)
           Longer(before, n) == IF list[n] \in kept THEN Append(before, list[n]) ELSE before
           Rec(f) == [n \in 0..L |-> IF n = 0 THEN <<>> ELSE Longer(f[n - 1], n)]
           step == [p \in Seq(T) \X (1..L) |-> Longer(p[1], p[2])]
           first == Wow!Filtered(list, kept)
<1>1. L \in Nat /\ step \in [Seq(T) \X (1..L) -> Seq(T)] /\ <<>> \in Seq(T)
  OBVIOUS
<1> HIDE DEF L, Longer
<1>2. PICK f \in [0..L -> Seq(T)] : f[0] = <<>> /\ \A n \in 1..L : f[n] = step[<<f[n - 1], n>>]
  <2>1. Recursive(Seq(T), <<>>, L, step)
    BY <1>1 DEF Recursive
  <2>2. HasFunction(Seq(T), <<>>, L, step)
    BY <2>1, Recursion
  <2> QED
    BY <2>2 DEF HasFunction
<1>3. f = Rec(f)
  <2>1. ASSUME NEW n \in 0..L PROVE f[n] = IF n = 0 THEN <<>> ELSE Longer(f[n - 1], n)
    <3>1. CASE n = 0
      BY <1>2, <3>1
    <3>2. CASE n # 0
      <4>1. n \in 1..L /\ n - 1 \in 0..L
        BY <1>1, <3>2
      <4>2. f[n - 1] \in Seq(T) /\ f[n] = step[<<f[n - 1], n>>]
        BY <1>2, <4>1
      <4> QED
        BY <3>2, <4>1, <4>2
    <3> QED
      BY <3>1, <3>2
  <2> HIDE DEF Longer, step
  <2> QED
    BY <2>1
<1>4. first = CHOOSE g : g = Rec(g)
  BY DEF Wow!Filtered, L, Longer
<1>5. first = Rec(first)
  <2> HIDE DEF Rec, first
  <2> QED
    BY <1>3, <1>4
<1> HIDE DEF first
<1>6. first[0] = <<>> /\ \A n \in 1..L : first[n] = Longer(first[n - 1], n)
  <2>1. \A n \in 0..L : first[n] = IF n = 0 THEN <<>> ELSE Longer(first[n - 1], n)
    BY <1>5
  <2> QED
    BY <1>1, <2>1
<1> QED
  BY <1>6 DEF first, L, Longer

\* A value added to a list is in it once more.
LEMMA CountOfAppended ==
  ASSUME NEW T, NEW list \in Seq(T), NEW x \in T, NEW v
  PROVE  /\ CountIn(list, v) \in Nat
         /\ CountIn(Append(list, x), v) = CountIn(list, v) + (IF x = v THEN 1 ELSE 0)
<1> DEFINE n == Len(list)
           more == Append(list, x)
           S == {i \in 1..n : list[i] = v}
<1>1. n \in Nat /\ DOMAIN list = 1..n /\ DOMAIN more = 1..n + 1
  OBVIOUS
<1>2. (\A i \in 1..n : more[i] = list[i]) /\ more[n + 1] = x
  OBVIOUS
<1> HIDE DEF more, n
<1>3. IsFiniteSet(S) /\ Cardinality(S) \in Nat
  <2>1. IsFiniteSet(1..n)
    BY <1>1, FS_Interval
  <2>2. IsFiniteSet(S)
    BY <2>1, FS_Subset
  <2> QED
    BY <2>2, FS_CardinalityType
<1>4. CountIn(list, v) = Cardinality(S)
  BY <1>1 DEF CountIn
<1>5. CASE x = v
  <2>1. {i \in DOMAIN more : more[i] = v} = S \cup {n + 1}
    BY <1>1, <1>2, <1>5
  <2>2. n + 1 \notin S
    BY <1>1
  <2> HIDE DEF S
  <2>3. Cardinality(S \cup {n + 1}) = Cardinality(S) + 1
    BY <1>3, <2>2, FS_AddElement
  <2> QED
    BY <1>3, <1>4, <1>5, <2>1, <2>3 DEF CountIn, more
<1>6. CASE x # v
  <2>1. {i \in DOMAIN more : more[i] = v} = S
    BY <1>1, <1>2, <1>6
  <2>2. CountIn(more, v) = Cardinality(S)
    BY <2>1 DEF CountIn
  <2> HIDE DEF S
  <2> QED
    BY <1>3, <1>4, <1>6, <2>2 DEF more
<1> QED
  BY <1>5, <1>6

\* A filter keeps each of its values as often as the list has it, and no other value.
LEMMA FilterKeeps ==
  ASSUME NEW T, NEW list \in Seq(T), NEW kept
  PROVE  LET out == Wow!Filter(list, kept)
         IN /\ out \in Seq(T)
            /\ \A v : CountIn(out, v) = IF v \in kept THEN CountIn(list, v) ELSE 0
            /\ \A i \in DOMAIN out : out[i] \in kept /\ out[i] \in Range(list)
<1> DEFINE L == Len(list)
           first == Wow!Filtered(list, kept)
           Upto(n) == SubSeq(list, 1, n)
           Good(n) == /\ first[n] \in Seq(T)
                      /\ \A v : CountIn(first[n], v) = IF v \in kept THEN CountIn(Upto(n), v) ELSE 0
                      /\ \A i \in DOMAIN first[n] : first[n][i] \in kept /\ first[n][i] \in Range(list)
           S == {n \in 0..L : Good(n)}
<1>1. L \in Nat /\ \A n \in 1..L : list[n] \in T /\ list[n] \in Range(list)
  BY DEF Range
<1>2. first[0] = <<>> /\ \A n \in 1..L : first[n] = IF list[n] \in kept THEN Append(first[n - 1], list[n]) ELSE first[n - 1]
  BY FilteredAre
<1>3. Upto(L) = list /\ Upto(0) = <<>>
  OBVIOUS
<1>4. \A n \in 0..L - 1 : Upto(n) \in Seq(T) /\ Upto(n + 1) = Append(Upto(n), list[n + 1])
  OBVIOUS
<1>5. ASSUME NEW v PROVE CountIn(<<>>, v) = 0
  <2>1. {i \in DOMAIN <<>> : <<>>[i] = v} = {}
    OBVIOUS
  <2> QED
    BY <2>1, FS_EmptySet DEF CountIn
<1> HIDE DEF L, first, Upto
<1>6. 0 \in S
  <2>1. first[0] \in Seq(T) /\ DOMAIN first[0] = {}
    BY <1>2
  <2>2. ASSUME NEW v PROVE CountIn(first[0], v) = IF v \in kept THEN CountIn(Upto(0), v) ELSE 0
    BY <1>2, <1>3, <1>5
  <2>3. 0 \in 0..L
    BY <1>1
  <2> QED
    BY <2>1, <2>2, <2>3
<1>7. ASSUME NEW n \in 0..L - 1, n \in S PROVE n + 1 \in S
  <2> DEFINE x == list[n + 1]
  <2>1. n + 1 \in 1..L /\ (n + 1) - 1 = n /\ x \in T /\ x \in Range(list) /\ n + 1 \in 0..L
    BY <1>1
  <2>2. Good(n)
    BY <1>7
  <2>3. ASSUME NEW v
        PROVE  /\ CountIn(Upto(n), v) \in Nat
               /\ CountIn(Upto(n + 1), v) = CountIn(Upto(n), v) + (IF x = v THEN 1 ELSE 0)
    <3>1. Upto(n) \in Seq(T) /\ Upto(n + 1) = Append(Upto(n), x)
      BY <1>4
    <3>2. x \in T
      BY <2>1
    <3> HIDE DEF x
    <3>3. /\ CountIn(Upto(n), v) \in Nat
          /\ CountIn(Append(Upto(n), x), v) = CountIn(Upto(n), v) + (IF x = v THEN 1 ELSE 0)
      BY <3>1, <3>2, CountOfAppended
    <3> QED
      BY <3>1, <3>3
  <2>4. CASE x \in kept
    <3>1. first[n + 1] = Append(first[n], x)
      BY <1>2, <2>1, <2>4
    <3>2. first[n] \in Seq(T)
      BY <2>2
    <3>3. first[n + 1] \in Seq(T)
      BY <2>1, <3>1, <3>2
    <3>4. ASSUME NEW v PROVE CountIn(first[n + 1], v) = IF v \in kept THEN CountIn(Upto(n + 1), v) ELSE 0
      <4>1. CountIn(first[n + 1], v) = CountIn(first[n], v) + (IF x = v THEN 1 ELSE 0)
        BY <2>1, <3>1, <3>2, CountOfAppended
      <4>2. CountIn(first[n], v) = IF v \in kept THEN CountIn(Upto(n), v) ELSE 0
        BY <2>2
      <4> HIDE DEF x
      <4> QED
        BY <2>3, <2>4, <4>1, <4>2
    <3>5. ASSUME NEW i \in DOMAIN first[n + 1] PROVE first[n + 1][i] \in kept /\ first[n + 1][i] \in Range(list)
      <4>1. (i \in DOMAIN first[n] /\ first[n + 1][i] = first[n][i]) \/ first[n + 1][i] = x
        BY <2>1, <3>1, <3>2
      <4> QED
        BY <2>1, <2>2, <2>4, <4>1
    <3> QED
      BY <2>1, <3>3, <3>4, <3>5
  <2>5. CASE x \notin kept
    <3>1. first[n + 1] = first[n]
      BY <1>2, <2>1, <2>5
    <3>2. ASSUME NEW v PROVE CountIn(first[n + 1], v) = IF v \in kept THEN CountIn(Upto(n + 1), v) ELSE 0
      <4>1. CountIn(first[n], v) = IF v \in kept THEN CountIn(Upto(n), v) ELSE 0
        BY <2>2
      <4> HIDE DEF x
      <4> QED
        BY <2>3, <2>5, <3>1, <4>1
    <3> QED
      BY <2>1, <2>2, <3>1, <3>2
  <2> QED
    BY <2>4, <2>5
<1>8. Good(L)
  <2>1. 0..L \subseteq S
    <3> HIDE DEF S
    <3> QED
      BY <1>1, <1>6, <1>7, UpTo
  <2> QED
    BY <1>1, <2>1
<1> QED
  BY <1>3, <1>8 DEF Wow!Filter, L, first

\* Of two lists in a row, each value is in it as often as in both.
LEMMA CountOfJoined ==
  ASSUME NEW T, NEW one \in Seq(T), NEW two \in Seq(T), NEW v
  PROVE  CountIn(one, v) \in Nat /\ CountIn(one \o two, v) = CountIn(one, v) + CountIn(two, v)
<1> DEFINE L == Len(two)
           Upto(n) == SubSeq(two, 1, n)
           Good(n) == CountIn(one \o Upto(n), v) = CountIn(one, v) + CountIn(Upto(n), v)
           S == {n \in 0..L : Good(n)}
<1>1. L \in Nat /\ \A n \in 1..L : two[n] \in T
  OBVIOUS
<1>2. Upto(L) = two /\ Upto(0) = <<>> /\ one \o <<>> = one
  OBVIOUS
<1>3. \A n \in 0..L - 1 : /\ Upto(n) \in Seq(T) /\ one \o Upto(n) \in Seq(T)
                         /\ Upto(n + 1) = Append(Upto(n), two[n + 1])
                         /\ one \o Upto(n + 1) = Append(one \o Upto(n), two[n + 1])
  OBVIOUS
<1>4. \A list \in Seq(T) : CountIn(list, v) \in Nat
  <2> SUFFICES ASSUME NEW list \in Seq(T) PROVE CountIn(list, v) \in Nat
    OBVIOUS
  <2>1. DOMAIN list = 1..Len(list) /\ Len(list) \in Nat
    OBVIOUS
  <2>2. IsFiniteSet(DOMAIN list)
    BY <2>1, FS_Interval
  <2>3. IsFiniteSet({i \in DOMAIN list : list[i] = v})
    BY <2>2, FS_Subset
  <2> QED
    BY <2>3, FS_CardinalityType DEF CountIn
<1>5. CountIn(<<>>, v) = 0
  <2>1. {i \in DOMAIN <<>> : <<>>[i] = v} = {}
    OBVIOUS
  <2> QED
    BY <2>1, FS_EmptySet DEF CountIn
<1> HIDE DEF L, Upto
<1>6. 0 \in S
  <2>1. CountIn(one \o Upto(0), v) = CountIn(one, v) /\ CountIn(Upto(0), v) = 0
    BY <1>2, <1>5
  <2>2. CountIn(one, v) \in Nat
    BY <1>4
  <2>3. Good(0)
    BY <2>1, <2>2
  <2> QED
    BY <1>1, <2>3
<1>7. ASSUME NEW n \in 0..L - 1, n \in S PROVE n + 1 \in S
  <2>1. n + 1 \in 0..L /\ two[n + 1] \in T /\ Good(n)
    BY <1>1, <1>7
  <2> DEFINE x == two[n + 1]
             more == IF x = v THEN 1 ELSE 0
  <2>2. x \in T /\ Upto(n) \in Seq(T) /\ one \o Upto(n) \in Seq(T)
    BY <1>3, <2>1
  <2>3. Upto(n + 1) = Append(Upto(n), x) /\ one \o Upto(n + 1) = Append(one \o Upto(n), x)
    BY <1>3
  <2> HIDE DEF x
  <2>4. CountIn(Append(Upto(n), x), v) = CountIn(Upto(n), v) + more
    BY <2>2, CountOfAppended
  <2>5. CountIn(Append(one \o Upto(n), x), v) = CountIn(one \o Upto(n), v) + more
    <3> DEFINE before == one \o Upto(n)
    <3>1. before \in Seq(T)
      BY <2>2
    <3> HIDE DEF before
    <3>2. CountIn(Append(before, x), v) = CountIn(before, v) + more
      BY <2>2, <3>1, CountOfAppended
    <3> QED
      BY <3>2 DEF before
  <2>6. CountIn(one, v) \in Nat /\ CountIn(Upto(n), v) \in Nat /\ more \in Nat
    BY <1>4, <2>2
  <2> HIDE DEF more
  <2>7. CountIn(one \o Upto(n + 1), v) = CountIn(one, v) + CountIn(Upto(n), v) + more
    BY <2>1, <2>3, <2>5, <2>6
  <2>8. CountIn(Upto(n + 1), v) = CountIn(Upto(n), v) + more
    BY <2>3, <2>4
  <2>9. Good(n + 1)
    BY <2>6, <2>7, <2>8
  <2> QED
    BY <2>1, <2>9
<1>8. Good(L)
  <2>1. 0..L \subseteq S
    <3> HIDE DEF S
    <3> QED
      BY <1>1, <1>6, <1>7, UpTo
  <2> QED
    BY <1>1, <2>1
<1> QED
  BY <1>2, <1>4, <1>8

\* The skills of the first n categories: those of one less, and of the n-th.
OfCategory(lines, n) == Wow!Filter(lines, {s \in Wow!Range(lines) : s.category = Wow!Categories[n]})

LEMMA GroupedAre ==
  ASSUME NEW lines \in Seq(Skills)
  PROVE  LET upTo == Wow!Grouped(lines)
         IN upTo[0] = <<>> /\ \A n \in 1..8 : upTo[n] = upTo[n - 1] \o OfCategory(lines, n)
<1> DEFINE L == Len(Wow!Categories)
           Longer(before, n) == before \o OfCategory(lines, n)
           Rec(f) == [n \in 0..L |-> IF n = 0 THEN <<>> ELSE Longer(f[n - 1], n)]
           step == [p \in Seq(Skills) \X (1..L) |-> Longer(p[1], p[2])]
           upTo == Wow!Grouped(lines)
<1>1. L = 8
  BY DEF Wow!Categories
<1> HIDE DEF L
<1>2. \A n \in 1..L : OfCategory(lines, n) \in Seq(Skills)
  BY FilterKeeps DEF OfCategory
<1>3. Recursive(Seq(Skills), <<>>, L, step)
  <2>1. ASSUME NEW before \in Seq(Skills), NEW n \in 1..L PROVE step[<<before, n>>] \in Seq(Skills)
    <3>1. step[<<before, n>>] = before \o OfCategory(lines, n)
      OBVIOUS
    <3>2. before \o OfCategory(lines, n) \in Seq(Skills)
      BY <1>2
    <3> QED
      BY <3>1, <3>2
  <2>2. <<>> \in Seq(Skills) /\ L \in Nat
    BY <1>1
  <2> HIDE DEF step
  <2> QED
    BY <2>1, <2>2 DEF Recursive
<1>4. HasFunction(Seq(Skills), <<>>, L, step)
  BY <1>3, Recursion
<1>5. PICK f \in [0..L -> Seq(Skills)] : f[0] = <<>> /\ \A n \in 1..L : f[n] = step[<<f[n - 1], n>>]
  BY <1>4 DEF HasFunction
<1>6. f = Rec(f)
  <2>1. ASSUME NEW n \in 0..L PROVE f[n] = IF n = 0 THEN <<>> ELSE Longer(f[n - 1], n)
    <3>1. CASE n = 0
      BY <1>5, <3>1
    <3>2. CASE n # 0
      <4>1. n \in 1..L /\ n - 1 \in 0..L
        BY <1>1, <3>2
      <4>2. f[n - 1] \in Seq(Skills) /\ f[n] = step[<<f[n - 1], n>>]
        BY <1>5, <4>1
      <4> QED
        BY <3>2, <4>1, <4>2
    <3> QED
      BY <3>1, <3>2
  <2> HIDE DEF Longer, step
  <2> QED
    BY <2>1
<1>7. upTo = CHOOSE g : g = Rec(g)
  BY DEF Wow!Grouped, OfCategory, L
<1>8. upTo = Rec(upTo)
  <2> HIDE DEF Rec, upTo
  <2> QED
    BY <1>6, <1>7
<1> HIDE DEF upTo, Longer
<1>9. upTo[0] = <<>> /\ \A n \in 1..8 : upTo[n] = Longer(upTo[n - 1], n)
  <2>1. \A n \in 0..L : upTo[n] = IF n = 0 THEN <<>> ELSE Longer(upTo[n - 1], n)
    BY <1>8
  <2> QED
    BY <1>1, <2>1
<1> QED
  BY <1>9 DEF upTo, Longer

\* The groups hold each skill of the list as often as the list does.
LEMMA GroupsKeep ==
  ASSUME NEW lines \in Seq(Skills)
  PROVE  LET grouped == Wow!Grouped(lines)[8]
         IN /\ grouped \in Seq(Skills)
            /\ \A v \in Range(lines) : CountIn(grouped, v) = CountIn(lines, v)
            /\ \A i \in DOMAIN grouped : grouped[i] \in Range(lines)
<1> DEFINE upTo == Wow!Grouped(lines)
           Among(v, n) == \E k \in 1..n : v.category = Wow!Categories[k]
           Good(n) == /\ upTo[n] \in Seq(Skills)
                      /\ \A v \in Range(lines) : CountIn(upTo[n], v) = IF Among(v, n) THEN CountIn(lines, v) ELSE 0
                      /\ \A i \in DOMAIN upTo[n] : upTo[n][i] \in Range(lines)
           S == {n \in 0..8 : Good(n)}
<1>1. upTo[0] = <<>> /\ \A n \in 1..8 : upTo[n] = upTo[n - 1] \o OfCategory(lines, n)
  BY GroupedAre
<1>2. \A v \in Range(lines) : v \in Skills /\ CountIn(lines, v) \in Nat
  <2>1. \A v \in Range(lines) : v \in Skills
    BY DEF Range
  <2>2. ASSUME NEW v PROVE CountIn(lines, v) \in Nat
    BY CountOfJoined
  <2> QED
    BY <2>1, <2>2
<1>3. \A j, k \in 1..8 : Wow!Categories[j] = Wow!Categories[k] => j = k
  BY DEF Wow!Categories
<1>4. ASSUME NEW v \in Range(lines) PROVE Among(v, 8)
  <2>1. v.category \in Range(Wow!Categories)
    BY <1>2 DEF Skills
  <2>2. DOMAIN Wow!Categories = 1..8
    BY DEF Wow!Categories
  <2> QED
    BY <2>1, <2>2 DEF Range
<1>5. ASSUME NEW n \in 1..8
      PROVE  /\ OfCategory(lines, n) \in Seq(Skills)
             /\ \A v \in Range(lines) : CountIn(OfCategory(lines, n), v) =
                                         IF v.category = Wow!Categories[n] THEN CountIn(lines, v) ELSE 0
             /\ \A i \in DOMAIN OfCategory(lines, n) : OfCategory(lines, n)[i] \in Range(lines)
  <2> DEFINE kept == {s \in Wow!Range(lines) : s.category = Wow!Categories[n]}
  <2>1. \A v \in Range(lines) : v \in kept <=> v.category = Wow!Categories[n]
    BY DEF Range, Wow!Range
  <2>2. OfCategory(lines, n) = Wow!Filter(lines, kept)
    BY DEF OfCategory
  <2> HIDE DEF kept
  <2> QED
    BY <2>1, <2>2, FilterKeeps
<1> HIDE DEF upTo
<1>6. 0 \in S
  <2>1. ASSUME NEW v PROVE CountIn(<<>>, v) = 0
    <3>1. {i \in DOMAIN <<>> : <<>>[i] = v} = {}
      OBVIOUS
    <3> QED
      BY <3>1, FS_EmptySet DEF CountIn
  <2>2. upTo[0] \in Seq(Skills) /\ DOMAIN upTo[0] = {}
    BY <1>1
  <2>3. ASSUME NEW v \in Range(lines) PROVE CountIn(upTo[0], v) = IF Among(v, 0) THEN CountIn(lines, v) ELSE 0
    <3>1. ~Among(v, 0)
      OBVIOUS
    <3> QED
      BY <1>1, <2>1, <3>1
  <2> QED
    BY <2>2, <2>3
<1>7. ASSUME NEW n \in 0..8 - 1, n \in S PROVE n + 1 \in S
  <2> DEFINE new == OfCategory(lines, n + 1)
  <2>1. n + 1 \in 1..8 /\ (n + 1) - 1 = n /\ n + 1 \in 0..8 /\ Good(n)
    BY <1>7
  <2>2. upTo[n + 1] = upTo[n] \o new
    BY <1>1, <2>1
  <2>3. /\ new \in Seq(Skills)
        /\ \A v \in Range(lines) : CountIn(new, v) = IF v.category = Wow!Categories[n + 1] THEN CountIn(lines, v) ELSE 0
        /\ \A i \in DOMAIN new : new[i] \in Range(lines)
    BY <1>5, <2>1
  <2> HIDE DEF new
  <2>4. upTo[n + 1] \in Seq(Skills)
    BY <2>1, <2>2, <2>3
  <2>5. ASSUME NEW v \in Range(lines)
        PROVE  CountIn(upTo[n + 1], v) = IF Among(v, n + 1) THEN CountIn(lines, v) ELSE 0
    <3>1. CountIn(upTo[n + 1], v) = CountIn(upTo[n], v) + CountIn(new, v)
      BY <2>1, <2>2, <2>3, CountOfJoined
    <3>2. CASE v.category = Wow!Categories[n + 1]
      <4>1. ~Among(v, n) /\ Among(v, n + 1)
        BY <1>3, <2>1, <3>2
      <4> HIDE DEF Among
      <4> QED
        BY <1>2, <2>1, <2>3, <3>1, <3>2, <4>1
    <3>3. CASE v.category # Wow!Categories[n + 1]
      <4>1. Among(v, n + 1) <=> Among(v, n)
        BY <2>1, <3>3
      <4> HIDE DEF Among
      <4> QED
        BY <1>2, <2>1, <2>3, <3>1, <3>3, <4>1
    <3> QED
      BY <3>2, <3>3
  <2>6. ASSUME NEW i \in DOMAIN upTo[n + 1] PROVE upTo[n + 1][i] \in Range(lines)
    <3> DEFINE m == Len(upTo[n])
    <3>1. \/ i \in DOMAIN upTo[n] /\ upTo[n + 1][i] = upTo[n][i]
          \/ i - m \in DOMAIN new /\ upTo[n + 1][i] = new[i - m]
      BY <2>1, <2>2, <2>3
    <3> QED
      BY <2>1, <2>3, <3>1
  <2> QED
    BY <2>1, <2>4, <2>5, <2>6
<1>8. Good(8)
  <2>1. 0..8 \subseteq S
    <3> HIDE DEF S
    <3> QED
      BY <1>6, <1>7, UpTo
  <2> HIDE DEF Good
  <2> QED
    BY <2>1
<1> QED
  BY <1>4, <1>8 DEF upTo

\* The lists of skills that are shown are true of the game's list.
LEMMA SkillsAreTrue ==
  ASSUME NEW lines \in Seq(Skills), NEW flavor
  PROVE  SkillsTrue(Wow!BuildSkills(lines, flavor), lines)
<1> DEFINE grouped == Wow!Grouped(lines)[8]
           kept == {s \in Wow!Range(grouped) : Wow!Due(s, flavor)}
           due == Wow!Filter(grouped, kept)
<1>1. Len(Wow!Categories) = 8
  BY DEF Wow!Categories
<1>2. Wow!BuildSkills(lines, flavor) = [lines |-> grouped, training_due |-> due]
  BY <1>1 DEF Wow!BuildSkills
<1>3. /\ grouped \in Seq(Skills)
      /\ \A v \in Range(lines) : CountIn(grouped, v) = CountIn(lines, v)
      /\ \A i \in DOMAIN grouped : grouped[i] \in Range(lines)
  BY GroupsKeep
<1>4. \A i \in DOMAIN due : due[i] \in kept
  <2> HIDE DEF kept, grouped
  <2> QED
    BY <1>3, FilterKeeps
<1>5. ASSUME NEW s \in Range(due) PROVE s \in Range(lines) /\ s.rank >= s.max_rank /\ s.max_rank > 0
  <2>1. s \in kept
    BY <1>4 DEF Range
  <2>2. s \in Range(lines)
    BY <1>3, <2>1 DEF Wow!Range
  <2> QED
    BY <2>1, <2>2 DEF Wow!Due, Wow!AtMax
<1> HIDE DEF grouped, due
<1> QED
  BY <1>2, <1>3, <1>5 DEF SkillsTrue

\* A file that was read is one the kit may be given, and what is told of it is the
\* answer of the kit.
ShownInv ==
  /\ subject = "state" /\ Stored(given)
  /\ made # <<>> =>
       made = <<[parsed |-> Wow!ParseDb(given.db, given.now), skills |-> Wow!BuildSkills(given.skills, given.flavor),
                 path |-> Wow!BuildRecentPath(given.path), flights |-> Wow!BuildFlightPoints(given.flights)]>>

\* THEOREM: what the WoW kit tells of any file is true of it: flavor, rules, time,
\* path and skills (kits/wow, index.ts and sections.ts).
THEOREM StateIsTrue == ShownSpec => []StateTrue
<1>1. Begun("state") => ShownInv
  BY FilesAssumption DEF Begun, ShownInv
<1>2. ShownInv /\ [ShowState]_<<subject, given, made>> => ShownInv'
  <2> SUFFICES ASSUME ShownInv, [ShowState]_<<subject, given, made>> PROVE ShownInv'
    OBVIOUS
  <2>1. CASE ShowState
    BY <2>1 DEF ShownInv, ShowState, Make
  <2>2. CASE UNCHANGED <<subject, given, made>>
    BY <2>2 DEF ShownInv
  <2> QED
    BY <2>1, <2>2
<1>3. ShownInv => StateTrue
  <2> SUFFICES ASSUME ShownInv, made # <<>> PROVE StateTrue
    BY DEF StateTrue, Made
  <2>1. /\ Stored(given) /\ made[1].parsed = Wow!ParseDb(given.db, given.now)
        /\ made[1].skills = Wow!BuildSkills(given.skills, given.flavor)
        /\ made[1].path = Wow!BuildRecentPath(given.path)
    BY DEF ShownInv
  <2>2. given.path \in Seq(Positions) /\ given.skills \in Seq(Skills)
    BY <2>1 DEF Stored
  <2>3. ParsedTrue(made[1].parsed, given.db, given.now)
    BY <2>1, ParsedIsTrue
  <2>4. PathTrue(made[1].path, given.path)
    BY <2>1, <2>2, PathIsTrue
  <2>5. SkillsTrue(made[1].skills, given.skills)
    BY <2>1, <2>2, SkillsAreTrue
  <2> QED
    BY <2>3, <2>4, <2>5 DEF StateTrue
<1> QED
  BY <1>1, <1>2, <1>3, PTL DEF ShownSpec

-----------------------------------------------------------------------------
(* The gear of the WoW kit.                                                      *)

\* A value is in a list when it is in it at least once.
LEMMA CountOfNone ==
  ASSUME NEW T, NEW list \in Seq(T), NEW v
  PROVE  CountIn(list, v) = 0 <=> v \notin Range(list)
<1> DEFINE at == {i \in DOMAIN list : list[i] = v}
<1>1. IsFiniteSet(at)
  <2>1. DOMAIN list = 1..Len(list) /\ Len(list) \in Nat
    OBVIOUS
  <2>2. IsFiniteSet(DOMAIN list)
    BY <2>1, FS_Interval
  <2> QED
    BY <2>2, FS_Subset
<1>2. Cardinality(at) = 0 <=> at = {}
  <2> HIDE DEF at
  <2> QED
    BY <1>1, FS_EmptySet
<1>3. at = {} <=> v \notin Range(list)
  BY DEF Range
<1> QED
  BY <1>2, <1>3 DEF CountIn

\* A value is put into a list, whatever the order.
LEMMA PlacedKeeps ==
  ASSUME NEW T, NEW list \in Seq(T), NEW x \in T, NEW before
  PROVE  LET placed == Wow!Placed(list, x, before)
         IN /\ placed \in Seq(T) /\ Len(placed) = Len(list) + 1
            /\ \A v : CountIn(placed, v) = CountIn(list, v) + (IF x = v THEN 1 ELSE 0)
<1> DEFINE n == Cardinality({i \in DOMAIN list : ~before[<<x, list[i]>>]})
           one == SubSeq(list, 1, n)
           two == SubSeq(list, n + 1, Len(list))
<1>1. n \in 0..Len(list)
  <2>1. DOMAIN list = 1..Len(list) /\ Len(list) \in Nat
    OBVIOUS
  <2>2. IsFiniteSet(DOMAIN list) /\ Cardinality(DOMAIN list) = Len(list)
    BY <2>1, FS_Interval
  <2> DEFINE at == {i \in DOMAIN list : ~before[<<x, list[i]>>]}
  <2>3. at \in SUBSET DOMAIN list
    OBVIOUS
  <2> HIDE DEF at
  <2>4. IsFiniteSet(at) /\ Cardinality(at) <= Cardinality(DOMAIN list)
    BY <2>2, <2>3, FS_Subset
  <2>5. Cardinality(at) \in Nat
    BY <2>4, FS_CardinalityType
  <2>6. Cardinality(at) \in 0..Len(list)
    BY <2>1, <2>2, <2>4, <2>5
  <2> QED
    BY <2>6 DEF at
<1>2. Wow!Placed(list, x, before) = one \o <<x>> \o two
  BY DEF Wow!Placed, Wow!Cardinality, Cardinality
<1> HIDE DEF n
<1>3. /\ one \in Seq(T) /\ Len(one) = n /\ \A i \in 1..n : one[i] = list[i]
      /\ two \in Seq(T) /\ Len(two) = Len(list) - n /\ \A i \in 1..Len(list) - n : two[i] = list[n + i]
      /\ <<x>> \in Seq(T) /\ Len(<<x>>) = 1
  <2>1. Len(list) \in Nat /\ n \in Nat /\ n <= Len(list)
    BY <1>1
  <2>2. one \in Seq(T) /\ Len(one) = n /\ \A i \in 1..n : one[i] = list[i]
    BY <2>1
  <2>3. two \in Seq(T) /\ Len(two) = Len(list) - n /\ \A i \in 1..Len(list) - n : two[i] = list[n + i]
    BY <2>1
  <2> QED
    BY <2>2, <2>3
<1> HIDE DEF one, two
<1>4. list = one \o two
  <2> DEFINE both == one \o two
  <2>1. both \in Seq(T) /\ Len(both) = Len(list)
    BY <1>1, <1>3
  <2>2. ASSUME NEW i \in 1..Len(list) PROVE both[i] = list[i]
    <3>1. CASE i <= n
      BY <1>1, <1>3, <3>1
    <3>2. CASE i > n
      <4>1. i - n \in 1..Len(list) - n /\ n + (i - n) = i
        BY <1>1, <3>2
      <4>2. both[i] = two[i - n]
        BY <1>1, <1>3, <3>2, <4>1
      <4> QED
        BY <1>3, <4>1, <4>2
    <3>3. i <= n \/ i > n
      BY <1>1
    <3> QED
      BY <3>1, <3>2, <3>3
  <2> HIDE DEF both
  <2>3. both = list
    BY <2>1, <2>2
  <2> QED
    BY <2>3 DEF both
<1>5. Append(one, x) = one \o <<x>> /\ Append(one, x) \in Seq(T)
  BY <1>3
<1>6. ASSUME NEW v PROVE CountIn(one \o <<x>> \o two, v) = CountIn(list, v) + (IF x = v THEN 1 ELSE 0)
  <2> DEFINE more == IF x = v THEN 1 ELSE 0
             three == Append(one, x)
  <2>1. CountIn(list, v) = CountIn(one, v) + CountIn(two, v) /\ CountIn(one, v) \in Nat
    BY <1>3, <1>4, CountOfJoined
  <2>2. CountIn(two, v) \in Nat
    BY <1>3, CountOfJoined
  <2>3. CountIn(three, v) = CountIn(one, v) + more
    BY <1>3, CountOfAppended
  <2>4. three \in Seq(T)
    BY <1>5
  <2> HIDE DEF three
  <2>5. CountIn(three \o two, v) = CountIn(three, v) + CountIn(two, v)
    BY <1>3, <2>4, CountOfJoined
  <2>6. more \in Nat
    OBVIOUS
  <2> HIDE DEF more
  <2>7. CountIn(three \o two, v) = CountIn(list, v) + more
    BY <2>1, <2>2, <2>3, <2>5, <2>6
  <2> QED
    BY <1>5, <2>7 DEF three, more
<1>7. one \o <<x>> \o two \in Seq(T) /\ Len(one \o <<x>> \o two) = Len(list) + 1
  <2> DEFINE three == one \o <<x>>
  <2>1. three \in Seq(T) /\ Len(three) = n + 1
    BY <1>1, <1>3
  <2> HIDE DEF three
  <2>2. three \o two \in Seq(T) /\ Len(three \o two) = Len(three) + Len(two)
    <3>1. two \in Seq(T)
      BY <1>3
    <3> QED
      BY <2>1, <3>1
  <2>3. Len(three) + Len(two) = Len(list) + 1
    <3>1. Len(list) \in Nat
      OBVIOUS
    <3> QED
      BY <1>1, <1>3, <2>1, <3>1
  <2> QED
    BY <2>2, <2>3 DEF three
<1> QED
  BY <1>2, <1>6, <1>7

\* The sorted lists are what the recursion says.
LEMMA SortedAre ==
  ASSUME NEW T, NEW list \in Seq(T), NEW before
  PROVE  LET done == Wow!SortedUpTo(list, before)
         IN done[0] = <<>> /\ \A n \in 1..Len(list) : done[n] = Wow!Placed(done[n - 1], list[n], before)
<1> DEFINE L == Len(list)
           Longer(sorted, n) == Wow!Placed(sorted, list[n], before)
           Rec(f) == [n \in 0..L |-> IF n = 0 THEN <<>> ELSE Longer(f[n - 1], n)]
           step == [p \in Seq(T) \X (1..L) |-> Longer(p[1], p[2])]
           done == Wow!SortedUpTo(list, before)
<1>1. L \in Nat /\ <<>> \in Seq(T)
  OBVIOUS
<1>2. ASSUME NEW sorted \in Seq(T), NEW n \in 1..L PROVE Longer(sorted, n) \in Seq(T)
  <2>1. list[n] \in T
    OBVIOUS
  <2> QED
    BY <2>1, PlacedKeeps
<1> HIDE DEF L, Longer
<1>3. PICK f \in [0..L -> Seq(T)] : f[0] = <<>> /\ \A n \in 1..L : f[n] = step[<<f[n - 1], n>>]
  <2>1. Recursive(Seq(T), <<>>, L, step)
    BY <1>1, <1>2 DEF Recursive
  <2>2. HasFunction(Seq(T), <<>>, L, step)
    BY <2>1, Recursion
  <2> QED
    BY <2>2 DEF HasFunction
<1>4. f = Rec(f)
  <2>1. ASSUME NEW n \in 0..L PROVE f[n] = IF n = 0 THEN <<>> ELSE Longer(f[n - 1], n)
    <3>1. CASE n = 0
      BY <1>3, <3>1
    <3>2. CASE n # 0
      <4>1. n \in 1..L /\ n - 1 \in 0..L
        BY <1>1, <3>2
      <4>2. f[n - 1] \in Seq(T) /\ f[n] = step[<<f[n - 1], n>>]
        BY <1>3, <4>1
      <4> QED
        BY <3>2, <4>1, <4>2
    <3> QED
      BY <3>1, <3>2
  <2> HIDE DEF Longer, step
  <2> QED
    BY <2>1
<1>5. done = CHOOSE g : g = Rec(g)
  BY DEF Wow!SortedUpTo, L, Longer
<1>6. done = Rec(done)
  <2> HIDE DEF Rec, done
  <2> QED
    BY <1>4, <1>5
<1> HIDE DEF done
<1>7. done[0] = <<>> /\ \A n \in 1..L : done[n] = Longer(done[n - 1], n)
  <2>1. \A n \in 0..L : done[n] = IF n = 0 THEN <<>> ELSE Longer(done[n - 1], n)
    BY <1>6
  <2> QED
    BY <1>1, <2>1
<1> QED
  BY <1>7 DEF done, L, Longer

\* A sorted list holds each value as often as the list.
LEMMA SortKeeps ==
  ASSUME NEW T, NEW list \in Seq(T), NEW before
  PROVE  LET sorted == Wow!SortedUpTo(list, before)[Len(list)]
         IN /\ sorted \in Seq(T) /\ Len(sorted) = Len(list) /\ Range(sorted) = Range(list)
            /\ \A v : CountIn(sorted, v) = CountIn(list, v)
<1> DEFINE L == Len(list)
           done == Wow!SortedUpTo(list, before)
           Upto(n) == SubSeq(list, 1, n)
           Good(n) == /\ done[n] \in Seq(T) /\ Len(done[n]) = n
                      /\ \A v : CountIn(done[n], v) = CountIn(Upto(n), v)
           S == {n \in 0..L : Good(n)}
<1>1. L \in Nat /\ \A n \in 1..L : list[n] \in T
  OBVIOUS
<1>2. done[0] = <<>> /\ \A n \in 1..L : done[n] = Wow!Placed(done[n - 1], list[n], before)
  BY SortedAre
<1>3. Upto(L) = list /\ Upto(0) = <<>>
  OBVIOUS
<1>4. \A n \in 0..L - 1 : Upto(n) \in Seq(T) /\ Upto(n + 1) = Append(Upto(n), list[n + 1])
  OBVIOUS
<1> HIDE DEF L, done, Upto
<1>5. 0 \in S
  <2>1. Good(0)
    BY <1>2, <1>3
  <2> QED
    BY <1>1, <2>1
<1>6. ASSUME NEW n \in 0..L - 1, n \in S PROVE n + 1 \in S
  <2>1. n + 1 \in 1..L /\ n + 1 \in 0..L /\ (n + 1) - 1 = n /\ Good(n) /\ n \in Nat
    BY <1>1, <1>6
  <2> DEFINE x == list[n + 1]
  <2>2. done[n + 1] = Wow!Placed(done[n], x, before) /\ x \in T /\ done[n] \in Seq(T) /\ Len(done[n]) = n
    BY <1>1, <1>2, <2>1
  <2>3. Upto(n) \in Seq(T) /\ Upto(n + 1) = Append(Upto(n), x)
    BY <1>4
  <2> HIDE DEF x
  <2>4. done[n + 1] \in Seq(T) /\ Len(done[n + 1]) = n + 1
    BY <2>2, PlacedKeeps
  <2>5. ASSUME NEW v PROVE CountIn(done[n + 1], v) = CountIn(Upto(n + 1), v)
    <3>1. CountIn(done[n + 1], v) = CountIn(done[n], v) + (IF x = v THEN 1 ELSE 0)
      BY <2>2, PlacedKeeps
    <3>2. CountIn(Append(Upto(n), x), v) = CountIn(Upto(n), v) + (IF x = v THEN 1 ELSE 0)
      BY <2>2, <2>3, CountOfAppended
    <3> QED
      BY <2>1, <2>3, <3>1, <3>2
  <2>6. Good(n + 1)
    BY <2>4, <2>5
  <2> QED
    BY <2>1, <2>6
<1>7. Good(L)
  <2>1. 0..L \subseteq S
    <3> HIDE DEF S
    <3> QED
      BY <1>1, <1>5, <1>6, UpTo
  <2> QED
    BY <1>1, <2>1
<1>8. Range(done[L]) = Range(list)
  <2>1. \A v : CountIn(done[L], v) = CountIn(list, v) /\ done[L] \in Seq(T)
    BY <1>3, <1>7
  <2>2. \A v : CountIn(done[L], v) = 0 <=> v \notin Range(done[L])
    BY <2>1, CountOfNone
  <2>3. \A v : CountIn(list, v) = 0 <=> v \notin Range(list)
    BY CountOfNone
  <2> QED
    BY <2>1, <2>2, <2>3
<1> QED
  BY <1>3, <1>7, <1>8 DEF L, done

OneEach(worn) == \A i, j \in DOMAIN worn : worn[i].slot = worn[j].slot => i = j
Worn(equipped) == [i \in 1..Len(equipped) |-> Wow!EmptySummary(equipped[i].slot, Wow!Some(equipped[i]))]

\* The first summaries are those of the worn items, in their order.
LEMMA WornAre ==
  ASSUME NEW T, NEW equipped \in Seq(T), OneEach(equipped)
  PROVE  Wow!SumsOfWorn(equipped)[Len(equipped)] = Worn(equipped)
<1> DEFINE L == Len(equipped)
           Empty(i) == Wow!EmptySummary(equipped[i].slot, Wow!Some(equipped[i]))
           Rec(f) == [n \in 0..L |-> IF n = 0 THEN <<>>
                                     ELSE Wow!WithSummary(f[n - 1], equipped[n].slot, Wow!Some(equipped[n]))]
           first == [n \in 0..L |-> [i \in 1..n |-> Empty(i)]]
           sums == Wow!SumsOfWorn(equipped)
<1>1. L \in Nat /\ DOMAIN equipped = 1..L
  OBVIOUS
<1>2. \A i \in 1..L : Empty(i).slot = equipped[i].slot
  BY DEF Wow!EmptySummary
<1>3. sums = CHOOSE f : f = Rec(f)
  BY DEF Wow!SumsOfWorn
<1>0. \A i, j \in 1..L : equipped[i].slot = equipped[j].slot => i = j
  BY <1>1 DEF OneEach
<1> HIDE DEF L, Empty, sums
<1>4. ASSUME NEW n \in 1..L
      PROVE  Wow!WithSummary([i \in 1..n - 1 |-> Empty(i)], equipped[n].slot, Wow!Some(equipped[n]))
               = [i \in 1..n |-> Empty(i)]
  <2> DEFINE before == [i \in 1..n - 1 |-> Empty(i)]
  <2>1. n \in Nat /\ n - 1 \in Nat /\ 1..n - 1 \subseteq 1..L /\ n \notin 1..n - 1
    BY <1>1
  <2>2. ASSUME NEW i \in 1..n - 1 PROVE before[i].slot # equipped[n].slot
    <3>1. before[i].slot = equipped[i].slot /\ i # n /\ i \in 1..L
      BY <1>2, <2>1
    <3> QED
      BY <1>0, <3>1
  <2>3. DOMAIN before = 1..n - 1
    OBVIOUS
  <2>4. Append(before, Empty(n)) = [i \in 1..n |-> Empty(i)]
    <3> DEFINE V == {Empty(i) : i \in 1..n}
    <3>1. before \in Seq(V) /\ Len(before) = n - 1 /\ Empty(n) \in V
      BY <2>1
    <3>2. \A i \in 1..n - 1 : before[i] = Empty(i)
      OBVIOUS
    <3>3. [i \in 1..n |-> Empty(i)] \in Seq(V) /\ Len([i \in 1..n |-> Empty(i)]) = n
      BY <2>1
    <3> HIDE DEF before, V
    <3> DEFINE all == [i \in 1..n |-> Empty(i)]
               more == Append(before, Empty(n))
    <3>4. more \in Seq(V) /\ Len(more) = n
      BY <2>1, <3>1
    <3>5. ASSUME NEW i \in 1..n PROVE more[i] = all[i]
      BY <2>1, <3>1, <3>2
    <3>6. all \in Seq(V) /\ Len(all) = n
      BY <3>3
    <3> HIDE DEF all, more
    <3>7. more = all
      BY <3>4, <3>5, <3>6
    <3> QED
      BY <3>7 DEF all, more
  <2> HIDE DEF before
  <2>5. Wow!EntryAt(before, equipped[n].slot) = 0
    BY <2>2, <2>3 DEF Wow!EntryAt
  <2> QED
    BY <2>4, <2>5 DEF before, Wow!WithSummary, Empty
<1>5. first = Rec(first)
  <2>1. ASSUME NEW n \in 0..L
        PROVE  first[n] = IF n = 0 THEN <<>>
                          ELSE Wow!WithSummary(first[n - 1], equipped[n].slot, Wow!Some(equipped[n]))
    <3>1. CASE n = 0
      BY <3>1
    <3>2. CASE n # 0
      <4>1. n \in 1..L /\ n - 1 \in 0..L
        BY <1>1, <3>2
      <4>2. first[n - 1] = [i \in 1..n - 1 |-> Empty(i)] /\ first[n] = [i \in 1..n |-> Empty(i)]
        BY <4>1
      <4> HIDE DEF first
      <4> QED
        BY <1>4, <3>2, <4>1, <4>2
    <3> QED
      BY <3>1, <3>2
  <2>2. first = [n \in 0..L |-> first[n]]
    OBVIOUS
  <2> HIDE DEF first
  <2> QED
    BY <2>1, <2>2
<1>6. sums = Rec(sums)
  <2> HIDE DEF Rec, first
  <2> QED
    BY <1>3, <1>5
<1> DEFINE S == {n \in 0..L : sums[n] = [i \in 1..n |-> Empty(i)]}
<1>7. 0 \in S
  <2>1. sums[0] = <<>>
    BY <1>1, <1>6
  <2> QED
    BY <1>1, <2>1
<1>8. ASSUME NEW n \in 0..L - 1, n \in S PROVE n + 1 \in S
  <2>1. n + 1 \in 1..L /\ n + 1 \in 0..L /\ n + 1 # 0 /\ (n + 1) - 1 = n
    BY <1>1
  <2>2. sums[n + 1] = Wow!WithSummary(sums[n], equipped[n + 1].slot, Wow!Some(equipped[n + 1]))
    BY <1>6, <2>1
  <2>3. sums[n] = [i \in 1..n |-> Empty(i)]
    BY <1>8
  <2>4. sums[n + 1] = [i \in 1..n + 1 |-> Empty(i)]
    BY <1>4, <2>1, <2>2, <2>3
  <2> QED
    BY <2>1, <2>4
<1>9. sums[L] = [i \in 1..L |-> Empty(i)]
  <2>1. 0..L \subseteq S
    <3> HIDE DEF S
    <3> QED
      BY <1>1, <1>7, <1>8, UpTo
  <2> QED
    BY <1>1, <2>1
<1> QED
  BY <1>9 DEF L, Empty, sums, Worn

\* The summaries of the worn items and then of empty slots, one for a slot.
Opened(sums, equipped) ==
  /\ DOMAIN sums = 1..Len(sums) /\ Len(sums) \in Nat /\ Len(sums) >= Len(equipped)
  /\ \A i \in 1..Len(equipped) : sums[i].slot = equipped[i].slot /\ sums[i].equipped = <<equipped[i]>>
  /\ \A i \in DOMAIN sums : i > Len(equipped) => sums[i].equipped = <<>>
  /\ \A i, j \in DOMAIN sums : sums[i].slot = sums[j].slot => i = j

\* Such a list has a slot's summary at one place.
LEMMA EntryIs ==
  ASSUME NEW T, NEW equipped \in Seq(T), NEW sums, Opened(sums, equipped), NEW slot
  PROVE  /\ \A i \in DOMAIN sums : sums[i].slot = slot => Wow!EntryAt(sums, slot) = i
         /\ (\A i \in DOMAIN sums : sums[i].slot # slot) => Wow!EntryAt(sums, slot) = 0
<1>1. \A i, j \in DOMAIN sums : sums[i].slot = sums[j].slot => i = j
  BY DEF Opened
<1>2. ASSUME NEW i \in DOMAIN sums, sums[i].slot = slot PROVE Wow!EntryAt(sums, slot) = i
  <2>1. (CHOOSE j \in DOMAIN sums : sums[j].slot = slot) \in {j \in DOMAIN sums : sums[j].slot = slot}
    BY <1>2
  <2>2. Wow!EntryAt(sums, slot) = CHOOSE j \in DOMAIN sums : sums[j].slot = slot
    BY <1>2 DEF Wow!EntryAt
  <2> QED
    BY <1>1, <1>2, <2>1, <2>2
<1>3. ASSUME \A i \in DOMAIN sums : sums[i].slot # slot PROVE Wow!EntryAt(sums, slot) = 0
  BY <1>3 DEF Wow!EntryAt
<1> QED
  BY <1>2, <1>3

\* What a slot holds, in any such list, is the one item worn there.
LEMMA HeldIs ==
  ASSUME NEW T, NEW equipped \in Seq(T), NEW sums, Opened(sums, equipped), NEW slot
  PROVE  \/ Wow!EquippedIn(sums, slot) = <<>> /\ WornAt(slot, equipped) = {}
         \/ \E e \in T : Wow!EquippedIn(sums, slot) = <<e>> /\ WornAt(slot, equipped) = {e}
<1> DEFINE L == Len(equipped)
<1>1. /\ L \in Nat /\ DOMAIN equipped = 1..L /\ \A i \in 1..L : equipped[i] \in T
      /\ DOMAIN sums = 1..Len(sums) /\ Len(sums) \in Nat /\ Len(sums) >= L
      /\ \A i \in 1..L : sums[i].slot = equipped[i].slot /\ sums[i].equipped = <<equipped[i]>>
      /\ \A i \in DOMAIN sums : i > L => sums[i].equipped = <<>>
      /\ \A i, j \in DOMAIN sums : sums[i].slot = sums[j].slot => i = j
  BY DEF Opened
<1>2. WornAt(slot, equipped) = {equipped[i] : i \in {j \in 1..L : equipped[j].slot = slot}}
  BY <1>1 DEF WornAt, Range
<1> HIDE DEF L
<1>3. \A i \in 1..L : i \in DOMAIN sums
  BY <1>1
<1>4. CASE \E i \in 1..L : equipped[i].slot = slot
  <2>1. PICK i \in 1..L : equipped[i].slot = slot
    BY <1>4
  <2>2. i \in DOMAIN sums /\ sums[i].slot = slot /\ sums[i].equipped = <<equipped[i]>>
    BY <1>1, <1>3, <2>1
  <2>3. {j \in 1..L : equipped[j].slot = slot} = {i}
    BY <1>1, <1>3, <2>1
  <2>4. i # 0 /\ Wow!EntryAt(sums, slot) = i
    BY <1>1, <2>2, EntryIs
  <2>5. Wow!EquippedIn(sums, slot) = <<equipped[i]>>
    BY <2>2, <2>4 DEF Wow!EquippedIn
  <2>6. WornAt(slot, equipped) = {equipped[i]}
    BY <1>2, <2>3
  <2> QED
    BY <1>1, <2>1, <2>5, <2>6
<1>5. CASE \A i \in 1..L : equipped[i].slot # slot
  <2>1. WornAt(slot, equipped) = {}
    BY <1>2, <1>5
  <2>2. Wow!EquippedIn(sums, slot) = <<>>
    <3>1. CASE \E i \in DOMAIN sums : sums[i].slot = slot
      <4>1. PICK i \in DOMAIN sums : sums[i].slot = slot
        BY <3>1
      <4>2. i > L
        BY <1>1, <1>5, <4>1
      <4>3. Wow!EntryAt(sums, slot) = i /\ i # 0
        BY <1>1, <4>1, <4>2, EntryIs
      <4> QED
        BY <1>1, <4>1, <4>2, <4>3 DEF Wow!EquippedIn
    <3>2. CASE \A i \in DOMAIN sums : sums[i].slot # slot
      <4>1. Wow!EntryAt(sums, slot) = 0
        BY <3>2, EntryIs
      <4> QED
        BY <4>1 DEF Wow!EquippedIn, Wow!None
    <3> QED
      BY <3>1, <3>2
  <2> QED
    BY <2>1, <2>2
<1> QED
  BY <1>4, <1>5

\* The summaries of the worn items are such a list.
LEMMA WornOpened ==
  ASSUME NEW T, NEW equipped \in Seq(T), OneEach(equipped)
  PROVE  Opened(Worn(equipped), equipped)
<1> DEFINE worn == Worn(equipped)
<1>1. /\ Len(equipped) \in Nat /\ DOMAIN equipped = 1..Len(equipped)
      /\ DOMAIN worn = 1..Len(equipped) /\ Len(worn) = Len(equipped)
  BY DEF Worn
<1>2. \A i \in 1..Len(equipped) : worn[i].slot = equipped[i].slot /\ worn[i].equipped = <<equipped[i]>>
  BY DEF Worn, Wow!EmptySummary, Wow!Some
<1> HIDE DEF worn
<1>3. Opened(worn, equipped)
  BY <1>1, <1>2 DEF Opened, OneEach
<1> QED
  BY <1>3 DEF worn

\* A slot holds the same in every such list.
LEMMA HeldAsWorn ==
  ASSUME NEW T, NEW equipped \in Seq(T), OneEach(equipped), NEW sums, Opened(sums, equipped)
  PROVE  \A slot : Wow!EquippedIn(sums, slot) = Wow!EquippedIn(Worn(equipped), slot)
<1> SUFFICES ASSUME NEW slot PROVE Wow!EquippedIn(sums, slot) = Wow!EquippedIn(Worn(equipped), slot)
  OBVIOUS
<1> DEFINE worn == Worn(equipped)
<1>1. \/ Wow!EquippedIn(sums, slot) = <<>> /\ WornAt(slot, equipped) = {}
      \/ \E e \in T : Wow!EquippedIn(sums, slot) = <<e>> /\ WornAt(slot, equipped) = {e}
  BY HeldIs
<1>2. \/ Wow!EquippedIn(worn, slot) = <<>> /\ WornAt(slot, equipped) = {}
      \/ \E e \in T : Wow!EquippedIn(worn, slot) = <<e>> /\ WornAt(slot, equipped) = {e}
  BY WornOpened, HeldIs
<1> HIDE DEF worn
<1>3. CASE WornAt(slot, equipped) = {}
  <2>1. Wow!EquippedIn(sums, slot) = <<>> /\ Wow!EquippedIn(worn, slot) = <<>>
    BY <1>1, <1>2, <1>3
  <2> QED
    BY <2>1 DEF worn
<1>4. CASE WornAt(slot, equipped) # {}
  <2>1. PICK e \in T : Wow!EquippedIn(sums, slot) = <<e>> /\ WornAt(slot, equipped) = {e}
    BY <1>1, <1>4
  <2>2. PICK f \in T : Wow!EquippedIn(worn, slot) = <<f>> /\ WornAt(slot, equipped) = {f}
    BY <1>2, <1>4
  <2>3. e = f
    BY <2>1, <2>2
  <2> QED
    BY <2>1, <2>2, <2>3 DEF worn
<1> QED
  BY <1>3, <1>4

HasSlot(item) == Wow!SlotsOf(item.loc) # <<>>
Home(item, equipped) == Wow!SlotFor(Worn(equipped), Wow!SlotsOf(item.loc))
Leveled(T) == \A t \in T : t.item_level \in Int /\ t.min_level \in Int

\* An item fits no slot, one, or two.
LEMMA SlotsAre ==
  ASSUME NEW loc
  PROVE  \/ Wow!SlotsOf(loc) = <<>>
         \/ \E a : Wow!SlotsOf(loc) = <<a>>
         \/ \E a, b : Wow!SlotsOf(loc) = <<a, b>>
<1>1. CASE loc = "robe"
  <2>1. Wow!SlotsOf(loc) = <<"chest">>
    BY <1>1 DEF Wow!SlotsOf, Wow!ArmorLocs
  <2> QED
    BY <2>1
<1>2. CASE loc = "finger"
  <2>1. Wow!SlotsOf(loc) = <<"finger0", "finger1">>
    BY <1>2 DEF Wow!SlotsOf, Wow!ArmorLocs
  <2> QED
    BY <2>1
<1>3. CASE loc = "trinket"
  <2>1. Wow!SlotsOf(loc) = <<"trinket0", "trinket1">>
    BY <1>3 DEF Wow!SlotsOf, Wow!ArmorLocs
  <2> QED
    BY <2>1
<1>4. CASE loc \in {"weapon", "2hweapon", "weaponmainhand"}
  <2>1. Wow!SlotsOf(loc) = <<"mainhand">>
    BY <1>4 DEF Wow!SlotsOf, Wow!ArmorLocs
  <2> QED
    BY <2>1
<1>5. CASE loc \in {"weaponoffhand", "shield", "holdable"}
  <2>1. Wow!SlotsOf(loc) = <<"secondaryhand">>
    BY <1>5 DEF Wow!SlotsOf, Wow!ArmorLocs
  <2> QED
    BY <2>1
<1>6. CASE loc \in {"ranged", "rangedright", "thrown", "relic"}
  <2>1. Wow!SlotsOf(loc) = <<"ranged">>
    BY <1>6 DEF Wow!SlotsOf, Wow!ArmorLocs
  <2> QED
    BY <2>1
<1>7. CASE loc \notin {"robe", "finger", "trinket", "weapon", "2hweapon", "weaponmainhand",
                       "weaponoffhand", "shield", "holdable", "ranged", "rangedright", "thrown", "relic"}
  <2>1. CASE loc \in (Wow!ArmorLocs \ {"robe"}) \cup {"neck", "body", "tabard"}
    <3>1. Wow!SlotsOf(loc) = <<loc>>
      BY <1>7, <2>1 DEF Wow!SlotsOf
    <3> QED
      BY <3>1
  <2>2. CASE loc \notin (Wow!ArmorLocs \ {"robe"}) \cup {"neck", "body", "tabard"}
    <3>1. Wow!SlotsOf(loc) = <<>>
      BY <1>7, <2>2 DEF Wow!SlotsOf
    <3> QED
      BY <3>1
  <2> QED
    BY <2>1, <2>2
<1> QED
  BY <1>1, <1>2, <1>3, <1>4, <1>5, <1>6, <1>7

\* The slot of an item depends on what is worn only.
LEMMA SlotForWorn ==
  ASSUME NEW T, NEW equipped \in Seq(T), OneEach(equipped), NEW sums, Opened(sums, equipped), NEW item
  PROVE  Wow!SlotFor(sums, Wow!SlotsOf(item.loc)) = Home(item, equipped)
<1> DEFINE slots == Wow!SlotsOf(item.loc)
           held(i) == Wow!EquippedIn(sums, slots[i])
           worn(i) == Wow!EquippedIn(Worn(equipped), slots[i])
           For(h(_)) == LET empty == {i \in DOMAIN slots : h(i) = Wow!None}
                            level(i) == Wow!Or(h(i)[1].item_level, 0)
                            weakest == {i \in DOMAIN slots : \A j \in DOMAIN slots : level(i) <= level(j)}
                        IN slots[Wow!Min(IF empty # {} THEN empty ELSE weakest)]
<1>1. \A i : held(i) = worn(i)
  BY HeldAsWorn
<1>2. Wow!SlotFor(sums, slots) = For(held)
  BY DEF Wow!SlotFor
<1>3. Home(item, equipped) = For(worn)
  BY DEF Wow!SlotFor, Home
<1> HIDE DEF slots, held, worn
<1>4. {i \in DOMAIN slots : held(i) = Wow!None} = {i \in DOMAIN slots : worn(i) = Wow!None}
  BY <1>1
<1>5. {i \in DOMAIN slots : \A j \in DOMAIN slots : Wow!Or(held(i)[1].item_level, 0) <= Wow!Or(held(j)[1].item_level, 0)}
       = {i \in DOMAIN slots : \A j \in DOMAIN slots : Wow!Or(worn(i)[1].item_level, 0) <= Wow!Or(worn(j)[1].item_level, 0)}
  BY <1>1
<1>6. For(held) = For(worn)
  BY <1>4, <1>5
<1> QED
  BY <1>2, <1>3, <1>6 DEF slots

\* An item's home is one of its slots, the first or the last; and when something is
\* worn there, something is in each of its slots, of no lower level.
LEMMA HomeIs ==
  ASSUME NEW T, Leveled(T), NEW equipped \in Seq(T), OneEach(equipped), NEW item, HasSlot(item)
  PROVE  LET slots == Wow!SlotsOf(item.loc)
             home == Home(item, equipped)
         IN /\ home \in {slots[1], slots[Len(slots)]} /\ home \in Range(slots)
            /\ \A e \in WornAt(home, equipped) : \A slot \in Range(slots) :
                 \E f \in WornAt(slot, equipped) : Wow!Or(e.item_level, 0) <= Wow!Or(f.item_level, 0)
<1> DEFINE slots == Wow!SlotsOf(item.loc)
           home == Home(item, equipped)
           held(i) == Wow!EquippedIn(Worn(equipped), slots[i])
           level(i) == Wow!Or(held(i)[1].item_level, 0)
           empty == {i \in DOMAIN slots : held(i) = <<>>}
           weakest == {i \in DOMAIN slots : \A j \in DOMAIN slots : level(i) <= level(j)}
           best == IF empty # {} THEN empty ELSE weakest
<1>1. home = slots[Wow!Min(best)]
  BY DEF Wow!SlotFor, Home, Wow!None
<1>2. slots # <<>> /\ ((\E a : slots = <<a>>) \/ (\E a, b : slots = <<a, b>>))
  BY SlotsAre DEF HasSlot
<1>3. ASSUME NEW i \in DOMAIN slots
      PROVE  \/ held(i) = <<>> /\ WornAt(slots[i], equipped) = {}
             \/ \E e \in T : held(i) = <<e>> /\ WornAt(slots[i], equipped) = {e} /\ level(i) = Wow!Or(e.item_level, 0)
  <2> DEFINE slot == slots[i]
             h == Wow!EquippedIn(Worn(equipped), slot)
  <2>1. Opened(Worn(equipped), equipped)
    BY WornOpened
  <2> HIDE DEF slot
  <2>2. \/ h = <<>> /\ WornAt(slot, equipped) = {}
        \/ \E e \in T : h = <<e>> /\ WornAt(slot, equipped) = {e}
    BY <2>1, HeldIs
  <2>3. CASE h = <<>> /\ WornAt(slot, equipped) = {}
    BY <2>3 DEF slot
  <2>4. CASE \E e \in T : h = <<e>> /\ WornAt(slot, equipped) = {e}
    <3>1. PICK e \in T : h = <<e>> /\ WornAt(slot, equipped) = {e}
      BY <2>4
    <3>2. held(i) = <<e>> /\ WornAt(slots[i], equipped) = {e}
      BY <3>1 DEF slot
    <3>3. level(i) = Wow!Or(e.item_level, 0)
      BY <3>2
    <3> QED
      BY <3>2, <3>3
  <2> QED
    BY <2>2, <2>3, <2>4
<1> HIDE DEF slots, home, held, level
<1>4. \A e \in T : Wow!Or(e.item_level, 0) \in Int
  BY DEF Leveled, Wow!Or, Wow!Null
<1>5. DOMAIN slots = 1..Len(slots) /\ Len(slots) \in {1, 2}
  BY <1>2
<1>6. ASSUME empty = {} PROVE \A i \in DOMAIN slots : level(i) \in Int
  BY <1>3, <1>4, <1>6
<1>7. best \in SUBSET (1..Len(slots)) /\ best # {}
  <2>1. CASE empty # {}
    BY <1>5, <2>1
  <2>2. CASE empty = {}
    <3>1. CASE Len(slots) = 1
      <4>1. DOMAIN slots = {1} /\ level(1) \in Int
        BY <1>5, <1>6, <2>2, <3>1
      <4>2. 1 \in weakest
        BY <4>1
      <4> QED
        BY <1>5, <2>2, <4>2
    <3>2. CASE Len(slots) = 2
      <4>1. DOMAIN slots = {1, 2} /\ level(1) \in Int /\ level(2) \in Int
        BY <1>5, <1>6, <2>2, <3>2
      <4>2. 1 \in weakest \/ 2 \in weakest
        BY <4>1
      <4> QED
        BY <1>5, <2>2, <4>2
    <3> QED
      BY <1>5, <3>1, <3>2
  <2> QED
    BY <2>1, <2>2
<1> DEFINE at == Wow!Min(best)
<1>8. at \in best
  <2> HIDE DEF best
  <2>1. best \in SUBSET Nat
    BY <1>5, <1>7
  <2>2. \E n \in best : \A m \in best : n <= m
    BY <1>7, <2>1, LeastNumber
  <2> QED
    BY <2>2 DEF Wow!Min
<1>9. at \in 1..Len(slots) /\ home = slots[at]
  BY <1>1, <1>7, <1>8
<1>10. home \in {slots[1], slots[Len(slots)]} /\ home \in Range(slots)
  <2> HIDE DEF at
  <2>1. at = 1 \/ at = Len(slots)
    <3>1. Len(slots) = 1 => at = 1
      BY <1>9
    <3>2. Len(slots) = 2 => at = 1 \/ at = 2
      BY <1>9
    <3> QED
      BY <1>5, <3>1, <3>2
  <2> QED
    BY <1>5, <1>9, <2>1 DEF Range
<1>11. ASSUME NEW e \in WornAt(home, equipped), NEW slot \in Range(slots)
       PROVE  \E f \in WornAt(slot, equipped) : Wow!Or(e.item_level, 0) <= Wow!Or(f.item_level, 0)
  <2> HIDE DEF at
  <2>1. at \in DOMAIN slots /\ WornAt(slots[at], equipped) # {} /\ e \in WornAt(slots[at], equipped)
    BY <1>5, <1>9, <1>11
  <2>2. held(at) # <<>> /\ level(at) = Wow!Or(e.item_level, 0)
    <3>1. PICK g \in T : held(at) = <<g>> /\ WornAt(slots[at], equipped) = {g} /\ level(at) = Wow!Or(g.item_level, 0)
      BY <1>3, <2>1
    <3>2. g = e
      BY <2>1, <3>1
    <3> QED
      BY <3>1, <3>2
  <2>3. empty = {} /\ at \in weakest
    BY <1>8, <2>1, <2>2 DEF at
  <2>4. PICK i \in DOMAIN slots : slots[i] = slot
    BY DEF Range
  <2>5. held(i) # <<>>
    BY <2>3
  <2>6. PICK f \in T : WornAt(slot, equipped) = {f} /\ level(i) = Wow!Or(f.item_level, 0)
    BY <1>3, <2>4, <2>5
  <2>7. level(at) <= level(i)
    BY <2>3
  <2> QED
    BY <2>2, <2>6, <2>7
<1> QED
  BY <1>10, <1>11 DEF slots, home

SlotNames(T) == {t.slot : t \in T} \cup UNION {Range(Wow!SlotsOf(t.loc)) : t \in T}
Comparisons(T) == {Wow!CompareGear(p[1], p[2])[1] : p \in T \X T}
Helds(T) == {<<>>} \cup {<<t>> : t \in T}
Measures(T) == {"none"} \cup {c.measure : c \in Comparisons(T)}
Lists(T) == Seq(Comparisons(T))
\* The summaries while items are counted.
Lines(T) ==
  [slot : SlotNames(T), equipped : Helds(T), measure : Measures(T), comparison : {"no_candidates"},
   candidates : Nat, notCompared : Nat, aboveLevel : Nat, better : Lists(T), losesEnchant : {FALSE}]

LevelKnown(level) == level \in Nat \cup {Wow!Null}
HandsFull(slot, twoHand) == slot = "secondaryhand" /\ twoHand
\* The items among the first n whose home is "slot".
At(items, equipped, slot, n) == {i \in 1..n : HasSlot(items[i]) /\ Home(items[i], equipped) = slot}
\* A summary counts the items "at" it, and has those that are better.
Fair(entry, items, at, level, twoHand) ==
  /\ entry.candidates + entry.aboveLevel = Cardinality(at)
  /\ Len(entry.better) + entry.notCompared <= entry.candidates
  /\ entry.better # <<>> => ~HandsFull(entry.slot, twoHand) /\ entry.equipped # <<>>
  /\ \A b \in Range(entry.better) :
       \E i \in at : /\ Wearable(items[i], level) /\ Beats(items[i], entry.equipped[1])
                     /\ b = Wow!CompareGear(entry.equipped[1], items[i])[1]
  /\ \A i \in at : entry.equipped # <<>> /\ Wearable(items[i], level) /\ Beats(items[i], entry.equipped[1])
                     => entry.better # <<>> \/ (HandsFull(entry.slot, twoHand) /\ entry.notCompared > 0)

\* What an item's counting changes of a summary.
LEMMA CountedIs ==
  ASSUME NEW T, Leveled(T), NEW entry \in Lines(T), NEW item \in T, NEW level, LevelKnown(level), NEW twoHand
  PROVE  LET counted == Wow!Counted(entry, item, level, twoHand)
             c == Wow!CompareGear(entry.equipped[1], item)
             full == HandsFull(entry.slot, twoHand)
         IN /\ counted \in Lines(T) /\ counted.slot = entry.slot /\ counted.equipped = entry.equipped
            /\ \/ /\ ~Wearable(item, level)
                  /\ counted.candidates = entry.candidates /\ counted.aboveLevel = entry.aboveLevel + 1
                  /\ counted.notCompared = entry.notCompared /\ counted.better = entry.better
               \/ /\ Wearable(item, level)
                  /\ counted.candidates = entry.candidates + 1 /\ counted.aboveLevel = entry.aboveLevel
                  /\ \/ /\ full /\ counted.notCompared = entry.notCompared + 1 /\ counted.better = entry.better
                     \/ /\ ~full /\ entry.equipped = <<>>
                        /\ counted.notCompared = entry.notCompared /\ counted.better = entry.better
                     \/ /\ ~full /\ entry.equipped # <<>> /\ ~Beats(item, entry.equipped[1])
                        /\ counted.notCompared \in {entry.notCompared, entry.notCompared + 1}
                        /\ counted.notCompared # entry.notCompared => c = <<>>
                        /\ counted.better = entry.better
                     \/ /\ ~full /\ entry.equipped # <<>> /\ Beats(item, entry.equipped[1])
                        /\ counted.notCompared = entry.notCompared /\ c[1] \in Comparisons(T)
                        /\ counted.better = Append(entry.better, c[1])
<1> DEFINE counted == Wow!Counted(entry, item, level, twoHand)
           c == Wow!CompareGear(entry.equipped[1], item)
           full == HandsFull(entry.slot, twoHand)
           above == level # Wow!Null /\ item.min_level # Wow!Null /\ item.min_level > level
           M == Measures(T)
           more == [entry EXCEPT !.candidates = @ + 1]
<1>0. /\ entry.aboveLevel + 1 \in Nat /\ entry.candidates + 1 \in Nat /\ entry.notCompared + 1 \in Nat
      /\ entry.measure \in M /\ entry.better \in Lists(T)
  BY DEF Lines
<1>1. above <=> ~Wearable(item, level)
  BY DEF Leveled, Wearable, LevelKnown, Wow!Null
<1>2. CASE above
  <2>1. counted = [entry EXCEPT !.aboveLevel = @ + 1]
    BY <1>2 DEF Wow!Counted
  <2>2. counted \in Lines(T)
    BY <1>0, <2>1 DEF Lines
  <2> QED
    BY <1>1, <1>2, <2>1, <2>2 DEF Lines
<1>3. CASE ~above
  <2>0. /\ more \in Lines(T) /\ more.candidates = entry.candidates + 1 /\ more.aboveLevel = entry.aboveLevel
        /\ more.slot = entry.slot /\ more.equipped = entry.equipped /\ more.notCompared = entry.notCompared
        /\ more.better = entry.better /\ more.measure = entry.measure
    BY <1>0 DEF Lines
  <2>1. counted = Wow!Compared(entry, item, twoHand)
    BY <1>3 DEF Wow!Counted
  <2>2. CASE full
    <3>1. counted = [more EXCEPT !.notCompared = @ + 1]
      BY <2>1, <2>2 DEF Wow!Compared, HandsFull
    <3>2. counted \in Lines(T)
      <4> HIDE DEF more
      <4> QED
        BY <1>0, <2>0, <3>1 DEF Lines
    <3> QED
      <4> HIDE DEF more, above, full, counted
      <4> QED
        BY <1>1, <1>3, <2>0, <2>2, <3>1, <3>2 DEF Lines, full, counted
  <2>3. CASE ~full /\ entry.equipped = <<>>
    <3>1. counted = more
      BY <2>1, <2>3 DEF Wow!Compared, HandsFull, Wow!None
    <3>2. counted \in Lines(T)
      <4> HIDE DEF more
      <4> QED
        BY <1>0, <2>0, <3>1 DEF Lines
    <3> QED
      <4> HIDE DEF more, above, full, counted
      <4> QED
        BY <1>1, <1>3, <2>0, <2>3, <3>1, <3>2 DEF Lines, full, counted
  <2>4. CASE ~full /\ entry.equipped # <<>> /\ c = <<>>
    <3>1. counted = [more EXCEPT !.notCompared = @ + 1]
      BY <2>1, <2>4 DEF Wow!Compared, HandsFull, Wow!None
    <3>2. counted \in Lines(T)
      <4> HIDE DEF more
      <4> QED
        BY <1>0, <2>0, <3>1 DEF Lines
    <3>3. ~Beats(item, entry.equipped[1])
      BY <2>4 DEF Beats
    <3> QED
      <4> HIDE DEF more, above, full, counted
      <4> QED
        BY <1>1, <1>3, <2>0, <2>4, <3>1, <3>2, <3>3 DEF Lines, full, counted, c
  <2>5. CASE ~full /\ entry.equipped # <<>> /\ c # <<>>
    <3> DEFINE measure == IF entry.measure \in {"none", "item_level"} THEN c[1].measure ELSE entry.measure
               better == IF c[1].value > c[1].equippedValue THEN Append(entry.better, c[1]) ELSE entry.better
    <3>1. counted = [more EXCEPT !.measure = measure, !.better = better]
      <4>1. counted = [more EXCEPT !.measure = IF @ \in {"none", "item_level"} THEN c[1].measure ELSE @,
                                   !.better = IF c[1].value > c[1].equippedValue THEN Append(@, c[1]) ELSE @]
        BY <2>1, <2>5 DEF Wow!Compared, HandsFull, Wow!None
      <4> HIDE DEF more, counted
      <4> QED
        BY <2>0, <4>1 DEF measure, better
    <3>2. PICK e \in T : entry.equipped = <<e>>
      <4>1. entry.equipped \in Helds(T)
        BY DEF Lines
      <4> QED
        BY <2>5, <4>1 DEF Helds
    <3>3. c[1] \in Comparisons(T)
      <4>1. entry.equipped[1] = e /\ <<e, item>> \in T \X T
        BY <3>2
      <4> DEFINE p == <<e, item>>
      <4>2. c[1] = Wow!CompareGear(p[1], p[2])[1]
        BY <4>1
      <4> HIDE DEF p, c
      <4>3. p \in T \X T
        BY <4>1 DEF p
      <4> QED
        BY <4>2, <4>3 DEF Comparisons
    <3>4. entry.measure \in M /\ entry.better \in Lists(T)
      BY DEF Lines
    <3> HIDE DEF c
    <3>5. measure \in M
      <4>1. c[1].measure \in M
        BY <3>3 DEF Measures
      <4> QED
        BY <3>4, <4>1
    <3>6. better \in Lists(T)
      BY <3>3, <3>4 DEF Lists
    <3> HIDE DEF measure, better
    <3>7. counted \in Lines(T)
      <4> HIDE DEF counted, more
      <4> QED
        BY <2>0, <3>1, <3>5, <3>6 DEF Lines
    <3>8. /\ counted.slot = entry.slot /\ counted.equipped = entry.equipped
          /\ counted.candidates = entry.candidates + 1 /\ counted.aboveLevel = entry.aboveLevel
          /\ counted.notCompared = entry.notCompared /\ counted.better = better
      <4> HIDE DEF counted, more
      <4> QED
        BY <2>0, <3>1 DEF Lines
    <3>9. Beats(item, entry.equipped[1]) <=> c[1].value > c[1].equippedValue
      BY <2>5 DEF Beats, c
    <3> HIDE DEF counted, full
    <3>10. CASE Beats(item, entry.equipped[1])
      <4>1. better = Append(entry.better, c[1])
        BY <3>9, <3>10 DEF better
      <4> QED
        BY <1>1, <1>3, <2>5, <3>3, <3>7, <3>8, <3>10, <4>1 DEF counted, full, c
    <3>11. CASE ~Beats(item, entry.equipped[1])
      <4>1. better = entry.better
        BY <3>9, <3>11 DEF better
      <4> QED
        BY <1>1, <1>3, <2>5, <3>7, <3>8, <3>11, <4>1 DEF counted, full, c
    <3> QED
      BY <3>10, <3>11
  <2> QED
    BY <2>2, <2>3, <2>4, <2>5
<1> QED
  BY <1>2, <1>3

\* A list with a value put at its end is not empty.
LEMMA AppendedIsSome ==
  ASSUME NEW V, NEW list \in Seq(V), NEW x \in V
  PROVE  Append(list, x) # <<>>
<1>1. Len(Append(list, x)) = Len(list) + 1 /\ Len(list) \in Nat /\ Len(<<>>) = 0
  OBVIOUS
<1> QED
  BY <1>1

\* A summary that is fair to some items is, with one more, fair to them and that one.
LEMMA FairToMore ==
  ASSUME NEW T, Leveled(T), NEW entry \in Lines(T), NEW items, NEW at, IsFiniteSet(at), NEW n, n \notin at,
         items[n] \in T, NEW level, LevelKnown(level), NEW twoHand, Fair(entry, items, at, level, twoHand)
  PROVE  Fair(Wow!Counted(entry, items[n], level, twoHand), items, at \cup {n}, level, twoHand)
<1> DEFINE item == items[n]
           counted == Wow!Counted(entry, item, level, twoHand)
           worn == entry.equipped[1]
           c == Wow!CompareGear(worn, item)
           full == HandsFull(entry.slot, twoHand)
           also == at \cup {n}
<1>1. /\ entry.candidates \in Nat /\ entry.aboveLevel \in Nat /\ entry.notCompared \in Nat
      /\ entry.better \in Seq(Comparisons(T))
      /\ counted.candidates \in Nat /\ counted.aboveLevel \in Nat /\ counted.notCompared \in Nat
      /\ counted.better \in Seq(Comparisons(T))
  <2>1. counted \in Lines(T)
    BY CountedIs
  <2> HIDE DEF counted
  <2> QED
    BY <2>1 DEF Lines, Lists
<1>2. /\ counted.slot = entry.slot /\ counted.equipped = entry.equipped
      /\ \/ /\ ~Wearable(item, level)
            /\ counted.candidates = entry.candidates /\ counted.aboveLevel = entry.aboveLevel + 1
            /\ counted.notCompared = entry.notCompared /\ counted.better = entry.better
         \/ /\ Wearable(item, level)
            /\ counted.candidates = entry.candidates + 1 /\ counted.aboveLevel = entry.aboveLevel
            /\ \/ /\ full /\ counted.notCompared = entry.notCompared + 1 /\ counted.better = entry.better
               \/ /\ ~full /\ entry.equipped = <<>>
                  /\ counted.notCompared = entry.notCompared /\ counted.better = entry.better
               \/ /\ ~full /\ entry.equipped # <<>> /\ ~Beats(item, worn)
                  /\ counted.notCompared \in {entry.notCompared, entry.notCompared + 1}
                  /\ counted.notCompared # entry.notCompared => c = <<>>
                  /\ counted.better = entry.better
               \/ /\ ~full /\ entry.equipped # <<>> /\ Beats(item, worn)
                  /\ counted.notCompared = entry.notCompared /\ c[1] \in Comparisons(T)
                  /\ counted.better = Append(entry.better, c[1])
  BY CountedIs
<1>3. /\ entry.candidates + entry.aboveLevel = Cardinality(at)
      /\ Len(entry.better) + entry.notCompared <= entry.candidates
      /\ entry.better # <<>> => ~full /\ entry.equipped # <<>>
      /\ \A b \in Range(entry.better) :
           \E i \in at : /\ Wearable(items[i], level) /\ Beats(items[i], worn)
                         /\ b = Wow!CompareGear(worn, items[i])[1]
      /\ \A i \in at : entry.equipped # <<>> /\ Wearable(items[i], level) /\ Beats(items[i], worn)
                         => entry.better # <<>> \/ (full /\ entry.notCompared > 0)
  BY DEF Fair
<1>4. Cardinality(also) = Cardinality(at) + 1 /\ Cardinality(at) \in Nat
  BY FS_AddElement, FS_CardinalityType
<1> HIDE DEF counted, c, full, item, worn
<1>5. counted.candidates + counted.aboveLevel = Cardinality(also)
  <2> HIDE DEF also
  <2> QED
    BY <1>1, <1>2, <1>3, <1>4
<1>6. \/ counted.better = entry.better
      \/ /\ Wearable(item, level) /\ ~full /\ entry.equipped # <<>> /\ Beats(item, worn) /\ c[1] \in Comparisons(T)
         /\ counted.candidates = entry.candidates + 1 /\ counted.notCompared = entry.notCompared
         /\ counted.better = Append(entry.better, c[1])
  BY <1>2
<1>7. Len(counted.better) + counted.notCompared <= counted.candidates
  <2>1. Len(entry.better) \in Nat
    BY <1>1
  <2>2. CASE counted.better = entry.better
    <3>1. \/ counted.notCompared = entry.notCompared /\ counted.candidates >= entry.candidates
          \/ counted.notCompared = entry.notCompared + 1 /\ counted.candidates = entry.candidates + 1
      BY <1>1, <1>2
    <3> QED
      BY <1>1, <1>3, <2>1, <2>2, <3>1
  <2>3. CASE counted.better = Append(entry.better, c[1]) /\ c[1] \in Comparisons(T)
               /\ counted.candidates = entry.candidates + 1 /\ counted.notCompared = entry.notCompared
    <3>1. Len(counted.better) = Len(entry.better) + 1
      BY <1>1, <2>3
    <3> QED
      BY <1>1, <1>3, <2>1, <2>3, <3>1
  <2> QED
    BY <1>6, <2>2, <2>3
<1>8. counted.better # <<>> => ~full /\ entry.equipped # <<>>
  BY <1>3, <1>6
<1>9. ASSUME NEW b \in Range(counted.better)
      PROVE  \E i \in also : /\ Wearable(items[i], level) /\ Beats(items[i], worn)
                             /\ b = Wow!CompareGear(worn, items[i])[1]
  <2>1. CASE b \in Range(entry.better)
    BY <1>3, <2>1
  <2>2. CASE b \notin Range(entry.better)
    <3>1. Wearable(item, level) /\ Beats(item, worn) /\ counted.better = Append(entry.better, c[1])
          /\ c[1] \in Comparisons(T)
      BY <1>6, <1>9, <2>2
    <3>2. b = c[1]
      <4>1. PICK k \in DOMAIN counted.better : counted.better[k] = b
        BY <1>9 DEF Range
      <4>2. \A j \in 1..Len(entry.better) : entry.better[j] # b
        BY <1>1, <2>2 DEF Range
      <4> QED
        BY <1>1, <3>1, <4>1, <4>2
    <3> QED
      BY <3>1, <3>2 DEF item, c
  <2> QED
    BY <2>1, <2>2
<1>10. ASSUME NEW i \in also, entry.equipped # <<>>, Wearable(items[i], level), Beats(items[i], worn)
       PROVE  counted.better # <<>> \/ (full /\ counted.notCompared > 0)
  <2>1. CASE i \in at
    <3>1. entry.better # <<>> \/ (full /\ entry.notCompared > 0)
      BY <1>3, <1>10, <2>1
    <3>2. counted.notCompared >= entry.notCompared
      BY <1>1, <1>2
    <3>3. entry.better # <<>> => counted.better # <<>>
      <4>1. \A d \in Comparisons(T) : Append(entry.better, d) # <<>>
        BY <1>1, AppendedIsSome
      <4> QED
        BY <1>6, <4>1
    <3> QED
      BY <1>1, <3>1, <3>2, <3>3
  <2>2. CASE i = n
    <3>1. Wearable(item, level) /\ Beats(item, worn)
      BY <1>10, <2>2 DEF item
    <3>2. \/ full /\ counted.notCompared = entry.notCompared + 1
          \/ counted.better = Append(entry.better, c[1]) /\ c[1] \in Comparisons(T)
      BY <1>2, <1>10, <3>1
    <3>3. CASE full /\ counted.notCompared = entry.notCompared + 1
      BY <1>1, <3>3
    <3>4. CASE counted.better = Append(entry.better, c[1]) /\ c[1] \in Comparisons(T)
      <4>1. \A d \in Comparisons(T) : Append(entry.better, d) # <<>>
        BY <1>1, AppendedIsSome
      <4> QED
        BY <3>4, <4>1
    <3> QED
      BY <3>2, <3>3, <3>4
  <2> QED
    BY <1>10, <2>1, <2>2
<1> QED
  <2>1. full = HandsFull(counted.slot, twoHand) /\ worn = counted.equipped[1]
    BY <1>2 DEF full, worn
  <2> HIDE DEF also
  <2>2. Fair(counted, items, also, level, twoHand)
    BY <1>2, <1>5, <1>7, <1>8, <1>9, <1>10, <2>1 DEF Fair
  <2> QED
    BY <2>2 DEF also, counted, item

\* A new summary is fair to no items.
LEMMA FairToNone ==
  ASSUME NEW T, NEW slot \in SlotNames(T), NEW held \in Helds(T), NEW items, NEW level, NEW twoHand
  PROVE  LET entry == Wow!EmptySummary(slot, held)
         IN /\ entry \in Lines(T) /\ entry.slot = slot /\ entry.equipped = held
            /\ Fair(entry, items, {}, level, twoHand)
<1> DEFINE entry == Wow!EmptySummary(slot, held)
<1>1. /\ entry.slot = slot /\ entry.equipped = held /\ entry.candidates = 0 /\ entry.aboveLevel = 0
      /\ entry.notCompared = 0 /\ entry.better = <<>>
  BY DEF Wow!EmptySummary
<1>2. entry \in Lines(T)
  <2>1. <<>> \in Lists(T) /\ "none" \in Measures(T)
    BY DEF Lists, Measures
  <2> QED
    BY <2>1 DEF Wow!EmptySummary, Lines
<1>3. Fair(entry, items, {}, level, twoHand)
  <2> HIDE DEF entry
  <2>1. Cardinality({}) = 0 /\ Range(<<>>) = {} /\ Len(<<>>) = 0
    BY FS_EmptySet DEF Range
  <2> QED
    BY <1>1, <2>1 DEF Fair
<1> QED
  BY <1>1, <1>2, <1>3

\* The summaries of the worn items and the first n of the bags.
Summed(sums, T, equipped, items, level, twoHand, n) ==
  /\ Opened(sums, equipped) /\ sums \in Seq(Lines(T))
  /\ \A k \in DOMAIN sums : Fair(sums[k], items, At(items, equipped, sums[k].slot, n), level, twoHand)
  /\ \A i \in 1..n : HasSlot(items[i]) => \E k \in DOMAIN sums : sums[k].slot = Home(items[i], equipped)

\* The items at a slot, with one more item.
LEMMA AtIs ==
  ASSUME NEW items, NEW equipped, NEW slot, NEW n \in Nat
  PROVE  /\ IsFiniteSet(At(items, equipped, slot, n)) /\ At(items, equipped, slot, 0) = {}
         /\ n + 1 \notin At(items, equipped, slot, n)
         /\ HasSlot(items[n + 1]) /\ Home(items[n + 1], equipped) = slot
              => At(items, equipped, slot, n + 1) = At(items, equipped, slot, n) \cup {n + 1}
         /\ ~HasSlot(items[n + 1]) \/ Home(items[n + 1], equipped) # slot
              => At(items, equipped, slot, n + 1) = At(items, equipped, slot, n)
<1>1. IsFiniteSet(At(items, equipped, slot, n))
  <2>1. IsFiniteSet(1..n)
    BY FS_Interval
  <2> QED
    BY <2>1, FS_Subset DEF At
<1>2. 1..n + 1 = 1..n \cup {n + 1} /\ n + 1 \notin 1..n /\ 1..0 = {}
  OBVIOUS
<1> QED
  BY <1>1, <1>2 DEF At

\* Before the bags, the summaries are those of the worn items.
LEMMA SummedFromWorn ==
  ASSUME NEW T, NEW equipped \in Seq(T), OneEach(equipped), NEW items, NEW level, NEW twoHand
  PROVE  Summed(Worn(equipped), T, equipped, items, level, twoHand, 0)
<1> DEFINE worn == Worn(equipped)
<1>1. /\ Len(equipped) \in Nat /\ DOMAIN equipped = 1..Len(equipped) /\ DOMAIN worn = 1..Len(equipped)
      /\ Len(worn) = Len(equipped) /\ \A i \in 1..Len(equipped) : equipped[i] \in T
      /\ \A i \in 1..Len(equipped) : worn[i] = Wow!EmptySummary(equipped[i].slot, Wow!Some(equipped[i]))
  BY DEF Worn
<1>2. worn = [i \in 1..Len(equipped) |-> worn[i]]
  BY DEF Worn
<1> HIDE DEF worn
<1>3. ASSUME NEW i \in 1..Len(equipped)
      PROVE  /\ worn[i] \in Lines(T) /\ worn[i].slot = equipped[i].slot /\ worn[i].equipped = <<equipped[i]>>
             /\ Fair(worn[i], items, {}, level, twoHand)
  <2> DEFINE held == <<equipped[i]>>
             slot == equipped[i].slot
  <2>1. held \in Helds(T) /\ slot \in SlotNames(T)
    BY <1>1 DEF Helds, SlotNames
  <2>2. worn[i] = Wow!EmptySummary(slot, held)
    BY <1>1 DEF Wow!Some
  <2> HIDE DEF held, slot
  <2>3. LET entry == Wow!EmptySummary(slot, held)
        IN entry \in Lines(T) /\ entry.slot = slot /\ entry.equipped = held /\ Fair(entry, items, {}, level, twoHand)
    BY <2>1, FairToNone
  <2> QED
    BY <2>2, <2>3 DEF held, slot
<1>4. worn \in Seq(Lines(T))
  BY <1>1, <1>2, <1>3
<1>5. Opened(worn, equipped)
  BY <1>1, <1>3 DEF Opened, OneEach
<1>6. ASSUME NEW k \in DOMAIN worn
      PROVE  Fair(worn[k], items, At(items, equipped, worn[k].slot, 0), level, twoHand)
  <2>1. At(items, equipped, worn[k].slot, 0) = {}
    BY AtIs
  <2> QED
    BY <1>1, <1>3, <2>1
<1>7. 1..0 = {}
  OBVIOUS
<1>8. Summed(worn, T, equipped, items, level, twoHand, 0)
  BY <1>4, <1>5, <1>6, <1>7 DEF Summed
<1> QED
  BY <1>8 DEF worn

Bags(T, equipped, items) ==
  Leveled(T) /\ equipped \in Seq(T) /\ OneEach(equipped) /\ items \in Seq(T)

\* The home of an item that fits has a summary then.
LEMMA HomeOpened ==
  ASSUME NEW T, NEW equipped, NEW items, Bags(T, equipped, items), NEW level, NEW twoHand,
         NEW n \in Nat, NEW sums, Summed(sums, T, equipped, items, level, twoHand, n), NEW item \in T, HasSlot(item)
  PROVE  LET home == Home(item, equipped)
             all == Wow!WithSummary(sums, home, <<>>)
         IN /\ Summed(all, T, equipped, items, level, twoHand, n)
            /\ Wow!EntryAt(all, home) \in DOMAIN all /\ all[Wow!EntryAt(all, home)].slot = home
<1> DEFINE home == Home(item, equipped)
           entry == Wow!EmptySummary(home, <<>>)
           more == Append(sums, entry)
<1>0. /\ DOMAIN sums = 1..Len(sums) /\ Len(sums) \in Nat /\ Len(sums) >= Len(equipped) /\ Len(equipped) \in Nat
      /\ sums \in Seq(Lines(T)) /\ Opened(sums, equipped)
  BY DEF Summed, Opened, Bags
<1>1. home \in SlotNames(T) /\ <<>> \in Helds(T)
  <2>1. home \in Range(Wow!SlotsOf(item.loc))
    BY HomeIs DEF Bags
  <2> QED
    BY <2>1 DEF SlotNames, Helds
<1> HIDE DEF home
<1>2. entry \in Lines(T) /\ entry.slot = home /\ entry.equipped = <<>> /\ Fair(entry, items, {}, level, twoHand)
  BY <1>1, FairToNone
<1> HIDE DEF entry
<1>3. CASE \E k \in DOMAIN sums : sums[k].slot = home
  <2>1. PICK k \in DOMAIN sums : sums[k].slot = home
    BY <1>3
  <2>2. Wow!EntryAt(sums, home) = k /\ k # 0
    BY <1>0, <2>1, EntryIs DEF Bags
  <2> QED
    BY <2>1, <2>2 DEF home, Wow!WithSummary
<1>4. CASE \A k \in DOMAIN sums : sums[k].slot # home
  <2>1. Wow!EntryAt(sums, home) = 0
    BY <1>0, <1>4, EntryIs DEF Bags
  <2>2. /\ more \in Seq(Lines(T)) /\ Len(more) = Len(sums) + 1 /\ DOMAIN more = 1..Len(sums) + 1
        /\ more[Len(sums) + 1] = entry /\ \A k \in 1..Len(sums) : more[k] = sums[k]
    BY <1>0, <1>2
  <2> HIDE DEF more
  <2>3. \A k \in DOMAIN more : k \in DOMAIN sums \/ k = Len(sums) + 1
    BY <1>0, <2>2
  <2>4. Opened(more, equipped)
    <3>1. DOMAIN more = 1..Len(more) /\ Len(more) \in Nat /\ Len(more) >= Len(equipped)
      BY <1>0, <2>2
    <3>2. \A i \in 1..Len(equipped) : more[i].slot = equipped[i].slot /\ more[i].equipped = <<equipped[i]>>
      BY <1>0, <2>2 DEF Opened
    <3>3. \A i \in DOMAIN more : i > Len(equipped) => more[i].equipped = <<>>
      BY <1>0, <1>2, <2>2, <2>3 DEF Opened
    <3>4. \A i, j \in DOMAIN more : more[i].slot = more[j].slot => i = j
      BY <1>0, <1>2, <1>4, <2>2, <2>3 DEF Opened
    <3> QED
      BY <3>1, <3>2, <3>3, <3>4 DEF Opened
  <2>5. At(items, equipped, home, n) = {}
    BY <1>4 DEF Summed, At
  <2>6. ASSUME NEW k \in DOMAIN more
        PROVE  Fair(more[k], items, At(items, equipped, more[k].slot, n), level, twoHand)
    BY <1>0, <1>2, <2>2, <2>3, <2>5 DEF Summed
  <2>7. ASSUME NEW i \in 1..n, HasSlot(items[i]) PROVE \E k \in DOMAIN more : more[k].slot = Home(items[i], equipped)
    <3>1. PICK k \in DOMAIN sums : sums[k].slot = Home(items[i], equipped)
      BY <2>7 DEF Summed
    <3> QED
      BY <1>0, <2>2, <3>1
  <2>8. Summed(more, T, equipped, items, level, twoHand, n)
    BY <2>2, <2>4, <2>6, <2>7 DEF Summed
  <2>9. Len(sums) + 1 \in DOMAIN more /\ Wow!EntryAt(more, home) = Len(sums) + 1
    <3>1. Len(sums) + 1 \in DOMAIN more /\ more[Len(sums) + 1].slot = home
      BY <1>0, <1>2, <2>2
    <3> QED
      BY <2>4, <3>1, EntryIs DEF Bags
  <2>10. more[Wow!EntryAt(more, home)].slot = home
    BY <1>2, <2>2, <2>9
  <2> QED
    BY <2>1, <2>8, <2>9, <2>10 DEF home, entry, more, Wow!WithSummary
<1> QED
  BY <1>3, <1>4

\* One more item is counted at its home, and nowhere else.
LEMMA SummedWithMore ==
  ASSUME NEW T, NEW equipped, NEW items, Bags(T, equipped, items), NEW level, LevelKnown(level), NEW twoHand,
         NEW n \in Nat, n < Len(items), NEW sums, Summed(sums, T, equipped, items, level, twoHand, n)
  PROVE  Summed(Wow!Candidate(sums, items[n + 1], level, twoHand), T, equipped, items, level, twoHand, n + 1)
<1> DEFINE item == items[n + 1]
           home == Home(item, equipped)
           all == Wow!WithSummary(sums, home, <<>>)
           at == Wow!EntryAt(all, home)
           entry == Wow!Counted(all[at], item, level, twoHand)
           counted == [all EXCEPT ![at] = entry]
<1>0. 1..n + 1 = 1..n \cup {n + 1}
  OBVIOUS
<1>1. CASE ~HasSlot(item)
  <2>1. Wow!Candidate(sums, item, level, twoHand) = sums
    BY <1>1 DEF HasSlot, Wow!Candidate
  <2>2. ASSUME NEW slot PROVE At(items, equipped, slot, n + 1) = At(items, equipped, slot, n)
    <3> QED
      BY <1>1, AtIs
  <2>3. Summed(sums, T, equipped, items, level, twoHand, n + 1)
    BY <1>0, <1>1, <2>2 DEF Summed
  <2> QED
    BY <2>1, <2>3
<1>2. CASE HasSlot(item)
  <2>0. item \in T
    BY DEF Bags
  <2>1. Wow!Candidate(sums, item, level, twoHand) = counted
    <3>1. Wow!SlotFor(sums, Wow!SlotsOf(item.loc)) = home
      BY SlotForWorn DEF Summed, Bags
    <3> DEFINE with(slot) == LET opened == Wow!WithSummary(sums, slot, <<>>)
                             IN [opened EXCEPT ![Wow!EntryAt(opened, slot)] = Wow!Counted(@, item, level, twoHand)]
    <3>2. Wow!Candidate(sums, item, level, twoHand) = with(Wow!SlotFor(sums, Wow!SlotsOf(item.loc)))
      <4> HIDE DEF item
      <4>1. Wow!SlotsOf(item.loc) # <<>>
        BY <1>2 DEF HasSlot
      <4> QED
        BY <4>1, Zenon DEF Wow!Candidate, Wow!None
    <3>3. with(home) = counted
      OBVIOUS
    <3> HIDE DEF home, item, with, counted
    <3> QED
      BY <3>1, <3>2, <3>3
  <2> HIDE DEF item
  <2>2. Summed(all, T, equipped, items, level, twoHand, n) /\ at \in DOMAIN all /\ all[at].slot = home
    BY <1>2, <2>0, HomeOpened
  <2> HIDE DEF all, at, home
  <2>3. /\ DOMAIN all = 1..Len(all) /\ Len(all) \in Nat /\ all \in Seq(Lines(T)) /\ Opened(all, equipped)
        /\ \A i, j \in DOMAIN all : all[i].slot = all[j].slot => i = j
        /\ all[at] \in Lines(T)
    BY <2>2 DEF Summed, Opened
  <2>4. entry \in Lines(T) /\ entry.slot = home /\ entry.equipped = all[at].equipped
    <3> DEFINE old == all[at]
    <3>1. old \in Lines(T) /\ old.slot = home
      BY <2>2, <2>3
    <3> HIDE DEF old
    <3>2. LET c == Wow!Counted(old, item, level, twoHand)
          IN c \in Lines(T) /\ c.slot = old.slot /\ c.equipped = old.equipped
      BY <2>0, <3>1, CountedIs DEF Bags
    <3> QED
      BY <3>1, <3>2 DEF old
  <2>5. Fair(entry, items, At(items, equipped, home, n + 1), level, twoHand)
    <3>1. /\ Fair(all[at], items, At(items, equipped, home, n), level, twoHand)
          /\ IsFiniteSet(At(items, equipped, home, n)) /\ n + 1 \notin At(items, equipped, home, n)
          /\ At(items, equipped, home, n + 1) = At(items, equipped, home, n) \cup {n + 1}
      BY <1>2, <2>2, AtIs DEF Summed, item, home
    <3>2. items[n + 1] \in T /\ Leveled(T)
      BY DEF Bags
    <3>3. Fair(Wow!Counted(all[at], items[n + 1], level, twoHand), items, At(items, equipped, home, n) \cup {n + 1}, level, twoHand)
      <4> DEFINE old == all[at]
                 here == At(items, equipped, home, n)
                 m == n + 1
      <4>1. old \in Lines(T) /\ Fair(old, items, here, level, twoHand) /\ IsFiniteSet(here) /\ m \notin here
            /\ items[m] \in T
        BY <2>3, <3>1, <3>2
      <4> HIDE DEF old, here, m
      <4>2. Fair(Wow!Counted(old, items[m], level, twoHand), items, here \cup {m}, level, twoHand)
        BY <3>2, <4>1, FairToMore
      <4> QED
        BY <4>2 DEF old, here, m
    <3> QED
      BY <3>1, <3>3 DEF item
  <2> HIDE DEF entry
  <2>6. /\ counted \in Seq(Lines(T)) /\ Len(counted) = Len(all) /\ DOMAIN counted = DOMAIN all
        /\ counted[at] = entry /\ \A k \in DOMAIN all : k # at => counted[k] = all[k]
    BY <2>2, <2>3, <2>4
  <2> HIDE DEF counted
  <2>7. \A k \in DOMAIN all : counted[k].slot = all[k].slot /\ counted[k].equipped = all[k].equipped
    BY <2>2, <2>4, <2>6
  <2>8. Opened(counted, equipped)
    <3>1. \A i \in 1..Len(equipped) : i \in DOMAIN all
      BY <2>3 DEF Opened
    <3> QED
      BY <2>3, <2>6, <2>7, <3>1 DEF Opened
  <2>9. ASSUME NEW k \in DOMAIN counted
        PROVE  Fair(counted[k], items, At(items, equipped, counted[k].slot, n + 1), level, twoHand)
    <3>1. CASE k = at
      BY <2>4, <2>5, <2>6, <3>1
    <3>2. CASE k # at
      <4>1. k \in DOMAIN all /\ counted[k] = all[k] /\ all[k].slot # home
        BY <2>2, <2>3, <2>6, <3>2
      <4>2. At(items, equipped, all[k].slot, n + 1) = At(items, equipped, all[k].slot, n)
        <5> DEFINE slot == all[k].slot
        <5>1. Home(items[n + 1], equipped) # slot
          BY <4>1 DEF home, item
        <5> HIDE DEF slot
        <5>2. At(items, equipped, slot, n + 1) = At(items, equipped, slot, n)
          BY <5>1, AtIs
        <5> QED
          BY <5>2 DEF slot
      <4> QED
        BY <2>2, <4>1, <4>2 DEF Summed
    <3> QED
      BY <3>1, <3>2
  <2>10. ASSUME NEW i \in 1..n + 1, HasSlot(items[i])
         PROVE  \E k \in DOMAIN counted : counted[k].slot = Home(items[i], equipped)
    <3>1. CASE i = n + 1
      BY <2>2, <2>6, <2>7, <3>1 DEF home, item
    <3>2. CASE i # n + 1
      <4>1. i \in 1..n
        BY <3>2
      <4>2. PICK k \in DOMAIN all : all[k].slot = Home(items[i], equipped)
        BY <2>2, <2>10, <4>1 DEF Summed
      <4> QED
        BY <2>6, <2>7, <4>2
    <3> QED
      BY <3>1, <3>2
  <2>11. Summed(counted, T, equipped, items, level, twoHand, n + 1)
    BY <2>6, <2>8, <2>9, <2>10 DEF Summed
  <2> QED
    BY <2>1, <2>11 DEF item
<1> QED
  BY <1>1, <1>2

\* With all of the bags.
LEMMA AllSummed ==
  ASSUME NEW T, Leveled(T), NEW equipped \in Seq(T), OneEach(equipped), NEW items \in Seq(T),
         NEW level, LevelKnown(level), NEW twoHand
  PROVE  Summed(Wow!SumsWithBags(Worn(equipped), items, level, twoHand)[Len(items)], T, equipped, items, level, twoHand,
                Len(items))
<1> DEFINE L == Len(items)
           worn == Worn(equipped)
           More(s, n) == Wow!Candidate(s, items[n], level, twoHand)
           Good(s, n) == Summed(s, T, equipped, items, level, twoHand, n)
           Rec(f) == [n \in 0..L |-> IF n = 0 THEN worn ELSE More(f[n - 1], n)]
           sums == Wow!SumsWithBags(worn, items, level, twoHand)
<1>1. L \in Nat /\ \A n \in 1..L : items[n] \in T
  OBVIOUS
<1>2. Good(worn, 0)
  BY SummedFromWorn
<1>3. ASSUME NEW n \in 0..L - 1, NEW s, Good(s, n) PROVE Good(More(s, n + 1), n + 1)
  <2>1. n \in Nat /\ n < L /\ Bags(T, equipped, items)
    BY <1>1 DEF Bags
  <2> QED
    BY <1>3, <2>1, SummedWithMore
<1>4. sums = CHOOSE f : f = Rec(f)
  BY DEF Wow!SumsWithBags
<1> HIDE DEF L, worn, More, Good, sums
<1>5. \E f : f = Rec(f)
  <2> DEFINE Upto(f, k) == f = [n \in 0..k |-> IF n = 0 THEN worn ELSE More(f[n - 1], n)]
             K == {k \in 0..L : \E f : Upto(f, k)}
  <2>1. 0 \in K
    <3> DEFINE f == [n \in 0..0 |-> worn]
    <3>1. Upto(f, 0)
      <4>1. \A n \in 0..0 : f[n] = IF n = 0 THEN worn ELSE More(f[n - 1], n)
        OBVIOUS
      <4>2. f = [n \in 0..0 |-> f[n]]
        OBVIOUS
      <4> HIDE DEF f
      <4> QED
        BY <4>1, <4>2
    <3> HIDE DEF Upto, f
    <3> QED
      BY <1>1, <3>1
  <2>2. ASSUME NEW k \in 0..L - 1, k \in K PROVE k + 1 \in K
    <3>1. PICK f : Upto(f, k)
      BY <2>2
    <3> DEFINE g == [n \in 0..k + 1 |-> IF n = k + 1 THEN More(f[k], k + 1) ELSE f[n]]
    <3>2. \A n \in 0..k : f[n] = IF n = 0 THEN worn ELSE More(f[n - 1], n)
      BY <3>1
    <3>3. ASSUME NEW n \in 0..k + 1 PROVE g[n] = IF n = 0 THEN worn ELSE More(g[n - 1], n)
      <4>1. CASE n = k + 1
        <5>1. n # 0 /\ n - 1 = k /\ k \in 0..k + 1 /\ k # k + 1
          BY <4>1
        <5>2. g[n] = More(f[k], n) /\ g[n - 1] = f[k]
          BY <4>1, <5>1
        <5> QED
          BY <5>1, <5>2
      <4>2. CASE n # k + 1
        <5>1. n \in 0..k /\ g[n] = f[n]
          BY <4>2
        <5>2. n # 0 => n - 1 \in 0..k + 1 /\ n - 1 # k + 1
          BY <5>1
        <5>3. n # 0 => g[n - 1] = f[n - 1]
          BY <5>2
        <5> HIDE DEF g
        <5> QED
          BY <3>2, <5>1, <5>3
      <4> QED
        BY <4>1, <4>2
    <3>4. g = [n \in 0..k + 1 |-> g[n]]
      OBVIOUS
    <3> HIDE DEF g
    <3>5. Upto(g, k + 1)
      BY <3>3, <3>4
    <3> HIDE DEF Upto
    <3> QED
      BY <1>1, <3>5
  <2>3. 0..L \subseteq K
    <3> HIDE DEF K
    <3> QED
      BY <1>1, <2>1, <2>2, UpTo
  <2>4. PICK f : Upto(f, L)
    <3> HIDE DEF Upto
    <3> QED
      BY <1>1, <2>3
  <2> QED
    BY <2>4
<1>6. sums = Rec(sums)
  <2> HIDE DEF Rec
  <2> QED
    BY <1>4, <1>5
<1>7. sums[0] = worn /\ \A n \in 0..L - 1 : sums[n + 1] = More(sums[n], n + 1)
  <2>1. \A n \in 0..L : sums[n] = IF n = 0 THEN worn ELSE More(sums[n - 1], n)
    BY <1>6
  <2>2. ASSUME NEW n \in 0..L - 1 PROVE sums[n + 1] = More(sums[n], n + 1)
    <3>1. n + 1 \in 0..L /\ n + 1 # 0 /\ (n + 1) - 1 = n
      BY <1>1
    <3> QED
      BY <2>1, <3>1
  <2> QED
    BY <1>1, <2>1, <2>2
<1> DEFINE S == {n \in 0..L : Good(sums[n], n)}
<1>8. 0 \in S
  BY <1>1, <1>2, <1>7
<1>9. ASSUME NEW n \in 0..L - 1, n \in S PROVE n + 1 \in S
  <2>1. n + 1 \in 0..L /\ Good(sums[n], n)
    BY <1>1, <1>9
  <2>2. Good(sums[n + 1], n + 1)
    BY <1>3, <1>7, <2>1
  <2> QED
    BY <2>1, <2>2
<1>10. Good(sums[L], L)
  <2>1. 0..L \subseteq S
    <3> HIDE DEF S
    <3> QED
      BY <1>1, <1>8, <1>9, UpTo
  <2> QED
    BY <1>1, <2>1
<1> QED
  BY <1>10 DEF L, Good, worn, sums

\* What a slot reads, of the summary it was made from.
LEMMA SummarisedIs ==
  ASSUME NEW T, NEW entry \in Lines(T), Len(entry.better) + entry.notCompared <= entry.candidates,
         entry.better # <<>> => entry.equipped # <<>>
  PROVE  LET g == Wow!Summarised(entry)
         IN /\ g.slot = entry.slot /\ g.equipped = entry.equipped
            /\ g.candidates = entry.candidates /\ g.notCompared = entry.notCompared /\ g.aboveLevel = entry.aboveLevel
            /\ g.better \in Seq(Comparisons(T)) /\ Len(g.better) = Len(entry.better) /\ Range(g.better) = Range(entry.better)
            /\ entry.better # <<>> => g.comparison \in {"better_in_bags", "incomplete"}
            /\ g.comparison = "better_in_bags" => entry.equipped # <<>>
            /\ g.losesEnchant = (g.comparison = "better_in_bags" /\ g.equipped[1].enchant # <<>>)
<1> DEFINE before == [a, b \in Wow!Range(entry.better) |->
                        \/ a.measure # "item_level" /\ b.measure = "item_level"
                        \/ (a.measure = "item_level") = (b.measure = "item_level") /\ a.value > b.value]
           better == Wow!SortedUpTo(entry.better, before)[Len(entry.better)]
           enchant == IF entry.equipped = <<>> THEN <<>> ELSE entry.equipped[1].enchant
           comparison == CASE entry.candidates = 0 -> "no_candidates"
                           [] entry.candidates > 0 /\ better # <<>> ->
                                IF enchant # <<>> /\ ~enchant[1].text THEN "incomplete" ELSE "better_in_bags"
                           [] entry.candidates > 0 /\ better = <<>> /\ entry.notCompared = entry.candidates -> "not_compared"
                           [] entry.candidates > entry.notCompared /\ better = <<>> ->
                                IF entry.equipped = <<>> THEN "fills_empty_slot" ELSE "none_better"
           measure == IF better = <<>> THEN entry.measure ELSE better[1].measure
           loses == comparison = "better_in_bags" /\ enchant # <<>>
           g == Wow!Summarised(entry)
<1>1. g = [entry EXCEPT !.better = better, !.comparison = comparison, !.measure = measure, !.losesEnchant = loses]
  BY DEF Wow!Summarised, Wow!StableSort, Wow!None
<1>2. /\ entry.candidates \in Nat /\ entry.notCompared \in Nat /\ entry.aboveLevel \in Nat
      /\ entry.better \in Seq(Comparisons(T))
  BY DEF Lines, Lists
<1>3. better \in Seq(Comparisons(T)) /\ Len(better) = Len(entry.better) /\ Range(better) = Range(entry.better)
  <2> HIDE DEF before
  <2> QED
    BY <1>2, SortKeeps
<1>4. better = <<>> <=> entry.better = <<>>
  <2> HIDE DEF better
  <2>1. \A list \in Seq(Comparisons(T)) : list = <<>> <=> Len(list) = 0
    OBVIOUS
  <2> QED
    BY <1>2, <1>3, <2>1
<1>5. entry.better # <<>> => entry.candidates > 0
  <2>1. Len(entry.better) \in Nat /\ (entry.better # <<>> => Len(entry.better) # 0)
    BY <1>2
  <2> QED
    BY <1>2, <2>1
<1> HIDE DEF before, better, enchant
<1>6. entry.better # <<>> => comparison \in {"better_in_bags", "incomplete"}
  BY <1>2, <1>4, <1>5
<1>7. comparison = "better_in_bags" => entry.better # <<>>
  <2> SUFFICES ASSUME entry.better = <<>> PROVE comparison # "better_in_bags"
    OBVIOUS
  <2>1. better = <<>> /\ entry.notCompared <= entry.candidates
    BY <1>2, <1>4
  <2>2. CASE entry.candidates = 0
    BY <1>2, <2>1, <2>2
  <2>3. CASE entry.candidates > 0 /\ entry.notCompared = entry.candidates
    BY <1>2, <2>1, <2>3
  <2>4. CASE entry.candidates > entry.notCompared
    BY <1>2, <2>1, <2>4
  <2> QED
    BY <1>2, <2>1, <2>2, <2>3, <2>4
<1> HIDE DEF comparison, measure, loses, g
<1>8. /\ g.slot = entry.slot /\ g.equipped = entry.equipped
      /\ g.candidates = entry.candidates /\ g.notCompared = entry.notCompared /\ g.aboveLevel = entry.aboveLevel
      /\ g.better = better /\ g.comparison = comparison /\ g.losesEnchant = loses
  BY <1>1 DEF Lines
<1>9. loses = (comparison = "better_in_bags" /\ entry.equipped[1].enchant # <<>>)
  <2>1. comparison = "better_in_bags" => enchant = entry.equipped[1].enchant
    BY <1>7 DEF enchant
  <2> QED
    BY <2>1 DEF loses
<1> QED
  <2>1. g.losesEnchant = (g.comparison = "better_in_bags" /\ g.equipped[1].enchant # <<>>)
    BY <1>8, <1>9
  <2>2. g.comparison = "better_in_bags" => entry.equipped # <<>>
    BY <1>7, <1>8
  <2>3. entry.better # <<>> => g.comparison \in {"better_in_bags", "incomplete"}
    BY <1>6, <1>8
  <2> QED
    BY <1>3, <1>8, <2>1, <2>2, <2>3 DEF g

\* The main hand holds a two-handed weapon, or not.
LEMMA TwoHandedIs ==
  ASSUME NEW T, NEW equipped \in Seq(T), OneEach(equipped)
  PROVE  LET main == Wow!EquippedIn(Worn(equipped), "mainhand")
         IN (main # <<>> /\ main[1].loc = "2hweapon") <=> TwoHanded(equipped)
<1> DEFINE main == Wow!EquippedIn(Worn(equipped), "mainhand")
           slot == "mainhand"
<1>1. Opened(Worn(equipped), equipped)
  BY WornOpened
<1>2. \/ main = <<>> /\ WornAt(slot, equipped) = {}
      \/ \E e \in T : main = <<e>> /\ WornAt(slot, equipped) = {e}
  BY <1>1, HeldIs
<1>3. TwoHanded(equipped) <=> \E e \in WornAt(slot, equipped) : e.loc = "2hweapon"
  BY DEF TwoHanded, WornAt
<1> HIDE DEF main, slot
<1>4. CASE main = <<>> /\ WornAt(slot, equipped) = {}
  BY <1>3, <1>4 DEF main
<1>5. CASE \E e \in T : main = <<e>> /\ WornAt(slot, equipped) = {e}
  <2>1. PICK e \in T : main = <<e>> /\ WornAt(slot, equipped) = {e}
    BY <1>5
  <2>2. main # <<>> /\ main[1] = e
    BY <2>1
  <2> QED
    BY <1>3, <2>1, <2>2 DEF main
<1> QED
  BY <1>2, <1>4, <1>5

\* The gear is, in some order, what was summed.
Sorted(gear, sorted, sums, T) ==
  /\ sorted \in Seq(Lines(T)) /\ Range(sorted) = Range(sums) /\ \A v : CountIn(sorted, v) = CountIn(sums, v)
  /\ gear = [k \in DOMAIN sorted |-> Wow!Summarised(sorted[k])]

\* The summaries are those of what is worn and of the bags, in some order.
LEMMA GearIs ==
  ASSUME NEW T, NEW equipped, NEW items, Bags(T, equipped, items), NEW level, LevelKnown(level)
  PROVE  \E sums, sorted :
           /\ Summed(sums, T, equipped, items, level, TwoHanded(equipped), Len(items))
           /\ Sorted(Wow!SummariseGear(equipped, items, level), sorted, sums, T)
<1> DEFINE worn == Wow!SumsOfWorn(equipped)[Len(equipped)]
           main == Wow!EquippedIn(worn, "mainhand")
           twoHand == main # <<>> /\ main[1].loc = "2hweapon"
           sums == Wow!SumsWithBags(worn, items, level, twoHand)[Len(items)]
           orderOf(slot) == CHOOSE i \in DOMAIN Wow!SlotOrder : Wow!SlotOrder[i] = slot
           before == [a, b \in Wow!Range(sums) |->
                        b.equipped = <<>> /\ (a.equipped = <<>> => orderOf(a.slot) < orderOf(b.slot))]
           sorted == Wow!SortedUpTo(sums, before)[Len(sums)]
           gear == Wow!SummariseGear(equipped, items, level)
<1>0. Leveled(T) /\ equipped \in Seq(T) /\ OneEach(equipped) /\ items \in Seq(T)
  BY DEF Bags
<1>1. gear = [k \in DOMAIN sorted |-> Wow!Summarised(sorted[k])]
  BY DEF Wow!SummariseGear, Wow!StableSort, Wow!None
<1>2. worn = Worn(equipped)
  BY <1>0, WornAre
<1>3. twoHand <=> TwoHanded(equipped)
  <2> HIDE DEF worn
  <2> QED
    BY <1>0, <1>2, TwoHandedIs
<1>4. Summed(sums, T, equipped, items, level, TwoHanded(equipped), Len(items))
  <2>1. twoHand = TwoHanded(equipped)
    BY <1>3 DEF TwoHanded
  <2> HIDE DEF worn, twoHand
  <2> QED
    BY <1>0, <1>2, <2>1, AllSummed
<1> HIDE DEF sums, before, gear
<1>5. sums \in Seq(Lines(T))
  BY <1>4 DEF Summed
<1>6. sorted \in Seq(Lines(T)) /\ Range(sorted) = Range(sums) /\ \A v : CountIn(sorted, v) = CountIn(sums, v)
  BY <1>5, SortKeeps
<1> HIDE DEF sorted
<1>7. Sorted(gear, sorted, sums, T)
  BY <1>1, <1>6 DEF Sorted
<1> QED
  BY <1>4, <1>7 DEF gear

\* The list holds each slot once, as the summaries do.
LEMMA OneLineEach ==
  ASSUME NEW T, NEW equipped, NEW sums \in Seq(Lines(T)), Opened(sums, equipped), NEW sorted \in Seq(Lines(T)),
         Range(sorted) = Range(sums), \A v : CountIn(sorted, v) = CountIn(sums, v)
  PROVE  \A j, k \in DOMAIN sorted : sorted[j].slot = sorted[k].slot => j = k
<1> SUFFICES ASSUME NEW j \in DOMAIN sorted, NEW k \in DOMAIN sorted, sorted[j].slot = sorted[k].slot, j # k PROVE FALSE
  OBVIOUS
<1>1. PICK a \in DOMAIN sums : sums[a] = sorted[j]
  BY DEF Range
<1>2. PICK b \in DOMAIN sums : sums[b] = sorted[k]
  BY DEF Range
<1>3. a = b
  BY <1>1, <1>2 DEF Opened
<1> DEFINE v == sorted[j]
           here == {i \in DOMAIN sorted : sorted[i] = v}
           there == {i \in DOMAIN sums : sums[i] = v}
<1>4. j \in here /\ k \in here
  BY <1>1, <1>2, <1>3
<1>5. there = {a}
  BY <1>1 DEF Opened
<1>6. Cardinality(there) = 1
  BY <1>5, FS_Singleton
<1>7. IsFiniteSet(here) /\ Cardinality(here) = 1
  <2>1. DOMAIN sorted = 1..Len(sorted) /\ Len(sorted) \in Nat
    OBVIOUS
  <2>2. IsFiniteSet(DOMAIN sorted)
    BY <2>1, FS_Interval
  <2>3. IsFiniteSet(here)
    BY <2>2, FS_Subset
  <2> QED
    BY <1>6, <2>3 DEF CountIn
<1> HIDE DEF here
<1>8. {j, k} \subseteq here /\ Cardinality({j, k}) = 2
  <2> DEFINE one == {j}
  <2>1. IsFiniteSet(one) /\ Cardinality(one) = 1
    BY FS_Singleton
  <2>2. k \notin one /\ one \cup {k} = {j, k}
    OBVIOUS
  <2> HIDE DEF one
  <2>3. Cardinality(one \cup {k}) = Cardinality(one) + 1
    BY <2>1, <2>2, FS_AddElement
  <2>4. Cardinality(one \cup {k}) = 2
    BY <2>1, <2>3
  <2>5. Cardinality({j, k}) = 2
    BY <2>2, <2>4
  <2> QED
    BY <1>4, <2>5
<1>9. Cardinality({j, k}) <= Cardinality(here)
  BY <1>7, <1>8, FS_Subset
<1> QED
  BY <1>7, <1>8, <1>9

\* What is better is so by a measure of the item.
LEMMA ComparedIs ==
  ASSUME NEW worn, NEW item, Wow!CompareGear(worn, item) # <<>>
  PROVE  LET c == Wow!CompareGear(worn, item)[1]
         IN c.item = item.id /\ c.value = Wow!Measured(item, c.measure)
<1> DEFINE by(m) == [item |-> item.id, measure |-> m, value |-> Wow!Measured(item, m),
                     equippedValue |-> Wow!Measured(worn, m)]
<1>1. PICK m : Wow!CompareGear(worn, item) = <<by(m)>>
  <2>1. \/ Wow!CompareGear(worn, item) = <<>>
        \/ Wow!CompareGear(worn, item) = <<by(Wow!GroupOf(item.loc)[2])>>
        \/ Wow!CompareGear(worn, item) = <<by("item_level")>>
    BY DEF Wow!CompareGear, Wow!Some, Wow!None
  <2> QED
    BY <2>1
<1>2. Wow!CompareGear(worn, item)[1] = by(m)
  BY <1>1
<1> QED
  BY <1>2

\* A line of the gear, as it is shown.
Shown(g, missing) ==
  [slot |-> g.slot, equipped |-> g.equipped,
   comparison |-> IF missing /\ g.comparison \in {"none_better", "no_candidates"} THEN "incomplete" ELSE g.comparison,
   caveat |-> g.comparison \in {"better_in_bags", "fills_empty_slot"}, losesEnchant |-> g.losesEnchant,
   measure |-> g.measure, candidates |-> g.candidates, notCompared |-> g.notCompared, aboveLevel |-> g.aboveLevel,
   better_total |-> Len(g.better),
   better |-> SubSeq(g.better, 1, IF Len(g.better) < Wow!MaxBetter THEN Len(g.better) ELSE Wow!MaxBetter)]

\* What a summary holds is what is worn in its slot.
HoldsWorn(entry, T, equipped) ==
  \/ entry.equipped = <<>> /\ WornAt(entry.slot, equipped) = {}
  \/ \E e \in T : entry.equipped = <<e>> /\ WornAt(entry.slot, equipped) = {e}

\* A line tells what its summary counted.
Tells(line, entry, shown, level, missing) ==
  /\ LineTrue(line, shown, level, missing) /\ line.slot = entry.slot
  /\ line.candidates = entry.candidates /\ line.aboveLevel = entry.aboveLevel
  /\ line.notCompared = entry.notCompared
  /\ entry.better # <<>> => line.comparison \in {"better_in_bags", "incomplete"}

LEMMA LineIs ==
  ASSUME NEW T, NEW equipped, NEW items, Bags(T, equipped, items), NEW level,
         NEW entry \in Lines(T), NEW missing \in Int, NEW shown, shown.equipped = equipped, shown.items = items,
         HoldsWorn(entry, T, equipped),
         Fair(entry, items, At(items, equipped, entry.slot, Len(items)), level, TwoHanded(equipped))
  PROVE  Tells(Shown(Wow!Summarised(entry), missing # 0), entry, shown, level, missing)
<1> DEFINE g == Wow!Summarised(entry)
           line == Shown(g, missing # 0)
           full == HandsFull(entry.slot, TwoHanded(equipped))
           at == At(items, equipped, entry.slot, Len(items))
<1>1. /\ Len(entry.better) + entry.notCompared <= entry.candidates
      /\ entry.better # <<>> => ~full /\ entry.equipped # <<>>
      /\ \A b \in Range(entry.better) :
           \E i \in at : /\ Wearable(items[i], level) /\ Beats(items[i], entry.equipped[1])
                         /\ b = Wow!CompareGear(entry.equipped[1], items[i])[1]
  BY DEF Fair
<1>2. /\ g.slot = entry.slot /\ g.equipped = entry.equipped
      /\ g.candidates = entry.candidates /\ g.notCompared = entry.notCompared /\ g.aboveLevel = entry.aboveLevel
      /\ g.better \in Seq(Comparisons(T)) /\ Len(g.better) = Len(entry.better) /\ Range(g.better) = Range(entry.better)
      /\ entry.better # <<>> => g.comparison \in {"better_in_bags", "incomplete"}
      /\ g.comparison = "better_in_bags" => entry.equipped # <<>>
      /\ g.losesEnchant = (g.comparison = "better_in_bags" /\ g.equipped[1].enchant # <<>>)
  <2>1. entry.better # <<>> => entry.equipped # <<>>
    BY <1>1
  <2> QED
    BY <1>1, <2>1, SummarisedIs
<1> HIDE DEF g, full
<1> DEFINE max == IF Len(g.better) < Wow!MaxBetter THEN Len(g.better) ELSE Wow!MaxBetter
<1>3. /\ line.slot = entry.slot /\ line.equipped = entry.equipped
      /\ line.candidates = entry.candidates /\ line.notCompared = entry.notCompared /\ line.aboveLevel = entry.aboveLevel
      /\ line.better_total = Len(g.better) /\ line.better = SubSeq(g.better, 1, max) /\ line.losesEnchant = g.losesEnchant
      /\ line.comparison = IF missing # 0 /\ g.comparison \in {"none_better", "no_candidates"} THEN "incomplete" ELSE g.comparison
  BY <1>2 DEF Shown
<1>4. Range(line.better) \subseteq Range(entry.better)
  <2>1. max \in Nat /\ max <= Len(g.better)
    BY <1>2 DEF Wow!MaxBetter
  <2> HIDE DEF max
  <2>2. \A i \in 1..max : i \in DOMAIN g.better /\ SubSeq(g.better, 1, max)[i] = g.better[i]
    BY <1>2, <2>1
  <2>3. DOMAIN SubSeq(g.better, 1, max) = 1..max
    BY <1>2, <2>1
  <2>4. Range(SubSeq(g.better, 1, max)) \subseteq Range(g.better)
    BY <2>2, <2>3 DEF Range
  <2> HIDE DEF line
  <2> QED
    BY <1>2, <1>3, <2>4
<1> HIDE DEF line, max
<1>5. Range(line.equipped) = WornAt(line.slot, shown.equipped)
  <2>1. Range(<<>>) = {} /\ \A e : Range(<<e>>) = {e}
    BY DEF Range
  <2> QED
    BY <1>3, <2>1 DEF HoldsWorn
<1>6. missing # 0 => line.comparison \notin {"none_better", "no_candidates"}
  BY <1>3
<1>7. line.better_total > 0 => ~(line.slot = "secondaryhand" /\ TwoHanded(shown.equipped))
  <2>1. entry.better \in Seq(Comparisons(T))
    BY DEF Lines, Lists
  <2>2. Len(entry.better) > 0 => entry.better # <<>>
    BY <2>1
  <2> QED
    BY <1>1, <1>2, <1>3, <2>2 DEF full, HandsFull
<1>8. ASSUME NEW b \in Range(line.better)
      PROVE  \E i \in Fitting(shown.items) :
               LET item == shown.items[i]
               IN /\ item.id = b.item /\ Wearable(item, level) /\ Beats(item, line.equipped[1])
                  /\ b.value = Wow!Measured(item, b.measure)
  <2>1. PICK i \in at : /\ Wearable(items[i], level) /\ Beats(items[i], entry.equipped[1])
                        /\ b = Wow!CompareGear(entry.equipped[1], items[i])[1]
    BY <1>1, <1>4, <1>8
  <2>2. i \in DOMAIN items /\ Wow!SlotsOf(items[i].loc) # <<>>
    BY <2>1 DEF At, HasSlot, Bags
  <2>3. i \in Fitting(shown.items)
    BY <2>2 DEF Fitting
  <2>4. Wow!CompareGear(entry.equipped[1], items[i]) # <<>>
    BY <2>1 DEF Beats
  <2>5. b.item = items[i].id /\ b.value = Wow!Measured(items[i], b.measure)
    BY <2>1, <2>4, ComparedIs
  <2> QED
    BY <1>3, <2>1, <2>3, <2>5
<1>9. line.losesEnchant = (line.comparison = "better_in_bags" /\ line.equipped[1].enchant # <<>>)
  <2>1. line.comparison = "better_in_bags" <=> g.comparison = "better_in_bags"
    BY <1>3
  <2>2. line.equipped = g.equipped
    BY <1>2, <1>3
  <2> QED
    BY <1>2, <1>3, <2>1, <2>2
<1>10. LineTrue(line, shown, level, missing)
  BY <1>5, <1>6, <1>7, <1>8, <1>9 DEF LineTrue
<1>11. entry.better # <<>> => line.comparison \in {"better_in_bags", "incomplete"}
  BY <1>2, <1>3
<1> QED
  BY <1>3, <1>10, <1>11 DEF line, g, Tells

\* What is shown of two lists of items.
ShownOf(shown, equipped, items, level, missing) ==
  LET gear == Wow!SummariseGear(equipped, items, level)
  IN /\ shown.equipped = equipped /\ shown.items = items
     /\ shown.gear = [k \in DOMAIN gear |-> Shown(gear[k], missing # 0)]

\* Two lists of items are honest about each other, whatever order the slots are in.
LEMMA SlotsAreHonest ==
  ASSUME NEW T, NEW equipped, NEW items, Bags(T, equipped, items), NEW level, LevelKnown(level), NEW missing \in Int,
         NEW shown, ShownOf(shown, equipped, items, level, missing)
  PROVE  /\ \A j, k \in DOMAIN shown.gear : shown.gear[j].slot = shown.gear[k].slot => j = k
         /\ Homed(shown, level)
         /\ \A k \in DOMAIN shown.gear : LineTrue(shown.gear[k], shown, level, missing)
<1> DEFINE gear == Wow!SummariseGear(equipped, items, level)
           twoHand == TwoHanded(equipped)
           L == Len(items)
<1>0. /\ Leveled(T) /\ equipped \in Seq(T) /\ OneEach(equipped) /\ L \in Nat /\ DOMAIN items = 1..L
      /\ \A i \in 1..L : items[i] \in T
  BY DEF Bags
<1>9. shown.equipped = equipped /\ shown.items = items /\ shown.gear = [k \in DOMAIN gear |-> Shown(gear[k], missing # 0)]
  BY DEF ShownOf
<1> HIDE DEF gear, twoHand, L
<1>1. PICK sums, sorted :
        /\ Summed(sums, T, equipped, items, level, twoHand, L)
        /\ sorted \in Seq(Lines(T)) /\ Range(sorted) = Range(sums)
        /\ \A v : CountIn(sorted, v) = CountIn(sums, v)
        /\ gear = [k \in DOMAIN sorted |-> Wow!Summarised(sorted[k])]
  <2>1. PICK sums, sorted : Summed(sums, T, equipped, items, level, twoHand, L) /\ Sorted(gear, sorted, sums, T)
    BY GearIs DEF gear, twoHand, L
  <2> QED
    BY <2>1 DEF Sorted
<1>2. DOMAIN shown.gear = DOMAIN sorted
      /\ \A k \in DOMAIN sorted : shown.gear[k] = Shown(Wow!Summarised(sorted[k]), missing # 0)
  BY <1>1, <1>9
<1>3. /\ sums \in Seq(Lines(T)) /\ Opened(sums, equipped)
      /\ \A k \in DOMAIN sums : Fair(sums[k], items, At(items, equipped, sums[k].slot, L), level, twoHand)
      /\ \A i \in 1..L : HasSlot(items[i]) => \E k \in DOMAIN sums : sums[k].slot = Home(items[i], equipped)
  BY <1>1 DEF Summed
<1>4. ASSUME NEW k \in DOMAIN sorted
      PROVE  /\ sorted[k] \in Lines(T)
             /\ Fair(sorted[k], items, At(items, equipped, sorted[k].slot, L), level, twoHand)
             /\ HoldsWorn(sorted[k], T, equipped)
  <2>1. PICK j \in DOMAIN sums : sums[j] = sorted[k]
    BY <1>1 DEF Range
  <2> DEFINE slot == sorted[k].slot
  <2>2. Wow!EntryAt(sums, slot) = j /\ j # 0
    <3>1. 0 \notin DOMAIN sums
      BY <1>3
    <3> QED
      BY <1>0, <1>3, <2>1, <3>1, EntryIs
  <2>3. Wow!EquippedIn(sums, slot) = sorted[k].equipped
    BY <2>1, <2>2 DEF Wow!EquippedIn
  <2> HIDE DEF slot
  <2>4. \/ Wow!EquippedIn(sums, slot) = <<>> /\ WornAt(slot, equipped) = {}
        \/ \E e \in T : Wow!EquippedIn(sums, slot) = <<e>> /\ WornAt(slot, equipped) = {e}
    BY <1>0, <1>3, HeldIs
  <2>5. sorted[k] \in Lines(T)
    BY <1>1
  <2> QED
    BY <1>3, <2>1, <2>3, <2>4, <2>5 DEF slot, HoldsWorn
<1>5. ASSUME NEW k \in DOMAIN sorted
      PROVE  LET line == shown.gear[k]
             IN /\ LineTrue(line, shown, level, missing) /\ line.slot = sorted[k].slot
                /\ line.candidates = sorted[k].candidates /\ line.aboveLevel = sorted[k].aboveLevel
                /\ line.notCompared = sorted[k].notCompared
                /\ sorted[k].better # <<>> => line.comparison \in {"better_in_bags", "incomplete"}
  <2> DEFINE entry == sorted[k]
  <2>1. /\ entry \in Lines(T) /\ Fair(entry, items, At(items, equipped, entry.slot, L), level, twoHand)
        /\ HoldsWorn(entry, T, equipped)
    BY <1>4
  <2>2. shown.gear[k] = Shown(Wow!Summarised(entry), missing # 0)
    BY <1>2
  <2> HIDE DEF entry
  <2>3. Tells(Shown(Wow!Summarised(entry), missing # 0), entry, shown, level, missing)
    BY <1>9, <2>1, LineIs DEF L, twoHand
  <2> QED
    BY <2>2, <2>3 DEF entry, Tells
<1>6. \A j, k \in DOMAIN shown.gear : shown.gear[j].slot = shown.gear[k].slot => j = k
  <2>1. \A j, k \in DOMAIN sorted : sorted[j].slot = sorted[k].slot => j = k
    BY <1>1, <1>3, OneLineEach
  <2> QED
    BY <1>2, <1>5, <2>1
<1>7. Homed(shown, level)
  <2> DEFINE slots(i) == Wow!SlotsOf(items[i].loc)
             later == {i \in Fitting(items) : Home(items[i], equipped) # slots(i)[1]}
             home(i) == slots(i)[IF i \in later THEN Len(slots(i)) ELSE 1]
             levelOf(e) == Wow!Or(e.item_level, 0)
  <2>1. Fitting(items) = {i \in 1..L : HasSlot(items[i])}
    BY <1>0 DEF Fitting, HasSlot
  <2>2. ASSUME NEW i \in Fitting(items)
        PROVE  /\ home(i) = Home(items[i], equipped)
               /\ \A e \in WornAt(home(i), equipped) : \A slot \in Range(slots(i)) :
                    \E f \in WornAt(slot, equipped) : levelOf(e) <= levelOf(f)
    <3>1. items[i] \in T /\ HasSlot(items[i])
      BY <1>0, <2>1
    <3>2. /\ Home(items[i], equipped) \in {slots(i)[1], slots(i)[Len(slots(i))]}
          /\ \A e \in WornAt(Home(items[i], equipped), equipped) : \A slot \in Range(slots(i)) :
               \E f \in WornAt(slot, equipped) : levelOf(e) <= levelOf(f)
      BY <1>0, <3>1, HomeIs
    <3>3. home(i) = Home(items[i], equipped)
      BY <3>2
    <3> QED
      BY <3>2, <3>3
  <2> HIDE DEF slots, later, home, levelOf
  <2>3. ASSUME NEW slot PROVE At(items, equipped, slot, L) = {i \in Fitting(items) : home(i) = slot}
    BY <2>1, <2>2 DEF At
  <2>4. ASSUME NEW k \in DOMAIN shown.gear
        PROVE  shown.gear[k].candidates + shown.gear[k].aboveLevel
                 = Cardinality({i \in Fitting(items) : home(i) = shown.gear[k].slot})
    <3>1. sorted[k].candidates + sorted[k].aboveLevel = Cardinality(At(items, equipped, sorted[k].slot, L))
      BY <1>2, <1>4 DEF Fair
    <3> QED
      BY <1>2, <1>5, <2>3, <3>1
  <2>5. ASSUME NEW i \in Fitting(items) PROVE \E k \in DOMAIN shown.gear : shown.gear[k].slot = home(i)
    <3>1. PICK j \in DOMAIN sums : sums[j].slot = home(i)
      <4>1. i \in 1..L /\ HasSlot(items[i]) /\ home(i) = Home(items[i], equipped)
        BY <2>1, <2>2
      <4>2. PICK j \in DOMAIN sums : sums[j].slot = Home(items[i], equipped)
        BY <1>3, <4>1
      <4> QED
        BY <4>1, <4>2
    <3>2. PICK k \in DOMAIN sorted : sorted[k] = sums[j]
      BY <1>1 DEF Range
    <3> QED
      BY <1>2, <1>5, <3>1, <3>2
  <2>6. ASSUME NEW i \in Fitting(items), NEW e \in WornAt(home(i), equipped),
               Wearable(items[i], level), Beats(items[i], e)
        PROVE  Told(shown, home(i))
    <3>1. PICK k \in DOMAIN shown.gear : shown.gear[k].slot = home(i)
      BY <2>5
    <3> DEFINE entry == sorted[k]
    <3>2. entry.slot = home(i) /\ entry.equipped = <<e>>
      <4>1. k \in DOMAIN sorted /\ entry.slot = home(i) /\ HoldsWorn(entry, T, equipped)
        BY <1>2, <1>4, <1>5, <3>1
      <4> HIDE DEF entry
      <4>2. PICK f \in T : entry.equipped = <<f>> /\ WornAt(entry.slot, equipped) = {f}
        BY <2>6, <4>1 DEF HoldsWorn
      <4>3. f = e
        BY <2>6, <4>1, <4>2
      <4> QED
        BY <4>1, <4>2, <4>3
    <3>3. i \in At(items, equipped, entry.slot, L)
      BY <2>3, <3>2
    <3>4. Fair(entry, items, At(items, equipped, entry.slot, L), level, twoHand)
      BY <1>2, <1>4
    <3> HIDE DEF entry
    <3>5. entry.better # <<>> \/ (HandsFull(entry.slot, twoHand) /\ entry.notCompared > 0)
      <4>1. entry.equipped # <<>> /\ entry.equipped[1] = e
        BY <3>2
      <4> QED
        BY <2>6, <3>3, <3>4, <4>1 DEF Fair
    <3>6. CASE entry.better # <<>>
      <4>1. shown.gear[k].comparison \in {"better_in_bags", "incomplete"}
        BY <1>2, <1>5, <3>6 DEF entry
      <4> QED
        BY <3>1, <4>1 DEF Told
    <3>7. CASE HandsFull(entry.slot, twoHand) /\ entry.notCompared > 0
      <4>1. shown.gear[k].slot = entry.slot /\ shown.gear[k].notCompared = entry.notCompared
        BY <1>2, <1>5 DEF entry
      <4>2. entry.slot = "secondaryhand" /\ TwoHanded(shown.equipped)
        BY <1>9, <3>7 DEF HandsFull, twoHand
      <4>3. shown.gear[k].slot = "secondaryhand" /\ TwoHanded(shown.equipped) /\ shown.gear[k].notCompared > 0
        BY <3>7, <4>1, <4>2
      <4> QED
        BY <3>1, <4>3 DEF Told
    <3> QED
      BY <3>5, <3>6, <3>7
  <2>7. later \in SUBSET Fitting(items)
    BY DEF later
  <2>8. /\ \A k \in DOMAIN shown.gear :
             shown.gear[k].candidates + shown.gear[k].aboveLevel
               = Cardinality({i \in Fitting(items) : home(i) = shown.gear[k].slot})
        /\ \A i \in Fitting(items) :
             /\ \E k \in DOMAIN shown.gear : shown.gear[k].slot = home(i)
             /\ \A e \in WornAt(home(i), equipped) :
                  /\ \A slot \in Range(slots(i)) : \E f \in WornAt(slot, equipped) : levelOf(e) <= levelOf(f)
                  /\ Wearable(items[i], level) /\ Beats(items[i], e) => Told(shown, home(i))
    BY <2>2, <2>4, <2>5, <2>6
  <2> DEFINE ok(l) ==
               LET slots1(i) == Wow!SlotsOf(shown.items[i].loc)
                   home1(i) == slots1(i)[IF i \in l THEN Len(slots1(i)) ELSE 1]
                   levelOf1(e) == Wow!Or(e.item_level, 0)
               IN /\ \A k \in DOMAIN shown.gear :
                       shown.gear[k].candidates + shown.gear[k].aboveLevel
                         = Cardinality({i \in Fitting(shown.items) : home1(i) = shown.gear[k].slot})
                  /\ \A i \in Fitting(shown.items) :
                       /\ \E k \in DOMAIN shown.gear : shown.gear[k].slot = home1(i)
                       /\ \A e \in WornAt(home1(i), shown.equipped) :
                            /\ \A slot \in Range(slots1(i)) :
                                 \E f \in WornAt(slot, shown.equipped) : levelOf1(e) <= levelOf1(f)
                            /\ Wearable(shown.items[i], level) /\ Beats(shown.items[i], e) => Told(shown, home1(i))
  <2>9. ok(later)
    BY <1>9, <2>8 DEF home, slots, levelOf
  <2>10. Homed(shown, level) <=> \E l \in SUBSET Fitting(shown.items) : ok(l)
    BY Zenon DEF Homed
  <2> HIDE DEF ok
  <2> QED
    BY <1>9, <2>7, <2>9, <2>10
<1> QED
  BY <1>2, <1>5, <1>6, <1>7

\* What is built of an item keeps what it is compared by.
LEMMA BuiltKeeps ==
  ASSUME NEW item
  PROVE  LET built == Wow!BuildItem(item)
         IN /\ built.slot = item.slot /\ built.loc = item.loc
            /\ built.item_level = item.item_level /\ built.min_level = item.min_level
BY DEF Wow!BuildItem

\* The inventory of any file is honest.
LEMMA InventoryIsHonest ==
  ASSUME NEW bags, Packed(bags)
  PROVE  LET shown == Wow!BuildInventory(bags.inventory, bags.level)
         IN /\ \A j, k \in DOMAIN shown.gear : shown.gear[j].slot = shown.gear[k].slot => j = k
            /\ Homed(shown, bags.level)
            /\ \A k \in DOMAIN shown.gear : LineTrue(shown.gear[k], shown, bags.level, bags.inventory.pending)
<1> DEFINE inventory == bags.inventory
           level == bags.level
           missing == inventory.pending
           equipped == [i \in DOMAIN inventory.equipped |-> Wow!BuildItem(inventory.equipped[i])]
           items == [i \in DOMAIN inventory.items |-> Wow!BuildItem(inventory.items[i])]
           gear == Wow!SummariseGear(equipped, items, level)
           shown == Wow!BuildInventory(inventory, level)
           T == Range(equipped) \cup Range(items)
<1>1. /\ inventory.equipped \in Seq(Range(inventory.equipped)) /\ inventory.items \in Seq(Range(inventory.items))
      /\ \A item \in Range(inventory.equipped) \cup Range(inventory.items) : item.item_level \in Int /\ item.min_level \in Int
      /\ \A i, j \in DOMAIN inventory.equipped : inventory.equipped[i].slot = inventory.equipped[j].slot => i = j
      /\ missing \in Int /\ level \in Nat \cup {Wow!Null}
  BY DEF Packed
<1>2. /\ shown.equipped = equipped /\ shown.items = items
      /\ shown.gear = [k \in DOMAIN gear |-> Shown(gear[k], missing # 0)]
  BY DEF Wow!BuildInventory, Shown
<1>3. LevelKnown(level)
  BY <1>1 DEF LevelKnown
<1> HIDE DEF inventory, level, missing, shown
<1>4. Bags(T, equipped, items)
  <2>1. equipped \in Seq(T) /\ items \in Seq(T)
    <3>1. /\ DOMAIN inventory.equipped = 1..Len(inventory.equipped) /\ Len(inventory.equipped) \in Nat
          /\ DOMAIN inventory.items = 1..Len(inventory.items) /\ Len(inventory.items) \in Nat
      BY <1>1
    <3>2. (\A i \in DOMAIN equipped : equipped[i] \in T) /\ \A i \in DOMAIN items : items[i] \in T
      BY DEF Range
    <3>3. /\ equipped = [i \in 1..Len(inventory.equipped) |-> equipped[i]]
          /\ items = [i \in 1..Len(inventory.items) |-> items[i]]
          /\ (\A i \in 1..Len(inventory.equipped) : equipped[i] \in T)
          /\ \A i \in 1..Len(inventory.items) : items[i] \in T
      BY <3>1, <3>2
    <3> HIDE DEF T
    <3>4. equipped \in Seq(T)
      <4> HIDE DEF equipped, items
      <4> DEFINE n == Len(inventory.equipped)
      <4>1. n \in Nat /\ equipped = [i \in 1..n |-> equipped[i]] /\ \A i \in 1..n : equipped[i] \in T
        BY <3>1, <3>3
      <4> HIDE DEF n
      <4> QED
        BY <4>1
    <3>5. items \in Seq(T)
      <4> HIDE DEF equipped, items
      <4> DEFINE n == Len(inventory.items)
      <4>1. n \in Nat /\ items = [i \in 1..n |-> items[i]] /\ \A i \in 1..n : items[i] \in T
        BY <3>1, <3>3
      <4> HIDE DEF n
      <4> QED
        BY <4>1
    <3> QED
      BY <3>4, <3>5
  <2>2. OneEach(equipped)
    BY <1>1, BuiltKeeps DEF OneEach
  <2>3. Leveled(T)
    <3> SUFFICES ASSUME NEW t \in T PROVE t.item_level \in Int /\ t.min_level \in Int
      BY DEF Leveled
    <3>1. PICK item \in Range(inventory.equipped) \cup Range(inventory.items) : t = Wow!BuildItem(item)
      BY DEF Range
    <3> QED
      BY <1>1, <3>1, BuiltKeeps
  <2> QED
    BY <2>1, <2>2, <2>3 DEF Bags
<1> HIDE DEF T, equipped, items
<1>5. /\ \A j, k \in DOMAIN shown.gear : shown.gear[j].slot = shown.gear[k].slot => j = k
      /\ Homed(shown, level)
      /\ \A k \in DOMAIN shown.gear : LineTrue(shown.gear[k], shown, level, missing)
  <2>1. ShownOf(shown, equipped, items, level, missing)
    BY <1>2 DEF ShownOf
  <2> HIDE DEF gear
  <2> QED
    BY <1>1, <1>3, <1>4, <2>1, SlotsAreHonest
<1> QED
  BY <1>5 DEF inventory, level, missing, shown

GearInv == subject = "gear" => /\ Packed(given)
                               /\ made # <<>> => made[1] = Wow!BuildInventory(given.inventory, given.level)

THEOREM GearIsHonest == InventorySpec => []GearHonest
<1>1. Begun("gear") => GearInv
  BY FilesAssumption DEF Begun, GearInv
<1>2. GearInv /\ [ShowInventory]_<<subject, given, made>> => GearInv'
  <2> SUFFICES ASSUME GearInv, [ShowInventory]_<<subject, given, made>> PROVE GearInv'
    OBVIOUS
  <2>1. CASE ShowInventory
    BY <2>1 DEF GearInv, ShowInventory, Make
  <2>2. CASE UNCHANGED <<subject, given, made>>
    BY <2>2 DEF GearInv
  <2> QED
    BY <2>1, <2>2
<1>3. GearInv => GearHonest
  <2> SUFFICES ASSUME GearInv, subject = "gear", made # <<>> PROVE GearHonest
    BY DEF GearHonest, Made
  <2>1. Packed(given) /\ made[1] = Wow!BuildInventory(given.inventory, given.level)
    BY DEF GearInv
  <2> QED
    BY <2>1, InventoryIsHonest DEF GearHonest
<1> QED
  BY <1>1, <1>2, <1>3, PTL DEF InventorySpec
=============================================================================
